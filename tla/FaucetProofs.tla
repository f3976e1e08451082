---------------------------- MODULE FaucetProofs ----------------------------
(***************************************************************************)
(* What Faucet promises, for any limit, window, clock and addresses, and   *)
(* then what BtcWallet does, for every set of coins, of payments and of    *)
(* balance requests, and every order of scans, blocks and failing calls.   *)
(***************************************************************************)
EXTENDS Faucet, BtcWallet, LibraryLemmas

USE FaucetAssumption

-----------------------------------------------------------------------------
(***************************************************************************)
(* The queue of a currency holds one job at most.                          *)
(***************************************************************************)

LEMMA OneJob ==
  ASSUME TypeOK, NEW cur \in Currencies, NEW i \in DOMAIN running[cur]
  PROVE  /\ i = 1
         /\ Len(running[cur]) = 1
         /\ running[cur][i] \in Job
<1>1. /\ running \in [Currencies -> Seq(Job)]
      /\ \A c \in Currencies : Len(running[c]) <= 1
  BY DEF TypeOK
<1>2. running[cur] \in Seq(Job) /\ Len(running[cur]) <= 1 BY <1>1
<1>3. Len(running[cur]) \in Nat /\ i \in 1..Len(running[cur]) BY <1>2
<1>4. i = 1 /\ Len(running[cur]) = 1
  <2> DEFINE n == Len(running[cur])
  <2>1. n \in Nat /\ i \in 1..n /\ n <= 1 BY <1>2, <1>3
  <2> HIDE DEF n
  <2>2. i = 1 /\ n = 1 BY ONLY <2>1
  <2>3. QED BY <2>2 DEF n
<1>5. running[cur][i] \in Job BY <1>2, <1>3
<1>6. QED BY <1>4, <1>5

LEMMA CloseShape ==
  ASSUME TypeOK, NEW cur \in Currencies, NEW i \in DOMAIN running[cur], Close(cur, i)
  PROVE  running' = [running EXCEPT ![cur] = <<>>]
<1>1. Len(running[cur]) = 1 BY OneJob
<1>2. running[cur] \in Seq(Job) /\ i = 1 BY OneJob DEF TypeOK
<1>3. SubSeq(running[cur], 1, i - 1) = <<>> BY <1>1, <1>2
<1>4. SubSeq(running[cur], i + 1, Len(running[cur])) = <<>> BY <1>1, <1>2
<1>5. RemoveAt(running[cur], i) = <<>> BY <1>3, <1>4 DEF RemoveAt
<1>6. QED BY <1>5 DEF Close

LEMMA ThenType ==
  ASSUME NEW cur \in Currencies, NEW pc \in {"query", "check", "pay", "record"}
  PROVE  Then(cur)[pc] \in {"check", "pay", "record", "answer"}
  BY DEF Then, Currencies

LEMMA ContinueShape ==
  ASSUME TypeOK, NEW cur \in Currencies, NEW i \in DOMAIN running[cur], NEW j \in Job,
         Continue(cur, i, j)
  PROVE  running' = [running EXCEPT ![cur] =
                       IF Then(cur)[j.pc] = "answer" THEN <<>>
                       ELSE <<[j EXCEPT !.pc = Then(cur)[j.pc]]>>]
<1>1. CASE Then(cur)[j.pc] = "answer"
  BY <1>1, CloseShape DEF Continue
<1>2. CASE Then(cur)[j.pc] # "answer"
  <2> DEFINE r == [j EXCEPT !.pc = Then(cur)[j.pc]]
  <2>1. i = 1 /\ Len(running[cur]) = 1 BY OneJob
  <2>2. running[cur] \in Seq(Job) BY DEF TypeOK
  <2>3. [running[cur] EXCEPT ![i] = r] = <<r>> BY <2>1, <2>2
  <2>4. running' = [running EXCEPT ![cur][i] = r] BY <1>2 DEF Continue
  <2>5. QED BY <1>2, <2>3, <2>4
<1>3. QED BY <1>1, <1>2

LEMMA JobsAfter ==
  ASSUME TypeOK, NEW cur \in Currencies, NEW s, s = <<>> \/ \E r \in Job : s = <<r>>,
         running' = [running EXCEPT ![cur] = s]
  PROVE  /\ running' \in [Currencies -> Seq(Job)]
         /\ \A c \in Currencies : Len(running'[c]) <= 1
         /\ running'[cur] = s
         /\ \A c \in Currencies \ {cur} : running'[c] = running[c]
<1>1. /\ running \in [Currencies -> Seq(Job)]
      /\ \A c \in Currencies : Len(running[c]) <= 1
  BY DEF TypeOK
<1>2. s \in Seq(Job) /\ Len(s) <= 1
  <2>1. CASE s = <<>> BY <2>1
  <2>2. ASSUME NEW r \in Job, s = <<r>> PROVE s \in Seq(Job) /\ Len(s) <= 1 BY <2>2
  <2>3. QED BY <2>1, <2>2
<1>3. QED BY <1>1, <1>2

LEMMA StartShape ==
  ASSUME TypeOK, NEW cur \in Currencies, NEW a \in Addresses, Start(cur, a)
  PROVE  LET r == [addr |-> a, pc |-> "query", seen |-> <<>>, at |-> 0]
         IN  /\ r \in Job
             /\ running' = [running EXCEPT ![cur] = <<r>>]
<1> DEFINE r == [addr |-> a, pc |-> "query", seen |-> <<>>, at |-> 0]
<1>1. 0 \in 0..MaxTime OBVIOUS
<1>2. r \in Job BY <1>1 DEF Job
<1>3. running[cur] \in Seq(Job) BY DEF TypeOK
<1>4. running[cur] = <<>> BY <1>3 DEF Start, Concurrency
<1>5. Append(running[cur], r) = <<r>> BY <1>4
<1>6. running' = [running EXCEPT ![cur] = Append(running[cur], r)] BY DEF Start
<1>7. QED BY <1>2, <1>5, <1>6


LEMMA JobsType ==
  ASSUME TypeOK, NEW cur \in Currencies, NEW s, s = <<>> \/ \E r \in Job : s = <<r>>,
         running' = [running EXCEPT ![cur] = s],
         now' \in 0..MaxTime,
         recorded' \in [Currencies -> [Addresses -> Seq(0..MaxTime)]],
         paid' \in [Currencies -> [Addresses -> Seq(0..MaxTime)]]
  PROVE  TypeOK'
  BY JobsAfter DEF TypeOK

LEMMA ContinueType ==
  ASSUME TypeOK, NEW cur \in Currencies, NEW i \in DOMAIN running[cur], NEW j \in Job,
         Continue(cur, i, j)
  PROVE  \E s : /\ s = <<>> \/ \E r \in Job : s = <<r>>
               /\ running' = [running EXCEPT ![cur] = s]
<1> DEFINE r == [j EXCEPT !.pc = Then(cur)[j.pc]]
<1>1. CASE Then(cur)[j.pc] = "answer"
  BY <1>1, ContinueShape
<1>2. CASE Then(cur)[j.pc] # "answer"
  <2>1. j.pc \in {"query", "check", "pay", "record"} BY DEF Job
  <2>2. Then(cur)[j.pc] \in {"check", "pay", "record"} BY <1>2, <2>1, ThenType
  <2>3. r \in Job BY <2>2 DEF Job
  <2>4. running' = [running EXCEPT ![cur] = <<r>>] BY <1>2, ContinueShape
  <2>5. QED BY <2>3, <2>4
<1>3. QED BY <1>1, <1>2

LEMMA TypeStep == TypeOK /\ [Next]_vars => TypeOK'
<1> SUFFICES ASSUME TypeOK, [Next]_vars PROVE TypeOK'
  OBVIOUS
<1>a. /\ now \in 0..MaxTime
      /\ recorded \in [Currencies -> [Addresses -> Seq(0..MaxTime)]]
      /\ paid \in [Currencies -> [Addresses -> Seq(0..MaxTime)]]
      /\ running \in [Currencies -> Seq(Job)]
  BY DEF TypeOK
<1>1. ASSUME NEW cur \in Currencies, NEW a \in Addresses, Start(cur, a) PROVE TypeOK'
  <2>1. UNCHANGED <<now, recorded, paid>> BY <1>1 DEF Start
  <2>2. QED BY <1>1, <1>a, <2>1, StartShape, JobsType
<1>2. ASSUME NEW cur \in Currencies, NEW i \in DOMAIN running[cur], Work(cur, i) PROVE TypeOK'
  <2> DEFINE j == running[cur][i]
  <2>j. j \in Job BY OneJob
  <2>f. j.addr \in Addresses /\ j.at \in 0..MaxTime /\ j.seen \in Seq(0..MaxTime)
    BY <2>j DEF Job
  <2> HIDE DEF j
  <2>1. CASE Query(cur, i)
    <3> DEFINE k == [j EXCEPT !.seen = recorded[cur][j.addr]]
    <3>1. recorded[cur][j.addr] \in Seq(0..MaxTime) BY <1>a, <2>f
    <3>2. k \in Job BY <2>j, <3>1 DEF Job
    <3> HIDE DEF k
    <3>3. Continue(cur, i, k) /\ UNCHANGED <<now, recorded, paid>> BY <2>1 DEF Query, j, k
    <3>4. QED BY <3>2, <3>3, <1>a, ContinueType, JobsType
  <2>2. CASE Check(cur, i)
    <3> DEFINE k == [j EXCEPT !.at = now, !.seen = <<>>]
    <3>0. now \in 0..MaxTime /\ <<>> \in Seq(0..MaxTime) BY <1>a
    <3>1. k \in Job
      <4> DEFINE l == [j EXCEPT !.at = now]
      <4>1. l \in Job BY <3>0, <2>j DEF Job
      <4>2. k = [l EXCEPT !.seen = <<>>] BY Zenon
      <4> HIDE DEF l, k
      <4>3. k \in Job BY <4>1, <4>2, <3>0 DEF Job
      <4>4. QED BY <4>3
    <3> HIDE DEF k
    <3>2. UNCHANGED <<now, recorded, paid>> BY <2>2 DEF Check
    <3>3. CASE Close(cur, i) BY <3>2, <3>3, <1>a, CloseShape, JobsType
    <3>4. CASE Continue(cur, i, k) BY <3>1, <3>2, <3>4, <1>a, ContinueType, JobsType
    <3>5. QED BY <2>2, <3>3, <3>4 DEF Check, j, k
  <2>3. CASE Pay(cur, i)
    <3>1. /\ paid' = [paid EXCEPT ![cur][j.addr] = Append(@, j.at)]
          /\ Continue(cur, i, j)
          /\ UNCHANGED <<now, recorded>>
      BY <2>3 DEF Pay, j
    <3>2. Append(paid[cur][j.addr], j.at) \in Seq(0..MaxTime) BY <1>a, <2>f
    <3>3. paid' \in [Currencies -> [Addresses -> Seq(0..MaxTime)]] BY <1>a, <2>f, <3>1, <3>2
    <3>4. QED BY <3>1, <3>3, <1>a, <2>j, ContinueType, JobsType
  <2>4. CASE Record(cur, i)
    <3>1. /\ recorded' = [recorded EXCEPT ![cur][j.addr] = Append(@, j.at)]
          /\ Continue(cur, i, j)
          /\ UNCHANGED <<now, paid>>
      BY <2>4 DEF Record, j
    <3>2. Append(recorded[cur][j.addr], j.at) \in Seq(0..MaxTime) BY <1>a, <2>f
    <3>3. recorded' \in [Currencies -> [Addresses -> Seq(0..MaxTime)]]
      BY <1>a, <2>f, <3>1, <3>2
    <3>4. QED BY <3>1, <3>3, <1>a, <2>j, ContinueType, JobsType
  <2>5. CASE Fails(cur, i)
    <3>1. Close(cur, i) /\ UNCHANGED <<now, recorded, paid>> BY <2>5 DEF Fails
    <3>2. QED BY <3>1, <1>a, CloseShape, JobsType
  <2>6. QED BY <1>2, <2>1, <2>2, <2>3, <2>4, <2>5 DEF Work
<1>3. CASE Crash
  <2>1. running' \in [Currencies -> Seq(Job)] /\ \A c \in Currencies : Len(running'[c]) <= 1
    BY <1>3 DEF Crash
  <2>2. QED BY <1>3, <1>a, <2>1 DEF Crash, TypeOK
<1>4. CASE Tick
  <2>1. now' \in 0..MaxTime BY <1>4, <1>a DEF Tick
  <2>2. QED BY <1>4, <2>1 DEF Tick, TypeOK
<1>5. CASE UNCHANGED vars BY <1>5 DEF vars, TypeOK
<1>6. QED BY <1>1, <1>2, <1>3, <1>4, <1>5 DEF Next

LEMMA InitType == Init => TypeOK
<1> SUFFICES ASSUME Init PROVE TypeOK
  OBVIOUS
<1>1. 0 \in 0..MaxTime OBVIOUS
<1>2. <<>> \in Seq(0..MaxTime) /\ <<>> \in Seq(Job) /\ Len(<<>>) = 0 OBVIOUS
<1>3. QED BY <1>1, <1>2 DEF Init, TypeOK

(* One job of each currency runs at a time, and every state is well-formed. *)
THEOREM TypeCorrect == Spec => []TypeOK
  BY InitType, TypeStep, PTL DEF Spec

-----------------------------------------------------------------------------
(***************************************************************************)
(* Rows in the order of their times, and one row more.                     *)
(***************************************************************************)

LEMMA AppendAt ==
  ASSUME NEW s \in Seq(0..MaxTime), NEW t \in 0..MaxTime
  PROVE  /\ Append(s, t) \in Seq(0..MaxTime)
         /\ Len(s) \in Nat
         /\ DOMAIN s = 1..Len(s)
         /\ Len(Append(s, t)) = Len(s) + 1
         /\ DOMAIN Append(s, t) = 1..(Len(s) + 1)
         /\ \A k \in 1..Len(s) : Append(s, t)[k] = s[k] /\ s[k] \in 0..MaxTime
         /\ Append(s, t)[Len(s) + 1] = t
  OBVIOUS

LEMMA PlacesFinite ==
  ASSUME NEW s \in Seq(0..MaxTime), NEW t
  PROVE  IsFiniteSet(Places(s, t)) /\ Cardinality(Places(s, t)) \in Nat
<1>1. Len(s) \in Nat /\ DOMAIN s = 1..Len(s) OBVIOUS
<1>2. IsFiniteSet(1..Len(s)) BY <1>1, FS_Interval
<1>3. Places(s, t) \subseteq 1..Len(s) BY <1>1 DEF Places
<1>4. QED BY <1>2, <1>3, FS_Subset, FS_CardinalityType

(* Of the places of u, the last row is one more, or none. *)
LEMMA PlacesAppend ==
  ASSUME NEW s \in Seq(0..MaxTime), NEW t \in 0..MaxTime, NEW u
  PROVE  Cardinality(Places(Append(s, t), u))
           = Cardinality(Places(s, u)) + (IF t = u THEN 1 ELSE 0)
<1>1. Len(s) \in Nat /\ DOMAIN s = 1..Len(s) OBVIOUS
<1>2. IsFiniteSet(Places(s, u)) /\ Cardinality(Places(s, u)) \in Nat BY PlacesFinite
<1>3. Len(s) + 1 \notin Places(s, u) BY <1>1 DEF Places
<1>4. CASE t = u
  <2>1. Places(Append(s, t), u) = Places(s, u) \cup {Len(s) + 1}
    BY <1>1, <1>4, AppendAt DEF Places
  <2>2. QED BY <1>2, <1>3, <1>4, <2>1, FS_AddElement
<1>5. CASE t # u
  <2>1. Places(Append(s, t), u) = Places(s, u) BY <1>1, <1>5, AppendAt DEF Places
  <2>2. QED BY <1>2, <1>5, <2>1
<1>6. QED BY <1>4, <1>5

LEMMA AppendOrdered ==
  ASSUME now \in 0..MaxTime, NEW s \in Seq(0..MaxTime), NEW t \in 0..MaxTime,
         Ordered(s), t <= now, \A k \in DOMAIN s : s[k] <= t
  PROVE  Ordered(Append(s, t))
<1>1. ASSUME NEW k \in 1..(Len(s) + 1), NEW l \in 1..(Len(s) + 1), k <= l
      PROVE  Append(s, t)[k] <= Append(s, t)[l]
  <2>1. CASE l = Len(s) + 1 BY <1>1, <2>1, AppendAt
  <2>2. CASE l # Len(s) + 1
    <3>1. k \in 1..Len(s) /\ l \in 1..Len(s) BY <1>1, <2>2, AppendAt
    <3>2. QED BY <1>1, <3>1, AppendAt DEF Ordered
  <2>3. QED BY <2>1, <2>2
<1>2. ASSUME NEW k \in 1..(Len(s) + 1) PROVE Append(s, t)[k] <= now
  <2>1. CASE k = Len(s) + 1 BY <2>1, AppendAt
  <2>2. CASE k # Len(s) + 1
    <3>1. k \in 1..Len(s) BY <2>2, AppendAt
    <3>2. QED BY <3>1, AppendAt DEF Ordered
  <2>3. QED BY <2>1, <2>2
<1>3. QED BY <1>1, <1>2, AppendAt DEF Ordered

LEMMA AppendWithinLimit ==
  ASSUME NEW s \in Seq(0..MaxTime), NEW t \in 0..MaxTime, WithinLimit(s), Room(s, t)
  PROVE  WithinLimit(Append(s, t))
<1> DEFINE u == Append(s, t)
<1>1. ASSUME NEW k \in 1..(Len(s) + 1 - Limit) PROVE u[k + Limit] - u[k] > Window
  <2>1. CASE k = Len(s) + 1 - Limit
    <3>1. k + Limit = Len(s) + 1 /\ k \in 1..Len(s) /\ Len(s) >= Limit BY <2>1, AppendAt
    <3>2. k = Len(s) - Limit + 1 BY <2>1, AppendAt
    <3>3. t - s[k] > Window BY <3>1, <3>2 DEF Room
    <3>4. QED BY <3>1, <3>3, AppendAt
  <2>2. CASE k # Len(s) + 1 - Limit
    <3>1. k \in 1..(Len(s) - Limit) /\ k \in 1..Len(s) /\ k + Limit \in 1..Len(s)
      BY <2>2, AppendAt
    <3>2. QED BY <3>1, AppendAt DEF WithinLimit
  <2>3. QED BY <2>1, <2>2
<1>2. Len(u) = Len(s) + 1 BY AppendAt
<1> HIDE DEF u
<1>3. WithinLimit(u) BY <1>1, <1>2 DEF WithinLimit
<1>4. QED BY <1>3 DEF u

(* Not too many rows in the window leave room: the last Limit rows are not all
   in it, so the first of them is not. *)
LEMMA RoomFound ==
  ASSUME now \in 0..MaxTime, NEW s \in Seq(0..MaxTime), Ordered(s), ~TooMany(s, now)
  PROVE  Room(s, now)
<1> SUFFICES ASSUME Len(s) >= Limit, now - s[Len(s) - Limit + 1] <= Window
             PROVE  FALSE
  <2>1. Len(s) \in Nat /\ DOMAIN s = 1..Len(s) OBVIOUS
  <2>2. CASE Len(s) >= Limit
    <3>1. Len(s) - Limit + 1 \in 1..Len(s) BY <2>1, <2>2
    <3>2. s[Len(s) - Limit + 1] \in 0..MaxTime BY <3>1, <2>1
    <3>3. QED BY <2>2, <3>2 DEF Room
  <2>3. CASE ~(Len(s) >= Limit) BY <2>3 DEF Room
  <2>4. QED BY <2>2, <2>3
<1> DEFINE f == Len(s) - Limit + 1
<1>1. Len(s) \in Nat /\ DOMAIN s = 1..Len(s) OBVIOUS
<1>2. f \in 1..Len(s) BY <1>1
<1>3. f..Len(s) \subseteq InWindow(s, now)
  <2> SUFFICES ASSUME NEW k \in f..Len(s) PROVE k \in DOMAIN s /\ now - s[k] <= Window
    BY DEF InWindow
  <2>1. k \in DOMAIN s /\ f \in DOMAIN s /\ f <= k BY <1>1, <1>2
  <2>2. s[f] <= s[k] BY <2>1 DEF Ordered
  <2>3. s[f] \in 0..MaxTime /\ s[k] \in 0..MaxTime BY <2>1
  <2>4. now - s[f] <= Window OBVIOUS
  <2>5. QED BY <2>1, <2>2, <2>3, <2>4
<1>4. IsFiniteSet(InWindow(s, now))
  <2>1. InWindow(s, now) \subseteq 1..Len(s) BY <1>1 DEF InWindow
  <2>2. IsFiniteSet(1..Len(s)) BY <1>1, FS_Interval
  <2>3. QED BY <2>1, <2>2, FS_Subset
<1>5. Cardinality(f..Len(s)) = Limit BY <1>1, <1>2, FS_Interval
<1>6. Cardinality(f..Len(s)) <= Cardinality(InWindow(s, now)) BY <1>3, <1>4, FS_Subset
<1>7. Cardinality(InWindow(s, now)) \in Nat BY <1>4, FS_CardinalityType
<1>8. QED BY <1>5, <1>6, <1>7 DEF TooMany

-----------------------------------------------------------------------------
(***************************************************************************)
(* The rows, the jobs and the ledger, when a step leaves them alone.       *)
(***************************************************************************)

LEMMA RowsType ==
  ASSUME TypeOK, NEW cur \in Currencies, NEW a \in Addresses
  PROVE  recorded[cur][a] \in Seq(0..MaxTime) /\ paid[cur][a] \in Seq(0..MaxTime)
  BY DEF TypeOK

LEMMA RowsKept ==
  ASSUME TypeOK, RowsInv, recorded' = recorded, now' \in Nat, now <= now'
  PROVE  RowsInv'
<1> SUFFICES ASSUME NEW cur \in Currencies, NEW a \in Addresses
             PROVE  Ordered(recorded[cur][a])' /\ WithinLimit(recorded[cur][a])'
  BY DEF RowsInv
<1> DEFINE s == recorded[cur][a]
<1>1. s \in Seq(0..MaxTime) /\ now \in 0..MaxTime BY RowsType DEF TypeOK
<1>2. Ordered(s) /\ WithinLimit(s) BY DEF RowsInv
<1>3. recorded'[cur][a] = s OBVIOUS
<1>4. \A k \in DOMAIN s : s[k] \in 0..MaxTime BY <1>1
<1> HIDE DEF s
<1>5. QED BY <1>1, <1>2, <1>3, <1>4 DEF Ordered, WithinLimit

LEMMA JobsKept ==
  ASSUME TypeOK, JobInv, NEW cur \in Currencies, NEW s,
         s = <<>> \/ \E r \in Job : s = <<r>> /\ GoodJob(cur, r)',
         running' = [running EXCEPT ![cur] = s],
         now' = now, \A c \in Currencies \ {cur} : recorded'[c] = recorded[c]
  PROVE  JobInv'
<1> SUFFICES ASSUME NEW c \in Currencies, NEW i \in DOMAIN running'[c]
             PROVE  GoodJob(c, running[c][i])'
  BY DEF JobInv
<1>1. /\ running'[cur] = s
      /\ \A d \in Currencies \ {cur} : running'[d] = running[d]
  BY JobsAfter
<1>2. CASE c = cur
  <2>1. PICK r \in Job : s = <<r>> /\ GoodJob(cur, r)'
    <3>1. s # <<>> BY <1>1, <1>2
    <3>2. QED BY <3>1
  <2>2. running'[c][i] = r BY <1>1, <1>2, <2>1
  <2>3. QED BY <1>2, <2>1, <2>2 DEF GoodJob, Unrecorded
<1>3. CASE c # cur
  <2>1. running'[c] = running[c] /\ recorded'[c] = recorded[c] BY <1>1, <1>3
  <2>2. GoodJob(c, running[c][i]) BY <2>1 DEF JobInv
  <2>3. QED BY <2>1, <2>2 DEF GoodJob, Unrecorded
<1>4. QED BY <1>2, <1>3

LEMMA UnpaidType ==
  ASSUME NEW a, NEW t
  PROVE  Unpaid(a, t) \in {0, 1}
  BY DEF Unpaid

LEMMA LedgerKept ==
  ASSUME TypeOK, Ledger, paid'["stx"] = paid["stx"], recorded'["stx"] = recorded["stx"],
         \A a \in Addresses, t \in 0..MaxTime : Unpaid(a, t)' = 0 \/ Unpaid(a, t)' = Unpaid(a, t)
  PROVE  Ledger'
<1> SUFFICES ASSUME NEW a \in Addresses, NEW t \in 0..MaxTime
             PROVE  Cardinality(Places(paid'["stx"][a], t)) + Unpaid(a, t)'
                      <= Cardinality(Places(recorded'["stx"][a], t))
  BY DEF Ledger
<1>1. "stx" \in Currencies BY DEF Currencies
<1>2. paid["stx"][a] \in Seq(0..MaxTime) /\ recorded["stx"][a] \in Seq(0..MaxTime)
  BY <1>1, RowsType
<1>3. /\ Cardinality(Places(paid["stx"][a], t)) \in Nat
      /\ Cardinality(Places(recorded["stx"][a], t)) \in Nat
  BY <1>2, PlacesFinite
<1>4. Cardinality(Places(paid["stx"][a], t)) + Unpaid(a, t)
        <= Cardinality(Places(recorded["stx"][a], t))
  BY DEF Ledger
<1>5. QED BY <1>3, <1>4, UnpaidType

(* No job of the STX queue is about to pay. *)
LEMMA NothingUnpaid ==
  ASSUME NEW a, NEW t, running'["stx"] = <<>> \/ \E r : running'["stx"] = <<r>> /\ r.pc # "pay"
  PROVE  Unpaid(a, t)' = 0
<1>1. ASSUME NEW i \in DOMAIN running'["stx"] PROVE running'["stx"][i].pc # "pay"
  OBVIOUS
<1>2. QED BY <1>1 DEF Unpaid

(* A step of a job that pays and records nothing. *)
LEMMA QuietStep ==
  ASSUME IInv, NEW cur \in Currencies, NEW s,
         \/ s = <<>>
         \/ \E r \in Job : s = <<r>> /\ GoodJob(cur, r)' /\ (cur = "stx" => r.pc # "pay"),
         running' = [running EXCEPT ![cur] = s],
         UNCHANGED <<now, recorded, paid>>
  PROVE  RowsInv' /\ JobInv' /\ Ledger'
<1>1. TypeOK /\ RowsInv /\ JobInv /\ Ledger BY DEF IInv
<1>2. now \in 0..MaxTime BY <1>1 DEF TypeOK
<1>3. RowsInv' BY <1>1, <1>2, RowsKept
<1>4. JobInv' BY <1>1, JobsKept
<1>5. Ledger'
  <2>1. ASSUME NEW a \in Addresses, NEW t \in 0..MaxTime
        PROVE  Unpaid(a, t)' = 0 \/ Unpaid(a, t)' = Unpaid(a, t)
    <3>1. CASE cur = "stx"
      <4>1. running'["stx"] = s BY <1>1, <3>1 DEF TypeOK
      <4>2. QED BY <3>1, <4>1, NothingUnpaid
    <3>2. CASE cur # "stx"
      <4>1. running'["stx"] = running["stx"] BY <1>1, <3>2 DEF TypeOK
      <4>2. QED BY <4>1 DEF Unpaid
    <3>3. QED BY <3>1, <3>2
  <2>2. QED BY <1>1, <2>1, LedgerKept
<1>6. QED BY <1>3, <1>4, <1>5

-----------------------------------------------------------------------------
(***************************************************************************)
(* Each step of a job.                                                     *)
(***************************************************************************)

LEMMA AfterEach ==
  /\ \A cur \in Currencies : Then(cur)["query"] = "check"
  /\ Then("btc")["check"] = "pay" /\ Then("btc")["pay"] = "record"
  /\ Then("btc")["record"] = "answer"
  /\ Then("stx")["check"] = "record" /\ Then("stx")["record"] = "pay"
  /\ Then("stx")["pay"] = "answer"
  BY DEF Then, Currencies

LEMMA StartStep ==
  ASSUME IInv, NEW cur \in Currencies, NEW a \in Addresses, Start(cur, a)
  PROVE  RowsInv' /\ JobInv' /\ Ledger'
<1> DEFINE r == [addr |-> a, pc |-> "query", seen |-> <<>>, at |-> 0]
<1>1. r \in Job /\ running' = [running EXCEPT ![cur] = <<r>>] BY StartShape DEF IInv
<1>2. r.pc = "query" OBVIOUS
<1>3. UNCHANGED <<now, recorded, paid>> BY DEF Start
<1> HIDE DEF r
<1>4. GoodJob(cur, r)' BY <1>2 DEF GoodJob, Unrecorded
<1>5. QED BY <1>1, <1>2, <1>3, <1>4, QuietStep

LEMMA CloseStep ==
  ASSUME IInv, NEW cur \in Currencies, NEW i \in DOMAIN running[cur], Close(cur, i),
         UNCHANGED <<now, recorded, paid>>
  PROVE  RowsInv' /\ JobInv' /\ Ledger'
  BY CloseShape, QuietStep DEF IInv

LEMMA QueryStep ==
  ASSUME IInv, NEW cur \in Currencies, NEW i \in DOMAIN running[cur], Query(cur, i)
  PROVE  RowsInv' /\ JobInv' /\ Ledger'
<1> DEFINE j == running[cur][i]
<1> DEFINE k == [j EXCEPT !.seen = recorded[cur][j.addr]]
<1> DEFINE r == [k EXCEPT !.pc = "check"]
<1>1. TypeOK /\ j \in Job BY OneJob DEF IInv
<1>2. j.pc = "query" BY DEF Query, At
<1>3. Continue(cur, i, k) /\ UNCHANGED <<now, recorded, paid>> BY DEF Query
<1> HIDE DEF j
<1>4. j.addr \in Addresses BY <1>1 DEF Job
<1>5. recorded[cur][j.addr] \in Seq(0..MaxTime) BY <1>1, <1>4, RowsType
<1>6. k \in Job /\ k.pc = "query" /\ k.addr = j.addr /\ k.seen = recorded[cur][j.addr]
  BY <1>1, <1>2, <1>5 DEF Job
<1> HIDE DEF k
<1>7. Then(cur)[k.pc] = "check" BY <1>6, AfterEach
<1>8. running' = [running EXCEPT ![cur] = <<r>>]
  BY <1>1, <1>3, <1>6, <1>7, ContinueShape
<1>9. /\ r \in Job /\ r.pc = "check" /\ r.addr = j.addr
      /\ r.seen = recorded[cur][j.addr]
  BY <1>6 DEF Job
<1> HIDE DEF r
<1>10. PICK q \in Job : q = r BY <1>9
<1>11. recorded'[cur][q.addr] = q.seen /\ q.pc = "check" BY <1>3, <1>9, <1>10
<1>12. GoodJob(cur, q)' BY <1>11 DEF GoodJob, Unrecorded
<1>13. running' = [running EXCEPT ![cur] = <<q>>] BY <1>8, <1>10
<1>14. QED BY <1>3, <1>11, <1>12, <1>13, QuietStep

LEMMA CheckStep ==
  ASSUME IInv, NEW cur \in Currencies, NEW i \in DOMAIN running[cur], Check(cur, i)
  PROVE  RowsInv' /\ JobInv' /\ Ledger'
<1> DEFINE j == running[cur][i]
<1> DEFINE l == [j EXCEPT !.at = now]
<1> DEFINE k == [j EXCEPT !.at = now, !.seen = <<>>]
<1>1. TypeOK /\ j \in Job /\ GoodJob(cur, j) /\ RowsInv BY OneJob DEF IInv, JobInv
<1>2. j.pc = "check" BY DEF Check, At
<1>3. IF TooMany(j.seen, now) THEN Close(cur, i) ELSE Continue(cur, i, k)
  BY DEF Check
<1>4. UNCHANGED <<now, recorded, paid>> BY DEF Check
<1> HIDE DEF j
<1>5. now \in 0..MaxTime /\ <<>> \in Seq(0..MaxTime) BY <1>1 DEF TypeOK
<1>6. CASE TooMany(j.seen, now) BY <1>3, <1>4, <1>6, CloseStep
<1>7. CASE ~TooMany(j.seen, now)
  <2>1. l \in Job /\ l.pc = "check" /\ l.addr = j.addr /\ l.at = now
    BY <1>1, <1>2, <1>5 DEF Job
  <2>2. k = [l EXCEPT !.seen = <<>>] BY Zenon
  <2> HIDE DEF k, l
  <2>3. k \in Job /\ k.pc = "check" /\ k.addr = j.addr /\ k.at = now
    BY <1>5, <2>1, <2>2 DEF Job
  <2>4. Continue(cur, i, k) BY <1>3, <1>7
  <2> DEFINE next == IF cur = "btc" THEN "pay" ELSE "record"
  <2>5. Then(cur)[k.pc] = next BY <2>3, AfterEach DEF Currencies
  <2> DEFINE r == [k EXCEPT !.pc = next]
  <2>6. next # "answer" OBVIOUS
  <2>7. running' = [running EXCEPT ![cur] = <<r>>]
    BY <1>1, <2>3, <2>4, <2>5, <2>6, ContinueShape
  <2>8. /\ r \in Job /\ r.pc = next /\ r.addr = j.addr /\ r.at = now
        /\ cur = "stx" => r.pc # "pay"
    BY <2>3 DEF Job
  <2> HIDE DEF r, next
  <2> DEFINE rows == recorded[cur][j.addr]
  <2>9. rows \in Seq(0..MaxTime) /\ Ordered(rows) /\ j.seen = rows
    <3>1. j.addr \in Addresses BY <1>1 DEF Job
    <3>2. QED BY <1>1, <1>2, <3>1, RowsType DEF RowsInv, GoodJob
  <2>10. Room(rows, now) BY <1>5, <1>7, <2>9, RoomFound
  <2>11. \A n \in DOMAIN rows : rows[n] <= now BY <2>9 DEF Ordered
  <2>12. r.pc # "check" BY <2>8 DEF next
  <2>13. PICK q \in Job : q = r BY <2>8
  <2>14. /\ recorded'[cur][q.addr] = rows /\ now' = now /\ q.at = now
         /\ q.pc # "check" /\ (cur = "stx" => q.pc # "pay")
    BY <1>4, <2>8, <2>12, <2>13
  <2> HIDE DEF rows
  <2>15. GoodJob(cur, q)' BY <1>5, <2>10, <2>11, <2>14 DEF GoodJob
  <2>16. running' = [running EXCEPT ![cur] = <<q>>] BY <2>7, <2>13
  <2>17. QED BY <1>4, <2>14, <2>15, <2>16, QuietStep
<1>8. QED BY <1>6, <1>7

LEMMA PayStep ==
  ASSUME IInv, NEW cur \in Currencies, NEW i \in DOMAIN running[cur], Pay(cur, i)
  PROVE  RowsInv' /\ JobInv' /\ Ledger'
<1>1. TypeOK /\ RowsInv /\ JobInv /\ Ledger BY DEF IInv
<1>2. PICK j \in Job : j = running[cur][i] BY <1>1, OneJob
<1>3. /\ j.pc = "pay"
      /\ paid' = [paid EXCEPT ![cur][j.addr] = Append(@, j.at)]
      /\ Continue(cur, i, j)
      /\ recorded' = recorded /\ now' = now
  BY <1>2 DEF Pay, At
<1>4. GoodJob(cur, j) BY <1>1, <1>2 DEF JobInv
<1>5. now \in 0..MaxTime /\ paid \in [Currencies -> [Addresses -> Seq(0..MaxTime)]]
  BY <1>1 DEF TypeOK
<1>6. j.addr \in Addresses /\ j.at \in 0..MaxTime BY <1>2 DEF Job
<1>7. RowsInv' BY <1>1, <1>3, <1>5, RowsKept
<1>8. CASE cur = "btc"
  <2>1. PICK q \in Job : q = [j EXCEPT !.pc = "record"] BY DEF Job
  <2>2. q.pc = "record" /\ q.addr = j.addr /\ q.at = j.at BY <2>1 DEF Job
  <2>3. running' = [running EXCEPT ![cur] = <<q>>]
    BY <1>1, <1>3, <1>8, <2>1, AfterEach, ContinueShape
  <2>4. GoodJob(cur, q)' BY <1>3, <1>4, <1>8, <2>2 DEF GoodJob, Unrecorded
  <2>5. JobInv' BY <1>1, <1>3, <2>3, <2>4, JobsKept
  <2>6. paid'["stx"] = paid["stx"] /\ running'["stx"] = running["stx"]
    BY <1>1, <1>3, <1>5, <1>8, <2>3 DEF TypeOK
  <2>7. \A a \in Addresses, t \in 0..MaxTime : Unpaid(a, t)' = Unpaid(a, t)
    BY <2>6 DEF Unpaid
  <2>8. QED BY <1>1, <1>3, <1>7, <2>5, <2>6, <2>7, LedgerKept
<1>9. CASE cur = "stx"
  <2>1. running' = [running EXCEPT ![cur] = <<>>]
    BY <1>1, <1>3, <1>9, AfterEach, ContinueShape
  <2>2. JobInv' BY <1>1, <1>3, <2>1, JobsKept
  <2>3. running'["stx"] = <<>> BY <1>1, <1>9, <2>1 DEF TypeOK
  <2>4. ASSUME NEW a \in Addresses, NEW t \in 0..MaxTime
        PROVE  Cardinality(Places(paid'["stx"][a], t)) + Unpaid(a, t)'
                 <= Cardinality(Places(recorded'["stx"][a], t))
    <3>1. Unpaid(a, t)' = 0 BY <2>3, NothingUnpaid
    <3>2. /\ Cardinality(Places(paid["stx"][a], t)) \in Nat
          /\ Cardinality(Places(paid'["stx"][a], t))
               = Cardinality(Places(paid["stx"][a], t))
                   + (IF j.addr = a /\ j.at = t THEN 1 ELSE 0)
      <4>1. paid["stx"][a] \in Seq(0..MaxTime) BY <1>5, <1>9
      <4>2. Cardinality(Places(paid["stx"][a], t)) \in Nat BY <4>1, PlacesFinite
      <4>3. CASE j.addr = a
        <5>1. paid'["stx"][a] = Append(paid["stx"][a], j.at) BY <1>3, <1>5, <1>9, <4>3
        <5>2. Cardinality(Places(Append(paid["stx"][a], j.at), t))
                = Cardinality(Places(paid["stx"][a], t)) + (IF j.at = t THEN 1 ELSE 0)
          BY <1>6, <4>1, PlacesAppend
        <5>3. QED BY <4>2, <4>3, <5>1, <5>2
      <4>4. CASE j.addr # a
        <5>1. paid'["stx"][a] = paid["stx"][a] BY <1>3, <1>5, <1>9, <4>4
        <5>2. QED BY <4>2, <4>4, <5>1
      <4>5. QED BY <4>3, <4>4
    <3>3. Cardinality(Places(recorded["stx"][a], t)) \in Nat
      BY <1>1, <1>9, RowsType, PlacesFinite
    <3>4. Cardinality(Places(paid["stx"][a], t)) + Unpaid(a, t)
            <= Cardinality(Places(recorded["stx"][a], t))
      BY <1>1 DEF Ledger
    <3>5. j.addr = a /\ j.at = t => Unpaid(a, t) = 1 BY <1>2, <1>3, <1>9 DEF Unpaid
    <3>6. QED BY <1>3, <3>1, <3>2, <3>3, <3>4, <3>5, UnpaidType
  <2>5. Ledger' BY <2>4 DEF Ledger
  <2>6. QED BY <1>7, <2>2, <2>5
<1>10. QED BY <1>8, <1>9 DEF Currencies

LEMMA RecordStep ==
  ASSUME IInv, NEW cur \in Currencies, NEW i \in DOMAIN running[cur], Record(cur, i)
  PROVE  RowsInv' /\ JobInv' /\ Ledger'
<1>1. TypeOK /\ RowsInv /\ JobInv /\ Ledger BY DEF IInv
<1>2. PICK j \in Job : j = running[cur][i] BY <1>1, OneJob
<1>3. /\ j.pc = "record"
      /\ recorded' = [recorded EXCEPT ![cur][j.addr] = Append(@, j.at)]
      /\ Continue(cur, i, j)
      /\ paid' = paid /\ now' = now
  BY <1>2 DEF Record, At
<1>4. GoodJob(cur, j) BY <1>1, <1>2 DEF JobInv
<1>5. now \in 0..MaxTime /\ recorded \in [Currencies -> [Addresses -> Seq(0..MaxTime)]]
  BY <1>1 DEF TypeOK
<1>6. j.addr \in Addresses /\ j.at \in 0..MaxTime BY <1>2 DEF Job
<1> DEFINE rows == recorded[cur][j.addr]
<1>7. /\ rows \in Seq(0..MaxTime) /\ Ordered(rows) /\ WithinLimit(rows)
      /\ j.at <= now /\ Room(rows, j.at) /\ \A k \in DOMAIN rows : rows[k] <= j.at
  BY <1>1, <1>3, <1>4, <1>6, RowsType DEF RowsInv, GoodJob, Unrecorded
<1>8. RowsInv'
  <2> SUFFICES ASSUME NEW c \in Currencies, NEW a \in Addresses
               PROVE  Ordered(recorded[c][a])' /\ WithinLimit(recorded[c][a])'
    BY DEF RowsInv
  <2>1. CASE c = cur /\ a = j.addr
    <3>1. recorded'[c][a] = Append(rows, j.at) BY <1>3, <1>5, <2>1
    <3> HIDE DEF rows
    <3>2. Ordered(Append(rows, j.at)) BY <1>5, <1>6, <1>7, AppendOrdered
    <3>3. WithinLimit(Append(rows, j.at)) BY <1>6, <1>7, AppendWithinLimit
    <3>4. QED BY <1>3, <3>1, <3>2, <3>3 DEF Ordered, WithinLimit
  <2>2. CASE ~(c = cur /\ a = j.addr)
    <3>1. recorded'[c][a] = recorded[c][a] BY <1>3, <1>5, <2>2
    <3>2. Ordered(recorded[c][a]) /\ WithinLimit(recorded[c][a]) BY <1>1 DEF RowsInv
    <3>3. QED BY <1>3, <3>1, <3>2 DEF Ordered, WithinLimit
  <2>3. QED BY <2>1, <2>2
<1>9. \A c \in Currencies \ {cur} : recorded'[c] = recorded[c] BY <1>3, <1>5
<1>10. CASE cur = "btc"
  <2>1. running' = [running EXCEPT ![cur] = <<>>]
    BY <1>1, <1>3, <1>10, AfterEach, ContinueShape
  <2>2. JobInv' BY <1>1, <1>3, <1>9, <2>1, JobsKept
  <2>3. recorded'["stx"] = recorded["stx"] /\ running'["stx"] = running["stx"]
    BY <1>1, <1>3, <1>5, <1>10, <2>1 DEF TypeOK
  <2>4. \A a \in Addresses, t \in 0..MaxTime : Unpaid(a, t)' = Unpaid(a, t)
    BY <2>3 DEF Unpaid
  <2>5. QED BY <1>1, <1>3, <1>8, <2>2, <2>3, <2>4, LedgerKept
<1>11. CASE cur = "stx"
  <2>1. PICK q \in Job : q = [j EXCEPT !.pc = "pay"] BY DEF Job
  <2>2. q.pc = "pay" /\ q.addr = j.addr /\ q.at = j.at BY <2>1 DEF Job
  <2>3. running' = [running EXCEPT ![cur] = <<q>>]
    BY <1>1, <1>3, <1>11, <2>1, AfterEach, ContinueShape
  <2>4. GoodJob(cur, q)' BY <1>11, <2>2 DEF GoodJob, Unrecorded
  <2>5. JobInv' BY <1>1, <1>3, <1>9, <2>3, <2>4, JobsKept
  <2>6. running'["stx"] = <<q>> BY <1>1, <1>11, <2>3 DEF TypeOK
  <2>7. ASSUME NEW a \in Addresses, NEW t \in 0..MaxTime
        PROVE  Cardinality(Places(paid'["stx"][a], t)) + Unpaid(a, t)'
                 <= Cardinality(Places(recorded'["stx"][a], t))
    <3>1. Unpaid(a, t)' \in {0, 1} BY DEF Unpaid
    <3>2. ~(j.addr = a /\ j.at = t) => Unpaid(a, t)' = 0 BY <2>2, <2>6 DEF Unpaid
    <3>3. /\ Cardinality(Places(recorded["stx"][a], t)) \in Nat
          /\ Cardinality(Places(recorded'["stx"][a], t))
               = Cardinality(Places(recorded["stx"][a], t))
                   + (IF j.addr = a /\ j.at = t THEN 1 ELSE 0)
      <4>1. recorded["stx"][a] \in Seq(0..MaxTime) BY <1>5, <1>11
      <4>2. Cardinality(Places(recorded["stx"][a], t)) \in Nat BY <4>1, PlacesFinite
      <4>3. CASE j.addr = a
        <5>1. recorded'["stx"][a] = Append(recorded["stx"][a], j.at) BY <1>3, <1>5, <1>11, <4>3
        <5>2. Cardinality(Places(Append(recorded["stx"][a], j.at), t))
                = Cardinality(Places(recorded["stx"][a], t)) + (IF j.at = t THEN 1 ELSE 0)
          BY <1>6, <4>1, PlacesAppend
        <5>3. QED BY <4>2, <4>3, <5>1, <5>2
      <4>4. CASE j.addr # a
        <5>1. recorded'["stx"][a] = recorded["stx"][a] BY <1>3, <1>5, <1>11, <4>4
        <5>2. QED BY <4>2, <4>4, <5>1
      <4>5. QED BY <4>3, <4>4
    <3>4. Cardinality(Places(paid["stx"][a], t)) \in Nat
      BY <1>1, <1>11, RowsType, PlacesFinite
    <3>5. Cardinality(Places(paid["stx"][a], t)) + Unpaid(a, t)
            <= Cardinality(Places(recorded["stx"][a], t))
      BY <1>1 DEF Ledger
    <3>6. QED BY <1>3, <3>1, <3>2, <3>3, <3>4, <3>5, UnpaidType
  <2>8. Ledger' BY <2>7 DEF Ledger
  <2>9. QED BY <1>8, <2>5, <2>8
<1>12. QED BY <1>10, <1>11 DEF Currencies

-----------------------------------------------------------------------------
(***************************************************************************)
(* The invariant.                                                          *)
(***************************************************************************)

LEMMA InitIInv == Init => IInv
<1> SUFFICES ASSUME Init PROVE IInv
  OBVIOUS
<1>1. TypeOK BY InitType
<1>2. \A cur \in Currencies, a \in Addresses : recorded[cur][a] = <<>> BY DEF Init
<1>3. RowsInv
  <2>1. Ordered(<<>>) BY DEF Ordered
  <2>2. WithinLimit(<<>>)
    <3>1. 1..(Len(<<>>) - Limit) = {} OBVIOUS
    <3>2. QED BY <3>1 DEF WithinLimit
  <2>3. QED BY <1>2, <2>1, <2>2 DEF RowsInv
<1>4. JobInv BY DEF Init, JobInv
<1>5. Ledger
  <2> SUFFICES ASSUME NEW a \in Addresses, NEW t \in 0..MaxTime
               PROVE  Cardinality(Places(paid["stx"][a], t)) + Unpaid(a, t)
                        <= Cardinality(Places(recorded["stx"][a], t))
    BY DEF Ledger
  <2>1. "stx" \in Currencies BY DEF Currencies
  <2>2. paid["stx"][a] = <<>> /\ recorded["stx"][a] = <<>> /\ running["stx"] = <<>>
    BY <2>1 DEF Init
  <2>3. Unpaid(a, t) = 0 BY <2>2 DEF Unpaid
  <2>4. Cardinality(Places(<<>>, t)) \in Nat
    <3>1. <<>> \in Seq(0..MaxTime) OBVIOUS
    <3>2. QED BY <3>1, PlacesFinite
  <2>5. QED BY <2>2, <2>3, <2>4
<1>6. QED BY <1>1, <1>3, <1>4, <1>5 DEF IInv

LEMMA StepIInv == IInv /\ [Next]_vars => IInv'
<1> SUFFICES ASSUME IInv, [Next]_vars PROVE RowsInv' /\ JobInv' /\ Ledger'
  BY TypeStep DEF IInv
<1>0. TypeOK /\ RowsInv /\ JobInv /\ Ledger BY DEF IInv
<1>1. ASSUME NEW cur \in Currencies, NEW a \in Addresses, Start(cur, a)
      PROVE  RowsInv' /\ JobInv' /\ Ledger'
  BY <1>1, StartStep
<1>2. ASSUME NEW cur \in Currencies, NEW i \in DOMAIN running[cur], Work(cur, i)
      PROVE  RowsInv' /\ JobInv' /\ Ledger'
  <2>1. CASE Query(cur, i) BY <2>1, QueryStep
  <2>2. CASE Check(cur, i) BY <2>2, CheckStep
  <2>3. CASE Pay(cur, i) BY <2>3, PayStep
  <2>4. CASE Record(cur, i) BY <2>4, RecordStep
  <2>5. CASE Fails(cur, i)
    <3>1. Close(cur, i) /\ UNCHANGED <<now, recorded, paid>> BY <2>5 DEF Fails
    <3>2. QED BY <3>1, CloseStep
  <2>6. QED BY <1>2, <2>1, <2>2, <2>3, <2>4, <2>5 DEF Work
<1>3. CASE Crash
  <2>1. /\ \A cur \in Currencies : running'[cur] = <<>>
        /\ UNCHANGED <<now, recorded, paid>>
    BY <1>3 DEF Crash
  <2>2. now \in 0..MaxTime BY <1>0 DEF TypeOK
  <2>3. RowsInv' BY <1>0, <2>1, <2>2, RowsKept
  <2>4. JobInv' BY <2>1 DEF JobInv
  <2>5. running'["stx"] = <<>> BY <2>1 DEF Currencies
  <2>6. \A a \in Addresses, t \in 0..MaxTime : Unpaid(a, t)' = 0 BY <2>5, NothingUnpaid
  <2>7. Ledger' BY <1>0, <2>1, <2>6, LedgerKept
  <2>8. QED BY <2>3, <2>4, <2>7
<1>4. CASE Tick
  <2>1. now \in Nat /\ now' = now + 1 /\ UNCHANGED <<recorded, paid, running>>
    BY <1>0, <1>4 DEF Tick, TypeOK
  <2>2. RowsInv' BY <1>0, <2>1, RowsKept
  <2>3. JobInv'
    <3> SUFFICES ASSUME NEW cur \in Currencies, NEW i \in DOMAIN running[cur]
                 PROVE  GoodJob(cur, running[cur][i])'
      BY <2>1 DEF JobInv
    <3>1. GoodJob(cur, running[cur][i]) BY <1>0 DEF JobInv
    <3>2. running[cur][i] \in Job BY <1>0, OneJob
    <3>3. running[cur][i].at \in Nat BY <3>2 DEF Job
    <3>4. QED BY <2>1, <3>1, <3>3 DEF GoodJob, Unrecorded
  <2>4. \A a \in Addresses, t \in 0..MaxTime : Unpaid(a, t)' = Unpaid(a, t)
    BY <2>1 DEF Unpaid
  <2>5. Ledger' BY <1>0, <2>1, <2>4, LedgerKept
  <2>6. QED BY <2>2, <2>3, <2>5
<1>5. CASE UNCHANGED vars
  <2>1. UNCHANGED <<now, recorded, paid, running>> BY <1>5 DEF vars
  <2>2. now \in 0..MaxTime BY <1>0 DEF TypeOK
  <2>3. RowsInv' BY <1>0, <2>1, <2>2, RowsKept
  <2>4. JobInv' BY <1>0, <2>1 DEF JobInv, GoodJob, Unrecorded
  <2>5. \A a \in Addresses, t \in 0..MaxTime : Unpaid(a, t)' = Unpaid(a, t)
    BY <2>1 DEF Unpaid
  <2>6. Ledger' BY <1>0, <2>1, <2>5, LedgerKept
  <2>7. QED BY <2>3, <2>4, <2>6
<1>6. QED BY <1>1, <1>2, <1>3, <1>4, <1>5 DEF Next

(* What keeps the two theorems below: while a job goes from its lookup to its
   insert the rows of its address stay as it saw them, and an STX job that has
   recorded and not paid is counted as paid.  faucets.ts:17-117. *)
THEOREM Inductive == Spec => []IInv
  BY InitIInv, StepIInv, PTL DEF Spec

(* For every limit and window, whatever fails and however long a payment takes:
   an address is recorded at most Limit times in any window.  faucets.ts:27-48. *)
THEOREM RecordedWithin == Spec => []RecordedWithinLimit
<1>1. IInv => RecordedWithinLimit BY DEF IInv, RowsInv, RecordedWithinLimit
<1>2. QED BY <1>1, Inductive, PTL

(* No STX payment is missing from the records, at any point of any failure.
   faucets.ts:100-109. *)
THEOREM StxRecorded == Spec => []StxPaidIsRecorded
<1>1. IInv => StxPaidIsRecorded
  <2> SUFFICES ASSUME IInv, NEW a \in Addresses, NEW t \in 0..MaxTime
               PROVE  Cardinality(Places(paid["stx"][a], t))
                        <= Cardinality(Places(recorded["stx"][a], t))
    BY DEF StxPaidIsRecorded
  <2>1. "stx" \in Currencies BY DEF Currencies
  <2>2. /\ Cardinality(Places(paid["stx"][a], t)) \in Nat
        /\ Cardinality(Places(recorded["stx"][a], t)) \in Nat
    BY <2>1, RowsType, PlacesFinite DEF IInv
  <2>3. Cardinality(Places(paid["stx"][a], t)) + Unpaid(a, t)
          <= Cardinality(Places(recorded["stx"][a], t))
    BY DEF IInv, Ledger
  <2>4. QED BY <2>2, <2>3, UnpaidType
<1>2. QED BY <1>1, Inductive, PTL

HIDE FaucetAssumption

-----------------------------------------------------------------------------
(***************************************************************************)
(* The invariant.                                                          *)
(***************************************************************************)

Ended == {"done", "failed", "refused"}
Changes(ps) == {Change(p) : p \in ps}
Pending(ps, sp) == UNION {sp[p] : p \in ps}
FeeOf(cs) == InputFee * Cardinality(cs)

Types ==
  /\ height \in StartHeight..MaxHeight
  /\ utxo \subseteq AllCoins
  /\ mined \in [AllCoins -> 0..MaxHeight]
  /\ worth \in [AllCoins -> Nat]
  /\ mempool \subseteq Payments
  /\ spends \in [Payments -> SUBSET AllCoins]
  /\ scanner \in Jobs \cup {Nobody}
  /\ job \in [Jobs -> [pc : Steps, tip : 0..MaxHeight, unspents : SUBSET AllCoins,
                       chosen : SUBSET AllCoins]]
  /\ spent \in Nat

(* The queue runs one payment at a time. *)
OneRuns == \A p, q \in Running : p = q

(* What is in the mempool has been sent, spends coins that are there, each its
   own, and has not returned its change yet. *)
Sent(p) == /\ job[p].pc \in Ended
           /\ spends[p] \subseteq utxo
           /\ Change(p) \notin utxo
Apart == \A p, q \in mempool : p # q => spends[p] \cap spends[q] = {}
Pool == (\A p \in mempool : Sent(p)) /\ Apart

(* A payment that is not sent yet has no change in the chain. *)
Unborn == \A p \in Payments : job[p].pc \notin Ended => Change(p) \notin utxo

(* What a job knows was so at its tip, and is so as long as no block comes. *)
KnowsWell(j) ==
  /\ job[j].tip <= height
  /\ job[j].pc \in {"scanning", "mempool", "send"} /\ job[j].tip = height
       => job[j].unspents \subseteq utxo
Known == \A j \in Jobs : KnowsWell(j)

(* A payment sends coins that cover it and that no transaction in the mempool
   spends: it is the only one that runs. *)
ChosenWell(p) ==
  /\ job[p].chosen \subseteq job[p].unspents
  /\ SumOver(worth, job[p].chosen) >= Amount + FeeOf(job[p].chosen)
  /\ \A q \in mempool : job[p].chosen \cap spends[q] = {}
ChosenOnes == \A p \in Payments : job[p].pc = "send" => ChosenWell(p)

(* ChangeReturns, of the sums above. *)
AllThere(u, w, ps, sp, gone) ==
  SumOver(w, u \ Pending(ps, sp)) + SumOver(w, Changes(ps)) + gone = SumOver(Worth, Coins)

CoinsInv ==
  /\ Types /\ OneRuns /\ Pool /\ Unborn /\ Known /\ ChosenOnes
  /\ RefusedOnlyAfterBlock
  /\ AllThere(utxo, worth, mempool, spends, spent)

-----------------------------------------------------------------------------
(***************************************************************************)
(* Facts that the steps share.                                             *)
(***************************************************************************)

LEMMA Conversions ==
  /\ \A cs : Covers(cs) <=> SumOver(worth, cs) >= Amount + FeeOf(cs)
  /\ \A p : ChangeOf(p) = SumOver(worth, job[p].chosen) - Amount - FeeOf(job[p].chosen)
  /\ ChangeReturns <=> AllThere(utxo, worth, mempool, spends, spent)
<1>1. \A cs : Sum(cs) = SumOver(worth, cs)
  BY DEF Sum, SumOver, MapThenSumSet, MapThenFoldSet
<1>2. MapThenSumSet(LAMBDA c : Worth[c], Coins) = SumOver(Worth, Coins)
  BY DEF SumOver
<1>3. \A cs : Covers(cs) <=> SumOver(worth, cs) >= Amount + FeeOf(cs)
  BY <1>1 DEF Covers, FeeOf
<1>4. \A p : ChangeOf(p) = SumOver(worth, job[p].chosen) - Amount - FeeOf(job[p].chosen)
  BY <1>1 DEF ChangeOf, FeeOf
<1>5. ChangeReturns <=> AllThere(utxo, worth, mempool, spends, spent)
  BY <1>1, <1>2 DEF ChangeReturns, AllThere, Pending, Changes
<1> QED
  BY <1>3, <1>4, <1>5

LEMMA ChangesFinite ==
  ASSUME NEW ps, IsFiniteSet(ps)
  PROVE  IsFiniteSet(Changes(ps))
<1>1. [p \in ps |-> Change(p)] \in Surjection(ps, Changes(ps))
  BY DEF Surjection, Changes
<1> QED
  BY <1>1, FS_Surjection

LEMMA CoinsFinite == IsFiniteSet(AllCoins) /\ \A cs \in SUBSET AllCoins : IsFiniteSet(cs)
<1>1. IsFiniteSet(Coins) /\ IsFiniteSet(Changes(Payments)) /\ AllCoins = Coins \cup Changes(Payments)
  BY BtcWalletAssumption, ChangesFinite DEF AllCoins, Changes
<1>2. IsFiniteSet(AllCoins)
  BY <1>1, FS_Union
<1> QED
  BY <1>2, FS_Subset

(* Change(p) tells p. *)
LEMMA ChangesDiffer ==
  /\ \A p, q : Change(p) = Change(q) => p = q
  /\ \A p \in Payments : Change(p) \in AllCoins /\ Change(p) \notin Coins
  BY BtcWalletAssumption DEF Change, AllCoins

LEMMA FeeIsNat == \A cs \in SUBSET AllCoins : FeeOf(cs) \in Nat
<1>1. \A cs \in SUBSET AllCoins : Cardinality(cs) \in Nat
  BY CoinsFinite, FS_CardinalityType
<1> QED
  BY <1>1, BtcWalletAssumption DEF FeeOf

LEMMA WorthIsNat ==
  ASSUME NEW w \in [AllCoins -> Nat], NEW cs \in SUBSET AllCoins
  PROVE  SumOver(w, cs) \in Nat
<1>1. IsFiniteSet(cs) /\ \A c \in cs : w[c] \in Nat
  BY CoinsFinite
<1> QED
  BY <1>1, SumIsNat

LEMMA RunningFinite ==
  ASSUME Types
  PROVE  /\ IsFiniteSet(Running) /\ Cardinality(Running) \in Nat
         /\ Cardinality(Running) < 1 => Running = {}
         /\ OneRuns => Cardinality(Running) <= 1
<1>1. IsFiniteSet(Running) /\ Cardinality(Running) \in Nat
  BY BtcWalletAssumption, FS_Subset, FS_CardinalityType DEF Running
<1>2. Cardinality(Running) < 1 => Running = {}
  <2>1. Cardinality(Running) < 1 => Cardinality(Running) = 0
    BY <1>1
  <2> QED
    BY <1>1, <2>1, FS_EmptySet
<1>3. ASSUME OneRuns PROVE Cardinality(Running) <= 1
  <2>1. CASE Running = {}
    BY <2>1, FS_EmptySet
  <2>2. CASE Running # {}
    <3>1. PICK p : p \in Running
      BY <2>2
    <3>2. Running = {p}
      BY <1>3, <3>1 DEF OneRuns
    <3>3. Cardinality(Running) = 1
      BY <3>2, FS_Singleton
    <3> QED
      BY <3>3
  <2> QED
    BY <2>1, <2>2
<1> QED
  BY <1>1, <1>2, <1>3

LEMMA WalletStarts == WalletInit => CoinsInv
<1> SUFFICES ASSUME WalletInit PROVE CoinsInv
  OBVIOUS
<1> USE DEF WalletInit
<1>a. Payments \subseteq Jobs /\ Coins \subseteq AllCoins
  BY DEF Jobs, AllCoins
<1>1. Types
  BY BtcWalletAssumption, <1>a DEF Types, Steps
<1>2. Running = {}
  BY <1>a DEF Running
<1>3. OneRuns /\ Pool
  BY <1>2 DEF OneRuns, Pool, Apart
<1>4. Unborn
  BY ChangesDiffer DEF Unborn
<1>5. Known /\ ChosenOnes /\ RefusedOnlyAfterBlock
  BY BtcWalletAssumption, <1>a DEF Known, KnowsWell, ChosenOnes, RefusedOnlyAfterBlock
<1>6. AllThere(utxo, worth, mempool, spends, spent)
  <2>1. Pending(mempool, spends) = {} /\ Changes(mempool) = {} /\ Coins \ {} = Coins
    BY DEF Pending, Changes
  <2>2. \A c \in Coins : worth[c] = Worth[c]
    BY <1>a
  <2>3. SumOver(worth, Coins) = SumOver(Worth, Coins)
    BY <2>2, BtcWalletAssumption, SumOfEqual
  <2>4. SumOver(worth, {}) = 0
    BY FS_EmptySet, SumUnfolds
  <2>5. SumOver(worth, Coins) \in Nat
    BY <1>1, <1>a, WorthIsNat DEF Types
  <2>6. utxo \ Pending(mempool, spends) = Coins
    BY <2>1
  <2>7. /\ SumOver(worth, utxo \ Pending(mempool, spends)) = SumOver(worth, Coins)
        /\ SumOver(worth, Changes(mempool)) = 0
    BY <2>1, <2>4, <2>6
  <2> QED
    BY <2>3, <2>5, <2>7 DEF AllThere
<1> QED
  BY <1>1, <1>3, <1>4, <1>5, <1>6 DEF CoinsInv

-----------------------------------------------------------------------------
(***************************************************************************)
(* The steps.                                                              *)
(***************************************************************************)

Records == [pc : Steps, tip : 0..MaxHeight, unspents : SUBSET AllCoins, chosen : SUBSET AllCoins]

(* What a job must be like after a step of its own that leaves the chain and the
   mempool alone. *)
Moves(j, r) ==
  /\ r.tip <= height
  /\ r.pc \in {"scanning", "mempool", "send"} /\ r.tip = height => r.unspents \subseteq utxo
  /\ job[j].pc \in Ended => r.pc = job[j].pc
  /\ r.pc \notin Ended \cup {"idle"} => j \in Running \/ Running = {} \/ j \notin Payments
  /\ r.pc = "send" => /\ r.chosen \subseteq r.unspents
                      /\ SumOver(worth, r.chosen) >= Amount + FeeOf(r.chosen)
                      /\ \A q \in mempool : r.chosen \cap spends[q] = {}
  /\ r.pc = "refused" => height > r.tip \/ Immature(r.chosen) # {}

LEMMA JobMoves ==
  ASSUME CoinsInv, NEW j \in Jobs, NEW r \in Records, Moves(j, r),
         job' = [job EXCEPT ![j] = r], scanner' \in Jobs \cup {Nobody},
         UNCHANGED <<height, utxo, mined, worth, mempool, spends, spent>>
  PROVE  CoinsInv'
<1>i. Types /\ OneRuns /\ Pool /\ Unborn /\ Known /\ ChosenOnes /\ RefusedOnlyAfterBlock
  BY DEF CoinsInv
<1>a. Payments \subseteq Jobs
  BY DEF Jobs
<1>j. job \in [Jobs -> Records] /\ job' \in [Jobs -> Records]
  BY <1>i DEF Types, Records
<1>k. job'[j] = r /\ \A k \in Jobs : k # j => job'[k] = job[k]
  BY <1>j
<1>1. Types'
  BY <1>i, <1>j DEF Types, Records
<1>2. OneRuns'
  <2> SUFFICES ASSUME NEW p \in Running', NEW q \in Running' PROVE p = q
    BY DEF OneRuns
  <2>1. p \in Payments /\ q \in Payments
    BY DEF Running
  <2>2. \A x \in Running' : x = j \/ x \in Running
    BY <1>a, <1>k DEF Running
  <2>3. j \in Running' => j \in Running \/ Running = {}
    BY <1>k DEF Running, Moves, Ended
  <2> QED
    BY <1>i, <2>2, <2>3 DEF OneRuns
<1>3. Pool'
  <2>1. \A p \in mempool : p \in Jobs /\ Sent(p)
    BY <1>i, <1>a DEF Types, Pool
  <2>2. \A p \in mempool : job'[p].pc \in Ended
    BY <1>k, <2>1 DEF Sent, Moves
  <2>3. \A p \in mempool : Sent(p)'
    BY <2>1, <2>2 DEF Sent
  <2> QED
    BY <1>i, <2>3 DEF Pool, Apart
<1>4. Unborn'
  <2>1. \A p \in Payments : job'[p].pc \notin Ended => job[p].pc \notin Ended
    BY <1>a, <1>k DEF Moves
  <2> QED
    BY <1>i, <2>1 DEF Unborn
<1>5. Known'
  <2> SUFFICES ASSUME NEW k \in Jobs PROVE KnowsWell(k)'
    BY DEF Known
  <2>1. CASE k = j
    BY <1>k, <2>1 DEF KnowsWell, Moves
  <2>2. CASE k # j
    BY <1>i, <1>k, <2>2 DEF KnowsWell, Known
  <2> QED
    BY <2>1, <2>2
<1>6. ChosenOnes'
  <2> SUFFICES ASSUME NEW p \in Payments, job'[p].pc = "send" PROVE ChosenWell(p)'
    BY DEF ChosenOnes
  <2>1. CASE p = j
    BY <1>k, <2>1 DEF ChosenWell, Moves
  <2>2. CASE p # j
    BY <1>i, <1>a, <1>k, <2>2 DEF ChosenWell, ChosenOnes
  <2> QED
    BY <2>1, <2>2
<1>7. RefusedOnlyAfterBlock'
  <2> SUFFICES ASSUME NEW p \in Payments, job'[p].pc = "refused"
               PROVE  (height > job[p].tip \/ Immature(job[p].chosen) # {})'
    BY DEF RefusedOnlyAfterBlock
  <2>1. CASE p = j
    BY <1>k, <2>1 DEF Moves, Immature
  <2>2. CASE p # j
    BY <1>i, <1>a, <1>k, <2>2 DEF RefusedOnlyAfterBlock, Immature
  <2> QED
    BY <2>1, <2>2
<1>8. AllThere(utxo, worth, mempool, spends, spent)'
  BY DEF CoinsInv, AllThere, Pending, Changes
<1> QED
  BY <1>1, <1>2, <1>3, <1>4, <1>5, <1>6, <1>7, <1>8 DEF CoinsInv

LEMMA StepStart ==
  ASSUME CoinsInv, NEW j \in Jobs, StartJob(j)
  PROVE  CoinsInv'
<1> DEFINE r == [job[j] EXCEPT !.pc = "scan"]
<1>1. job[j] \in Records /\ job[j].pc = "idle" /\ job' = [job EXCEPT ![j] = r] /\ r \in Records
  BY DEF CoinsInv, Types, Records, StartJob, Steps
<1>2. j \in Payments => Running = {}
  BY RunningFinite DEF StartJob, PaymentsAtOnce, CoinsInv
<1>3. job[j].tip <= height
  BY DEF CoinsInv, Known, KnowsWell
<1>4. Moves(j, r)
  BY <1>1, <1>2, <1>3 DEF Moves, Ended, Records
<1> QED
  BY <1>1, <1>4, JobMoves DEF StartJob, chain, CoinsInv, Types

LEMMA StepPoll ==
  ASSUME CoinsInv, NEW j \in Jobs, Poll(j)
  PROVE  CoinsInv'
<1> DEFINE r == [job[j] EXCEPT !.pc = "scan"]
<1>1. job[j] \in Records /\ job[j].pc = "poll" /\ job' = [job EXCEPT ![j] = r] /\ r \in Records
  BY DEF CoinsInv, Types, Records, Poll, Steps
<1>2. j \in Payments => j \in Running
  BY <1>1 DEF Running
<1>3. job[j].tip <= height
  BY DEF CoinsInv, Known, KnowsWell
<1>4. Moves(j, r)
  BY <1>1, <1>2, <1>3 DEF Moves, Ended, Records
<1> QED
  BY <1>1, <1>4, JobMoves DEF Poll, chain, CoinsInv, Types

LEMMA StepScan ==
  ASSUME CoinsInv, NEW j \in Jobs, Scan(j)
  PROVE  CoinsInv'
<1>1. job[j] \in Records /\ job[j].pc = "scan"
  BY DEF CoinsInv, Types, Records, Scan
<1>2. j \in Payments => j \in Running
  BY <1>1 DEF Running
<1>3. job[j].tip <= height /\ height \in 0..MaxHeight /\ utxo \in SUBSET AllCoins
  BY BtcWalletAssumption DEF CoinsInv, Known, KnowsWell, Types
<1>4. CASE scanner = Nobody
  <2> DEFINE r == [job[j] EXCEPT !.pc = "scanning", !.tip = height, !.unspents = utxo]
  <2>1. job' = [job EXCEPT ![j] = r] /\ scanner' = j
    BY <1>4 DEF Scan
  <2>2. r \in Records /\ r.pc = "scanning" /\ r.tip = height /\ r.unspents = utxo
    BY <1>1, <1>3 DEF Records, Steps
  <2> HIDE DEF r
  <2>3. Moves(j, r)
    BY <1>1, <1>2, <1>3, <2>2 DEF Moves, Ended
  <2> QED
    BY <2>1, <2>2, <2>3, JobMoves DEF Scan, chain
<1>5. CASE scanner # Nobody
  <2> DEFINE r == [job[j] EXCEPT !.pc = "poll"]
  <2>1. job' = [job EXCEPT ![j] = r] /\ scanner' = scanner /\ r \in Records
    BY <1>1, <1>5 DEF Scan, Records, Steps
  <2>2. Moves(j, r)
    BY <1>1, <1>2, <1>3 DEF Moves, Ended, Records
  <2> QED
    BY <2>1, <2>2, JobMoves DEF Scan, chain, CoinsInv, Types
<1> QED
  BY <1>4, <1>5

LEMMA StepScanDone ==
  ASSUME CoinsInv, NEW j \in Jobs, ScanDone(j)
  PROVE  CoinsInv'
<1> DEFINE pc == CASE job[j].pc # "scanning" -> job[j].pc
                   [] job[j].pc = "scanning" /\ j \in Balances -> "done"
                   [] OTHER -> "mempool"
           r == [job[j] EXCEPT !.pc = pc]
<1>1. job[j] \in Records
  BY DEF CoinsInv, Types, Records
<1>2. job' = [job EXCEPT ![j] = r]
  BY DEF ScanDone
<1>3. \/ job[j].pc # "scanning" /\ pc = job[j].pc
      \/ job[j].pc = "scanning" /\ pc \in {"done", "mempool"}
  OBVIOUS
<1> HIDE DEF pc
<1>4. r \in Records /\ r.pc = pc /\ r.tip = job[j].tip /\ r.unspents = job[j].unspents
      /\ r.chosen = job[j].chosen
  BY <1>1, <1>3 DEF Records, Steps
<1> HIDE DEF r
<1>5. KnowsWell(j)
  BY DEF CoinsInv, Known
<1>6. j \in Payments /\ job[j].pc \notin Ended \cup {"idle"} => j \in Running
  BY DEF Running, Ended
<1>7. CASE job[j].pc # "scanning" /\ pc = job[j].pc
  <2>1. r = job[j]
    BY <1>1, <1>4, <1>7 DEF Records
  <2>2. job' = job
    BY <1>2, <2>1 DEF CoinsInv, Types
  <2>3. j \in Payments /\ job[j].pc = "send" => ChosenWell(j)
    BY DEF CoinsInv, ChosenOnes
  <2>4. CASE j \in Payments
    <3>1. job[j].pc = "refused" => height > job[j].tip \/ Immature(job[j].chosen) # {}
      BY <2>4 DEF CoinsInv, RefusedOnlyAfterBlock
    <3>2. Moves(j, r)
      BY <1>5, <1>6, <2>1, <2>3, <2>4, <3>1 DEF Moves, KnowsWell, ChosenWell
    <3> QED
      BY <1>2, <1>4, <3>2, JobMoves DEF ScanDone, chain
  <2>5. CASE j \notin Payments
    <3>1. UNCHANGED <<height, utxo, mined, worth, mempool, spends, spent, job>> /\ scanner' = Nobody
      BY <2>2 DEF ScanDone, chain
    <3> QED
      BY <3>1 DEF CoinsInv, Types, OneRuns, Running, Pool, Sent, Apart, Unborn, Known, KnowsWell,
                  ChosenOnes, ChosenWell, RefusedOnlyAfterBlock, Immature, AllThere, Pending, Changes
  <2> QED
    BY <2>4, <2>5
<1>8. CASE job[j].pc = "scanning" /\ pc \in {"done", "mempool"}
  <2>1. Moves(j, r)
    BY <1>4, <1>5, <1>6, <1>8 DEF Moves, Ended, KnowsWell
  <2> QED
    BY <1>2, <1>4, <2>1, JobMoves DEF ScanDone, chain
<1> QED
  BY <1>3, <1>7, <1>8

LEMMA StepCallFails ==
  ASSUME CoinsInv, NEW j \in Jobs, CallFails(j)
  PROVE  CoinsInv'
<1> DEFINE r == [job[j] EXCEPT !.pc = "failed"]
<1>1. job[j] \in Records /\ job[j].pc \notin Ended /\ job' = [job EXCEPT ![j] = r] /\ r \in Records
  BY DEF CoinsInv, Types, Records, CallFails, Steps, Ended
<1>2. job[j].tip <= height
  BY DEF CoinsInv, Known, KnowsWell
<1>3. Moves(j, r)
  BY <1>1, <1>2 DEF Moves, Ended, Records
<1> QED
  BY <1>1, <1>3, JobMoves DEF CallFails, chain, CoinsInv, Types

LEMMA StepSelect ==
  ASSUME CoinsInv, NEW p \in Payments, Select(p)
  PROVE  CoinsInv'
<1>a. p \in Jobs /\ job[p] \in Records /\ job[p].pc = "mempool" /\ p \in Running
  BY DEF CoinsInv, Types, Records, Select, Jobs, Running
<1>b. KnowsWell(p)
  BY <1>a DEF CoinsInv, Known
<1>1. CASE \E cs \in SUBSET SpendableUtxos(p) :
             Covers(cs) /\ job' = [job EXCEPT ![p] = [@ EXCEPT !.pc = "send", !.chosen = cs]]
  <2>1. PICK cs \in SUBSET SpendableUtxos(p) :
               Covers(cs) /\ job' = [job EXCEPT ![p] = [@ EXCEPT !.pc = "send", !.chosen = cs]]
    BY <1>1
  <2> DEFINE r == [job[p] EXCEPT !.pc = "send", !.chosen = cs]
  <2>2. cs \subseteq job[p].unspents /\ \A q \in mempool : cs \cap spends[q] = {}
    BY <2>1 DEF SpendableUtxos
  <2>3. r \in Records /\ r.pc = "send" /\ r.chosen = cs /\ r.tip = job[p].tip
        /\ r.unspents = job[p].unspents
    BY <1>a, <2>2 DEF Records, Steps
  <2>4. job' = [job EXCEPT ![p] = r]
    BY <2>1
  <2> HIDE DEF r
  <2>5. SumOver(worth, cs) >= Amount + FeeOf(cs)
    BY <2>1, Conversions
  <2>6. Moves(p, r)
    BY <1>a, <1>b, <2>2, <2>3, <2>5 DEF Moves, Ended, KnowsWell
  <2> QED
    BY <1>a, <2>3, <2>4, <2>6, JobMoves DEF Select, chain, CoinsInv, Types
<1>2. CASE job' = [job EXCEPT ![p].pc = "failed"]
  <2> DEFINE r == [job[p] EXCEPT !.pc = "failed"]
  <2>1. r \in Records /\ job' = [job EXCEPT ![p] = r]
    BY <1>a, <1>2 DEF Records, Steps
  <2>2. Moves(p, r)
    BY <1>a, <1>b DEF Moves, Ended, KnowsWell, Records
  <2> QED
    BY <1>a, <2>1, <2>2, JobMoves DEF Select, chain, CoinsInv, Types
<1> QED
  BY <1>1, <1>2 DEF Select

(* What is mined leaves the mempool, its inputs leave the chain, its change
   comes. *)
LEMMA StepMine ==
  ASSUME CoinsInv, NEW ps \in SUBSET mempool, Mine(ps)
  PROVE  CoinsInv'
<1> DEFINE rest == mempool \ ps
<1>i. Types /\ OneRuns /\ Pool /\ Unborn /\ Known /\ ChosenOnes /\ RefusedOnlyAfterBlock
  BY DEF CoinsInv
<1>m. /\ mempool \subseteq Payments /\ ps \subseteq Payments /\ rest \subseteq mempool
      /\ mempool' = rest /\ height' = height + 1 /\ height < MaxHeight
      /\ utxo' = (utxo \ Pending(ps, spends)) \cup Changes(ps)
      /\ UNCHANGED <<worth, spends, scanner, job, spent>>
  BY <1>i DEF Mine, Types, Pending, Changes
<1>h. height \in Nat /\ StartHeight \in Nat /\ MaxHeight \in Nat /\ height' \in StartHeight..MaxHeight
  BY <1>i, <1>m, BtcWalletAssumption DEF Types
<1>c. \A p \in ps : Change(p) \in AllCoins
  BY <1>m, ChangesDiffer
<1>1. Types'
  <2>1. utxo' \subseteq AllCoins
    BY <1>i, <1>m, <1>c DEF Types, Changes
  <2>2. mined' \in [AllCoins -> 0..MaxHeight]
    BY <1>i, <1>h, <1>m DEF Mine, Types
  <2> QED
    BY <1>i, <1>h, <1>m, <2>1, <2>2 DEF Types
<1>2. OneRuns'
  BY <1>i, <1>m DEF OneRuns, Running
<1>3. Pool'
  <2>1. Apart'
    BY <1>i, <1>m DEF Pool, Apart
  <2>2. ASSUME NEW q \in rest
        PROVE  Sent(q)'
    <3>1. Sent(q) /\ Change(q) \notin Changes(ps)
      BY <1>i, <1>m, ChangesDiffer DEF Pool, Changes
    <3>2. spends[q] \cap Pending(ps, spends) = {}
      BY <1>i, <1>m DEF Pool, Apart, Pending
    <3> QED
      BY <1>m, <3>1, <3>2 DEF Sent
  <2> QED
    BY <1>m, <2>1, <2>2 DEF Pool
<1>4. Unborn'
  <2> SUFFICES ASSUME NEW p \in Payments, job[p].pc \notin Ended PROVE Change(p) \notin utxo'
    BY <1>m DEF Unborn
  <2>1. Change(p) \notin utxo
    BY <1>i DEF Unborn
  <2>2. p \notin ps
    BY <1>i DEF Pool, Sent
  <2>3. Change(p) \notin Changes(ps)
    BY <2>2, ChangesDiffer DEF Changes
  <2> QED
    BY <1>m, <2>1, <2>3
<1>5. /\ \A j \in Jobs : job[j].tip \in Nat /\ job[j].tip <= height
      /\ \A p \in Payments : job[p].tip \in Nat /\ job[p].tip <= height
  <2>1. \A j \in Jobs : job[j].tip \in Nat /\ job[j].tip <= height
    BY <1>i DEF Types, Known, KnowsWell
  <2> QED
    BY <2>1 DEF Jobs
<1>6. Known'
  <2>1. \A j \in Jobs : job'[j].tip <= height' /\ job'[j].tip # height'
    BY <1>5, <1>m, <1>h
  <2> QED
    BY <2>1 DEF Known, KnowsWell
<1>7. ChosenOnes'
  BY <1>i, <1>m DEF ChosenOnes, ChosenWell
<1>8. RefusedOnlyAfterBlock'
  <2>1. \A p \in Payments : height' > job'[p].tip
    BY <1>5, <1>m, <1>h
  <2> QED
    BY <2>1 DEF RefusedOnlyAfterBlock
<1>9. AllThere(utxo, worth, mempool, spends, spent)'
  <2> DEFINE still == utxo \ Pending(mempool, spends)
  <2>1. \A p \in mempool : spends[p] \subseteq utxo /\ Change(p) \notin utxo
    BY <1>i DEF Pool, Sent
  <2>2. utxo' \ Pending(rest, spends) = still \cup Changes(ps)
    <3>1. Pending(mempool, spends) = Pending(ps, spends) \cup Pending(rest, spends)
      BY <1>m DEF Pending
    <3>2. Changes(ps) \cap Pending(rest, spends) = {}
      BY <1>m, <2>1 DEF Pending, Changes
    <3> QED
      BY <1>m, <3>1, <3>2
  <2>3. /\ still \in SUBSET AllCoins /\ Changes(ps) \in SUBSET AllCoins
        /\ Changes(rest) \in SUBSET AllCoins
        /\ still \cap Changes(ps) = {} /\ Changes(ps) \cap Changes(rest) = {}
        /\ Changes(mempool) = Changes(ps) \cup Changes(rest)
    BY <1>i, <1>m, <2>1, ChangesDiffer DEF Types, Changes
  <2>4. IsFiniteSet(AllCoins) /\ \A c \in AllCoins : worth[c] \in Nat
    BY <1>i, CoinsFinite DEF Types
  <2>5. worth \in [AllCoins -> Nat] /\ spent \in Nat
    BY <1>i DEF Types
  <2> DEFINE a == SumOver(worth, still)
             b == SumOver(worth, Changes(ps))
             c == SumOver(worth, Changes(rest))
  <2>6. a + SumOver(worth, Changes(mempool)) + spent = SumOver(Worth, Coins)
    BY DEF CoinsInv, AllThere
  <2> HIDE DEF still, rest
  <2>7. /\ SumOver(worth, still \cup Changes(ps)) = a + b
        /\ SumOver(worth, Changes(mempool)) = b + c
    BY <2>3, <2>4, SumOfUnion
  <2>8. a \in Nat /\ b \in Nat /\ c \in Nat
    BY <2>3, <2>5, WorthIsNat
  <2>9. SumOver(worth, utxo' \ Pending(rest, spends)) = a + b
    BY <2>2, <2>7
  <2> HIDE DEF a, b, c
  <2>10. (a + b) + c + spent = SumOver(Worth, Coins)
    BY <2>5, <2>6, <2>7, <2>8
  <2>11. SumOver(worth, utxo' \ Pending(rest, spends)) + SumOver(worth, Changes(rest)) + spent
           = SumOver(Worth, Coins)
    BY <2>9, <2>10 DEF c
  <2> QED
    BY <1>m, <2>11 DEF AllThere
<1> QED
  BY <1>1, <1>2, <1>3, <1>4, <1>6, <1>7, <1>8, <1>9 DEF CoinsInv

(* An accepted transaction moves what its coins are worth: to the one who is
   paid, to the fee, and the rest back to the faucet as change. *)
LEMMA StepAccepted ==
  ASSUME CoinsInv, NEW p \in Payments, Send(p), Spendable(job[p].chosen)
  PROVE  CoinsInv'
<1> DEFINE cs == job[p].chosen
           w == SumOver(worth, cs)
           back == w - Amount - FeeOf(cs)
<1>i. Types /\ OneRuns /\ Pool /\ Unborn /\ Known /\ ChosenOnes /\ RefusedOnlyAfterBlock
  BY DEF CoinsInv
<1>a. p \in Jobs /\ Payments \subseteq Jobs /\ job \in [Jobs -> Records] /\ job[p].pc = "send"
  BY <1>i DEF Jobs, Types, Records, Send
<1>m. /\ mempool' = mempool \cup {p} /\ spends' = [spends EXCEPT ![p] = cs]
      /\ worth' = [worth EXCEPT ![Change(p)] = back] /\ spent' = spent + Amount + FeeOf(cs)
      /\ UNCHANGED <<height, utxo, mined, scanner>>
  BY Conversions DEF Send, Broadcast, FeeOf
<1>p. PICK pc \in {"done", "failed"} : job' = [job EXCEPT ![p].pc = pc]
  BY DEF Send
<1>j. /\ job' \in [Jobs -> Records] /\ job'[p].pc = pc /\ job'[p].pc \in Ended
      /\ \A k \in Jobs : k # p => job'[k] = job[k]
      /\ \A k \in Jobs : job'[k].tip = job[k].tip /\ job'[k].unspents = job[k].unspents
      /\ \A k \in Jobs : job'[k].pc \notin Ended => job'[k] = job[k]
  BY <1>a, <1>p DEF Records, Steps, Ended
<1>c. cs \in SUBSET AllCoins /\ cs \subseteq utxo /\ w \in Nat /\ Amount \in Nat /\ FeeOf(cs) \in Nat
      /\ w >= Amount + FeeOf(cs) /\ \A q \in mempool : cs \cap spends[q] = {}
  <2>1. cs \in SUBSET AllCoins
    BY <1>a DEF Records
  <2>2. w \in Nat
    BY <1>i, <2>1, WorthIsNat DEF Types
  <2>3. Amount \in Nat /\ FeeOf(cs) \in Nat
    BY <2>1, FeeIsNat, BtcWalletAssumption
  <2>4. ChosenWell(p)
    BY <1>i, <1>a DEF ChosenOnes
  <2> QED
    BY <2>1, <2>2, <2>3, <2>4 DEF ChosenWell, Spendable
<1>b. back \in Nat
  BY <1>c
<1>n. p \notin mempool /\ Change(p) \notin utxo /\ Change(p) \in AllCoins
  BY <1>i, <1>a, ChangesDiffer DEF Pool, Sent, Unborn, Ended
<1>1. Types'
  <2>1. worth' \in [AllCoins -> Nat]
    BY <1>i, <1>b, <1>m DEF Types
  <2>2. spent' \in Nat /\ spends' \in [Payments -> SUBSET AllCoins] /\ mempool' \subseteq Payments
    BY <1>i, <1>c, <1>m DEF Types
  <2> QED
    BY <1>i, <1>j, <1>m, <2>1, <2>2 DEF Types, Records
<1>2. OneRuns'
  <2>1. Running' \subseteq Running
    BY <1>a, <1>j DEF Running, Ended
  <2> QED
    BY <1>i, <2>1 DEF OneRuns
<1>s. spends'[p] = cs /\ \A q \in mempool : q # p /\ q \in Jobs /\ spends'[q] = spends[q]
  BY <1>i, <1>a, <1>m, <1>n DEF Types
<1>3. Pool'
  <2>1. Sent(p)'
    BY <1>c, <1>j, <1>m, <1>n, <1>s DEF Sent
  <2>2. \A q \in mempool : Sent(q)'
    BY <1>i, <1>j, <1>m, <1>s DEF Sent, Pool
  <2>3. Apart'
    BY <1>c, <1>i, <1>m, <1>s DEF Pool, Apart
  <2> QED
    BY <1>m, <2>1, <2>2, <2>3 DEF Pool
<1>4. Unborn'
  BY <1>a, <1>i, <1>j, <1>m DEF Unborn
<1>5. Known'
  <2> SUFFICES ASSUME NEW k \in Jobs PROVE KnowsWell(k)'
    BY DEF Known
  <2>1. KnowsWell(k)
    BY <1>i DEF Known
  <2>2. CASE job'[k].pc \notin Ended
    BY <1>j, <1>m, <2>1, <2>2 DEF KnowsWell
  <2>3. CASE job'[k].pc \in Ended
    BY <1>j, <1>m, <2>1, <2>3 DEF KnowsWell, Ended
  <2> QED
    BY <2>2, <2>3
<1>6. ChosenOnes'
  <2> SUFFICES ASSUME NEW q \in Payments, job'[q].pc = "send" PROVE FALSE
    BY DEF ChosenOnes
  <2>1. q # p /\ job[q].pc = "send"
    BY <1>a, <1>j DEF Ended
  <2>2. q \in Running /\ p \in Running
    BY <1>a, <2>1 DEF Running
  <2> QED
    BY <1>i, <2>1, <2>2 DEF OneRuns
<1>7. RefusedOnlyAfterBlock'
  <2> SUFFICES ASSUME NEW q \in Payments, job'[q].pc = "refused"
               PROVE  (height > job[q].tip \/ Immature(job[q].chosen) # {})'
    BY DEF RefusedOnlyAfterBlock
  <2>1. q # p /\ job'[q] = job[q]
    BY <1>a, <1>j
  <2> QED
    BY <1>i, <1>m, <2>1 DEF RefusedOnlyAfterBlock, Immature
<1>8. AllThere(utxo, worth, mempool, spends, spent)'
  <2> DEFINE still == utxo \ Pending(mempool, spends)
             left == still \ cs
  <2>1. \A q \in mempool : spends[q] \subseteq utxo /\ Change(q) \notin utxo /\ q \in Payments
    BY <1>i DEF Pool, Sent, Types
  <2>2. utxo' \ Pending(mempool', spends') = left
    <3>1. Pending(mempool', spends') = Pending(mempool, spends) \cup cs
      BY <1>m, <1>s DEF Pending
    <3> QED
      BY <1>m, <3>1
  <2>3. /\ still \in SUBSET AllCoins /\ cs \in SUBSET still /\ left \in SUBSET AllCoins
        /\ Change(p) \notin left
    BY <1>c, <1>i, <1>n DEF Types, Pending
  <2>4. /\ Changes(mempool) \in SUBSET AllCoins /\ Change(p) \in AllCoins \ Changes(mempool)
        /\ Changes(mempool') = Changes(mempool) \cup {Change(p)}
    BY <1>m, <1>n, <2>1, ChangesDiffer DEF Changes
  <2>5. /\ IsFiniteSet(AllCoins) /\ worth \in [AllCoins -> Nat] /\ worth' \in [AllCoins -> Nat]
        /\ spent \in Nat /\ spent' = spent + Amount + FeeOf(cs)
        /\ (\A c \in AllCoins : c # Change(p) => worth'[c] = worth[c]) /\ worth'[Change(p)] = back
    BY <1>1, <1>i, <1>m, <1>n, CoinsFinite DEF Types
  <2> HIDE DEF still, left, cs, w, back
  <2>6. SumOver(worth, still) = SumOver(worth, left) + w
    <3>1. \A c \in AllCoins : worth[c] \in Nat
      BY <2>5
    <3> QED
      BY <2>3, <2>5, <3>1, SumOfRest DEF left, w
  <2>7. SumOver(worth', left) = SumOver(worth, left)
    <3>1. IsFiniteSet(left) /\ \A c \in left : worth'[c] = worth[c]
      BY <2>3, <2>5, CoinsFinite
    <3> QED
      BY <3>1, SumOfEqual
  <2>8. SumOver(worth', Changes(mempool')) = back + SumOver(worth, Changes(mempool))
    <3>1. \A c \in AllCoins : worth'[c] \in Nat
      BY <2>5
    <3>2. SumOver(worth', Changes(mempool) \cup {Change(p)})
            = worth'[Change(p)] + SumOver(worth', Changes(mempool))
      BY <2>4, <2>5, <3>1, SumAdds
    <3>3. IsFiniteSet(Changes(mempool)) /\ \A c \in Changes(mempool) : worth'[c] = worth[c]
      BY <2>4, <2>5, CoinsFinite
    <3>4. SumOver(worth', Changes(mempool)) = SumOver(worth, Changes(mempool))
      BY <3>3, SumOfEqual
    <3> QED
      BY <2>4, <2>5, <3>2, <3>4
  <2>9. SumOver(worth, left) \in Nat /\ SumOver(worth, Changes(mempool)) \in Nat
    BY <2>3, <2>4, <2>5, WorthIsNat
  <2>10. SumOver(worth, still) + SumOver(worth, Changes(mempool)) + spent = SumOver(Worth, Coins)
    BY DEF CoinsInv, AllThere, still
  <2> DEFINE a == SumOver(worth, left)
             b == SumOver(worth, Changes(mempool))
             f == FeeOf(cs)
             v == SumOver(worth', Changes(mempool'))
  <2>11. /\ a \in Nat /\ b \in Nat /\ f \in Nat /\ w \in Nat /\ Amount \in Nat /\ spent \in Nat
         /\ v = (w - Amount - f) + b /\ spent' = spent + Amount + f
         /\ (a + w) + b + spent = SumOver(Worth, Coins)
    <3>1. back = w - Amount - f
      BY DEF back
    <3>2. f \in Nat /\ w \in Nat /\ Amount \in Nat
      BY <1>c
    <3> QED
      BY <2>5, <2>6, <2>8, <2>9, <2>10, <3>1, <3>2
  <2> HIDE DEF a, b, f, v
  <2>12. a + v + spent' = SumOver(Worth, Coins)
    BY <2>11
  <2>13. SumOver(worth', left) + v + spent' = SumOver(Worth, Coins)
    BY <2>7, <2>12 DEF a
  <2> QED
    BY <2>2, <2>13 DEF AllThere, v
<1> QED
  BY <1>1, <1>2, <1>3, <1>4, <1>5, <1>6, <1>7, <1>8 DEF CoinsInv

(* A refusal: as long as no block came, the coins are there and nobody spends
   them, so one of them is too young. *)
LEMMA StepRefused ==
  ASSUME CoinsInv, NEW p \in Payments, Send(p), ~Spendable(job[p].chosen)
  PROVE  CoinsInv'
<1> DEFINE r == [job[p] EXCEPT !.pc = "refused"]
<1>a. p \in Jobs /\ job[p] \in Records /\ job[p].pc = "send" /\ p \in Running
  BY DEF CoinsInv, Types, Records, Send, Jobs, Running
<1>1. job' = [job EXCEPT ![p] = r] /\ r \in Records
  BY <1>a DEF Send, Records, Steps
<1>2. KnowsWell(p) /\ ChosenWell(p)
  BY <1>a DEF CoinsInv, Known, ChosenOnes
<1>3. height \in Nat /\ job[p].tip \in Nat
  BY <1>a, BtcWalletAssumption DEF CoinsInv, Types, Records
<1>4. height > job[p].tip \/ Immature(job[p].chosen) # {}
  <2>1. CASE job[p].tip = height
    BY <1>a, <1>2, <2>1 DEF KnowsWell, ChosenWell, Spendable
  <2>2. CASE job[p].tip # height
    BY <1>2, <1>3, <2>2 DEF KnowsWell
  <2> QED
    BY <2>1, <2>2
<1>5. Moves(p, r)
  BY <1>a, <1>2, <1>4 DEF Moves, Ended, KnowsWell, Records
<1> QED
  BY <1>1, <1>5, <1>a, JobMoves DEF Send, CoinsInv, Types

LEMMA WalletStep == CoinsInv /\ [WalletNext]_walletVars => CoinsInv'
<1> SUFFICES ASSUME CoinsInv, [WalletNext]_walletVars PROVE CoinsInv'
  OBVIOUS
<1>1. ASSUME NEW ps \in SUBSET mempool, Mine(ps) PROVE CoinsInv'
  BY <1>1, StepMine
<1>2. ASSUME NEW j \in Jobs, StartJob(j) PROVE CoinsInv'
  BY <1>2, StepStart
<1>3. ASSUME NEW j \in Jobs, JobStep(j) PROVE CoinsInv'
  <2>1. ASSUME j \in Payments, Send(j) PROVE CoinsInv'
    BY <2>1, StepAccepted, StepRefused
  <2> QED
    BY <1>3, <2>1, StepScan, StepPoll, StepScanDone, StepSelect DEF JobStep
<1>4. ASSUME NEW j \in Jobs, CallFails(j) PROVE CoinsInv'
  BY <1>4, StepCallFails
<1>5. CASE UNCHANGED walletVars
  BY <1>5 DEF walletVars, CoinsInv, Types, OneRuns, Running, Pool, Sent, Apart, Unborn, Known, KnowsWell,
              ChosenOnes, ChosenWell, RefusedOnlyAfterBlock, Immature, AllThere, Pending, Changes
<1> QED
  BY <1>1, <1>2, <1>3, <1>4, <1>5 DEF WalletNext

LEMMA CoinsInvHolds == WalletSpec => []CoinsInv
  BY WalletStarts, WalletStep, PTL DEF WalletSpec

(* The faucet's coins and what it has paid are together what it had at the
   start, whatever blocks come between the steps of a payment and whichever
   calls fail; and the queue runs one payment at a time.  btc-faucet.ts:158-230. *)
THEOREM WalletKeepsItsCoins == WalletSpec => []WalletInv
<1>1. CoinsInv => WalletInv
  <2> SUFFICES ASSUME CoinsInv PROVE WalletInv
    OBVIOUS
  <2>1. Types /\ OneRuns /\ ChangeReturns
    BY Conversions DEF CoinsInv
  <2>2. Cardinality(Running) <= 1
    BY <2>1, RunningFinite
  <2> QED
    BY <2>1, <2>2 DEF WalletInv, WalletTypeOK, Types
<1> QED
  BY <1>1, CoinsInvHolds, PTL

(* A payment is refused only when a block came between its scan and its
   broadcast, or for a reward that is too young: never because of an earlier
   payment of the faucet.  btc-faucet.ts:142-156. *)
THEOREM RefusalNeedsBlock == WalletSpec => []RefusedOnlyAfterBlock
<1>1. CoinsInv => RefusedOnlyAfterBlock
  BY DEF CoinsInv
<1> QED
  BY <1>1, CoinsInvHolds, PTL

=============================================================================
