------------------------------- MODULE Faucet -------------------------------
(***************************************************************************)
(* The faucets (src/api/routes/faucets.ts): POST /btc and POST /stx.  Each *)
(* currency has a promise queue of its own.  A job looks up the recent     *)
(* requests of the address, refuses the request when there are too many,   *)
(* and otherwise pays and records - for STX in the other order.            *)
(*                                                                         *)
(* Time passes between any two steps of a job, any call of a job may fail, *)
(* and the process may die.  The order in which waiting requests are       *)
(* served does not matter here: the next one is any one.                   *)
(***************************************************************************)
EXTENDS Integers, SequencesExt

CONSTANTS
  Addresses,
  Limit,     \* requests served in a window: 5
  Window,    \* its length: 5 minutes
  MaxTime,   \* bound on the clock
  MaxPaid    \* bound on the payments to one address (the code has none: when
             \* the recording fails, BTC payments are not counted)

ASSUME FaucetAssumption ==
  /\ Limit \in Nat \ {0}
  /\ Window \in Nat
  /\ MaxTime \in Nat
  /\ MaxPaid \in Nat

Currencies == {"btc", "stx"}

VARIABLES
  now,       \* the clock of the server
  recorded,  \* recorded[cur][a]: the occurred_at of the rows of faucet_requests
  paid,      \* paid[cur][a]: for each payment sent, the occurred_at of its request
  running    \* running[cur]: the jobs that have started

vars == <<now, recorded, paid, running>>

-----------------------------------------------------------------------------
Then_PayFirst(cur) ==
  [query |-> "check", check |-> "pay", pay |-> "record", record |-> "answer"]

(* What a job does after each of its steps. *)
Then(cur) ==
  IF cur = "btc"
  THEN [query |-> "check", check |-> "pay", pay |-> "record", record |-> "answer"]
  ELSE [query |-> "check", check |-> "record", record |-> "pay", pay |-> "answer"]

Job == [addr : Addresses, pc : {"query", "check", "pay", "record"},
        seen : Seq(0..MaxTime), at : 0..MaxTime]

Concurrency_Two(cur) == 2

(* PQueue({ concurrency: 1 }), one for each currency. *)
Concurrency(cur) == 1

Init ==
  /\ now = 0
  /\ recorded = [cur \in Currencies |-> [a \in Addresses |-> <<>>]]
  /\ paid = [cur \in Currencies |-> [a \in Addresses |-> <<>>]]
  /\ running = [cur \in Currencies |-> <<>>]

(* A request for the address a comes to the head of its queue. *)
Start(cur, a) ==
  /\ Len(running[cur]) < Concurrency(cur)
  /\ running' = [running EXCEPT ![cur] =
                   Append(@, [addr |-> a, pc |-> "query", seen |-> <<>>, at |-> 0])]
  /\ UNCHANGED <<now, recorded, paid>>

(* The job i answers and leaves the queue. *)
Close(cur, i) == running' = [running EXCEPT ![cur] = RemoveAt(@, i)]

(* The step of the job i is done, and the job is now j: it goes on, or answers. *)
Continue(cur, i, j) ==
  IF Then(cur)[j.pc] = "answer" THEN Close(cur, i)
  ELSE running' = [running EXCEPT ![cur][i] = [j EXCEPT !.pc = Then(cur)[j.pc]]]

At(cur, i, step) == running[cur][i].pc = step

(* getBTCFaucetRequests, getSTXFaucetRequests. *)
Query(cur, i) ==
  /\ At(cur, i, "query")
  /\ LET j == running[cur][i]
     IN  Continue(cur, i, [j EXCEPT !.seen = recorded[cur][j.addr]])
  /\ UNCHANGED <<now, recorded, paid>>

InWindow_Strict(seen, t) == {k \in DOMAIN seen : t - seen[k] < Window}

(* The requests seen that fall in the window.  The query returns the latest
   Limit rows only, which makes no difference to whether there are Limit. *)
InWindow(seen, t) == {k \in DOMAIN seen : t - seen[k] <= Window}

TooMany(seen, t) == Cardinality(InWindow(seen, t)) >= Limit

(* Date.now() and the guard: 429, or go on. *)
Check(cur, i) ==
  /\ At(cur, i, "check")
  /\ LET j == running[cur][i]
     IN  IF TooMany(j.seen, now) THEN Close(cur, i)
                                 ELSE Continue(cur, i, [j EXCEPT !.at = now, !.seen = <<>>])
  /\ UNCHANGED <<now, recorded, paid>>

(* makeBtcFaucetPayment, or sendTransaction: the node accepts the payment. *)
Pay(cur, i) ==
  /\ At(cur, i, "pay")
  /\ LET j == running[cur][i]
     IN  /\ Len(paid[cur][j.addr]) < MaxPaid
         /\ paid' = [paid EXCEPT ![cur][j.addr] = Append(@, j.at)]
         /\ Continue(cur, i, j)
  /\ UNCHANGED <<now, recorded>>

(* insertFaucetRequest. *)
Record(cur, i) ==
  /\ At(cur, i, "record")
  /\ LET j == running[cur][i]
     IN  /\ recorded' = [recorded EXCEPT ![cur][j.addr] = Append(@, j.at)]
         /\ Continue(cur, i, j)
  /\ UNCHANGED <<now, paid>>

(* A call of the job rejects: 500.  A call whose effect took place but whose
   answer was lost is that call, and then a failure of the next one. *)
Fails(cur, i) ==
  /\ ~At(cur, i, "check")
  /\ Close(cur, i)
  /\ UNCHANGED <<now, recorded, paid>>

(* The process dies and starts again. *)
Crash ==
  /\ running' = [cur \in Currencies |-> <<>>]
  /\ UNCHANGED <<now, recorded, paid>>

Tick ==
  /\ now < MaxTime
  /\ now' = now + 1
  /\ UNCHANGED <<recorded, paid, running>>

Work(cur, i) == Query(cur, i) \/ Check(cur, i) \/ Pay(cur, i) \/ Record(cur, i) \/ Fails(cur, i)

Next ==
  \/ \E cur \in Currencies, a \in Addresses : Start(cur, a)
  \/ \E cur \in Currencies : \E i \in DOMAIN running[cur] : Work(cur, i)
  \/ Crash
  \/ Tick

Spec == Init /\ [][Next]_vars

-----------------------------------------------------------------------------
(* Types, and at most one job of each currency at a time.  faucets.ts:17, 64. *)
TypeOK ==
  /\ now \in 0..MaxTime
  /\ recorded \in [Currencies -> [Addresses -> Seq(0..MaxTime)]]
  /\ paid \in [Currencies -> [Addresses -> Seq(0..MaxTime)]]
  /\ running \in [Currencies -> Seq(Job)]
  /\ \A cur \in Currencies : Len(running[cur]) <= 1

(* The places of t in the sequence times. *)
Places(times, t) == {k \in DOMAIN times : times[k] = t}

(* No more than Limit of these times in any window, its two ends included. *)
WithinLimit(times) ==
  \A k \in 1..(Len(times) - Limit) : times[k + Limit] - times[k] > Window

(* Of one currency, an address is recorded at most Limit times in any window:
   between the lookup and the insert of one job no other job inserts, however
   long the payment takes.  faucets.ts:27-48, 70-105. *)
RecordedWithinLimit ==
  \A cur \in Currencies, a \in Addresses : WithinLimit(recorded[cur][a])

(* Every STX payment is on record, whatever fails: a row is there for each
   payment of the same request time, so the limit bounds what is paid.
   faucets.ts:100-109. *)
StxPaidIsRecorded ==
  \A a \in Addresses, t \in 0..MaxTime :
    Cardinality(Places(paid["stx"][a], t)) <= Cardinality(Places(recorded["stx"][a], t))

(* The rows of an address are in the order of their times, and none is later
   than now. *)
Ordered(times) ==
  /\ \A k, l \in DOMAIN times : k <= l => times[k] <= times[l]
  /\ \A k \in DOMAIN times : times[k] <= now

(* There is room for a row of time t. *)
Room(times, t) == Len(times) >= Limit => t - times[Len(times) - Limit + 1] > Window

RowsInv == \A cur \in Currencies, a \in Addresses :
  Ordered(recorded[cur][a]) /\ WithinLimit(recorded[cur][a])

(* The job has passed the check, and has not recorded its request. *)
Unrecorded(cur, j) == j.pc = "record" \/ (cur = "btc" /\ j.pc = "pay")

GoodJob(cur, j) ==
  LET rows == recorded[cur][j.addr]
  IN  /\ j.pc = "check" => j.seen = rows
      /\ Unrecorded(cur, j) => /\ j.at <= now
                               /\ \A k \in DOMAIN rows : rows[k] <= j.at
                               /\ Room(rows, j.at)

JobInv == \A cur \in Currencies : \A i \in DOMAIN running[cur] : GoodJob(cur, running[cur][i])

(* 1 for the STX job that has recorded a request of a at t and not paid it. *)
Unpaid(a, t) ==
  IF \E i \in DOMAIN running["stx"] :
       LET j == running["stx"][i] IN j.pc = "pay" /\ j.addr = a /\ j.at = t
  THEN 1 ELSE 0

Ledger == \A a \in Addresses, t \in 0..MaxTime :
  Cardinality(Places(paid["stx"][a], t)) + Unpaid(a, t)
    <= Cardinality(Places(recorded["stx"][a], t))

(* Why the two properties above hold: the rows are ordered, and while a job goes
   from its lookup to its insert they do not change, so the room it found is
   still there; and an STX job that has recorded its request and not yet paid
   is counted among the paid.  faucets.ts:17-117. *)
IInv == TypeOK /\ RowsInv /\ JobInv /\ Ledger

=============================================================================
