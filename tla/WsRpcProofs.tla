---------------------------- MODULE WsRpcProofs ----------------------------
(***************************************************************************)
(* Proofs about WsRpc, for every set of sockets, addresses and topics,     *)
(* every chain and every order of events, subscriptions, unsubscriptions   *)
(* and closing sockets, with any bound on the jobs and the identities.     *)
(*                                                                         *)
(* A balance job keeps a reference to a Set across awaits.  The argument   *)
(* that it stays good is about identities: no two topics share a Set, a    *)
(* Set that has left the map is empty and nobody adds to it again.         *)
(*                                                                         *)
(* The second part is about the other end of the socket, WsClient: what    *)
(* holds the client together is the order on the socket.                   *)
(***************************************************************************)
EXTENDS WsRpc, WsClient, ChainStoreProofs, FiniteSetTheorems, SequenceTheorems

-----------------------------------------------------------------------------
(***************************************************************************)
(* The steps as seen by the store.                                         *)
(***************************************************************************)

(* Every step of the server is a step of the store, or leaves it alone. *)
LEMMA StoreSteps == [WsNext]_<<vars, wsVars>> => [Next]_vars
  BY DEF WsNext, StoreStep, Commit, UpdateFails, EmitBlock, EmitMempoolTx, Subscribe, Unsubscribe, CloseSocket,
     ReadEvents, ReadFeesAndSend, ReadFails, Next, vars

(* What the jobs hold on to: SetsInv, and that their Sets are fresh. *)
SubsInv == WsTypeOK /\ MapFollowsClients /\ SetsInv /\ KeptSetIsFresh

(* A job between its queries is told apart from none. *)
LEMMA ReadingIsAJob ==
  ASSUME WsTypeOK, reading # NoJob
  PROVE  /\ reading.addr \in Addresses /\ reading.set \in SetIds /\ reading.owed \subseteq Clients
         /\ reading.credits \subseteq Blocks
  BY DEF WsTypeOK

(* The type of a job, waiting or between its queries. *)
LEMMA KeptTypes ==
  ASSUME WsTypeOK, NEW j \in KeptJobs
  PROVE  j.addr \in Addresses /\ j.set \in SetIds /\ j.owed \subseteq Clients
<1>1. CASE reading # NoJob /\ j = reading
  BY <1>1, ReadingIsAJob
<1>2. ASSUME NEW i \in DOMAIN jobs, j = jobs[i]
      PROVE  j.addr \in Addresses /\ j.set \in SetIds /\ j.owed \subseteq Clients
  <2>1. j \in Job
    BY <1>2 DEF WsTypeOK
  <2> QED
    BY <2>1 DEF Job
<1> QED
  BY <1>1, <1>2 DEF KeptJobs

-----------------------------------------------------------------------------
(***************************************************************************)
(* Subscribing.                                                            *)
(***************************************************************************)

(* A new Set is in nobody's hands. *)
LEMMA FreshIsFresh ==
  ASSUME SetIds \ LiveSets # {}
  PROVE  /\ FreshSet \in SetIds
         /\ \A p \in Topics : current[p] # FreshSet
         /\ \A j \in KeptJobs : j.set # FreshSet
<1>1. FreshSet \in SetIds /\ FreshSet \notin LiveSets
  BY DEF FreshSet
<1> QED
  BY <1>1 DEF LiveSets

(* A subscription, with the topic in the map or not. *)
LEMMA SubscribeKeeps ==
  ASSUME SubsInv, NEW c \in Clients, NEW p \in Topics, Subscribe(c, p), TypeOK'
  PROVE  SubsInv'
<1>1. KeptJobs' = KeptJobs /\ wants' = wants \cup {<<c, p>>} /\ c \in open
  BY DEF Subscribe, KeptJobs
<1>2. /\ Wanting(p)' = Wanting(p) \cup {c}
      /\ \A q \in Topics \ {p} : Wanting(q)' = Wanting(q)
  BY <1>1 DEF Wanting
<1>3. /\ \A w \in wants' : w[2] \in listeners'[w[1]]
      /\ listeners' \in [Clients -> SUBSET Topics]
      /\ wants' \subseteq open' \X Topics
  BY <1>1 DEF Subscribe, AddSubscription, SubsInv, SetsInv, WsTypeOK
<1>4. CASE current[p] = NoSet
  <2>1. /\ FreshSet \in SetIds /\ FreshSet # NoSet
        /\ \A q \in Topics : current[q] # FreshSet
        /\ \A j \in KeptJobs : j.set # FreshSet
    BY <1>4, FreshIsFresh, WsRpcAssumption DEF Subscribe, AddSubscription
  <2> DEFINE f == FreshSet
  <2> HIDE DEF f
  <2>2. /\ current' = [current EXCEPT ![p] = f]
        /\ members' = [members EXCEPT ![f] = {c}]
    BY <1>4 DEF Subscribe, AddSubscription, f
  <2>3. /\ current' \in [Topics -> SetIds \cup {NoSet}] /\ members' \in [SetIds -> SUBSET Clients]
    BY <2>1, <2>2 DEF SubsInv, WsTypeOK, f
  <2>4. Wanting(p) = {}
    BY <1>4 DEF SubsInv, MapFollowsClients
  <2>5. WsTypeOK'
    BY <1>3, <2>3 DEF SubsInv, WsTypeOK, Subscribe
  <2>6. MapFollowsClients'
    <3> SUFFICES ASSUME NEW q \in Topics
                 PROVE  IF Wanting(q)' = {} THEN current'[q] = NoSet
                        ELSE current'[q] # NoSet /\ members'[current'[q]] = Wanting(q)'
      BY DEF MapFollowsClients
    <3>1. CASE q = p
      BY <1>2, <2>1, <2>2, <2>3, <2>4, <3>1 DEF SubsInv, WsTypeOK, f
    <3>2. CASE q # p
      <4>1. current'[q] = current[q] /\ (current[q] # NoSet => members'[current[q]] = members[current[q]])
        BY <2>1, <2>2, <3>2 DEF SubsInv, WsTypeOK, f
      <4> QED
        BY <1>2, <3>2, <4>1 DEF SubsInv, MapFollowsClients
    <3> QED
      BY <3>1, <3>2
  <2>7. ASSUME NEW j \in KeptJobs
        PROVE  /\ j.set # f /\ j.set \in SetIds /\ members'[j.set] = members[j.set]
               /\ BalanceTopic(j.addr) \in Topics
               /\ BalanceTopic(j.addr) = p => members[j.set] = {} /\ current'[p] # j.set
               /\ \A q \in Topics \ {p} : current'[q] = current[q]
    BY <1>4, <2>1, <2>2, <2>7, KeptTypes, WsRpcAssumption DEF SubsInv, SetsInv, WsTypeOK, f
  <2>8. SetsInv'
    <3>1. \A q, r \in Topics : current'[q] = current'[r] /\ current'[q] # NoSet => q = r
      BY <2>1, <2>2 DEF SubsInv, SetsInv, WsTypeOK, f
    <3>2. ASSUME NEW j \in KeptJobs, NEW q \in Topics, current'[q] = j.set
          PROVE  q = BalanceTopic(j.addr)
      BY <2>1, <2>2, <2>7, <3>2 DEF SubsInv, SetsInv, WsTypeOK, f
    <3>3. ASSUME NEW j \in KeptJobs
          PROVE  current'[BalanceTopic(j.addr)] = j.set \/ members'[j.set] = {}
      BY <2>7, <3>3 DEF SubsInv, SetsInv
    <3> QED
      BY <1>1, <1>3, <2>7, <3>1, <3>2, <3>3 DEF SetsInv
  <2>9. KeptSetIsFresh'
    BY <1>1, <1>2, <2>7 DEF SubsInv, KeptSetIsFresh
  <2> QED
    BY <2>5, <2>6, <2>8, <2>9 DEF SubsInv
<1>5. CASE current[p] # NoSet
  <2>1. /\ current' = current /\ current[p] \in SetIds
        /\ members' = [members EXCEPT ![current[p]] = @ \cup {c}]
    BY <1>5 DEF Subscribe, AddSubscription, SubsInv, WsTypeOK
  <2>2. members' \in [SetIds -> SUBSET Clients]
    BY <2>1 DEF SubsInv, WsTypeOK
  <2>3. WsTypeOK'
    BY <1>3, <2>1, <2>2 DEF SubsInv, WsTypeOK, Subscribe
  <2>4. /\ members[current[p]] = Wanting(p) /\ Wanting(p) # {}
        /\ members'[current[p]] = Wanting(p) \cup {c}
        /\ \A s \in SetIds \ {current[p]} : members'[s] = members[s]
    BY <1>5, <2>1 DEF SubsInv, MapFollowsClients, WsTypeOK
  <2>5. MapFollowsClients'
    <3> SUFFICES ASSUME NEW q \in Topics
                 PROVE  IF Wanting(q)' = {} THEN current[q] = NoSet
                        ELSE current[q] # NoSet /\ members'[current[q]] = Wanting(q)'
      BY <2>1 DEF MapFollowsClients
    <3>1. CASE q = p
      BY <1>2, <1>5, <2>4, <3>1
    <3>2. CASE q # p
      <4>1. current[q] # NoSet => current[q] \in SetIds \ {current[p]}
        BY <1>5, <3>2 DEF SubsInv, SetsInv, WsTypeOK
      <4> QED
        BY <1>2, <2>4, <3>2, <4>1 DEF SubsInv, MapFollowsClients
    <3> QED
      BY <3>1, <3>2
  <2>6. ASSUME NEW j \in KeptJobs
        PROVE  /\ j.set \in SetIds /\ BalanceTopic(j.addr) \in Topics
               /\ \/ j.set = current[p] /\ BalanceTopic(j.addr) = p
                  \/ j.set # current[p] /\ members'[j.set] = members[j.set]
    BY <2>4, <2>6, KeptTypes DEF SubsInv, SetsInv
  <2>7. SetsInv'
    BY <1>1, <1>3, <2>1, <2>6 DEF SubsInv, SetsInv
  <2>8. KeptSetIsFresh'
    <3> SUFFICES ASSUME NEW j \in KeptJobs
                 PROVE  /\ members'[j.set] \subseteq Wanting(BalanceTopic(j.addr))'
                        /\ j.owed \subseteq members'[j.set]
      BY <1>1 DEF KeptSetIsFresh
    <3>1. /\ members[j.set] \subseteq Wanting(BalanceTopic(j.addr)) /\ j.owed \subseteq members[j.set]
      BY DEF SubsInv, KeptSetIsFresh
    <3> QED
      BY <1>2, <2>4, <2>6, <3>1
  <2> QED
    BY <2>3, <2>5, <2>7, <2>8 DEF SubsInv
<1> QED
  BY <1>4, <1>5

-----------------------------------------------------------------------------
(***************************************************************************)
(* Unsubscribing and closing.                                              *)
(***************************************************************************)

(* Forgiving takes a socket from what the jobs owe, and changes nothing else of
   them. *)
LEMMA ForgiveKeeps ==
  ASSUME WsTypeOK, NEW c \in Clients, NEW ps, Forgive(c, ps)
  PROVE  /\ jobs' \in Seq(Job) /\ Len(jobs') = Len(jobs)
         /\ reading' = NoJob \/ reading' \in [addr : Addresses, set : SetIds, owed : SUBSET Clients,
                                              credits : SUBSET Blocks]
         /\ \A k \in KeptJobs' : \E j \in KeptJobs :
              /\ k.addr = j.addr /\ k.set = j.set /\ k.owed \subseteq j.owed
              /\ BalanceTopic(j.addr) \in ps => c \notin k.owed
<1> DEFINE without(j) == IF BalanceTopic(j.addr) \in ps THEN [j EXCEPT !.owed = @ \ {c}] ELSE j
<1>1. /\ jobs' = [i \in DOMAIN jobs |-> without(jobs[i])]
      /\ reading' = IF reading = NoJob THEN NoJob ELSE without(reading)
  BY DEF Forgive
<1>2. ASSUME NEW j \in Job
      PROVE  /\ without(j) \in Job /\ without(j).addr = j.addr /\ without(j).set = j.set
             /\ without(j).owed \subseteq j.owed /\ (BalanceTopic(j.addr) \in ps => c \notin without(j).owed)
  BY DEF Job
<1>3. ASSUME NEW j \in [addr : Addresses, set : SetIds, owed : SUBSET Clients, credits : SUBSET Blocks]
      PROVE  /\ without(j) \in [addr : Addresses, set : SetIds, owed : SUBSET Clients, credits : SUBSET Blocks]
             /\ without(j).addr = j.addr /\ without(j).set = j.set
             /\ without(j).owed \subseteq j.owed /\ (BalanceTopic(j.addr) \in ps => c \notin without(j).owed)
  OBVIOUS
<1>4. /\ jobs \in Seq(Job)
      /\ reading = NoJob \/ reading \in [addr : Addresses, set : SetIds, owed : SUBSET Clients,
                                         credits : SUBSET Blocks]
  BY DEF WsTypeOK
<1> HIDE DEF without
<1>5. /\ jobs' \in Seq(Job) /\ Len(jobs') = Len(jobs) /\ DOMAIN jobs' = DOMAIN jobs
      /\ \A i \in DOMAIN jobs : jobs[i] \in Job /\ jobs'[i] = without(jobs[i])
  BY <1>1, <1>2, <1>4
<1>6. ASSUME NEW k \in KeptJobs'
      PROVE  \E j \in KeptJobs : k = without(j) /\
               (j \in Job \/ j \in [addr : Addresses, set : SetIds, owed : SUBSET Clients, credits : SUBSET Blocks])
  <2>1. CASE \E i \in DOMAIN jobs' : k = jobs'[i]
    BY <1>5, <2>1 DEF KeptJobs
  <2>2. CASE reading # NoJob /\ k = reading'
    BY <1>1, <1>4, <2>2 DEF KeptJobs
  <2> QED
    BY <1>1, <2>1, <2>2 DEF KeptJobs
<1>7. reading' = NoJob \/ reading' \in [addr : Addresses, set : SetIds, owed : SUBSET Clients,
                                       credits : SUBSET Blocks]
  BY <1>1, <1>3, <1>4
<1>8. ASSUME NEW k \in KeptJobs'
      PROVE  \E j \in KeptJobs :
               /\ k.addr = j.addr /\ k.set = j.set /\ k.owed \subseteq j.owed
               /\ BalanceTopic(j.addr) \in ps => c \notin k.owed
  BY <1>2, <1>3, <1>6
<1> QED
  BY <1>5, <1>7, <1>8

(* A socket leaves the topics ps: the other subscribers stay where they were, in
   the map and in the Sets the jobs have kept. *)
LEMMA RemoveKeeps ==
  ASSUME SubsInv, NEW c \in Clients, NEW ps \in SUBSET Topics, NEW forgiven,
         RemoveSubscriptions(c, ps), Forgive(c, forgiven), ps \subseteq forgiven,
         wants' = {w \in wants : ~(w[1] = c /\ w[2] \in ps)},
         \A w \in wants' : w[2] \in listeners'[w[1]]
  PROVE  /\ current' \in [Topics -> SetIds \cup {NoSet}]
         /\ members' \in [SetIds -> SUBSET Clients]
         /\ MapFollowsClients' /\ SetsInv' /\ KeptSetIsFresh'
<1>1. /\ current \in [Topics -> SetIds \cup {NoSet}] /\ members \in [SetIds -> SUBSET Clients]
      /\ wants \subseteq Clients \X Topics
  BY DEF SubsInv, WsTypeOK
<1>2. ASSUME NEW q \in Topics
      PROVE  Wanting(q)' = IF q \in ps THEN Wanting(q) \ {c} ELSE Wanting(q)
  BY DEF Wanting
<1>3. ASSUME NEW s \in SetIds
      PROVE  members'[s] = IF \E p \in ps : current[p] = s THEN members[s] \ {c} ELSE members[s]
  BY DEF RemoveSubscriptions
<1>4. ASSUME NEW q \in Topics
      PROVE  current'[q] = IF q \in ps /\ current[q] # NoSet /\ members'[current[q]] = {}
                           THEN NoSet ELSE current[q]
  BY DEF RemoveSubscriptions
<1>5. /\ current' \in [Topics -> SetIds \cup {NoSet}] /\ members' \in [SetIds -> SUBSET Clients]
  BY <1>1 DEF RemoveSubscriptions
<1>6. ASSUME NEW q \in Topics, current[q] # NoSet
      PROVE  /\ current[q] \in SetIds /\ members[current[q]] = Wanting(q) /\ Wanting(q) # {}
             /\ members'[current[q]] = Wanting(q)'
  <2>1. current[q] \in SetIds /\ members[current[q]] = Wanting(q) /\ Wanting(q) # {}
    BY <1>1, <1>6 DEF SubsInv, MapFollowsClients
  <2>2. (\E p \in ps : current[p] = current[q]) <=> q \in ps
    BY <1>6 DEF SubsInv, SetsInv
  <2> QED
    BY <1>2, <1>3, <2>1, <2>2
<1>7. MapFollowsClients'
  <2> SUFFICES ASSUME NEW q \in Topics
               PROVE  IF Wanting(q)' = {} THEN current'[q] = NoSet
                      ELSE current'[q] # NoSet /\ members'[current'[q]] = Wanting(q)'
    BY DEF MapFollowsClients
  <2>1. CASE current[q] = NoSet
    <3>1. Wanting(q) = {}
      BY <2>1 DEF SubsInv, MapFollowsClients
    <3> QED
      BY <1>2, <1>4, <2>1, <3>1
  <2>2. CASE current[q] # NoSet
    BY <1>2, <1>4, <1>6, <2>2
  <2> QED
    BY <2>1, <2>2
<1>8. ASSUME NEW k \in KeptJobs'
      PROVE  /\ BalanceTopic(k.addr) \in Topics
             /\ \A q \in Topics : current'[q] = k.set => q = BalanceTopic(k.addr)
             /\ current'[BalanceTopic(k.addr)] = k.set \/ members'[k.set] = {}
             /\ members'[k.set] \subseteq Wanting(BalanceTopic(k.addr))'
             /\ k.owed \subseteq members'[k.set]
  <2>1. PICK j \in KeptJobs :
          /\ k.addr = j.addr /\ k.set = j.set /\ k.owed \subseteq j.owed
          /\ BalanceTopic(j.addr) \in forgiven => c \notin k.owed
    BY <1>8, ForgiveKeeps DEF SubsInv
  <2> DEFINE p == BalanceTopic(j.addr)
  <2>2. /\ p \in Topics /\ j.set \in SetIds
        /\ \A q \in Topics : current[q] = j.set => q = p
        /\ current[p] = j.set \/ members[j.set] = {}
        /\ members[j.set] \subseteq Wanting(p) /\ j.owed \subseteq members[j.set]
    BY KeptTypes DEF SubsInv, SetsInv, KeptSetIsFresh
  <2>3. j.set # NoSet
    BY <2>2, WsRpcAssumption
  <2> HIDE DEF p
  <2>4. \A q \in Topics : current'[q] = j.set => q = p
    BY <1>4, <2>2, <2>3
  <2>5. CASE current[p] = j.set
    <3>1. members'[j.set] = Wanting(p)' /\ members[j.set] = Wanting(p)
      BY <1>6, <2>2, <2>3, <2>5
    <3>2. current'[p] = j.set \/ members'[j.set] = {}
      BY <1>4, <2>2, <2>5
    <3>3. k.owed \subseteq members'[j.set]
      BY <1>2, <2>1, <2>2, <3>1 DEF p
    <3> QED
      BY <2>1, <2>2, <2>4, <3>1, <3>2, <3>3 DEF p
  <2>6. CASE members[j.set] = {}
    <3>1. members'[j.set] = {} /\ k.owed = {}
      BY <1>3, <2>1, <2>2, <2>6
    <3> QED
      BY <2>1, <2>2, <2>4, <3>1 DEF p
  <2> QED
    BY <2>2, <2>5, <2>6
<1>9. ASSUME NEW q \in Topics, NEW r \in Topics, current'[q] = current'[r], current'[q] # NoSet
      PROVE  q = r
  BY <1>4, <1>9 DEF SubsInv, SetsInv
<1> QED
  BY <1>5, <1>7, <1>8, <1>9 DEF SetsInv, KeptSetIsFresh

(* unsubscribe. *)
LEMMA UnsubscribeKeeps ==
  ASSUME SubsInv, NEW c \in Clients, NEW p \in Topics, Unsubscribe(c, p), TypeOK'
  PROVE  SubsInv'
<1>1. /\ RemoveSubscriptions(c, {p}) /\ Forgive(c, {p}) /\ UNCHANGED <<open, listeners>>
      /\ wants' = wants \ {<<c, p>>}
  BY DEF Unsubscribe
<1>2. wants' = {w \in wants : ~(w[1] = c /\ w[2] \in {p})}
  BY <1>1 DEF SubsInv, WsTypeOK
<1>3. \A w \in wants' : w[2] \in listeners'[w[1]]
  BY <1>1 DEF SubsInv, SetsInv
<1>4. WsTypeOK
  BY DEF SubsInv
<1>5. /\ current' \in [Topics -> SetIds \cup {NoSet}]
      /\ members' \in [SetIds -> SUBSET Clients]
      /\ MapFollowsClients' /\ SetsInv' /\ KeptSetIsFresh'
  BY <1>1, <1>2, <1>3, RemoveKeeps
<1>6. WsTypeOK'
  BY <1>1, <1>4, <1>5, ForgiveKeeps DEF WsTypeOK
<1> QED
  BY <1>5, <1>6 DEF SubsInv

(* The socket closes. *)
LEMMA CloseKeeps ==
  ASSUME SubsInv, NEW c \in Clients, CloseSocket(c), TypeOK'
  PROVE  SubsInv'
<1>1. /\ RemoveSubscriptions(c, listeners[c]) /\ Forgive(c, Topics)
      /\ open' = open \ {c} /\ wants' = {w \in wants : w[1] # c}
      /\ listeners' = [listeners EXCEPT ![c] = {}]
  BY DEF CloseSocket
<1>2. WsTypeOK /\ listeners[c] \in SUBSET Topics
  BY DEF SubsInv, WsTypeOK
<1>3. wants' = {w \in wants : ~(w[1] = c /\ w[2] \in listeners[c])}
  BY <1>1 DEF SubsInv, SetsInv
<1>4. \A w \in wants' : w[2] \in listeners'[w[1]]
  BY <1>1, <1>2 DEF SubsInv, SetsInv, WsTypeOK
<1>5. /\ current' \in [Topics -> SetIds \cup {NoSet}]
      /\ members' \in [SetIds -> SUBSET Clients]
      /\ MapFollowsClients' /\ SetsInv' /\ KeptSetIsFresh'
  BY <1>1, <1>2, <1>3, <1>4, RemoveKeeps
<1>6. wants' \subseteq open' \X Topics
  BY <1>1, <1>2 DEF WsTypeOK
<1>7. WsTypeOK'
  BY <1>1, <1>2, <1>5, <1>6, ForgiveKeeps DEF WsTypeOK
<1> QED
  BY <1>5, <1>7 DEF SubsInv

-----------------------------------------------------------------------------
(***************************************************************************)
(* Events and balance jobs.                                                *)
(***************************************************************************)

(* While the sockets and the topics stay as they are, it is enough that each job
   is one there was, or has kept the Set of its topic just now. *)
LEMMA JobsKeep ==
  ASSUME SubsInv, TypeOK', UNCHANGED <<open, wants, current, members, listeners>>,
         jobs' \in Seq(Job), Len(jobs') <= MaxJobs + Cardinality(Addresses),
         reading' = NoJob \/ reading' \in [addr : Addresses, set : SetIds, owed : SUBSET Clients,
                                          credits : SUBSET Blocks],
         \A k \in KeptJobs' :
           \/ \E j \in KeptJobs : k.addr = j.addr /\ k.set = j.set /\ k.owed = j.owed
           \/ /\ BalanceTopic(k.addr) \in Topics /\ k.set # NoSet
              /\ k.set = current[BalanceTopic(k.addr)] /\ k.owed = Wanting(BalanceTopic(k.addr))
  PROVE  SubsInv'
<1>1. WsTypeOK' /\ MapFollowsClients'
  BY DEF SubsInv, WsTypeOK, MapFollowsClients, Wanting
<1>2. \A q \in Topics : Wanting(q)' = Wanting(q)
  BY DEF Wanting
<1>3. ASSUME NEW k \in KeptJobs'
      PROVE  /\ BalanceTopic(k.addr) \in Topics
             /\ \A q \in Topics : current[q] = k.set => q = BalanceTopic(k.addr)
             /\ current[BalanceTopic(k.addr)] = k.set \/ members[k.set] = {}
             /\ members[k.set] \subseteq Wanting(BalanceTopic(k.addr))
             /\ k.owed \subseteq members[k.set]
  <2>1. CASE \E j \in KeptJobs : k.addr = j.addr /\ k.set = j.set /\ k.owed = j.owed
    <3>1. PICK j \in KeptJobs : k.addr = j.addr /\ k.set = j.set /\ k.owed = j.owed
      BY <2>1
    <3>2. /\ BalanceTopic(j.addr) \in Topics
          /\ \A q \in Topics : current[q] = j.set => q = BalanceTopic(j.addr)
          /\ current[BalanceTopic(j.addr)] = j.set \/ members[j.set] = {}
          /\ members[j.set] \subseteq Wanting(BalanceTopic(j.addr))
          /\ j.owed \subseteq members[j.set]
      BY DEF SubsInv, SetsInv, KeptSetIsFresh
    <3> QED
      BY <3>1, <3>2
  <2>2. CASE /\ BalanceTopic(k.addr) \in Topics /\ k.set # NoSet
             /\ k.set = current[BalanceTopic(k.addr)] /\ k.owed = Wanting(BalanceTopic(k.addr))
    <3> DEFINE p == BalanceTopic(k.addr)
    <3>1. members[current[p]] = Wanting(p)
      BY <2>2 DEF SubsInv, MapFollowsClients
    <3>2. \A q \in Topics : current[q] = k.set => q = p
      BY <2>2 DEF SubsInv, SetsInv
    <3> QED
      BY <2>2, <3>1, <3>2
  <2> QED
    BY <1>3, <2>1, <2>2
<1>4. SetsInv'
  BY <1>3 DEF SubsInv, SetsInv
<1>5. KeptSetIsFresh'
  BY <1>2, <1>3 DEF KeptSetIsFresh
<1> QED
  BY <1>1, <1>4, <1>5 DEF SubsInv

(* A block is announced: a job for each address with subscribers. *)
LEMMA EmitBlockKeeps ==
  ASSUME SubsInv, EmitBlock, TypeOK'
  PROVE  SubsInv'
<1> DEFINE as == Subscribed(AddressesOf[txn.block])
<1>1. /\ UNCHANGED <<open, wants, current, members, listeners, reading>>
      /\ Len(jobs) < MaxJobs /\ Queue(as)
  BY DEF EmitBlock, EnqueueJobs
<1>2. AddressesOf[txn.block] \subseteq Addresses
  BY WsRpcAssumption DEF EmitBlock, EmitUpdate, SubsInv, WsTypeOK, TypeOK, Txn, NoTxn
<1>3. /\ as \subseteq Addresses
      /\ \A a \in as : BalanceTopic(a) \in Topics /\ current[BalanceTopic(a)] # NoSet
  BY <1>2 DEF Subscribed
<1> DEFINE n == Cardinality(as)
<1>4. n \in Nat /\ Cardinality(Addresses) \in Nat /\ n <= Cardinality(Addresses)
  BY <1>3, WsRpcAssumption, FS_Subset, FS_CardinalityType
<1> HIDE DEF as, n
<1>5. PICK order \in [1..n -> as] : jobs' = jobs \o [i \in DOMAIN order |-> JobFor(order[i])]
  BY <1>1 DEF Queue, n
<1> DEFINE new == [i \in DOMAIN order |-> JobFor(order[i])]
<1>6. ASSUME NEW a \in as PROVE JobFor(a) \in Job
  <2>1. a \in Addresses /\ BalanceTopic(a) \in Topics /\ current[BalanceTopic(a)] # NoSet
    BY <1>3
  <2>2. current[BalanceTopic(a)] \in SetIds
    BY <2>1 DEF SubsInv, WsTypeOK
  <2>3. Wanting(BalanceTopic(a)) \subseteq Clients
    BY DEF Wanting
  <2> QED
    BY <2>1, <2>2, <2>3 DEF JobFor, Job
<1>7. /\ new \in Seq(Job) /\ Len(new) = n /\ DOMAIN new = 1..n
      /\ \A i \in 1..n : new[i] = JobFor(order[i]) /\ order[i] \in as
  <2>1. DOMAIN order = 1..n /\ \A i \in 1..n : order[i] \in as
    OBVIOUS
  <2>2. new \in [1..n -> Job] /\ \A i \in 1..n : new[i] = JobFor(order[i])
    BY <1>6, <2>1
  <2> HIDE DEF new
  <2>3. new \in Seq(Job) /\ Len(new) = n /\ DOMAIN new = 1..n
    BY <1>4, <2>2
  <2> QED
    BY <2>1, <2>2, <2>3
<1> HIDE DEF new
<1>8. jobs \in Seq(Job) /\ jobs' = jobs \o new
  BY <1>5 DEF SubsInv, WsTypeOK, new
<1>9. /\ jobs' \in Seq(Job) /\ Len(jobs') = Len(jobs) + n
      /\ \A i \in DOMAIN jobs' : (\E m \in DOMAIN jobs : jobs'[i] = jobs[m])
                                 \/ (\E a \in as : jobs'[i] = JobFor(a))
  <2>1. /\ jobs \o new \in Seq(Job) /\ Len(jobs \o new) = Len(jobs) + Len(new)
        /\ \A i \in 1..Len(jobs) + Len(new) :
             (jobs \o new)[i] = IF i <= Len(jobs) THEN jobs[i] ELSE new[i - Len(jobs)]
    BY <1>7, <1>8, ConcatProperties
  <2>2. jobs' \in Seq(Job) /\ Len(jobs') = Len(jobs) + n /\ DOMAIN jobs' = 1..Len(jobs) + n
    BY <1>7, <1>8, <2>1
  <2>3. ASSUME NEW i \in 1..Len(jobs) + n
        PROVE  (\E m \in DOMAIN jobs : jobs'[i] = jobs[m]) \/ (\E a \in as : jobs'[i] = JobFor(a))
    <3>1. Len(jobs) \in Nat /\ DOMAIN jobs = 1..Len(jobs)
      BY <1>8
    <3>2. CASE i <= Len(jobs)
      <4>1. i \in DOMAIN jobs
        BY <1>4, <3>1, <3>2
      <4>2. jobs'[i] = jobs[i]
        BY <1>7, <1>8, <2>1, <3>2
      <4> QED
        BY <4>1, <4>2
    <3>3. CASE i > Len(jobs)
      <4>1. i - Len(jobs) \in 1..n /\ jobs'[i] = new[i - Len(jobs)]
        BY <1>4, <1>7, <1>8, <2>1, <3>1, <3>3
      <4> QED
        BY <1>7, <4>1
    <3>4. i <= Len(jobs) \/ i > Len(jobs)
      BY <1>4, <3>1
    <3> QED
      BY <3>2, <3>3, <3>4
  <2> QED
    BY <2>2, <2>3
<1>10. Len(jobs') <= MaxJobs + Cardinality(Addresses)
  BY <1>1, <1>4, <1>8, <1>9, WsRpcAssumption
<1>11. ASSUME NEW k \in KeptJobs'
       PROVE  \/ \E j \in KeptJobs : k.addr = j.addr /\ k.set = j.set /\ k.owed = j.owed
              \/ /\ BalanceTopic(k.addr) \in Topics /\ k.set # NoSet
                 /\ k.set = current[BalanceTopic(k.addr)] /\ k.owed = Wanting(BalanceTopic(k.addr))
  <2>1. k \in KeptJobs \/ \E a \in as : k = JobFor(a)
    BY <1>1, <1>9 DEF KeptJobs
  <2>2. ASSUME NEW a \in as, k = JobFor(a)
        PROVE  /\ k.addr = a /\ k.set = current[BalanceTopic(a)] /\ k.owed = Wanting(BalanceTopic(a))
               /\ BalanceTopic(a) \in Topics /\ current[BalanceTopic(a)] # NoSet
    BY <1>3, <2>2 DEF JobFor
  <2>3. CASE k \in KeptJobs
    BY <2>3
  <2>4. CASE \E a \in as : k = JobFor(a)
    BY <2>2, <2>4
  <2> QED
    BY <2>1, <2>3, <2>4
<1>12. reading' = NoJob \/ reading' \in [addr : Addresses, set : SetIds, owed : SUBSET Clients,
                                        credits : SUBSET Blocks]
  BY <1>1 DEF SubsInv, WsTypeOK
<1> QED
  BY <1>1, <1>9, <1>10, <1>11, <1>12, JobsKeep

(* The first query of a balance job. *)
LEMMA ReadEventsKeeps ==
  ASSUME SubsInv, ReadEvents, TypeOK'
  PROVE  SubsInv'
<1>1. /\ jobs \in Seq(Job) /\ jobs # <<>> /\ jobs' = Tail(jobs)
      /\ Len(jobs) <= MaxJobs + Cardinality(Addresses)
      /\ UNCHANGED <<open, wants, current, members, listeners>>
  BY DEF ReadEvents, SubsInv, WsTypeOK
<1>2. Head(jobs) \in Job /\ Head(jobs) = jobs[1] /\ 1 \in DOMAIN jobs
  BY <1>1
<1>3. /\ reading' \in [addr : Addresses, set : SetIds, owed : SUBSET Clients, credits : SUBSET Blocks]
      /\ reading'.addr = jobs[1].addr /\ reading'.set = jobs[1].set /\ reading'.owed = jobs[1].owed
  <2>1. Counted("stx_events", Head(jobs).addr) \subseteq Blocks
    BY DEF Counted, SubsInv, WsTypeOK, TypeOK, Image, EntityTables
  <2> QED
    BY <1>2, <2>1 DEF ReadEvents, Job
<1>4. /\ jobs' \in Seq(Job) /\ \A i \in DOMAIN jobs' : i + 1 \in DOMAIN jobs /\ jobs'[i] = jobs[i + 1]
  BY <1>1
<1>5. Len(jobs') <= MaxJobs + Cardinality(Addresses)
  <2>1. Cardinality(Addresses) \in Nat
    BY WsRpcAssumption, FS_CardinalityType
  <2> QED
    BY <1>1, <2>1, WsRpcAssumption
<1>6. \A k \in KeptJobs' : \E j \in KeptJobs : k.addr = j.addr /\ k.set = j.set /\ k.owed = j.owed
  BY <1>2, <1>3, <1>4 DEF KeptJobs
<1> QED
  BY <1>1, <1>3, <1>4, <1>5, <1>6, JobsKeep

(* The second query, and a query that fails. *)
LEMMA ReadEndsKeeps ==
  ASSUME SubsInv, ReadFeesAndSend \/ ReadFails, TypeOK'
  PROVE  SubsInv'
<1>1. UNCHANGED <<open, wants, current, members, listeners, jobs>> /\ reading' = NoJob
  BY DEF ReadFeesAndSend, ReadFails
<1>2. KeptJobs' \subseteq KeptJobs
  BY <1>1 DEF KeptJobs
<1> QED
  BY <1>1, <1>2, JobsKeep DEF SubsInv, WsTypeOK

(* Every step keeps the subscriptions in order. *)
LEMMA SubsStep == SubsInv /\ [WsNext]_<<vars, wsVars>> => SubsInv'
<1> SUFFICES ASSUME SubsInv, [WsNext]_<<vars, wsVars>> PROVE SubsInv'
  OBVIOUS
<1>1. TypeOK'
  BY StoreSteps, TypeStep DEF SubsInv, WsTypeOK
<1>2. ASSUME UNCHANGED <<open, wants, current, members, listeners, jobs, reading>> PROVE SubsInv'
  <2>1. KeptJobs' = KeptJobs
    BY <1>2 DEF KeptJobs
  <2> QED
    BY <1>1, <1>2, <2>1, JobsKeep DEF SubsInv, WsTypeOK
<1>3. CASE \/ StoreStep /\ UNCHANGED wsVars
           \/ Commit
           \/ \E t \in Txs : EmitMempoolTx(t)
           \/ UNCHANGED <<vars, wsVars>>
  BY <1>2, <1>3 DEF wsVars, Commit, EmitMempoolTx
<1>4. ASSUME NEW w \in Asks, Subscribe(w[1], w[2]) \/ Unsubscribe(w[1], w[2]) PROVE SubsInv'
  BY <1>1, <1>4, SubscribeKeeps, UnsubscribeKeeps, WsRpcAssumption
<1>5. ASSUME NEW c \in Clients, CloseSocket(c) PROVE SubsInv'
  BY <1>1, <1>5, CloseKeeps
<1>6. CASE EmitBlock
  BY <1>1, <1>6, EmitBlockKeeps
<1>7. CASE ReadEvents
  BY <1>1, <1>7, ReadEventsKeeps
<1>8. CASE ReadFeesAndSend \/ ReadFails
  BY <1>1, <1>8, ReadEndsKeeps
<1> QED
  BY <1>3, <1>4, <1>5, <1>6, <1>7, <1>8 DEF WsNext

(* At the start nobody is connected and nothing is queued. *)
LEMMA SubsInit == WsInit => SubsInv
<1> SUFFICES ASSUME WsInit PROVE SubsInv
  OBVIOUS
<1>1. TypeOK
  BY InitIInv DEF WsInit, IInv
<1>2. KeptJobs = {} /\ \A p : Wanting(p) = {}
  BY DEF WsInit, KeptJobs, Wanting
<1>3. WsTypeOK
  <2>1. Cardinality(Addresses) \in Nat
    BY WsRpcAssumption, FS_CardinalityType
  <2> QED
    BY <1>1, <2>1, WsRpcAssumption DEF WsInit, WsTypeOK
<1> QED
  BY <1>2, <1>3 DEF WsInit, SubsInv, MapFollowsClients, SetsInv, KeptSetIsFresh

(* The invariant of the subscriptions holds in every reachable state. *)
LEMMA SubsInvariance == WsSpec => []SubsInv
  BY SubsInit, SubsStep, PTL DEF WsSpec

(* Whatever the order of events, subscriptions and closing sockets: the map of
   topics holds exactly the open sockets that were told they are subscribed. *)
THEOREM SubscriptionsAreKept == WsSpec => []SubscriptionInv
<1>1. SubsInv => SubscriptionInv
  BY DEF SubsInv, SubscriptionInv
<1> QED
  BY <1>1, SubsInvariance, PTL

(* And the Set that a balance job has kept across its awaits names exactly whom
   it should: nobody who has left, everybody who was there and stayed. *)
THEOREM KeptSetsAreFresh == WsSpec => []KeptSetIsFresh
<1>1. SubsInv => KeptSetIsFresh
  BY DEF SubsInv
<1> QED
  BY <1>1, SubsInvariance, PTL

-----------------------------------------------------------------------------
(***************************************************************************)
(* What subscribers were told.                                             *)
(*                                                                         *)
(* A balance that has changed since a subscriber was told of it is always  *)
(* covered: the block is still to be announced, or a job for the address   *)
(* waits that has kept the Set of now, or the job being read reads its     *)
(* first sum after the change, or no event told of the change, or the job  *)
(* has failed, and the topic is unheard.                                   *)
(***************************************************************************)

Balance(a) == Counted("stx_events", a)

(* A job for the address a is still to come, or waits, or none will come. *)
Due(a) ==
  \/ txn.pc = "emit" /\ a \in AddressesOf[txn.block]
  \/ \E i \in DOMAIN jobs : jobs[i].addr = a /\ jobs[i].set = current[BalanceTopic(a)]
  \/ BalanceTopic(a) \in unheard

BeingRead(a) == reading # NoJob /\ reading.addr = a /\ reading.set = current[BalanceTopic(a)]

ToldType == DOMAIN told = Clients /\ \A c \in Clients : DOMAIN told[c] = Topics

(* Only subscribers were told anything. *)
ToldSubscribers == \A c \in Clients, p \in Topics : told[c][p] # Nothing => <<c, p>> \in wants

BalancesTold ==
  \A c \in Clients, a \in Addresses :
    (BalanceTopic(a) \in Topics /\ told[c][BalanceTopic(a)] # Nothing) =>
      \/ told[c][BalanceTopic(a)] = <<Balance(a), Balance(a)>>
      \/ Due(a) \/ BeingRead(a)

CreditsRead == \A a \in Addresses : BeingRead(a) => reading.credits = Balance(a) \/ Due(a)

PendingTold ==
  \A c \in Clients, t \in Txs :
    (TxTopic(t) \in Topics /\ told[c][TxTopic(t)] = <<"pending">>) =>
      \/ t \in db.mempool
      \/ txn.pc = "emit" /\ t \in TxsOf[txn.block]
      \/ TxTopic(t) \in unheard

(* The invariant, and what it needs of the store and of the subscriptions. *)
ToldInv == ToldType /\ ToldSubscribers /\ BalancesTold /\ CreditsRead /\ PendingTold

Inv == IInv /\ SubsInv /\ ToldInv

(* The three kinds of topics, and the two things said of a transaction. *)
LEMMA TopicsDiffer ==
  /\ \A t, a : TxTopic(t) # AddressTopic(a) /\ TxTopic(t) # BalanceTopic(a)
  /\ \A a, b : AddressTopic(a) # BalanceTopic(b)
  /\ \A a, b : BalanceTopic(a) = BalanceTopic(b) => a = b
  /\ \A a, b : TxTopic(a) = TxTopic(b) => a = b
  /\ <<"mined">> # <<"pending">> /\ <<"mined">> # Nothing /\ <<"pending">> # Nothing
  BY DEF TxTopic, AddressTopic, BalanceTopic, Nothing

(* The sum of the fees agrees with that of the events in any one state. *)
LEMMA TablesAgree ==
  ASSUME IInv, NEW a
  PROVE  Counted("txs", a) = Balance(a) /\ Balance(a) \subseteq Blocks
<1>1. db.live["txs"] = db.canonical /\ db.live["stx_events"] = db.canonical
  BY DEF IInv, Sound, RowsAgree, EntityTables
<1> QED
  BY <1>1 DEF Counted, Balance, IInv, TypeOK, Image

(* A topic that somebody wants is in the map, and its Set is exactly who does. *)
LEMMA WantedHasSet ==
  ASSUME SubsInv, NEW c \in Clients, NEW p \in Topics, <<c, p>> \in wants
  PROVE  current[p] \in SetIds /\ current[p] # NoSet /\ members[current[p]] = Wanting(p) /\ c \in Wanting(p)
<1>1. c \in Wanting(p)
  BY DEF Wanting
<1> QED
  BY <1>1 DEF SubsInv, WsTypeOK, MapFollowsClients

-----------------------------------------------------------------------------
(* A step of the store other than a commit changes no table, and gives up no
   announcement. *)
LEMMA StoreStepTells ==
  ASSUME Inv, StoreStep, UNCHANGED wsVars
  PROVE  ToldInv'
<1>1. UNCHANGED <<db, wants, current, jobs, reading, told, unheard>> /\ txn.pc # "emit"
  BY DEF wsVars, StoreStep, BeginUpdate, RestoreOrphanedChain, UpdateFails, Fail, NoTxn
<1>2. \A a : Balance(a)' = Balance(a) /\ (Due(a) => Due(a)') /\ (BeingRead(a)' <=> BeingRead(a))
  BY <1>1 DEF Balance, Counted, Due, BeingRead
<1>3. BalancesTold'
  BY <1>1, <1>2 DEF Inv, ToldInv, BalancesTold
<1>4. CreditsRead'
  BY <1>1, <1>2 DEF Inv, ToldInv, CreditsRead
<1>5. PendingTold'
  BY <1>1 DEF Inv, ToldInv, PendingTold
<1> QED
  BY <1>1, <1>3, <1>4, <1>5 DEF Inv, ToldInv, ToldType, ToldSubscribers

(* A balance that a commit changes is that of an address of its block, which is to
   be announced, or of a block that it moved, which is not; and so it is with the
   transactions that it takes from the mempool. *)
LEMMA CommitEffect ==
  ASSUME IInv, IInv', Commit
  PROVE  /\ txn.pc = "store" /\ txn'.pc = "emit"
         /\ \A a \in Addresses :
              \/ Balance(a)' = Balance(a)
              \/ a \in AddressesOf[txn'.block]
              \/ BalanceTopic(a) \in unheard'
         /\ \A t \in db.mempool \ db'.mempool : t \in TxsOf[txn'.block] \/ TxTopic(t) \in unheard'
<1>1. /\ txn.pc = "store" /\ txn'.pc = "emit" /\ txn'.block = txn.block
      /\ unheard' = unheard \cup Unannounced
  BY DEF Commit, CommitUpdate
<1>2. /\ db.live["stx_events"] = db.canonical /\ db'.live["stx_events"] = db'.canonical
      /\ db.canonical \subseteq Blocks /\ db'.canonical \subseteq Blocks
  <2>1. (IInv => db.live["stx_events"] = db.canonical /\ db.canonical \subseteq Blocks)
    BY DEF IInv, Sound, RowsAgree, EntityTables, TypeOK, Image
  <2>2. (IInv => db.live["stx_events"] = db.canonical /\ db.canonical \subseteq Blocks)'
    BY DEF IInv, Sound, RowsAgree, EntityTables, TypeOK, Image
  <2> QED
    BY <2>1, <2>2
<1>3. ASSUME NEW a \in Addresses, Balance(a)' # Balance(a), a \notin AddressesOf[txn.block]
      PROVE  BalanceTopic(a) \in Unannounced
  <2>1. PICK b \in Blocks : a \in AddressesOf[b] /\ (b \in db.canonical) # (b \in db'.canonical)
    BY <1>2, <1>3 DEF Balance, Counted
  <2>2. b # txn.block
    BY <1>3, <2>1
  <2> QED
    BY <2>1, <2>2 DEF Unannounced
<1>4. ASSUME NEW t \in db.mempool \ db'.mempool, t \notin TxsOf[txn.block]
      PROVE  TxTopic(t) \in Unannounced
  BY <1>4 DEF Unannounced
<1> QED
  BY <1>1, <1>3, <1>4

LEMMA CommitTells ==
  ASSUME Inv, IInv', Commit
  PROVE  ToldInv'
<1>1. UNCHANGED <<wants, current, jobs, reading, told>> /\ unheard \subseteq unheard'
  BY DEF Commit
<1>2. txn.pc # "emit" /\ txn'.pc = "emit"
  BY CommitEffect DEF Inv
<1>3. \A a : (Due(a) => Due(a)') /\ (BeingRead(a)' <=> BeingRead(a))
  BY <1>1, <1>2 DEF Due, BeingRead
<1>4. \A a \in Addresses : Balance(a)' = Balance(a) \/ Due(a)'
  BY <1>2, CommitEffect DEF Due, Inv
<1>5. BalancesTold'
  BY <1>1, <1>3, <1>4 DEF Inv, ToldInv, BalancesTold
<1>6. CreditsRead'
  BY <1>1, <1>3, <1>4 DEF Inv, ToldInv, CreditsRead
<1>7. PendingTold'
  BY <1>1, <1>2, CommitEffect DEF Inv, ToldInv, PendingTold
<1> QED
  BY <1>1, <1>5, <1>6, <1>7 DEF Inv, ToldInv, ToldType, ToldSubscribers

-----------------------------------------------------------------------------
(* Subscribing: a new subscriber was told nothing, and a new Set is nobody's. *)
LEMMA SubscribeTells ==
  ASSUME Inv, NEW c \in Clients, NEW p \in Topics, Subscribe(c, p)
  PROVE  ToldInv'
<1>1. UNCHANGED <<db, txn, jobs, reading, told, unheard>> /\ wants' = wants \cup {<<c, p>>}
  BY DEF Subscribe, vars
<1>2. /\ \A q \in Topics \ {p} : current'[q] = current[q]
      /\ current[p] # NoSet => current'[p] = current[p]
      /\ current[p] = NoSet => \A j \in KeptJobs : j.set # current'[p]
  <2>1. CASE current[p] = NoSet
    <3>1. /\ current' = [current EXCEPT ![p] = FreshSet]
          /\ \A j \in KeptJobs : j.set # FreshSet
      BY <2>1, FreshIsFresh DEF Subscribe, AddSubscription
    <3> QED
      BY <2>1, <3>1 DEF Inv, SubsInv, WsTypeOK
  <2>2. CASE current[p] # NoSet
    BY <2>2 DEF Subscribe, AddSubscription
  <2> QED
    BY <2>1, <2>2
<1>3. ASSUME NEW a \in Addresses, BalanceTopic(a) \in Topics, current[BalanceTopic(a)] # NoSet
      PROVE  /\ Balance(a)' = Balance(a)
             /\ (Due(a) => Due(a)') /\ (BeingRead(a) => BeingRead(a)')
  BY <1>1, <1>2, <1>3 DEF Balance, Counted, Due, BeingRead
<1>4. BalancesTold'
  <2> SUFFICES ASSUME NEW d \in Clients, NEW a \in Addresses,
                      BalanceTopic(a) \in Topics, told[d][BalanceTopic(a)] # Nothing
               PROVE  \/ told[d][BalanceTopic(a)] = <<Balance(a)', Balance(a)'>>
                      \/ Due(a)' \/ BeingRead(a)'
    BY <1>1 DEF BalancesTold
  <2>1. <<d, BalanceTopic(a)>> \in wants
    BY DEF Inv, ToldInv, ToldSubscribers
  <2>2. current[BalanceTopic(a)] # NoSet
    BY <2>1, WantedHasSet DEF Inv
  <2>3. \/ told[d][BalanceTopic(a)] = <<Balance(a), Balance(a)>>
        \/ Due(a) \/ BeingRead(a)
    BY DEF Inv, ToldInv, BalancesTold
  <2> QED
    BY <1>3, <2>2, <2>3
<1>5. CreditsRead'
  <2> SUFFICES ASSUME NEW a \in Addresses, BeingRead(a)'
               PROVE  reading.credits = Balance(a)' \/ Due(a)'
    BY <1>1 DEF CreditsRead
  <2>1. /\ reading # NoJob /\ reading \in KeptJobs
        /\ reading.addr = a /\ reading.set = current'[BalanceTopic(a)]
    BY <1>1 DEF BeingRead, KeptJobs
  <2>2. BalanceTopic(a) \in Topics /\ current[BalanceTopic(a)] # NoSet
    <3>1. reading.set # NoSet /\ BalanceTopic(a) \in Topics
      BY <2>1, KeptTypes, WsRpcAssumption DEF Inv, SubsInv, SetsInv
    <3> QED
      BY <1>2, <2>1, <3>1
  <2>3. BeingRead(a)
    BY <1>2, <2>1, <2>2 DEF BeingRead
  <2>4. reading.credits = Balance(a) \/ Due(a)
    BY <2>3 DEF Inv, ToldInv, CreditsRead
  <2>5. Balance(a)' = Balance(a) /\ (Due(a) => Due(a)')
    BY <1>3, <2>2
  <2> QED
    BY <2>4, <2>5
<1>6. PendingTold'
  BY <1>1 DEF Inv, ToldInv, PendingTold
<1> QED
  BY <1>1, <1>4, <1>5, <1>6 DEF Inv, ToldInv, ToldType, ToldSubscribers

-----------------------------------------------------------------------------
(* Forgiving leaves the addresses, the Sets and the sums of the jobs alone. *)
LEMMA ForgiveLeaves ==
  ASSUME WsTypeOK, NEW c \in Clients, NEW ps, Forgive(c, ps)
  PROVE  /\ DOMAIN jobs' = DOMAIN jobs
         /\ \A i \in DOMAIN jobs : jobs'[i].addr = jobs[i].addr /\ jobs'[i].set = jobs[i].set
         /\ reading = NoJob => reading' = NoJob
         /\ reading # NoJob => /\ reading' # NoJob /\ reading'.addr = reading.addr
                               /\ reading'.set = reading.set /\ reading'.credits = reading.credits
<1> DEFINE without(j) == IF BalanceTopic(j.addr) \in ps THEN [j EXCEPT !.owed = @ \ {c}] ELSE j
<1>1. /\ jobs' = [i \in DOMAIN jobs |-> without(jobs[i])]
      /\ reading' = IF reading = NoJob THEN NoJob ELSE without(reading)
  BY DEF Forgive
<1>2. ASSUME NEW j \in Job
      PROVE  without(j).addr = j.addr /\ without(j).set = j.set
  BY DEF Job
<1>3. ASSUME NEW j \in [addr : Addresses, set : SetIds, owed : SUBSET Clients, credits : SUBSET Blocks]
      PROVE  /\ without(j) # NoJob
             /\ without(j).addr = j.addr /\ without(j).set = j.set /\ without(j).credits = j.credits
  BY DEF NoJob
<1> HIDE DEF without
<1>4. \A i \in DOMAIN jobs : jobs[i] \in Job /\ jobs'[i] = without(jobs[i])
  BY <1>1 DEF WsTypeOK
<1>5. /\ DOMAIN jobs' = DOMAIN jobs
      /\ \A i \in DOMAIN jobs : jobs'[i].addr = jobs[i].addr /\ jobs'[i].set = jobs[i].set
  BY <1>1, <1>2, <1>4
<1>6. ASSUME reading # NoJob
      PROVE  /\ reading' # NoJob /\ reading'.addr = reading.addr
             /\ reading'.set = reading.set /\ reading'.credits = reading.credits
  BY <1>1, <1>3, <1>6 DEF WsTypeOK
<1> QED
  BY <1>1, <1>5, <1>6

(* A socket that leaves topics is told nothing of them any more, and the topics
   that somebody else still wants keep their Sets. *)
LEMMA RemoveTells ==
  ASSUME Inv, NEW c \in Clients, NEW ps, NEW forgiven, UNCHANGED <<db, txn, unheard>>,
         RemoveSubscriptions(c, ps), Forgive(c, forgiven), SubsInv', ToldType',
         \A d \in Clients, p \in Topics : told'[d][p] # Nothing =>
           /\ told'[d][p] = told[d][p]
           /\ <<d, p>> \in wants => <<d, p>> \in wants'
  PROVE  ToldInv'
<1>1. \A p \in Topics : current'[p] # NoSet => current'[p] = current[p]
  BY DEF RemoveSubscriptions
<1>2. ToldSubscribers'
  BY DEF Inv, ToldInv, ToldSubscribers
<1>3. ASSUME NEW a \in Addresses, BalanceTopic(a) \in Topics, current'[BalanceTopic(a)] # NoSet
      PROVE  /\ Balance(a)' = Balance(a)
             /\ Due(a) => Due(a)'
             /\ BeingRead(a) <=> BeingRead(a)'
  <2>1. current'[BalanceTopic(a)] = current[BalanceTopic(a)]
    BY <1>1, <1>3
  <2>2. Balance(a)' = Balance(a)
    BY DEF Balance, Counted
  <2>3. Due(a) => Due(a)'
    BY <2>1, ForgiveLeaves DEF Due, Inv, SubsInv
  <2>4. BeingRead(a) <=> BeingRead(a)'
    BY <2>1, ForgiveLeaves DEF BeingRead, Inv, SubsInv
  <2> QED
    BY <2>2, <2>3, <2>4
<1>4. BalancesTold'
  <2> SUFFICES ASSUME NEW d \in Clients, NEW a \in Addresses,
                      BalanceTopic(a) \in Topics, told'[d][BalanceTopic(a)] # Nothing
               PROVE  \/ told'[d][BalanceTopic(a)] = <<Balance(a)', Balance(a)'>>
                      \/ Due(a)' \/ BeingRead(a)'
    BY DEF BalancesTold
  <2>1. <<d, BalanceTopic(a)>> \in wants' /\ told'[d][BalanceTopic(a)] = told[d][BalanceTopic(a)]
    BY <1>2 DEF ToldSubscribers
  <2>2. d \in Wanting(BalanceTopic(a))'
    BY <2>1 DEF Wanting
  <2>3. current'[BalanceTopic(a)] # NoSet
    BY <2>2 DEF SubsInv, MapFollowsClients
  <2>4. \/ told[d][BalanceTopic(a)] = <<Balance(a), Balance(a)>>
        \/ Due(a) \/ BeingRead(a)
    BY <2>1 DEF Inv, ToldInv, BalancesTold
  <2> QED
    BY <1>3, <2>1, <2>3, <2>4
<1>5. CreditsRead'
  <2> SUFFICES ASSUME NEW a \in Addresses, BeingRead(a)'
               PROVE  reading'.credits = Balance(a)' \/ Due(a)'
    BY DEF CreditsRead
  <2>1. reading # NoJob /\ reading'.credits = reading.credits
        /\ reading.addr = a /\ reading.set = current'[BalanceTopic(a)]
    BY ForgiveLeaves DEF BeingRead, Inv, SubsInv
  <2>2. BalanceTopic(a) \in Topics /\ reading.set # NoSet
    <3>1. reading \in KeptJobs
      BY <2>1 DEF KeptJobs
    <3> QED
      BY <2>1, <3>1, KeptTypes, WsRpcAssumption DEF Inv, SubsInv, SetsInv
  <2>3. BeingRead(a)
    BY <1>3, <2>1, <2>2
  <2>4. reading.credits = Balance(a) \/ Due(a)
    BY <2>3 DEF Inv, ToldInv, CreditsRead
  <2> QED
    BY <1>3, <2>1, <2>2, <2>4
<1>6. PendingTold'
  BY TopicsDiffer DEF Inv, ToldInv, PendingTold
<1> QED
  BY <1>2, <1>4, <1>5, <1>6 DEF ToldInv

(* unsubscribe. *)
LEMMA UnsubscribeTells ==
  ASSUME Inv, NEW c \in Clients, NEW p \in Topics, Unsubscribe(c, p), SubsInv'
  PROVE  ToldInv'
<1>1. /\ RemoveSubscriptions(c, {p}) /\ Forgive(c, {p}) /\ UNCHANGED <<db, txn, unheard>>
      /\ wants' = wants \ {<<c, p>>} /\ told' = [told EXCEPT ![c][p] = Nothing]
  BY DEF Unsubscribe, vars
<1>2. ToldType
  BY DEF Inv, ToldInv
<1>3. ToldType' /\ \A d \in Clients, q \in Topics :
        told'[d][q] = IF d = c /\ q = p THEN Nothing ELSE told[d][q]
  BY <1>1, <1>2 DEF ToldType
<1>4. \A d \in Clients, q \in Topics : told'[d][q] # Nothing =>
        /\ told'[d][q] = told[d][q]
        /\ <<d, q>> \in wants => <<d, q>> \in wants'
  BY <1>1, <1>3
<1> QED
  BY <1>1, <1>3, <1>4, RemoveTells

(* The socket closes. *)
LEMMA CloseTells ==
  ASSUME Inv, NEW c \in Clients, CloseSocket(c), SubsInv'
  PROVE  ToldInv'
<1>1. /\ RemoveSubscriptions(c, listeners[c]) /\ Forgive(c, Topics) /\ UNCHANGED <<db, txn, unheard>>
      /\ wants' = {w \in wants : w[1] # c}
      /\ told' = [told EXCEPT ![c] = [p \in Topics |-> Nothing]]
  BY DEF CloseSocket, vars
<1>2. ToldType
  BY DEF Inv, ToldInv
<1>3. ToldType' /\ \A d \in Clients, q \in Topics :
        told'[d][q] = IF d = c THEN Nothing ELSE told[d][q]
  BY <1>1, <1>2 DEF ToldType
<1>4. \A d \in Clients, q \in Topics : told'[d][q] # Nothing =>
        /\ told'[d][q] = told[d][q]
        /\ <<d, q>> \in wants => <<d, q>> \in wants'
  BY <1>1, <1>3
<1> QED
  BY <1>1, <1>3, <1>4, RemoveTells

-----------------------------------------------------------------------------
(* A block announced leaves a job with the Set of now for each address that has
   subscribers, behind the jobs that wait. *)
LEMMA EmitBlockQueues ==
  ASSUME SubsInv, EmitBlock
  PROVE  /\ \A i \in DOMAIN jobs : i \in DOMAIN jobs' /\ jobs'[i] = jobs[i]
         /\ \A a \in Subscribed(AddressesOf[txn.block]) :
              \E i \in DOMAIN jobs' : jobs'[i].addr = a /\ jobs'[i].set = current[BalanceTopic(a)]
<1> DEFINE as == Subscribed(AddressesOf[txn.block])
           n == Cardinality(as)
<1>1. as \subseteq Addresses
  BY WsRpcAssumption DEF EmitBlock, EmitUpdate, SubsInv, WsTypeOK, TypeOK, Txn, NoTxn, Subscribed
<1>2. n \in Nat
  BY <1>1, WsRpcAssumption, FS_Subset, FS_CardinalityType
<1> HIDE DEF as, n
<1>3. PICK order \in [1..n -> as] :
        /\ \A a \in as : \E i \in DOMAIN order : order[i] = a
        /\ jobs' = jobs \o [i \in DOMAIN order |-> JobFor(order[i])]
  BY DEF EmitBlock, EnqueueJobs, Queue, as, n
<1>j. ASSUME NEW a \in as PROVE JobFor(a) \in Job
  <2>1. a \in Addresses /\ current[BalanceTopic(a)] \in SetIds
    BY <1>1 DEF as, Subscribed, SubsInv, WsTypeOK
  <2>2. Wanting(BalanceTopic(a)) \subseteq Clients
    BY DEF Wanting
  <2> QED
    BY <2>1, <2>2 DEF JobFor, Job
<1> DEFINE new == [i \in DOMAIN order |-> JobFor(order[i])]
<1>4. /\ new \in Seq(Job) /\ Len(new) = n /\ DOMAIN new = 1..n
      /\ \A i \in 1..n : new[i] = JobFor(order[i])
  <2>1. DOMAIN order = 1..n /\ \A i \in 1..n : order[i] \in as
    BY <1>3
  <2>2. new \in [1..n -> Job] /\ \A i \in 1..n : new[i] = JobFor(order[i])
    BY <1>j, <2>1
  <2> HIDE DEF new
  <2> QED
    BY <1>2, <2>2
<1> HIDE DEF new
<1>5. jobs' = jobs \o new
  BY <1>3 DEF new
<1>6. jobs \in Seq(Job)
  BY DEF SubsInv, WsTypeOK
<1>7. /\ DOMAIN jobs' = 1..Len(jobs) + n /\ DOMAIN jobs = 1..Len(jobs) /\ Len(jobs) \in Nat
      /\ \A i \in 1..Len(jobs) + n : jobs'[i] = IF i <= Len(jobs) THEN jobs[i] ELSE new[i - Len(jobs)]
  <2>1. /\ Len(jobs') = Len(jobs) + n /\ jobs' \in Seq(Job)
        /\ \A i \in 1..Len(jobs) + n : jobs'[i] = IF i <= Len(jobs) THEN jobs[i] ELSE new[i - Len(jobs)]
    BY <1>4, <1>5, <1>6, ConcatProperties
  <2> QED
    BY <1>6, <2>1
<1>8. \A i \in DOMAIN jobs : i \in DOMAIN jobs' /\ jobs'[i] = jobs[i]
  BY <1>2, <1>7
<1>9. ASSUME NEW a \in as
      PROVE  \E i \in DOMAIN jobs' : jobs'[i].addr = a /\ jobs'[i].set = current[BalanceTopic(a)]
  <2>1. PICK i \in 1..n : order[i] = a
    BY <1>3
  <2>2. /\ Len(jobs) + i \in DOMAIN jobs' /\ ~(Len(jobs) + i <= Len(jobs))
        /\ (Len(jobs) + i) - Len(jobs) = i
    BY <1>2, <1>7
  <2>3. jobs'[Len(jobs) + i] = JobFor(a)
    BY <1>4, <1>7, <2>1, <2>2
  <2> QED
    BY <2>2, <2>3 DEF JobFor
<1> QED
  BY <1>8, <1>9 DEF as

(* The block is announced: whoever is subscribed to one of its transactions is
   told that it is mined, and there is a job for each of its addresses. *)
LEMMA EmitBlockTells ==
  ASSUME Inv, EmitBlock
  PROVE  ToldInv'
<1>1. /\ txn.pc = "emit" /\ txn' = NoTxn
      /\ UNCHANGED <<db, wants, current, members, reading>>
  BY DEF EmitBlock, EmitUpdate
<1> DEFINE ps == {TxTopic(t) : t \in TxsOf[txn.block]}
                   \cup {AddressTopic(a) : a \in AddressesOf[txn.block]}
<1>2. /\ told' = [c \in Clients |-> [p \in Topics |->
                   IF p \in ps /\ c \in Receivers(p) THEN <<"mined">> ELSE told[c][p]]]
      /\ unheard' = unheard \ ps
  BY DEF EmitBlock, Send
<1>b. \A a : BalanceTopic(a) \notin ps
  BY TopicsDiffer
<1> HIDE DEF ps
<1>3. ToldType' /\ \A c \in Clients, p \in Topics :
        told'[c][p] = IF p \in ps /\ c \in Receivers(p) THEN <<"mined">> ELSE told[c][p]
  BY <1>2 DEF ToldType
<1>4. ASSUME NEW c \in Clients, NEW p \in Topics, <<c, p>> \in wants PROVE c \in Receivers(p)
  BY <1>4, WantedHasSet DEF Inv, Receivers
<1>5. ASSUME NEW c \in Clients, NEW p \in Topics, c \in Receivers(p) PROVE <<c, p>> \in wants
  BY <1>5 DEF Inv, SubsInv, MapFollowsClients, Receivers, Wanting
<1>6. ToldSubscribers'
  BY <1>1, <1>3, <1>5 DEF Inv, ToldInv, ToldSubscribers
<1>7. ASSUME NEW a \in Addresses, BalanceTopic(a) \in Topics, current[BalanceTopic(a)] # NoSet
      PROVE  /\ Balance(a)' = Balance(a)
             /\ (Due(a) => Due(a)')
             /\ (BeingRead(a) <=> BeingRead(a)')
  <2>1. Balance(a)' = Balance(a) /\ (BeingRead(a) <=> BeingRead(a)')
    BY <1>1 DEF Balance, Counted, BeingRead
  <2>2. a \in AddressesOf[txn.block] => a \in Subscribed(AddressesOf[txn.block])
    BY <1>7 DEF Subscribed
  <2>3. Due(a) => Due(a)'
    BY <1>1, <1>2, <1>b, <2>2, EmitBlockQueues DEF Due, Inv
  <2> QED
    BY <2>1, <2>3
<1>8. BalancesTold'
  <2> SUFFICES ASSUME NEW c \in Clients, NEW a \in Addresses,
                      BalanceTopic(a) \in Topics, told'[c][BalanceTopic(a)] # Nothing
               PROVE  \/ told'[c][BalanceTopic(a)] = <<Balance(a)', Balance(a)'>>
                      \/ Due(a)' \/ BeingRead(a)'
    BY DEF BalancesTold
  <2>1. told'[c][BalanceTopic(a)] = told[c][BalanceTopic(a)]
    BY <1>3, TopicsDiffer DEF ps
  <2>2. <<c, BalanceTopic(a)>> \in wants
    BY <2>1 DEF Inv, ToldInv, ToldSubscribers
  <2>3. current[BalanceTopic(a)] # NoSet
    BY <2>2, WantedHasSet DEF Inv
  <2>4. \/ told[c][BalanceTopic(a)] = <<Balance(a), Balance(a)>>
        \/ Due(a) \/ BeingRead(a)
    BY <2>1 DEF Inv, ToldInv, BalancesTold
  <2> QED
    BY <1>7, <2>1, <2>3, <2>4
<1>9. CreditsRead'
  <2> SUFFICES ASSUME NEW a \in Addresses, BeingRead(a)'
               PROVE  reading.credits = Balance(a)' \/ Due(a)'
    BY <1>1 DEF CreditsRead
  <2>1. reading \in KeptJobs /\ reading.addr = a /\ reading.set = current[BalanceTopic(a)] /\ BeingRead(a)
    BY <1>1 DEF BeingRead, KeptJobs
  <2>2. BalanceTopic(a) \in Topics /\ current[BalanceTopic(a)] # NoSet
    BY <2>1, KeptTypes, WsRpcAssumption DEF Inv, SubsInv, SetsInv
  <2>3. reading.credits = Balance(a) \/ Due(a)
    BY <2>1 DEF Inv, ToldInv, CreditsRead
  <2> QED
    BY <1>7, <2>2, <2>3
<1>10. PendingTold'
  <2> SUFFICES ASSUME NEW c \in Clients, NEW t \in Txs,
                      TxTopic(t) \in Topics, told'[c][TxTopic(t)] = <<"pending">>
               PROVE  t \in db.mempool \/ TxTopic(t) \in unheard'
    BY <1>1 DEF PendingTold
  <2>1. told[c][TxTopic(t)] = <<"pending">> /\ ~(TxTopic(t) \in ps /\ c \in Receivers(TxTopic(t)))
    BY <1>3, TopicsDiffer
  <2>2. c \in Receivers(TxTopic(t))
    BY <1>4, <2>1, TopicsDiffer DEF Inv, ToldInv, ToldSubscribers
  <2>3. t \notin TxsOf[txn.block] /\ TxTopic(t) \notin ps
    BY <2>1, <2>2 DEF ps
  <2> QED
    BY <1>2, <2>1, <2>3 DEF Inv, ToldInv, PendingTold
<1> QED
  BY <1>3, <1>6, <1>8, <1>9, <1>10 DEF ToldInv

(* A transaction that is told to be pending was just put into the mempool. *)
LEMMA EmitMempoolTells ==
  ASSUME Inv, NEW t \in Txs, EmitMempoolTx(t)
  PROVE  ToldInv'
<1>1. /\ txn = NoTxn /\ txn' = txn /\ db' = [db EXCEPT !.mempool = @ \cup {t}] /\ db \in Image
      /\ UNCHANGED <<wants, current, members, jobs, reading>>
      /\ told' = [c \in Clients |-> [p \in Topics |->
                    IF p \in {TxTopic(t)} /\ c \in Receivers(p) THEN <<"pending">> ELSE told[c][p]]]
      /\ unheard' = unheard \ {TxTopic(t)}
  BY DEF EmitMempoolTx, UpdateMempoolTx, Send, Inv, IInv, TypeOK
<1>2. db'.live = db.live /\ db'.mempool = db.mempool \cup {t} /\ txn.pc = "idle"
  BY <1>1 DEF Image, NoTxn
<1>3. ToldType' /\ \A c \in Clients, p \in Topics :
        told'[c][p] = IF p = TxTopic(t) /\ c \in Receivers(p) THEN <<"pending">> ELSE told[c][p]
  BY <1>1 DEF ToldType
<1>4. ToldSubscribers'
  BY <1>1, <1>3 DEF Inv, ToldInv, ToldSubscribers, SubsInv, MapFollowsClients, Receivers, Wanting
<1>5. \A a : /\ Balance(a)' = Balance(a)
             /\ Due(a)' <=> Due(a)
             /\ BeingRead(a)' <=> BeingRead(a)
  BY <1>1, <1>2, TopicsDiffer DEF Balance, Counted, Due, BeingRead
<1>6. \A c \in Clients, a \in Addresses :
        BalanceTopic(a) \in Topics => told'[c][BalanceTopic(a)] = told[c][BalanceTopic(a)]
  BY <1>3, TopicsDiffer
<1>7. BalancesTold'
  BY <1>5, <1>6 DEF Inv, ToldInv, BalancesTold
<1>8. CreditsRead'
  BY <1>1, <1>5 DEF Inv, ToldInv, CreditsRead
<1>9. PendingTold'
  <2> SUFFICES ASSUME NEW c \in Clients, NEW u \in Txs,
                      TxTopic(u) \in Topics, told'[c][TxTopic(u)] = <<"pending">>
               PROVE  u \in db'.mempool \/ TxTopic(u) \in unheard'
    BY DEF PendingTold
  <2>1. u = t \/ (told[c][TxTopic(u)] = <<"pending">> /\ TxTopic(u) # TxTopic(t))
    BY <1>3, TopicsDiffer
  <2> QED
    BY <1>1, <1>2, <2>1 DEF Inv, ToldInv, PendingTold
<1> QED
  BY <1>3, <1>4, <1>7, <1>8, <1>9 DEF ToldInv

-----------------------------------------------------------------------------
(* The first query of a job: its sum is that of now. *)
LEMMA ReadEventsTells ==
  ASSUME Inv, ReadEvents
  PROVE  ToldInv'
<1>1. /\ UNCHANGED <<db, txn, wants, current, told>> /\ reading = NoJob
      /\ jobs \in Seq(Job) /\ jobs # <<>> /\ jobs' = Tail(jobs)
      /\ reading' = [addr |-> Head(jobs).addr, set |-> Head(jobs).set, owed |-> Head(jobs).owed,
                     credits |-> Balance(Head(jobs).addr)]
      /\ unheard' = IF Head(jobs).set = current[BalanceTopic(Head(jobs).addr)]
                    THEN unheard \ {BalanceTopic(Head(jobs).addr)} ELSE unheard
  BY DEF ReadEvents, vars, Inv, SubsInv, WsTypeOK, Balance
<1>h. Head(jobs) = jobs[1]
  BY <1>1
<1>2. /\ reading' # NoJob /\ reading'.addr = jobs[1].addr /\ reading'.set = jobs[1].set
      /\ reading'.credits = Balance(jobs[1].addr)
  BY <1>1, <1>h DEF NoJob
<1>3. \A i \in DOMAIN jobs : i = 1 \/ (i - 1 \in DOMAIN jobs' /\ jobs'[i - 1] = jobs[i])
  BY <1>1
<1>4. ASSUME NEW a
      PROVE  /\ Balance(a)' = Balance(a) /\ ~BeingRead(a)
             /\ (Due(a) => Due(a)' \/ BeingRead(a)')
  <2>1. Balance(a)' = Balance(a) /\ ~BeingRead(a)
    BY <1>1 DEF Balance, Counted, BeingRead
  <2>2. ASSUME NEW i \in DOMAIN jobs, jobs[i].addr = a /\ jobs[i].set = current[BalanceTopic(a)]
        PROVE  Due(a)' \/ BeingRead(a)'
    <3>1. CASE i = 1
      BY <1>1, <1>2, <2>2, <3>1 DEF BeingRead
    <3>2. CASE i - 1 \in DOMAIN jobs' /\ jobs'[i - 1] = jobs[i]
      BY <1>1, <2>2, <3>2 DEF Due
    <3> QED
      BY <1>3, <3>1, <3>2
  <2>3. ASSUME txn.pc = "emit" /\ a \in AddressesOf[txn.block] PROVE Due(a)'
    BY <1>1, <2>3 DEF Due
  <2>4. ASSUME BalanceTopic(a) \in unheard PROVE Due(a)' \/ BeingRead(a)'
    <3>1. CASE BalanceTopic(a) \in unheard'
      BY <3>1 DEF Due
    <3>2. CASE BalanceTopic(a) \notin unheard'
      <4>1. a = jobs[1].addr /\ jobs[1].set = current[BalanceTopic(a)]
        BY <1>1, <1>h, <2>4, <3>2, TopicsDiffer
      <4> QED
        BY <1>1, <1>2, <4>1 DEF BeingRead
    <3> QED
      BY <3>1, <3>2
  <2> QED
    BY <2>1, <2>2, <2>3, <2>4 DEF Due
<1>5. BalancesTold'
  BY <1>1, <1>4 DEF Inv, ToldInv, BalancesTold
<1>6. CreditsRead'
  BY <1>2, <1>4 DEF CreditsRead, BeingRead
<1>7. \A t : TxTopic(t) \in unheard => TxTopic(t) \in unheard'
  BY <1>1, TopicsDiffer
<1>8. PendingTold' /\ ToldType' /\ ToldSubscribers'
  BY <1>1, <1>7 DEF Inv, ToldInv, PendingTold, ToldType, ToldSubscribers
<1> QED
  BY <1>5, <1>6, <1>8 DEF ToldInv

(* The second query: everybody in the Set is told the sum read before and that
   of now, and the Set, if it is still in the map, is everybody who wants it. *)
LEMMA ReadFeesTells ==
  ASSUME Inv, ReadFeesAndSend
  PROVE  ToldInv'
<1> DEFINE r == reading.addr
           balance == <<reading.credits, Balance(r)>>
<1>1. /\ UNCHANGED <<db, txn, wants, current, jobs, unheard>> /\ reading # NoJob /\ reading' = NoJob
      /\ told' = [c \in Clients |-> IF c \in members[reading.set]
                                    THEN [told[c] EXCEPT ![BalanceTopic(r)] = balance] ELSE told[c]]
  BY TablesAgree DEF ReadFeesAndSend, vars, Inv
<1>2. reading \in KeptJobs
  BY <1>1 DEF KeptJobs
<1>3. /\ BalanceTopic(r) \in Topics /\ members[reading.set] \subseteq Wanting(BalanceTopic(r))
      /\ current[BalanceTopic(r)] = reading.set \/ members[reading.set] = {}
  BY <1>2 DEF Inv, SubsInv, SetsInv, KeptSetIsFresh
<1> HIDE DEF balance
<1>4. ToldType' /\ \A c \in Clients, p \in Topics :
        told'[c][p] = IF c \in members[reading.set] /\ p = BalanceTopic(r) THEN balance ELSE told[c][p]
  BY <1>1 DEF Inv, ToldInv, ToldType
<1>5. ToldSubscribers'
  <2>1. ASSUME NEW c \in members[reading.set] PROVE <<c, BalanceTopic(r)>> \in wants
    BY <1>3 DEF Wanting
  <2> QED
    BY <1>1, <1>4, <2>1 DEF Inv, ToldInv, ToldSubscribers
<1>6. \A a : Balance(a)' = Balance(a) /\ (Due(a)' <=> Due(a)) /\ ~BeingRead(a)'
  BY <1>1 DEF Balance, Counted, Due, BeingRead
<1>7. BalancesTold'
  <2> SUFFICES ASSUME NEW c \in Clients, NEW a \in Addresses,
                      BalanceTopic(a) \in Topics, told'[c][BalanceTopic(a)] # Nothing
               PROVE  told'[c][BalanceTopic(a)] = <<Balance(a), Balance(a)>> \/ Due(a)
    BY <1>6 DEF BalancesTold
  <2>1. CASE ~BeingRead(a)
    <3>1. told'[c][BalanceTopic(a)] = told[c][BalanceTopic(a)]
      <4>1. CASE a = r
        BY <1>1, <1>3, <1>4, <2>1, <4>1 DEF BeingRead
      <4>2. CASE a # r
        BY <1>4, <4>2, TopicsDiffer
      <4> QED
        BY <4>1, <4>2
    <3> QED
      BY <2>1, <3>1 DEF Inv, ToldInv, BalancesTold
  <2>2. CASE BeingRead(a)
    <3>1. a = r /\ reading.set = current[BalanceTopic(r)]
      BY <2>2 DEF BeingRead
    <3>2. <<c, BalanceTopic(a)>> \in wants
      BY <1>1, <1>5 DEF ToldSubscribers
    <3>3. c \in members[reading.set]
      BY <3>1, <3>2, WantedHasSet DEF Inv
    <3>4. told'[c][BalanceTopic(a)] = <<reading.credits, Balance(a)>>
      BY <1>4, <3>1, <3>3 DEF balance
    <3>5. reading.credits = Balance(a) \/ Due(a)
      BY <2>2 DEF Inv, ToldInv, CreditsRead
    <3> QED
      BY <3>4, <3>5
  <2> QED
    BY <2>1, <2>2
<1>8. CreditsRead'
  BY <1>6 DEF CreditsRead
<1>9. PendingTold'
  <2>1. \A c \in Clients, t \in Txs : TxTopic(t) \in Topics => told'[c][TxTopic(t)] = told[c][TxTopic(t)]
    BY <1>4, TopicsDiffer
  <2> QED
    BY <1>1, <2>1 DEF Inv, ToldInv, PendingTold
<1> QED
  BY <1>4, <1>5, <1>7, <1>8, <1>9 DEF ToldInv

(* A query fails: what was told stays, and the topic is unheard. *)
LEMMA ReadFailsTells ==
  ASSUME Inv, ReadFails
  PROVE  ToldInv'
<1>1. /\ UNCHANGED <<db, txn, wants, current, jobs, told>> /\ reading # NoJob /\ reading' = NoJob
      /\ unheard' = unheard \cup {BalanceTopic(reading.addr)}
  BY DEF ReadFails, vars
<1>2. \A a : /\ Balance(a)' = Balance(a) /\ ~BeingRead(a)'
             /\ Due(a) \/ BeingRead(a) => Due(a)'
  BY <1>1 DEF Balance, Counted, Due, BeingRead
<1>3. BalancesTold'
  BY <1>1, <1>2 DEF Inv, ToldInv, BalancesTold
<1>4. CreditsRead'
  BY <1>2 DEF CreditsRead
<1>5. PendingTold'
  BY <1>1 DEF Inv, ToldInv, PendingTold
<1> QED
  BY <1>1, <1>3, <1>4, <1>5 DEF Inv, ToldInv, ToldType, ToldSubscribers

-----------------------------------------------------------------------------
(* Every step keeps what was told good or covered. *)
LEMMA ToldStep == Inv /\ [WsNext]_<<vars, wsVars>> => Inv'
<1> SUFFICES ASSUME Inv, [WsNext]_<<vars, wsVars>> PROVE Inv'
  OBVIOUS
<1>1. IInv'
  BY StoreSteps, IInvStep DEF Inv
<1>2. SubsInv'
  BY SubsStep DEF Inv
<1>3. CASE StoreStep /\ UNCHANGED wsVars
  BY <1>1, <1>2, <1>3, StoreStepTells DEF Inv
<1>4. CASE EmitBlock
  BY <1>1, <1>2, <1>4, EmitBlockTells DEF Inv
<1>5. ASSUME NEW t \in Txs, EmitMempoolTx(t) PROVE Inv'
  BY <1>1, <1>2, <1>5, EmitMempoolTells DEF Inv
<1>6. ASSUME NEW w \in Asks, Subscribe(w[1], w[2]) \/ Unsubscribe(w[1], w[2]) PROVE Inv'
  <2>1. w[1] \in Clients /\ w[2] \in Topics
    BY WsRpcAssumption
  <2>2. ToldInv'
    BY <1>2, <1>6, <2>1, SubscribeTells, UnsubscribeTells
  <2> QED
    BY <1>1, <1>2, <2>2 DEF Inv
<1>7. ASSUME NEW c \in Clients, CloseSocket(c) PROVE Inv'
  BY <1>1, <1>2, <1>7, CloseTells DEF Inv
<1>8. CASE ReadEvents
  BY <1>1, <1>2, <1>8, ReadEventsTells DEF Inv
<1>9. CASE ReadFeesAndSend
  BY <1>1, <1>2, <1>9, ReadFeesTells DEF Inv
<1>10. CASE ReadFails
  BY <1>1, <1>2, <1>10, ReadFailsTells DEF Inv
<1>11. CASE Commit
  BY <1>1, <1>2, <1>11, CommitTells DEF Inv
<1>12. CASE UNCHANGED <<vars, wsVars>>
  <2>1. \A a : /\ Balance(a)' = Balance(a)
               /\ Due(a)' <=> Due(a)
               /\ BeingRead(a)' <=> BeingRead(a)
    BY <1>12 DEF vars, wsVars, Balance, Counted, Due, BeingRead
  <2>2. UNCHANGED <<db, txn, wants, told, reading, unheard>>
    BY <1>12 DEF vars, wsVars
  <2>3. ToldInv'
    BY <2>1, <2>2 DEF Inv, ToldInv, ToldType, ToldSubscribers, BalancesTold, CreditsRead, PendingTold
  <2> QED
    BY <1>1, <1>2, <2>3 DEF Inv
<1> QED
  BY <1>3, <1>4, <1>5, <1>6, <1>7, <1>8, <1>9, <1>10, <1>11, <1>12 DEF WsNext

(* At the start nobody was told anything. *)
LEMMA ToldInit == WsInit => Inv
<1> SUFFICES ASSUME WsInit PROVE Inv
  OBVIOUS
<1>1. IInv /\ SubsInv
  BY InitIInv, SubsInit DEF WsInit
<1>2. ToldInv
  BY TopicsDiffer DEF WsInit, Init, NoTxn, ToldInv, ToldType, ToldSubscribers, BalancesTold, CreditsRead,
     PendingTold, BeingRead
<1> QED
  BY <1>1, <1>2 DEF Inv

(* When nothing is under way, nothing is covered any more. *)
LEMMA ToldIsCurrentThen == Inv => ToldIsCurrent
<1> SUFFICES ASSUME Inv, txn = NoTxn, jobs = <<>>, reading = NoJob, NEW w \in wants, w[2] \notin unheard
             PROVE  /\ \A a \in Addresses :
                         (w[2] = BalanceTopic(a) /\ told[w[1]][w[2]] # Nothing) =>
                           told[w[1]][w[2]] = <<Counted("stx_events", a), Counted("txs", a)>>
                    /\ \A t \in Txs :
                         (w[2] = TxTopic(t) /\ told[w[1]][w[2]] = <<"pending">>) => t \in db.mempool
  BY DEF ToldIsCurrent
<1>1. w[1] \in Clients /\ w[2] \in Topics
  BY DEF Inv, SubsInv, WsTypeOK
<1>2. \A a : w[2] = BalanceTopic(a) => ~Due(a) /\ ~BeingRead(a)
  BY DEF Due, BeingRead, NoTxn
<1>3. \A a \in Addresses :
        (w[2] = BalanceTopic(a) /\ told[w[1]][w[2]] # Nothing) =>
          told[w[1]][w[2]] = <<Counted("stx_events", a), Counted("txs", a)>>
  BY <1>1, <1>2, TablesAgree DEF Inv, ToldInv, BalancesTold, Balance
<1>4. \A t \in Txs : (w[2] = TxTopic(t) /\ told[w[1]][w[2]] = <<"pending">>) => t \in db.mempool
  BY <1>1 DEF Inv, ToldInv, PendingTold, NoTxn
<1> QED
  BY <1>3, <1>4

(* On any tree of blocks, with reorganisations, blocks of losing forks, blocks
   delivered again and queries that fail, and in every order of commits,
   announcements and queries of the balance jobs: when nothing is under way, the
   balance or the pending state that a subscriber was last told of still holds,
   unless the topic changed with a block that a reorganisation moved, or its last
   balance could not be read, and nothing was read for it since.
   ws-rpc.ts:219-285. *)
THEOREM ToldStaysCurrent == WsSpec => []ToldIsCurrent
  BY ToldInit, ToldStep, ToldIsCurrentThen, PTL DEF WsSpec

-----------------------------------------------------------------------------
(***************************************************************************)
(* The other end of the socket: WsClient, for every set of subscriptions,  *)
(* several of them of one topic too, however many frames a turn has, with  *)
(* any bound on the calls and the events.  The application may call from   *)
(* any callback, so nothing is known of what it does.                      *)
(***************************************************************************)

IsAnswer(f) == f.kind # "notification"
Asking == {i \in Ids : pending[i] # NoCall}
OnItsWay(i) == \E n \in DOMAIN toServer : toServer[n].id = i
Answered(i) == \E n \in DOMAIN toClient : IsAnswer(toClient[n]) /\ toClient[n].id = i

(* Nothing crosses a socket that is not open, and before it is nobody has asked. *)
SocketInv ==
  /\ socket # "open" => toServer = <<>> /\ toClient = <<>> /\ server = {}
  /\ socket = "connecting" => Asking = {} /\ \A s \in Subs : phase[s] = "idle"

(* The requests on their way are of different calls that wait. *)
RequestsInv ==
  /\ \A i \in Asking : i <= idCursor
  /\ \A m, n \in DOMAIN toServer : toServer[m].id = toServer[n].id => m = n
  /\ \A n \in DOMAIN toServer : LET r == toServer[n] IN
       /\ r.id \in Asking
       /\ pending[r.id].method = r.method /\ Name[pending[r.id].sub] = r.name

(* So are the answers, of calls whose request is not on its way any more. *)
AnswersInv ==
  /\ \A m, n \in DOMAIN toClient :
       IsAnswer(toClient[m]) /\ IsAnswer(toClient[n]) /\ toClient[m].id = toClient[n].id => m = n
  /\ \A n \in DOMAIN toClient : IsAnswer(toClient[n]) =>
       LET f == toClient[n] IN
         /\ f.id \in Asking /\ ~OnItsWay(f.id)
         /\ (f.kind = "success") = (TopicOf(pending[f.id].sub) # Invalid)
  /\ socket = "open" => \A i \in Asking : OnItsWay(i) \/ Answered(i)

(* A subscription waits for one call at most. *)
CallsInv ==
  /\ \A i, j \in Asking : pending[i].sub = pending[j].sub => i = j
  /\ \A i \in Asking :
       phase[pending[i].sub] = IF pending[i].method = "subscribe" THEN "asking" ELSE "leaving"
  /\ \A s \in Subs : phase[s] \in {"asking", "leaving"} => \E i \in Asking : pending[i].sub = s

(* Who is granted something has it by the end of the turn. *)
TurnInv == \A s \in Subs : phase[s] = "granted" => inTurn > 0

(* The events on their way are in order, and after all that was heard. *)
OrderInv ==
  /\ \A n \in DOMAIN toClient : ~IsAnswer(toClient[n]) =>
       /\ toClient[n].news <= news
       /\ \A m \in 1..(n - 1) : ~IsAnswer(toClient[m]) => toClient[m].news < toClient[n].news
       /\ \A s \in Subs : \A k \in DOMAIN heard[s] : heard[s][k] < toClient[n].news
  /\ \A s \in Subs : \A k \in DOMAIN heard[s] : heard[s][k] <= news

Installed(s) == phase[s] \in {"granted", "on"}
Owes(s, f) == ~IsAnswer(f) /\ f.topic = TopicOf(s) => \E l \in DOMAIN owed[s] : owed[s][l] = f.news

(* What comes after the answer to a subscription is owed to it. *)
OwedInv ==
  /\ \A s \in Subs : Installed(s) =>
       s \in accepted /\ \A n \in DOMAIN toClient : Owes(s, toClient[n])
  /\ \A n \in DOMAIN toClient : LET f == toClient[n] IN
       (f.kind = "success" /\ pending[f.id].method = "subscribe") =>
         /\ pending[f.id].sub \in accepted
         /\ \A m \in (n + 1)..Len(toClient) : Owes(pending[f.id].sub, toClient[m])

(* The server holds a topic for someone who has it, or will, or is about to give it up. *)
Keeps(s) ==
  \/ Installed(s)
  \/ \E i \in Asking : /\ pending[i].sub = s
                       /\ (pending[i].method = "subscribe") = ~OnItsWay(i)
ServerInv == \A p \in server : \E s \in Subs : TopicOf(s) = p /\ Keeps(s)

ClientIInv ==
  /\ ClientTypeOK /\ SocketInv /\ RequestsInv /\ AnswersInv /\ CallsInv /\ OrderInv /\ OwedInv /\ ServerInv
  /\ TurnInv /\ OnlyOwedIsHeard

-----------------------------------------------------------------------------
(* What Append and Tail do, member by member. *)
LEMMA SequencesHave ==
  ASSUME NEW S, NEW s \in Seq(S)
  PROVE  Len(s) \in Nat /\ DOMAIN s = 1..Len(s) /\ \A n \in DOMAIN s : s[n] \in S
  OBVIOUS

LEMMA AppendHas ==
  ASSUME NEW S, NEW s \in Seq(S), NEW e \in S
  PROVE  /\ Append(s, e) \in Seq(S)
         /\ Len(Append(s, e)) = Len(s) + 1 /\ DOMAIN Append(s, e) = 1..(Len(s) + 1)
         /\ \A n \in 1..Len(s) : Append(s, e)[n] = s[n]
         /\ Append(s, e)[Len(s) + 1] = e
  OBVIOUS

LEMMA TailHas ==
  ASSUME NEW S, NEW s \in Seq(S), s # <<>>
  PROVE  /\ Tail(s) \in Seq(S) /\ Head(s) \in S /\ Head(s) = s[1] /\ 1 \in DOMAIN s
         /\ Len(Tail(s)) = Len(s) - 1 /\ DOMAIN Tail(s) = 1..(Len(s) - 1)
         /\ \A n \in 1..(Len(s) - 1) : Tail(s)[n] = s[n + 1] /\ n + 1 \in DOMAIN s
  OBVIOUS

(* The members of the two sequences on the socket. *)
LEMMA FramesAreTyped ==
  ASSUME ClientTypeOK
  PROVE  /\ Len(toServer) \in Nat /\ DOMAIN toServer = 1..Len(toServer)
         /\ Len(toClient) \in Nat /\ DOMAIN toClient = 1..Len(toClient)
         /\ \A n \in DOMAIN toServer :
              /\ toServer[n].id \in Ids /\ toServer[n].method \in {"subscribe", "unsubscribe"}
              /\ toServer[n].name \in Names
         /\ \A n \in DOMAIN toClient : toClient[n] \in Frame
         /\ \A n \in DOMAIN toClient : IsAnswer(toClient[n]) =>
              toClient[n].kind \in {"success", "error"} /\ toClient[n].id \in Ids
         /\ \A n \in DOMAIN toClient : ~IsAnswer(toClient[n]) =>
              /\ toClient[n].kind = "notification" /\ toClient[n].topic \in TopicSet
              /\ toClient[n].news \in 1..MaxNews
<1>1. \A f \in Frame :
        /\ IsAnswer(f) => f.kind \in {"success", "error"} /\ f.id \in Ids
        /\ ~IsAnswer(f) => f.kind = "notification" /\ f.topic \in TopicSet /\ f.news \in 1..MaxNews
  BY DEF Frame, IsAnswer
<1>2. /\ Len(toServer) \in Nat /\ DOMAIN toServer = 1..Len(toServer)
      /\ Len(toClient) \in Nat /\ DOMAIN toClient = 1..Len(toClient)
      /\ \A n \in DOMAIN toServer :
           toServer[n] \in [id : Ids, method : {"subscribe", "unsubscribe"}, name : Names]
      /\ \A n \in DOMAIN toClient : toClient[n] \in Frame
  <2>1. /\ toServer \in Seq([id : Ids, method : {"subscribe", "unsubscribe"}, name : Names])
        /\ toClient \in Seq(Frame)
    BY DEF ClientTypeOK
  <2> QED
    BY <2>1, SequencesHave
<1> QED
  BY <1>1, <1>2

(* Who has a call that waits, has made it. *)
LEMMA CallsAreTyped ==
  ASSUME ClientTypeOK
  PROVE  /\ Asking \subseteq Ids
         /\ \A i \in Asking :
              pending[i].sub \in Subs /\ pending[i].method \in {"subscribe", "unsubscribe"}
  BY DEF ClientTypeOK, Asking

LEMMA ClientInitially == ClientInit => ClientIInv
<1> SUFFICES ASSUME ClientInit
             PROVE  ClientIInv
  OBVIOUS
<1> USE DEF ClientInit
<1>1. ClientTypeOK
  BY WsClientAssumption DEF ClientTypeOK
<1>2. Asking = {}
  BY DEF Asking
<1>3. SocketInv /\ RequestsInv /\ AnswersInv /\ CallsInv
  BY <1>2 DEF SocketInv, RequestsInv, AnswersInv, CallsInv
<1>4. OrderInv /\ OwedInv /\ ServerInv /\ OnlyOwedIsHeard
  BY <1>2 DEF OrderInv, OwedInv, ServerInv, OnlyOwedIsHeard, Installed
<1>5. TurnInv
  BY DEF TurnInv
<1> QED
  BY <1>1, <1>3, <1>4, <1>5 DEF ClientIInv

(* A call that is made: nobody waits for its id, and its subscription waits for
   nothing else. *)
LEMMA RpcCallKeeps ==
  ASSUME ClientIInv, socket # "connecting", NEW s \in Subs, NEW m \in {"subscribe", "unsubscribe"},
         RpcCall(s, m), NEW id, id = NextId, phase[s] \in {"idle", "on"},
         phase' = [phase EXCEPT ![s] = IF m = "subscribe" THEN "asking" ELSE "leaving"],
         UNCHANGED <<socket, toClient, server>>
  PROVE  /\ id \in Ids \ Asking /\ Asking' = Asking \cup {id}
         /\ \A i \in Asking : pending'[i] = pending[i] /\ pending[i].sub # s
         /\ pending'[id].sub = s /\ pending'[id].method = m
         /\ \A i \in Asking : OnItsWay(i)' = OnItsWay(i)
         /\ socket = "open" => OnItsWay(id)'
         /\ idCursor' \in 0..MaxCalls
         /\ pending' \in [Ids -> [sub : Subs, method : {"subscribe", "unsubscribe"}] \cup {NoCall}]
         /\ toServer' \in Seq([id : Ids, method : {"subscribe", "unsubscribe"}, name : Names])
         /\ SocketInv' /\ RequestsInv' /\ AnswersInv' /\ CallsInv'
<1> DEFINE Requests == [id : Ids, method : {"subscribe", "unsubscribe"}, name : Names]
           req == [id |-> id, method |-> m, name |-> Name[s]]
<1>t. ClientTypeOK /\ SocketInv /\ RequestsInv /\ AnswersInv /\ CallsInv
  BY DEF ClientIInv
<1>1. idCursor \in Nat /\ idCursor < MaxCalls /\ id = idCursor + 1 /\ id \in Ids
  BY <1>t, WsClientAssumption DEF ClientTypeOK, RpcCall, NextId, Ids
<1>2. id \notin Asking
  <2>1. \A i \in Asking : i \in Nat /\ i <= idCursor
    BY <1>t DEF RequestsInv, Asking, Ids
  <2> QED
    BY <1>1, <2>1
<1>3. /\ pending' = [pending EXCEPT ![id] = [sub |-> s, method |-> m]]
      /\ pending \in [Ids -> [sub : Subs, method : {"subscribe", "unsubscribe"}] \cup {NoCall}]
  BY <1>t DEF ClientTypeOK, RpcCall
<1>4. /\ pending' \in [Ids -> [sub : Subs, method : {"subscribe", "unsubscribe"}] \cup {NoCall}]
      /\ pending'[id] = [sub |-> s, method |-> m] /\ pending'[id] # NoCall
      /\ \A i \in Ids \ {id} : pending'[i] = pending[i]
  BY <1>1, <1>3 DEF NoCall
<1>5. Asking' = Asking \cup {id}
  BY <1>1, <1>4 DEF Asking
<1>6. \A i \in Asking : pending'[i] = pending[i] /\ pending[i].sub # s
  <2>1. \A i \in Asking : i \in Ids /\ phase[pending[i].sub] \in {"asking", "leaving"}
    BY <1>t DEF CallsInv, Asking
  <2> QED
    BY <1>2, <1>4, <2>1
<1>7. pending'[id].sub = s /\ pending'[id].method = m
  BY <1>4
<1>8. /\ Len(toServer) \in Nat /\ DOMAIN toServer = 1..Len(toServer)
      /\ toServer \in Seq(Requests) /\ req \in Requests
      /\ \A n \in DOMAIN toServer : toServer[n].id \in Asking /\ toServer[n].id # id
  <2>1. req \in Requests
    BY <1>1 DEF Names
  <2>2. \A n \in DOMAIN toServer : toServer[n].id \in Asking
    BY <1>t DEF RequestsInv
  <2> QED
    BY <1>t, <1>2, <2>1, <2>2, FramesAreTyped DEF ClientTypeOK
<1> DEFINE sent == IF socket = "open" THEN {Len(toServer) + 1} ELSE {}
<1>9. /\ toServer' \in Seq(Requests)
      /\ DOMAIN toServer' = DOMAIN toServer \cup sent
      /\ \A n \in DOMAIN toServer : toServer'[n] = toServer[n] /\ n \notin sent
      /\ \A n \in sent : toServer'[n] = req
  <2>1. toServer' = IF socket = "open" THEN Append(toServer, req) ELSE toServer
    BY DEF RpcCall
  <2>2. CASE socket = "open"
    <3>1. /\ Append(toServer, req) \in Seq(Requests)
          /\ DOMAIN Append(toServer, req) = 1..(Len(toServer) + 1)
          /\ \A n \in 1..Len(toServer) : Append(toServer, req)[n] = toServer[n]
          /\ Append(toServer, req)[Len(toServer) + 1] = req
      BY <1>8, AppendHas
    <3> HIDE DEF req, Requests
    <3>2. 1..(Len(toServer) + 1) = 1..Len(toServer) \cup {Len(toServer) + 1} /\ Len(toServer) + 1 \notin 1..Len(toServer)
      BY <1>8
    <3> QED
      BY <1>8, <2>1, <2>2, <3>1, <3>2
  <2>3. CASE socket # "open"
    BY <1>8, <2>1, <2>3
  <2> QED
    BY <2>2, <2>3
<1>10. req.id = id /\ req.method = m /\ req.name = Name[s]
  OBVIOUS
<1> HIDE DEF req, Requests, sent
<1>11. \A i \in Asking : OnItsWay(i)' = OnItsWay(i)
  BY <1>2, <1>9, <1>10 DEF OnItsWay
<1>12. socket = "open" => OnItsWay(id)'
  <2> HAVE socket = "open"
  <2>1. Len(toServer) + 1 \in DOMAIN toServer' /\ toServer'[Len(toServer) + 1].id = id
    BY <1>9, <1>10 DEF sent
  <2> QED
    BY <2>1 DEF OnItsWay
<1>13. SocketInv'
  BY <1>t DEF SocketInv, RpcCall
<1>14. idCursor' \in 0..MaxCalls /\ idCursor' = idCursor + 1
  BY <1>1, WsClientAssumption DEF RpcCall
<1>15. RequestsInv'
  <2>1. \A i \in Asking' : i <= idCursor'
    <3>1. \A i \in Asking : i \in Nat /\ i <= idCursor
      BY <1>t DEF RequestsInv, Asking, Ids
    <3> QED
      BY <1>1, <1>5, <1>14, <3>1
  <2>2. \A k, n \in DOMAIN toServer' : toServer'[k].id = toServer'[n].id => k = n
    <3>1. \A k, n \in DOMAIN toServer : toServer[k].id = toServer[n].id => k = n
      BY <1>t DEF RequestsInv
    <3>2. \A k, n \in sent : k = n
      BY DEF sent
    <3> QED
      BY <1>8, <1>9, <1>10, <3>1, <3>2
  <2>3. \A n \in DOMAIN toServer' :
          /\ toServer'[n].id \in Asking'
          /\ pending'[toServer'[n].id].method = toServer'[n].method
          /\ Name[pending'[toServer'[n].id].sub] = toServer'[n].name
    <3>1. \A n \in DOMAIN toServer :
            /\ toServer[n].id \in Asking
            /\ pending[toServer[n].id].method = toServer[n].method
            /\ Name[pending[toServer[n].id].sub] = toServer[n].name
      BY <1>t DEF RequestsInv
    <3>2. \A n \in DOMAIN toServer' : n \in DOMAIN toServer \/ n \in sent
      BY <1>9
    <3>3. ASSUME NEW n \in DOMAIN toServer
          PROVE  /\ toServer'[n].id \in Asking'
                 /\ pending'[toServer'[n].id].method = toServer'[n].method
                 /\ Name[pending'[toServer'[n].id].sub] = toServer'[n].name
      BY <1>5, <1>6, <1>9, <3>1
    <3>4. ASSUME NEW n \in sent
          PROVE  /\ toServer'[n].id \in Asking'
                 /\ pending'[toServer'[n].id].method = toServer'[n].method
                 /\ Name[pending'[toServer'[n].id].sub] = toServer'[n].name
      BY <1>5, <1>7, <1>9, <1>10
    <3> QED
      BY <3>2, <3>3, <3>4
  <2> QED
    BY <2>1, <2>2, <2>3 DEF RequestsInv
<1>16. AnswersInv'
  <2>1. \A n \in DOMAIN toClient : IsAnswer(toClient[n]) =>
          /\ toClient[n].id \in Asking /\ ~OnItsWay(toClient[n].id)
          /\ (toClient[n].kind = "success") = (TopicOf(pending[toClient[n].id].sub) # Invalid)
    BY <1>t DEF AnswersInv
  <2>2. (\A n \in DOMAIN toClient : IsAnswer(toClient[n]) =>
          /\ toClient[n].id \in Asking /\ ~OnItsWay(toClient[n].id)
          /\ (toClient[n].kind = "success") = (TopicOf(pending[toClient[n].id].sub) # Invalid))'
    BY <1>5, <1>6, <1>11, <2>1 DEF OnItsWay
  <2>3. \A i \in Asking : Answered(i)' = Answered(i)
    BY DEF Answered
  <2>4. ASSUME socket' = "open", NEW i \in Asking'
        PROVE  OnItsWay(i)' \/ Answered(i)'
    <3>1. CASE i \in Asking
      BY <1>t, <1>11, <2>3, <2>4, <3>1 DEF AnswersInv
    <3>2. CASE i = id
      BY <1>12, <2>4, <3>2 DEF OnItsWay
    <3> QED
      BY <1>5, <3>1, <3>2
  <2>5. \A k, n \in DOMAIN toClient' :
          IsAnswer(toClient'[k]) /\ IsAnswer(toClient'[n]) /\ toClient'[k].id = toClient'[n].id => k = n
    BY <1>t DEF AnswersInv
  <2> QED
    BY <2>2, <2>4, <2>5 DEF AnswersInv
<1>17. CallsInv'
  <2>1. \A i, j \in Asking' : pending'[i].sub = pending'[j].sub => i = j
    BY <1>t, <1>5, <1>6, <1>7 DEF CallsInv
  <2>2. phase \in [Subs -> {"idle", "asking", "granted", "on", "leaving"}]
    BY <1>t DEF ClientTypeOK
  <2>3. /\ phase'[s] = IF m = "subscribe" THEN "asking" ELSE "leaving"
        /\ \A t \in Subs \ {s} : phase'[t] = phase[t]
    BY <2>2
  <2>4. \A i \in Asking : pending[i].sub \in Subs
    BY <1>t, CallsAreTyped
  <2>5. \A i \in Asking' :
          phase'[pending'[i].sub] = IF pending'[i].method = "subscribe" THEN "asking" ELSE "leaving"
    BY <1>t, <1>5, <1>6, <1>7, <2>3, <2>4 DEF CallsInv
  <2>6. ASSUME NEW t \in Subs, phase'[t] \in {"asking", "leaving"}
        PROVE  \E i \in Asking' : pending'[i].sub = t
    <3>1. CASE t = s
      BY <1>5, <1>7, <3>1
    <3>2. CASE t # s
      <4>1. PICK i \in Asking : pending[i].sub = t
        BY <1>t, <2>3, <2>6, <3>2 DEF CallsInv
      <4> QED
        BY <1>5, <1>6, <4>1
    <3> QED
      BY <3>1, <3>2
  <2> QED
    BY <2>1, <2>5, <2>6 DEF CallsInv
<1>18. toServer' \in Seq([id : Ids, method : {"subscribe", "unsubscribe"}, name : Names])
  BY <1>9 DEF Requests
<1> QED
  BY <1>1, <1>2, <1>4, <1>5, <1>6, <1>7, <1>11, <1>12, <1>13, <1>14, <1>15, <1>16, <1>17, <1>18

LEMMA SubscribeUpdatesKeeps ==
  ASSUME ClientIInv, NEW s \in Subs, SubscribeUpdates(s)
  PROVE  ClientIInv'
<1> DEFINE id == NextId
<1>t. /\ ClientTypeOK /\ SocketInv /\ OrderInv /\ OwedInv /\ ServerInv /\ AnswersInv /\ OnlyOwedIsHeard
      /\ socket # "connecting" /\ phase[s] = "idle" /\ RpcCall(s, "subscribe")
      /\ phase' = [phase EXCEPT ![s] = "asking"]
      /\ owed' = [owed EXCEPT ![s] = <<>>] /\ heard' = [heard EXCEPT ![s] = <<>>]
      /\ UNCHANGED <<socket, listening, inTurn, toClient, server, news, accepted>>
  BY DEF ClientIInv, SubscribeUpdates
<1>1. /\ id \in Ids \ Asking /\ Asking' = Asking \cup {id}
      /\ \A i \in Asking : pending'[i] = pending[i] /\ pending[i].sub # s
      /\ \A i \in Asking : OnItsWay(i)' = OnItsWay(i)
      /\ idCursor' \in 0..MaxCalls
      /\ pending' \in [Ids -> [sub : Subs, method : {"subscribe", "unsubscribe"}] \cup {NoCall}]
      /\ toServer' \in Seq([id : Ids, method : {"subscribe", "unsubscribe"}, name : Names])
      /\ SocketInv' /\ RequestsInv' /\ AnswersInv' /\ CallsInv'
  BY <1>t, RpcCallKeeps
<1> HIDE DEF id
<1>2. /\ phase' \in [Subs -> {"idle", "asking", "granted", "on", "leaving"}]
      /\ phase'[s] = "asking" /\ \A t \in Subs \ {s} : phase'[t] = phase[t]
  BY <1>t DEF ClientTypeOK
<1>3. /\ owed' \in [Subs -> Seq(1..MaxNews)] /\ heard' \in [Subs -> Seq(1..MaxNews)]
      /\ owed'[s] = <<>> /\ heard'[s] = <<>>
      /\ \A t \in Subs \ {s} : owed'[t] = owed[t] /\ heard'[t] = heard[t]
  <2>1. owed \in [Subs -> Seq(1..MaxNews)] /\ heard \in [Subs -> Seq(1..MaxNews)]
    BY <1>t DEF ClientTypeOK
  <2>2. <<>> \in Seq(1..MaxNews)
    OBVIOUS
  <2> QED
    BY <1>t, <2>1, <2>2
<1>4. ClientTypeOK'
  <2>1. listening' = {t \in Subs : phase'[t] = "on"}
    BY <1>t, <1>2 DEF ClientTypeOK
  <2> QED
    BY <1>t, <1>1, <1>2, <1>3, <2>1 DEF ClientTypeOK, Frame
<1>5. OrderInv'
  BY <1>t, <1>3 DEF OrderInv, IsAnswer
<1>6. \A t \in Subs : Installed(t)' => Installed(t) /\ t # s
  BY <1>2 DEF Installed
<1>7. OwedInv'
  <2>1. ASSUME NEW t \in Subs, Installed(t)'
        PROVE  (t \in accepted /\ \A n \in DOMAIN toClient : Owes(t, toClient[n]))'
    BY <1>t, <1>3, <1>6, <2>1 DEF OwedInv, Owes, IsAnswer
  <2>2. ASSUME NEW n \in DOMAIN toClient, toClient[n].kind = "success",
               pending'[toClient[n].id].method = "subscribe"
        PROVE  (/\ pending[toClient[n].id].sub \in accepted
                /\ \A m \in (n + 1)..Len(toClient) : Owes(pending[toClient[n].id].sub, toClient[m]))'
    <3>1. toClient[n].id \in Asking /\ pending'[toClient[n].id] = pending[toClient[n].id]
          /\ pending[toClient[n].id].sub # s /\ pending[toClient[n].id].sub \in Subs
      BY <1>t, <1>1, <2>2, CallsAreTyped DEF AnswersInv, IsAnswer
    <3> QED
      BY <1>t, <1>3, <2>2, <3>1 DEF OwedInv, Owes, IsAnswer
  <2>3. toClient' = toClient
    BY <1>t
  <2> QED
    BY <2>1, <2>2, <2>3 DEF OwedInv
<1>8. ServerInv'
  <2>1. \A t \in Subs : Keeps(t) => Keeps(t)'
    BY <1>1, <1>2, <1>t DEF Keeps, Installed, OnItsWay
  <2> QED
    BY <1>t, <2>1 DEF ServerInv
<1>9. OnlyOwedIsHeard'
  BY <1>t, <1>3 DEF OnlyOwedIsHeard
<1>c. TurnInv'
  <2>1. TurnInv /\ inTurn' = inTurn
    BY <1>t DEF ClientIInv, SubscribeUpdates
  <2> QED
    BY <1>2, <2>1 DEF TurnInv
<1> QED
  BY <1>c, <1>1, <1>4, <1>5, <1>7, <1>8, <1>9 DEF ClientIInv

LEMMA UnsubscribeUpdatesKeeps ==
  ASSUME ClientIInv, NEW s \in Subs, UnsubscribeUpdates(s)
  PROVE  ClientIInv'
<1> DEFINE id == NextId
<1>t. /\ ClientTypeOK /\ SocketInv /\ OrderInv /\ OwedInv /\ ServerInv /\ AnswersInv /\ OnlyOwedIsHeard
      /\ phase[s] = "on" /\ RpcCall(s, "unsubscribe")
      /\ phase' = [phase EXCEPT ![s] = "leaving"]
      /\ listening' = listening \ {s} /\ accepted' = accepted \ {s}
      /\ UNCHANGED <<socket, inTurn, toClient, server, news, owed, heard>>
  BY DEF ClientIInv, UnsubscribeUpdates
<1>0. socket # "connecting"
  BY <1>t DEF SocketInv
<1>1. /\ id \in Ids \ Asking /\ Asking' = Asking \cup {id}
      /\ \A i \in Asking : pending'[i] = pending[i] /\ pending[i].sub # s
      /\ pending'[id].sub = s /\ pending'[id].method = "unsubscribe"
      /\ \A i \in Asking : OnItsWay(i)' = OnItsWay(i)
      /\ idCursor' \in 0..MaxCalls
      /\ pending' \in [Ids -> [sub : Subs, method : {"subscribe", "unsubscribe"}] \cup {NoCall}]
      /\ toServer' \in Seq([id : Ids, method : {"subscribe", "unsubscribe"}, name : Names])
      /\ SocketInv' /\ RequestsInv' /\ AnswersInv' /\ CallsInv'
  <2>1. phase' = [phase EXCEPT ![s] = IF "unsubscribe" = "subscribe" THEN "asking" ELSE "leaving"]
    BY <1>t
  <2>2. "unsubscribe" \in {"subscribe", "unsubscribe"} /\ phase[s] \in {"idle", "on"}
        /\ UNCHANGED <<socket, toClient, server>> /\ RpcCall(s, "unsubscribe")
    BY <1>t
  <2> QED
    BY <1>0, <2>1, <2>2, RpcCallKeeps
<1>a. socket = "open" => \E n \in DOMAIN toServer' : toServer'[n].id = id
  <2>1. \A i : i = NextId => (socket = "open" => OnItsWay(i)')
    BY <1>t, <1>0, RpcCallKeeps
  <2> QED
    BY <2>1 DEF OnItsWay
<1> HIDE DEF id
<1>2. /\ phase' \in [Subs -> {"idle", "asking", "granted", "on", "leaving"}]
      /\ phase'[s] = "leaving" /\ \A t \in Subs \ {s} : phase'[t] = phase[t]
  BY <1>t DEF ClientTypeOK
<1>4. ClientTypeOK'
  <2>1. listening' = {t \in Subs : phase'[t] = "on"}
    BY <1>t, <1>2 DEF ClientTypeOK
  <2> QED
    BY <1>t, <1>1, <1>2, <2>1 DEF ClientTypeOK, Frame
<1>5. OrderInv'
  BY <1>t DEF OrderInv, IsAnswer
<1>6. \A t \in Subs : Installed(t)' => Installed(t) /\ t # s
  BY <1>2 DEF Installed
<1>7. OwedInv'
  <2>1. ASSUME NEW t \in Subs, Installed(t)'
        PROVE  (t \in accepted /\ \A n \in DOMAIN toClient : Owes(t, toClient[n]))'
    BY <1>t, <1>6, <2>1 DEF OwedInv, Owes, IsAnswer
  <2>2. ASSUME NEW n \in DOMAIN toClient, toClient[n].kind = "success",
               pending'[toClient[n].id].method = "subscribe"
        PROVE  (/\ pending[toClient[n].id].sub \in accepted
                /\ \A m \in (n + 1)..Len(toClient) : Owes(pending[toClient[n].id].sub, toClient[m]))'
    <3>1. toClient[n].id \in Asking /\ pending'[toClient[n].id] = pending[toClient[n].id]
          /\ pending[toClient[n].id].sub # s /\ pending[toClient[n].id].sub \in Subs
      BY <1>t, <1>1, <2>2, CallsAreTyped DEF AnswersInv, IsAnswer
    <3> QED
      BY <1>t, <2>2, <3>1 DEF OwedInv, Owes, IsAnswer
  <2>3. toClient' = toClient
    BY <1>t
  <2> QED
    BY <2>1, <2>2, <2>3 DEF OwedInv
<1>8. ServerInv'
  <2>1. \A t \in Subs \ {s} : Keeps(t) => Keeps(t)'
    BY <1>1, <1>2, <1>t DEF Keeps, Installed, OnItsWay
  <2>2. socket = "open" => Keeps(s)'
    BY <1>1, <1>a DEF Keeps, OnItsWay
  <2>3. ASSUME NEW p \in server
        PROVE  \E t \in Subs : TopicOf(t) = p /\ Keeps(t)'
    <3>1. socket = "open"
      BY <1>t, <2>3 DEF SocketInv
    <3> QED
      BY <1>t, <2>1, <2>2, <3>1 DEF ServerInv
  <2> QED
    BY <1>t, <2>3 DEF ServerInv
<1>9. OnlyOwedIsHeard'
  BY <1>t DEF OnlyOwedIsHeard
<1>c. TurnInv'
  <2>1. TurnInv /\ inTurn' = inTurn
    BY <1>t DEF ClientIInv, UnsubscribeUpdates
  <2> QED
    BY <1>2, <2>1 DEF TurnInv
<1> QED
  BY <1>c, <1>1, <1>4, <1>5, <1>7, <1>8, <1>9 DEF ClientIInv

(* The socket opens: nothing has crossed it. *)
LEMMA ConnectKeeps ==
  ASSUME ClientIInv, Connect
  PROVE  ClientIInv'
<1>1. /\ ClientTypeOK /\ SocketInv /\ RequestsInv /\ AnswersInv /\ CallsInv /\ OrderInv /\ OwedInv
      /\ ServerInv /\ OnlyOwedIsHeard
      /\ socket = "connecting" /\ socket' = "open"
      /\ UNCHANGED <<idCursor, pending, phase, listening, inTurn, toServer, toClient, server, news,
                     accepted, owed, heard>>
  BY DEF ClientIInv, Connect
<1>2. ClientTypeOK'
  BY <1>1 DEF ClientTypeOK, Frame
<1>3. Asking' = {} /\ toServer' = <<>> /\ toClient' = <<>> /\ server' = {}
  BY <1>1 DEF SocketInv, Asking
<1>4. SocketInv' /\ RequestsInv' /\ AnswersInv' /\ ServerInv'
  BY <1>1, <1>3 DEF SocketInv, RequestsInv, AnswersInv, ServerInv
<1>5. CallsInv'
  BY <1>1 DEF CallsInv, Asking
<1>6. OrderInv' /\ OnlyOwedIsHeard'
  BY <1>1 DEF OrderInv, OnlyOwedIsHeard, IsAnswer
<1>7. OwedInv'
  BY <1>1, <1>3 DEF OwedInv, Installed
<1>c. TurnInv'
  <2>1. TurnInv /\ inTurn' = inTurn
    BY <1>1 DEF ClientIInv, Connect
  <2> QED
    BY <1>1, <2>1 DEF TurnInv
<1> QED
  BY <1>c, <1>2, <1>4, <1>5, <1>6, <1>7 DEF ClientIInv

(* The socket closes: what was on its way is lost, and calls wait for ever. *)
LEMMA CloseClientKeeps ==
  ASSUME ClientIInv, Close
  PROVE  ClientIInv'
<1>1. /\ ClientTypeOK /\ SocketInv /\ RequestsInv /\ AnswersInv /\ CallsInv /\ OrderInv /\ OwedInv
      /\ ServerInv /\ OnlyOwedIsHeard
      /\ socket' = "closed" /\ toServer' = <<>> /\ toClient' = <<>> /\ server' = {}
      /\ UNCHANGED <<idCursor, pending, phase, listening, inTurn, news, accepted, owed, heard>>
  BY DEF ClientIInv, Close
<1>2. ClientTypeOK'
  BY <1>1 DEF ClientTypeOK, Frame
<1>3. Asking' = Asking
  BY <1>1 DEF Asking
<1>4. SocketInv' /\ RequestsInv' /\ AnswersInv' /\ ServerInv'
  BY <1>1, <1>3 DEF SocketInv, RequestsInv, AnswersInv, ServerInv
<1>5. CallsInv'
  BY <1>1, <1>3 DEF CallsInv
<1>6. OrderInv' /\ OnlyOwedIsHeard'
  BY <1>1 DEF OrderInv, OnlyOwedIsHeard, IsAnswer
<1>7. OwedInv'
  BY <1>1, <1>3 DEF OwedInv, Installed
<1>c. TurnInv'
  <2>1. TurnInv /\ inTurn' = inTurn
    BY <1>1 DEF ClientIInv, Close
  <2> QED
    BY <1>1, <2>1 DEF TurnInv
<1> QED
  BY <1>c, <1>2, <1>4, <1>5, <1>6, <1>7 DEF ClientIInv

(* The turn is over: what was granted has its listener. *)
LEMMA EndTurnKeeps ==
  ASSUME ClientIInv, EndTurn
  PROVE  ClientIInv'
<1> DEFINE began == {s \in Subs : phase[s] = "granted"}
<1>1. /\ ClientTypeOK /\ SocketInv /\ RequestsInv /\ AnswersInv /\ CallsInv /\ OrderInv /\ OwedInv
      /\ ServerInv /\ OnlyOwedIsHeard
      /\ inTurn' = 0 /\ listening' = listening \cup began
      /\ phase' = [s \in Subs |-> IF s \in began THEN "on" ELSE phase[s]]
      /\ UNCHANGED <<socket, idCursor, pending, toServer, toClient, server, news, accepted, owed, heard>>
  BY DEF ClientIInv, EndTurn
<1>2. /\ phase' \in [Subs -> {"idle", "asking", "granted", "on", "leaving"}]
      /\ \A s \in Subs : Installed(s)' = Installed(s)
      /\ \A s \in Subs : phase'[s] \in {"asking", "leaving"} \/ phase[s] \in {"asking", "leaving"}
                           => phase'[s] = phase[s]
      /\ \A s \in Subs : phase[s] = "idle" => phase'[s] = "idle"
  BY <1>1 DEF ClientTypeOK, Installed
<1>3. ClientTypeOK'
  <2>1. listening' = {t \in Subs : phase'[t] = "on"}
    BY <1>1 DEF ClientTypeOK
  <2>2. inTurn' \in 0..FramesPerTurn
    BY <1>1, WsClientAssumption
  <2> QED
    BY <1>1, <1>2, <2>1, <2>2 DEF ClientTypeOK, Frame
<1>4. Asking' = Asking
  BY <1>1 DEF Asking
<1>5. SocketInv'
  BY <1>1, <1>2, <1>4 DEF SocketInv
<1>6. RequestsInv' /\ AnswersInv'
  BY <1>1, <1>4 DEF RequestsInv, AnswersInv, OnItsWay, Answered, IsAnswer
<1>7. CallsInv'
  BY <1>1, <1>2, <1>4, CallsAreTyped DEF CallsInv
<1>8. OrderInv' /\ OnlyOwedIsHeard'
  BY <1>1 DEF OrderInv, OnlyOwedIsHeard, IsAnswer
<1>9. OwedInv'
  BY <1>1, <1>2 DEF OwedInv, Owes, IsAnswer
<1>10. ServerInv'
  BY <1>1, <1>2, <1>4 DEF ServerInv, Keeps, OnItsWay
<1>c. TurnInv'
  BY <1>1 DEF TurnInv
<1> QED
  BY <1>c, <1>3, <1>5, <1>6, <1>7, <1>8, <1>9, <1>10 DEF ClientIInv

(* The server answers the next request: its call is answered and not asked any more. *)
LEMMA ServeKeeps ==
  ASSUME ClientIInv, Serve
  PROVE  ClientIInv'
<1> DEFINE Requests == [id : Ids, method : {"subscribe", "unsubscribe"}, name : Names]
           req == Head(toServer)
           topics == {Normal[req.name]} \ {Invalid}
           caller == {s \in Subs : pending[req.id].sub = s}
           sub == pending[req.id].sub
           last == Len(toClient) + 1
<1>t. /\ ClientTypeOK /\ SocketInv /\ RequestsInv /\ AnswersInv /\ CallsInv /\ OrderInv /\ OwedInv
      /\ ServerInv /\ OnlyOwedIsHeard
      /\ toServer # <<>> /\ toServer' = Tail(toServer)
      /\ toClient' = Append(toClient, Answer(req))
      /\ IF req.method = "subscribe"
         THEN /\ server' = server \cup topics
              /\ accepted' = IF topics = {} THEN accepted ELSE accepted \cup caller
         ELSE server' = server \ topics /\ accepted' = accepted
      /\ UNCHANGED <<socket, idCursor, pending, phase, listening, inTurn, news, owed, heard>>
  BY DEF ClientIInv, Serve, client
<1>1. /\ toServer \in Seq(Requests) /\ toServer' \in Seq(Requests)
      /\ req = toServer[1] /\ 1 \in DOMAIN toServer /\ req \in Requests
      /\ DOMAIN toServer = 1..Len(toServer) /\ Len(toServer) \in Nat
      /\ DOMAIN toServer' = 1..(Len(toServer) - 1)
      /\ \A n \in DOMAIN toServer' : n \in Nat /\ toServer'[n] = toServer[n + 1] /\ n + 1 \in DOMAIN toServer
  <2>1. toServer \in Seq(Requests)
    BY <1>t DEF ClientTypeOK
  <2> HIDE DEF Requests
  <2> QED
    BY <1>t, <2>1, TailHas, SequencesHave
<1>2. /\ req.id \in Ids /\ req.id \in Asking /\ pending[req.id].method = req.method
      /\ req.name = Name[sub] /\ sub \in Subs /\ TopicOf(sub) = Normal[req.name] /\ OnItsWay(req.id)
      /\ req.method \in {"subscribe", "unsubscribe"}
  <2>1. req.id \in Asking /\ pending[req.id].method = req.method /\ Name[sub] = req.name
    BY <1>t, <1>1 DEF RequestsInv
  <2>2. sub \in Subs
    BY <1>t, <2>1, CallsAreTyped
  <2>3. OnItsWay(req.id)
    BY <1>1 DEF OnItsWay
  <2> QED
    BY <1>1, <2>1, <2>2, <2>3 DEF TopicOf
<1>3. caller = {sub}
  BY <1>2
<1>4. /\ Answer(req) \in Frame /\ IsAnswer(Answer(req)) /\ Answer(req).id = req.id
      /\ (Answer(req).kind = "success") = (TopicOf(sub) # Invalid)
  BY <1>2 DEF Answer, Frame, IsAnswer
<1>5. /\ Len(toClient) \in Nat /\ DOMAIN toClient = 1..Len(toClient)
      /\ toClient' \in Seq(Frame) /\ Len(toClient') = last /\ DOMAIN toClient' = 1..last
      /\ \A n \in DOMAIN toClient : toClient'[n] = toClient[n]
      /\ toClient'[last] = Answer(req)
  <2>1. toClient \in Seq(Frame)
    BY <1>t DEF ClientTypeOK
  <2> QED
    BY <1>t, <1>4, <2>1, AppendHas, SequencesHave
<1>6. \A n \in DOMAIN toClient' : n \in DOMAIN toClient \/ n = last
  BY <1>5
<1>7. Asking' = Asking /\ Asking \subseteq Ids
  BY <1>t DEF Asking
<1>8. topics = {} <=> TopicOf(sub) = Invalid
  BY <1>2
<1>9. topics \subseteq TopicSet /\ \A p \in topics : p = TopicOf(sub)
  BY <1>1, <1>2 DEF TopicSet
<1>m. /\ accepted \subseteq accepted' /\ accepted' \subseteq Subs
      /\ req.method = "subscribe" /\ TopicOf(sub) # Invalid => sub \in accepted'
  BY <1>t, <1>2, <1>3, <1>8 DEF ClientTypeOK
<1>s. /\ server' \subseteq TopicSet
      /\ req.method = "subscribe" => server' = server \cup topics
      /\ req.method # "subscribe" => server' = server \ topics
  BY <1>t, <1>9 DEF ClientTypeOK
<1> HIDE DEF req, topics, caller, Requests, last
<1>10. /\ \A i \in Asking \ {req.id} : OnItsWay(i)' = OnItsWay(i)
       /\ ~ \E n \in DOMAIN toServer' : toServer'[n].id = req.id
  <2>1. ASSUME NEW i \in Asking \ {req.id}
        PROVE  OnItsWay(i)' = OnItsWay(i)
    <3>1. OnItsWay(i)' => OnItsWay(i)
      BY <1>1 DEF OnItsWay
    <3>2. ASSUME NEW n \in DOMAIN toServer, toServer[n].id = i
          PROVE  \E k \in DOMAIN toServer' : toServer'[k].id = i
      <4>1. n # 1 /\ n \in 1..Len(toServer)
        BY <1>1, <2>1, <3>2
      <4>2. n - 1 \in 1..(Len(toServer) - 1) /\ (n - 1) + 1 = n
        BY <1>1, <4>1
      <4> QED
        BY <1>1, <3>2, <4>2
    <3> QED
      BY <3>1, <3>2 DEF OnItsWay
  <2>2. ASSUME NEW n \in DOMAIN toServer', toServer'[n].id = req.id
        PROVE  FALSE
    <3>1. n + 1 = 1
      BY <1>t, <1>1, <2>2 DEF RequestsInv
    <3>2. n \in 1..(Len(toServer) - 1)
      BY <1>1
    <3> QED
      BY <1>1, <3>1, <3>2
  <2> QED
    BY <2>1, <2>2
<1>11. ClientTypeOK'
  BY <1>t, <1>1, <1>5, <1>m, <1>s DEF ClientTypeOK, Requests, Frame
<1>12. SocketInv'
  BY <1>t, <1>7 DEF SocketInv
<1>13. RequestsInv'
  <2>1. \A i \in Asking' : i <= idCursor'
    BY <1>t, <1>7 DEF RequestsInv
  <2>2. \A m, n \in DOMAIN toServer' : toServer'[m].id = toServer'[n].id => m = n
    <3>1. \A m, n \in DOMAIN toServer' : toServer'[m].id = toServer'[n].id => m + 1 = n + 1 /\ m \in Nat /\ n \in Nat
      BY <1>t, <1>1 DEF RequestsInv
    <3>2. \A m, n \in Nat : m + 1 = n + 1 => m = n
      OBVIOUS
    <3> QED
      BY <3>1, <3>2
  <2>3. \A n \in DOMAIN toServer : LET r == toServer[n] IN
          r.id \in Asking /\ pending[r.id].method = r.method /\ Name[pending[r.id].sub] = r.name
    BY <1>t DEF RequestsInv
  <2>4. \A n \in DOMAIN toServer' : LET r == toServer'[n] IN
          r.id \in Asking' /\ pending'[r.id].method = r.method /\ Name[pending'[r.id].sub] = r.name
    BY <1>1, <1>7, <1>t, <2>3
  <2> QED
    BY <2>1, <2>2, <2>4 DEF RequestsInv
<1>14. AnswersInv'
  <2>1. \A n \in DOMAIN toClient : IsAnswer(toClient[n]) =>
          /\ toClient[n].id \in Asking /\ ~OnItsWay(toClient[n].id) /\ toClient[n].id # req.id
          /\ (toClient[n].kind = "success") = (TopicOf(pending[toClient[n].id].sub) # Invalid)
    BY <1>t, <1>2 DEF AnswersInv
  <2>2. \A m, n \in DOMAIN toClient :
          IsAnswer(toClient[m]) /\ IsAnswer(toClient[n]) /\ toClient[m].id = toClient[n].id => m = n
    BY <1>t DEF AnswersInv
  <2>3. \A m, n \in DOMAIN toClient' :
          IsAnswer(toClient'[m]) /\ IsAnswer(toClient'[n]) /\ toClient'[m].id = toClient'[n].id => m = n
    BY <1>4, <1>5, <1>6, <2>1, <2>2
  <2>4. (\A n \in DOMAIN toClient : IsAnswer(toClient[n]) =>
          /\ toClient[n].id \in Asking /\ ~OnItsWay(toClient[n].id)
          /\ (toClient[n].kind = "success") = (TopicOf(pending[toClient[n].id].sub) # Invalid))'
    <3>1. ASSUME NEW n \in DOMAIN toClient', IsAnswer(toClient'[n])
          PROVE  /\ toClient'[n].id \in Asking /\ ~ \E k \in DOMAIN toServer' : toServer'[k].id = toClient'[n].id
                 /\ (toClient'[n].kind = "success") = (TopicOf(pending[toClient'[n].id].sub) # Invalid)
      <4>1. CASE n \in DOMAIN toClient
        BY <1>5, <1>10, <2>1, <3>1, <4>1 DEF OnItsWay
      <4>2. CASE n = last
        BY <1>2, <1>4, <1>5, <1>10, <4>2
      <4> QED
        BY <1>6, <4>1, <4>2
    <3> QED
      BY <1>7, <1>t, <3>1 DEF OnItsWay, IsAnswer
  <2>5. ASSUME socket' = "open", NEW i \in Asking'
        PROVE  OnItsWay(i)' \/ Answered(i)'
    <3>1. CASE i = req.id
      <4>1. last \in DOMAIN toClient'
        BY <1>5 DEF last
      <4> QED
        BY <1>4, <1>5, <3>1, <4>1 DEF Answered, IsAnswer
    <3>2. CASE i # req.id
      <4>1. OnItsWay(i) \/ Answered(i)
        BY <1>t, <1>7, <2>5 DEF AnswersInv
      <4>2. Answered(i) => Answered(i)'
        <5>1. DOMAIN toClient \subseteq DOMAIN toClient'
          BY <1>5 DEF last
        <5> QED
          BY <1>5, <5>1 DEF Answered, IsAnswer
      <4> QED
        BY <1>7, <1>10, <3>2, <4>1, <4>2
    <3> QED
      BY <3>1, <3>2
  <2> QED
    BY <2>3, <2>4, <2>5 DEF AnswersInv, IsAnswer
<1>15. CallsInv'
  BY <1>t, <1>7 DEF CallsInv
<1>16. OrderInv'
  <2>1. ASSUME NEW n \in DOMAIN toClient', ~IsAnswer(toClient'[n])
        PROVE  /\ toClient'[n].news <= news
               /\ \A m \in 1..(n - 1) : ~IsAnswer(toClient'[m]) => toClient'[m].news < toClient'[n].news
               /\ \A s \in Subs : \A k \in DOMAIN heard[s] : heard[s][k] < toClient'[n].news
    <3>1. n \in DOMAIN toClient /\ toClient'[n] = toClient[n]
      BY <1>4, <1>5, <1>6, <2>1
    <3>2. \A m \in 1..(n - 1) : m \in DOMAIN toClient
      BY <1>5, <3>1
    <3> QED
      BY <1>t, <1>5, <2>1, <3>1, <3>2 DEF OrderInv
  <2> QED
    BY <1>t, <2>1 DEF OrderInv, IsAnswer
<1>17. OwedInv'
  <2>1. \A s : \A n \in DOMAIN toClient' : Owes(s, toClient'[n]) \/ n \in DOMAIN toClient
    BY <1>4, <1>5, <1>6 DEF Owes
  <2>2. ASSUME NEW s \in Subs, Installed(s)'
        PROVE  s \in accepted' /\ \A n \in DOMAIN toClient' : Owes(s, toClient'[n])
    BY <1>t, <1>5, <1>m, <2>1, <2>2 DEF OwedInv, Installed
  <2>3. ASSUME NEW n \in DOMAIN toClient', toClient'[n].kind = "success",
               pending[toClient'[n].id].method = "subscribe"
        PROVE  /\ pending[toClient'[n].id].sub \in accepted'
               /\ \A m \in (n + 1)..Len(toClient') : Owes(pending[toClient'[n].id].sub, toClient'[m])
    <3>1. CASE n \in DOMAIN toClient
      <4>1. /\ pending[toClient[n].id].sub \in accepted
            /\ \A m \in (n + 1)..Len(toClient) : Owes(pending[toClient[n].id].sub, toClient[m])
        BY <1>t, <1>5, <2>3, <3>1 DEF OwedInv
      <4>2. ASSUME NEW m \in (n + 1)..Len(toClient')
            PROVE  m \in DOMAIN toClient' /\ (m \in DOMAIN toClient => m \in (n + 1)..Len(toClient))
        BY <1>5, <3>1 DEF last
      <4> QED
        BY <1>5, <1>m, <2>1, <3>1, <4>1, <4>2
    <3>2. CASE n = last
      <4>1. \A m \in (n + 1)..Len(toClient') : FALSE
        BY <1>5, <3>2 DEF last
      <4>2. req.method = "subscribe" /\ TopicOf(sub) # Invalid
        BY <1>2, <1>4, <1>5, <2>3, <3>2
      <4> QED
        BY <1>4, <1>5, <1>m, <3>2, <4>1, <4>2
    <3> QED
      BY <1>6, <3>1, <3>2
  <2>4. pending' = pending /\ owed' = owed
    BY <1>t
  <2> HIDE DEF sub
  <2> QED
    BY <2>2, <2>3, <2>4 DEF OwedInv, Owes, IsAnswer
<1>18. ServerInv'
  <2>1. \A s : s = sub /\ req.method = "subscribe" => Keeps(s)'
    <3>1. ~ \E n \in DOMAIN toServer' : toServer'[n].id = req.id
      BY <1>10
    <3> QED
      BY <1>2, <1>7, <1>t, <3>1 DEF Keeps, OnItsWay
  <2>2. ASSUME NEW s \in Subs, Keeps(s), ~(s = sub /\ req.method # "subscribe")
        PROVE  Keeps(s)'
    <3>1. CASE Installed(s)
      BY <1>t, <3>1 DEF Keeps, Installed
    <3>2. CASE ~Installed(s)
      <4>1. PICK i \in Asking : pending[i].sub = s /\ (pending[i].method = "subscribe") = ~OnItsWay(i)
        BY <2>2, <3>2 DEF Keeps
      <4>2. i # req.id
        BY <1>2, <2>2, <4>1
      <4>3. OnItsWay(i)' = OnItsWay(i)
        BY <1>10, <4>2
      <4> QED
        BY <1>7, <1>t, <4>1, <4>3 DEF Keeps, OnItsWay
    <3> QED
      BY <3>1, <3>2
  <2>3. ASSUME NEW p \in server'
        PROVE  \E s \in Subs : TopicOf(s) = p /\ Keeps(s)'
    <3>1. CASE p \in server /\ ~(req.method # "subscribe" /\ p = TopicOf(sub))
      BY <1>t, <2>2, <3>1 DEF ServerInv
    <3>2. CASE p \in topics /\ req.method = "subscribe"
      BY <1>2, <1>9, <2>1, <3>2
    <3>3. p \in topics \/ p # TopicOf(sub) \/ p = Invalid
      BY <1>2 DEF topics
    <3>4. p # Invalid
      BY <1>s DEF TopicSet
    <3> QED
      BY <1>s, <3>1, <3>2, <3>3, <3>4
  <2> QED
    BY <2>3 DEF ServerInv
<1>19. OnlyOwedIsHeard'
  BY <1>t DEF OnlyOwedIsHeard
<1>c. TurnInv'
  <2>1. TurnInv /\ inTurn' = inTurn
    BY <1>t DEF ClientIInv, Serve
  <2> QED
    BY <1>t, <2>1 DEF TurnInv
<1> QED
  BY <1>c, <1>11, <1>12, <1>13, <1>14, <1>15, <1>16, <1>17, <1>18, <1>19 DEF ClientIInv

(* The store tells something: who is accepted is owed it, and gets it after all
   that came before. *)
LEMMA HappensKeeps ==
  ASSUME ClientIInv, NEW p \in TopicSet, Happens(p)
  PROVE  ClientIInv'
<1> DEFINE new == [kind |-> "notification", topic |-> p, news |-> news + 1]
           last == Len(toClient) + 1
<1>t. /\ ClientTypeOK /\ SocketInv /\ RequestsInv /\ AnswersInv /\ CallsInv /\ OrderInv /\ OwedInv
      /\ ServerInv /\ OnlyOwedIsHeard
      /\ news < MaxNews /\ news' = news + 1
      /\ owed' = [s \in Subs |-> IF s \in accepted /\ TopicOf(s) = p
                                 THEN Append(owed[s], news + 1) ELSE owed[s]]
      /\ toClient' = IF p \in server THEN Append(toClient, new) ELSE toClient
      /\ UNCHANGED <<socket, idCursor, pending, phase, listening, inTurn, toServer, server, accepted, heard>>
  BY DEF ClientIInv, Happens, client
<1>1. /\ news \in Nat /\ news + 1 \in 1..MaxNews /\ news' \in 0..MaxNews
      /\ new \in Frame /\ ~IsAnswer(new) /\ new.news = news + 1 /\ new.topic = p /\ new.kind # "success"
  BY <1>t, WsClientAssumption DEF ClientTypeOK, Frame, IsAnswer
<1>2. /\ Len(toClient) \in Nat /\ DOMAIN toClient = 1..Len(toClient)
      /\ toClient' \in Seq(Frame) /\ DOMAIN toClient' = 1..Len(toClient')
      /\ \A n \in DOMAIN toClient : n \in DOMAIN toClient' /\ toClient'[n] = toClient[n]
      /\ \A n \in DOMAIN toClient' : n \notin DOMAIN toClient => n = last /\ toClient'[n] = new
  <2>1. toClient \in Seq(Frame)
    BY <1>t DEF ClientTypeOK
  <2>2. /\ Len(toClient) \in Nat /\ DOMAIN toClient = 1..Len(toClient)
        /\ Append(toClient, new) \in Seq(Frame) /\ DOMAIN Append(toClient, new) = 1..last
        /\ Len(Append(toClient, new)) = last
        /\ \A n \in 1..Len(toClient) : Append(toClient, new)[n] = toClient[n]
        /\ Append(toClient, new)[last] = new
    BY <1>1, <2>1, AppendHas, SequencesHave
  <2> HIDE DEF new
  <2>3. toClient' = Append(toClient, new) \/ toClient' = toClient
    BY <1>t
  <2> QED
    BY <2>1, <2>2, <2>3
<1> HIDE DEF new
<1>3. /\ owed' \in [Subs -> Seq(1..MaxNews)]
      /\ \A s \in Subs : \A l \in DOMAIN owed[s] : l \in DOMAIN owed'[s] /\ owed'[s][l] = owed[s][l]
      /\ \A s \in accepted : TopicOf(s) = p => \E l \in DOMAIN owed'[s] : owed'[s][l] = news + 1
  <2>1. \A s \in Subs : owed[s] \in Seq(1..MaxNews)
    BY <1>t DEF ClientTypeOK
  <2>2. ASSUME NEW s \in Subs
        PROVE  /\ Append(owed[s], news + 1) \in Seq(1..MaxNews)
               /\ \A l \in DOMAIN owed[s] : l \in DOMAIN Append(owed[s], news + 1) /\ Append(owed[s], news + 1)[l] = owed[s][l]
               /\ \E l \in DOMAIN Append(owed[s], news + 1) : Append(owed[s], news + 1)[l] = news + 1
    <3>1. /\ Append(owed[s], news + 1) \in Seq(1..MaxNews)
          /\ DOMAIN Append(owed[s], news + 1) = 1..(Len(owed[s]) + 1)
          /\ \A n \in 1..Len(owed[s]) : Append(owed[s], news + 1)[n] = owed[s][n]
          /\ Append(owed[s], news + 1)[Len(owed[s]) + 1] = news + 1
          /\ Len(owed[s]) \in Nat /\ DOMAIN owed[s] = 1..Len(owed[s])
      BY <1>1, <2>1, AppendHas, SequencesHave
    <3>2. /\ 1..Len(owed[s]) \subseteq 1..(Len(owed[s]) + 1) /\ Len(owed[s]) + 1 \in 1..(Len(owed[s]) + 1)
      BY <3>1
    <3> QED
      BY <3>1, <3>2
  <2>3. accepted \subseteq Subs
    BY <1>t DEF ClientTypeOK
  <2>4. \A s \in Subs : owed'[s] = IF s \in accepted /\ TopicOf(s) = p
                                   THEN Append(owed[s], news + 1) ELSE owed[s]
    BY <1>t
  <2>5. owed' \in [Subs -> Seq(1..MaxNews)]
    BY <1>t, <2>1, <2>2
  <2> QED
    BY <2>2, <2>3, <2>4, <2>5
<1>4. Asking' = Asking
  BY <1>t DEF Asking
<1>5. ClientTypeOK'
  BY <1>t, <1>1, <1>2, <1>3 DEF ClientTypeOK, Frame
<1>6. SocketInv' /\ RequestsInv' /\ CallsInv'
  BY <1>t, <1>4 DEF SocketInv, RequestsInv, CallsInv
<1>7. \A n \in DOMAIN toClient' : IsAnswer(toClient'[n]) => n \in DOMAIN toClient
  BY <1>1, <1>2
<1>8. AnswersInv'
  <2>1. \A m, n \in DOMAIN toClient' :
          IsAnswer(toClient'[m]) /\ IsAnswer(toClient'[n]) /\ toClient'[m].id = toClient'[n].id => m = n
    BY <1>t, <1>2, <1>7 DEF AnswersInv
  <2>2. (\A n \in DOMAIN toClient : IsAnswer(toClient[n]) =>
          /\ toClient[n].id \in Asking /\ ~OnItsWay(toClient[n].id)
          /\ (toClient[n].kind = "success") = (TopicOf(pending[toClient[n].id].sub) # Invalid))'
    BY <1>t, <1>2, <1>4, <1>7 DEF AnswersInv, OnItsWay, IsAnswer
  <2>3. socket' = "open" => \A i \in Asking' : OnItsWay(i)' \/ Answered(i)'
    BY <1>t, <1>2, <1>4 DEF AnswersInv, OnItsWay, Answered, IsAnswer
  <2> QED
    BY <2>1, <2>2, <2>3 DEF AnswersInv, IsAnswer
<1>9. OrderInv'
  <2>1. \A s \in Subs : \A k \in DOMAIN heard[s] : heard[s][k] <= news /\ heard[s][k] \in Nat
    <3>1. \A s \in Subs : heard[s] \in Seq(1..MaxNews)
      BY <1>t DEF ClientTypeOK
    <3>2. \A s \in Subs : \A k \in DOMAIN heard[s] : heard[s][k] \in 1..MaxNews
      BY <3>1, SequencesHave
    <3> QED
      BY <1>t, <3>2 DEF OrderInv
  <2>2. \A n \in DOMAIN toClient : ~IsAnswer(toClient[n]) => toClient[n].news <= news /\ toClient[n].news \in Nat
    BY <1>t, FramesAreTyped DEF OrderInv
  <2>3. ASSUME NEW n \in DOMAIN toClient', ~IsAnswer(toClient'[n])
        PROVE  /\ toClient'[n].news <= news + 1
               /\ \A m \in 1..(n - 1) : ~IsAnswer(toClient'[m]) => toClient'[m].news < toClient'[n].news
               /\ \A s \in Subs : \A k \in DOMAIN heard[s] : heard[s][k] < toClient'[n].news
    <3>1. CASE n \in DOMAIN toClient
      <4>1. \A m \in 1..(n - 1) : m \in DOMAIN toClient
        BY <1>2, <3>1
      <4>2. toClient'[n] = toClient[n] /\ ~IsAnswer(toClient[n])
        BY <1>2, <2>3, <3>1
      <4>3. /\ \A m \in 1..(n - 1) : ~IsAnswer(toClient[m]) => toClient[m].news < toClient[n].news
            /\ \A s \in Subs : \A k \in DOMAIN heard[s] : heard[s][k] < toClient[n].news
        BY <1>t, <3>1, <4>2 DEF OrderInv
      <4>4. \A m \in 1..(n - 1) : toClient'[m] = toClient[m]
        BY <1>2, <4>1
      <4>5. toClient[n].news <= news + 1
        BY <1>1, <2>2, <3>1, <4>2
      <4> QED
        BY <4>2, <4>3, <4>4, <4>5
    <3>2. CASE n \notin DOMAIN toClient
      <4>1. n = last /\ toClient'[n] = new
        BY <1>2, <3>2
      <4>2. \A m \in 1..(n - 1) : m \in DOMAIN toClient /\ toClient'[m] = toClient[m]
        BY <1>2, <4>1
      <4>3. \A k \in Nat : k <= news => k < news + 1
        BY <1>1
      <4> QED
        BY <1>1, <2>1, <2>2, <4>1, <4>2, <4>3
    <3> QED
      BY <3>1, <3>2
  <2>4. \A s \in Subs : \A k \in DOMAIN heard[s] : heard[s][k] <= news + 1
    BY <1>1, <2>1
  <2> QED
    BY <1>t, <2>3, <2>4 DEF OrderInv, IsAnswer
<1>10. OwedInv'
  <2>1. ASSUME NEW s \in Subs, s \in accepted, NEW n \in DOMAIN toClient',
               n \in DOMAIN toClient => Owes(s, toClient[n])
        PROVE  ~IsAnswer(toClient'[n]) /\ toClient'[n].topic = TopicOf(s) =>
                 \E l \in DOMAIN owed'[s] : owed'[s][l] = toClient'[n].news
    <3>1. CASE n \in DOMAIN toClient
      BY <1>2, <1>3, <2>1, <3>1 DEF Owes
    <3>2. CASE n \notin DOMAIN toClient
      BY <1>1, <1>2, <1>3, <2>1, <3>2
    <3> QED
      BY <3>1, <3>2
  <2>2. ASSUME NEW s \in Subs, Installed(s)'
        PROVE  /\ s \in accepted'
               /\ \A n \in DOMAIN toClient' : ~IsAnswer(toClient'[n]) /\ toClient'[n].topic = TopicOf(s) =>
                    \E l \in DOMAIN owed'[s] : owed'[s][l] = toClient'[n].news
    <3>1. s \in accepted /\ \A n \in DOMAIN toClient : Owes(s, toClient[n])
      BY <1>t, <2>2 DEF OwedInv, Installed
    <3> QED
      BY <1>t, <2>1, <3>1
  <2>3. ASSUME NEW n \in DOMAIN toClient', toClient'[n].kind = "success",
               pending[toClient'[n].id].method = "subscribe", NEW s, s = pending[toClient'[n].id].sub
        PROVE  /\ s \in accepted'
               /\ \A m \in (n + 1)..Len(toClient') : ~IsAnswer(toClient'[m]) /\ toClient'[m].topic = TopicOf(s) =>
                    \E l \in DOMAIN owed'[s] : owed'[s][l] = toClient'[m].news
    <3>1. n \in DOMAIN toClient /\ toClient'[n] = toClient[n]
      BY <1>1, <1>2, <2>3
    <3>2. s \in accepted /\ \A m \in (n + 1)..Len(toClient) : Owes(s, toClient[m])
      BY <1>t, <2>3, <3>1 DEF OwedInv
    <3>3. s \in Subs
      BY <1>t, <3>2 DEF ClientTypeOK
    <3>4. \A m \in (n + 1)..Len(toClient') : m \in DOMAIN toClient' /\ (m \in DOMAIN toClient => m \in (n + 1)..Len(toClient))
      BY <1>2, <3>1
    <3> QED
      BY <1>t, <2>1, <3>2, <3>3, <3>4
  <2>4. pending' = pending
    BY <1>t
  <2> QED
    BY <2>2, <2>3, <2>4 DEF OwedInv, Owes, IsAnswer
<1>11. ServerInv'
  BY <1>t, <1>4 DEF ServerInv, Keeps, Installed, OnItsWay
<1>12. OnlyOwedIsHeard'
  BY <1>t, <1>3 DEF OnlyOwedIsHeard
<1>c. TurnInv'
  <2>1. TurnInv /\ inTurn' = inTurn
    BY <1>t DEF ClientIInv, Happens
  <2> QED
    BY <1>t, <2>1 DEF TurnInv
<1> QED
  BY <1>c, <1>5, <1>6, <1>8, <1>9, <1>10, <1>11, <1>12 DEF ClientIInv

(* The frame that is handled is the first, the others move up. *)
LEMMA FrameTaken ==
  ASSUME ClientTypeOK, toClient # <<>>, toClient' = Tail(toClient)
  PROVE  /\ Head(toClient) \in Frame /\ Head(toClient) = toClient[1] /\ 1 \in DOMAIN toClient
         /\ Len(toClient) \in Nat /\ DOMAIN toClient = 1..Len(toClient)
         /\ toClient' \in Seq(Frame)
         /\ DOMAIN toClient' = 1..(Len(toClient) - 1) /\ Len(toClient') = Len(toClient) - 1
         /\ \A n \in DOMAIN toClient' :
              n \in Nat /\ n + 1 \in 2..Len(toClient) /\ n + 1 \in DOMAIN toClient /\ toClient'[n] = toClient[n + 1]
         /\ \A n \in DOMAIN toClient : n # 1 => n - 1 \in DOMAIN toClient' /\ toClient'[n - 1] = toClient[n]
<1>1. toClient \in Seq(Frame)
  BY DEF ClientTypeOK
<1>2. /\ Head(toClient) \in Frame /\ Head(toClient) = toClient[1] /\ 1 \in DOMAIN toClient
      /\ Len(toClient) \in Nat /\ DOMAIN toClient = 1..Len(toClient)
      /\ toClient' \in Seq(Frame)
      /\ DOMAIN toClient' = 1..(Len(toClient) - 1) /\ Len(toClient') = Len(toClient) - 1
      /\ \A n \in 1..(Len(toClient) - 1) : toClient'[n] = toClient[n + 1] /\ n + 1 \in DOMAIN toClient
  BY <1>1, TailHas, SequencesHave
<1>3. \A n \in 1..(Len(toClient) - 1) : n \in Nat /\ n + 1 \in 2..Len(toClient)
  BY <1>2
<1>4. \A n \in 1..Len(toClient) : n # 1 => n - 1 \in 1..(Len(toClient) - 1) /\ (n - 1) + 1 = n
  BY <1>2
<1> QED
  BY <1>2, <1>3, <1>4

(* What is left on its way is still in order. *)
LEMMA OrderAfterFrame ==
  ASSUME ClientTypeOK, OrderInv, toClient # <<>>, toClient' = Tail(toClient)
  PROVE  \A n \in DOMAIN toClient' : ~IsAnswer(toClient'[n]) =>
           /\ toClient'[n].news <= news
           /\ \A m \in 1..(n - 1) : ~IsAnswer(toClient'[m]) => toClient'[m].news < toClient'[n].news
           /\ \A s \in Subs : \A k \in DOMAIN heard[s] : heard[s][k] < toClient'[n].news
           /\ ~IsAnswer(toClient[1]) => toClient[1].news < toClient'[n].news
<1> SUFFICES ASSUME NEW n \in DOMAIN toClient', ~IsAnswer(toClient'[n])
             PROVE  /\ toClient'[n].news <= news
                    /\ \A m \in 1..(n - 1) : ~IsAnswer(toClient'[m]) => toClient'[m].news < toClient'[n].news
                    /\ \A s \in Subs : \A k \in DOMAIN heard[s] : heard[s][k] < toClient'[n].news
                    /\ ~IsAnswer(toClient[1]) => toClient[1].news < toClient'[n].news
  OBVIOUS
<1>1. n \in Nat /\ n + 1 \in DOMAIN toClient /\ toClient'[n] = toClient[n + 1] /\ n + 1 \in 2..Len(toClient)
  BY FrameTaken
<1>2. /\ toClient[n + 1].news <= news
      /\ \A m \in 1..((n + 1) - 1) : ~IsAnswer(toClient[m]) => toClient[m].news < toClient[n + 1].news
      /\ \A s \in Subs : \A k \in DOMAIN heard[s] : heard[s][k] < toClient[n + 1].news
  BY <1>1 DEF OrderInv
<1>3. \A m \in 1..(n - 1) : m \in DOMAIN toClient' /\ m + 1 \in 1..((n + 1) - 1)
  <2>1. DOMAIN toClient' = 1..(Len(toClient) - 1) /\ Len(toClient) \in Nat
    BY FrameTaken
  <2> QED
    BY <1>1, <2>1
<1>4. 1 \in 1..((n + 1) - 1)
  <2>1. n \in 1..(Len(toClient) - 1) /\ Len(toClient) \in Nat
    BY FrameTaken
  <2> QED
    BY <2>1
<1>5. \A m \in 1..(n - 1) : toClient'[m] = toClient[m + 1]
  BY <1>3, FrameTaken
<1> QED
  BY <1>1, <1>2, <1>3, <1>4, <1>5

(* Answers that are left are of calls that were asked, each of one. *)
LEMMA AnswersAfterFrame ==
  ASSUME ClientTypeOK, AnswersInv, toClient # <<>>, toClient' = Tail(toClient)
  PROVE  /\ \A m, n \in DOMAIN toClient' :
              IsAnswer(toClient'[m]) /\ IsAnswer(toClient'[n]) /\ toClient'[m].id = toClient'[n].id => m = n
         /\ \A n \in DOMAIN toClient' : IsAnswer(toClient'[n]) =>
              /\ toClient'[n].id \in Asking
              /\ ~ \E k \in DOMAIN toServer : toServer[k].id = toClient'[n].id
              /\ (toClient'[n].kind = "success") = (TopicOf(pending[toClient'[n].id].sub) # Invalid)
              /\ IsAnswer(toClient[1]) => toClient'[n].id # toClient[1].id
         /\ \A i : Answered(i) => Answered(i)' \/ (IsAnswer(toClient[1]) /\ toClient[1].id = i)
<1>1. /\ 1 \in DOMAIN toClient
      /\ \A n \in DOMAIN toClient' :
           n \in Nat /\ n + 1 \in DOMAIN toClient /\ n + 1 # 1 /\ toClient'[n] = toClient[n + 1]
      /\ \A n \in DOMAIN toClient : n # 1 => n - 1 \in DOMAIN toClient' /\ toClient'[n - 1] = toClient[n]
  <2>1. \A n \in Nat : n + 1 \in 2..Len(toClient) => n + 1 # 1
    OBVIOUS
  <2> QED
    BY <2>1, FrameTaken
<1>2. ASSUME NEW m \in DOMAIN toClient', NEW n \in DOMAIN toClient',
             IsAnswer(toClient'[m]), IsAnswer(toClient'[n]), toClient'[m].id = toClient'[n].id
      PROVE  m = n
  <2>1. m + 1 = n + 1 /\ m \in Nat /\ n \in Nat
    BY <1>1, <1>2 DEF AnswersInv
  <2> QED
    BY ONLY <2>1
<1>3. ASSUME NEW n \in DOMAIN toClient', IsAnswer(toClient'[n])
      PROVE  /\ toClient'[n].id \in Asking
             /\ ~ \E k \in DOMAIN toServer : toServer[k].id = toClient'[n].id
             /\ (toClient'[n].kind = "success") = (TopicOf(pending[toClient'[n].id].sub) # Invalid)
             /\ IsAnswer(toClient[1]) => toClient'[n].id # toClient[1].id
  BY <1>1, <1>3 DEF AnswersInv, OnItsWay
<1>4. ASSUME NEW i, Answered(i)
      PROVE  Answered(i)' \/ (IsAnswer(toClient[1]) /\ toClient[1].id = i)
  <2>1. PICK n \in DOMAIN toClient : IsAnswer(toClient[n]) /\ toClient[n].id = i
    BY <1>4 DEF Answered
  <2>2. CASE n = 1
    BY <2>1, <2>2
  <2>3. CASE n # 1
    <3>1. n - 1 \in DOMAIN toClient' /\ toClient'[n - 1] = toClient[n]
      BY <1>1, <2>3
    <3>2. \E k \in DOMAIN toClient' : IsAnswer(toClient'[k]) /\ toClient'[k].id = i
      BY <2>1, <3>1
    <3> QED
      BY <3>2 DEF Answered, IsAnswer
  <2> QED
    BY <2>2, <2>3
<1> QED
  BY <1>2, <1>3, <1>4

(* A notification: who listens hears it, and it was owed. *)
LEMMA NotifyKeeps ==
  ASSUME ClientIInv, HandleFrame, Head(toClient).kind = "notification"
  PROVE  ClientIInv'
<1> DEFINE f == toClient[1]
           hears(s) == s \in listening /\ Matches(s, f.topic)
<1>t. /\ ClientTypeOK /\ SocketInv /\ RequestsInv /\ AnswersInv /\ CallsInv /\ OrderInv /\ OwedInv
      /\ ServerInv /\ OnlyOwedIsHeard
      /\ toClient # <<>> /\ inTurn < FramesPerTurn /\ inTurn' = inTurn + 1 /\ toClient' = Tail(toClient)
      /\ Notify(Head(toClient))
      /\ UNCHANGED <<socket, idCursor, pending, phase, listening, toServer, server, news, accepted, owed>>
  BY DEF ClientIInv, HandleFrame, Notify
<1>1. /\ Head(toClient) = f /\ f \in Frame /\ 1 \in DOMAIN toClient
      /\ toClient' \in Seq(Frame) /\ DOMAIN toClient' = 1..(Len(toClient) - 1)
      /\ Len(toClient) \in Nat /\ DOMAIN toClient = 1..Len(toClient) /\ Len(toClient') = Len(toClient) - 1
      /\ \A n \in DOMAIN toClient' :
           n \in Nat /\ n + 1 \in DOMAIN toClient /\ toClient'[n] = toClient[n + 1]
  BY <1>t, FrameTaken
<1>2. ~IsAnswer(f) /\ f.news \in 1..MaxNews
  BY <1>t, <1>1, FramesAreTyped DEF IsAnswer
<1>3. /\ heard' \in [Subs -> Seq(1..MaxNews)]
      /\ \A s \in Subs : IF hears(s) THEN heard'[s] = Append(heard[s], f.news) ELSE heard'[s] = heard[s]
  <2>1. heard \in [Subs -> Seq(1..MaxNews)]
    BY <1>t DEF ClientTypeOK
  <2>2. \A s \in Subs : heard[s] \in Seq(1..MaxNews) /\ Append(heard[s], f.news) \in Seq(1..MaxNews)
    BY <1>2, <2>1, AppendHas
  <2>3. heard' = [s \in Subs |-> IF hears(s) THEN Append(heard[s], f.news) ELSE heard[s]]
    BY <1>t, <1>1 DEF Notify
  <2> HIDE DEF f, hears
  <2> QED
    BY <2>2, <2>3
<1>4. ASSUME NEW s \in Subs, hears(s)
      PROVE  /\ DOMAIN heard'[s] = 1..(Len(heard[s]) + 1) /\ Len(heard[s]) \in Nat
             /\ DOMAIN heard[s] = 1..Len(heard[s])
             /\ \A k \in 1..Len(heard[s]) : heard'[s][k] = heard[s][k] /\ heard[s][k] \in 1..MaxNews
             /\ heard'[s][Len(heard[s]) + 1] = f.news
  <2>1. heard[s] \in Seq(1..MaxNews)
    BY <1>t DEF ClientTypeOK
  <2>2. heard'[s] = Append(heard[s], f.news)
    BY <1>3, <1>4
  <2>3. /\ Len(heard[s]) \in Nat /\ DOMAIN heard[s] = 1..Len(heard[s])
        /\ \A k \in DOMAIN heard[s] : heard[s][k] \in 1..MaxNews
    BY <2>1, SequencesHave
  <2> HIDE DEF f, hears
  <2>4. /\ DOMAIN Append(heard[s], f.news) = 1..(Len(heard[s]) + 1)
        /\ \A k \in 1..Len(heard[s]) : Append(heard[s], f.news)[k] = heard[s][k]
        /\ Append(heard[s], f.news)[Len(heard[s]) + 1] = f.news
    BY <1>2, <2>1, AppendHas
  <2> QED
    BY <2>2, <2>3, <2>4
<1>5. Asking' = Asking
  BY <1>t DEF Asking
<1>6. ClientTypeOK'
  <2>1. inTurn' \in 0..FramesPerTurn
    BY <1>t, WsClientAssumption DEF ClientTypeOK
  <2> QED
    BY <1>t, <1>1, <1>3, <2>1 DEF ClientTypeOK, Frame
<1>7. SocketInv' /\ RequestsInv' /\ CallsInv'
  <2>1. socket = "open"
    BY <1>t DEF SocketInv
  <2> QED
    BY <1>t, <1>5, <2>1 DEF SocketInv, RequestsInv, CallsInv
<1>8. AnswersInv'
  <2>1. /\ \A m, n \in DOMAIN toClient' :
             IsAnswer(toClient'[m]) /\ IsAnswer(toClient'[n]) /\ toClient'[m].id = toClient'[n].id => m = n
        /\ \A n \in DOMAIN toClient' : IsAnswer(toClient'[n]) =>
             /\ toClient'[n].id \in Asking
             /\ ~ \E k \in DOMAIN toServer : toServer[k].id = toClient'[n].id
             /\ (toClient'[n].kind = "success") = (TopicOf(pending[toClient'[n].id].sub) # Invalid)
        /\ \A i : Answered(i) => Answered(i)'
    BY <1>t, <1>2, AnswersAfterFrame
  <2>2. ASSUME socket' = "open", NEW i \in Asking'
        PROVE  OnItsWay(i)' \/ Answered(i)'
    BY <1>t, <1>5, <2>1, <2>2 DEF AnswersInv, OnItsWay
  <2>3. (\A n \in DOMAIN toClient : IsAnswer(toClient[n]) =>
          /\ toClient[n].id \in Asking /\ ~OnItsWay(toClient[n].id)
          /\ (toClient[n].kind = "success") = (TopicOf(pending[toClient[n].id].sub) # Invalid))'
    BY <1>t, <1>5, <2>1 DEF OnItsWay, IsAnswer
  <2> QED
    BY <2>1, <2>2, <2>3 DEF AnswersInv, IsAnswer
<1>9. OrderInv'
  <2>1. \A n \in DOMAIN toClient' : ~IsAnswer(toClient'[n]) =>
          /\ toClient'[n].news <= news
          /\ \A m \in 1..(n - 1) : ~IsAnswer(toClient'[m]) => toClient'[m].news < toClient'[n].news
          /\ \A s \in Subs : \A k \in DOMAIN heard[s] : heard[s][k] < toClient'[n].news
          /\ f.news < toClient'[n].news
    BY <1>t, <1>2, OrderAfterFrame
  <2>2. f.news <= news /\ \A s \in Subs : \A k \in DOMAIN heard[s] : heard[s][k] <= news
    BY <1>t, <1>1, <1>2 DEF OrderInv
  <2>3. ASSUME NEW s \in Subs, NEW k \in DOMAIN heard'[s]
        PROVE  heard'[s][k] = f.news \/ (k \in DOMAIN heard[s] /\ heard'[s][k] = heard[s][k])
    <3>1. CASE hears(s)
      <4>1. k = Len(heard[s]) + 1 \/ k \in 1..Len(heard[s])
        BY <1>4, <2>3, <3>1
      <4> QED
        BY <1>4, <3>1, <4>1
    <3>2. CASE ~hears(s)
      BY <1>3, <2>3, <3>2
    <3> QED
      BY <3>1, <3>2
  <2>4. \A n \in DOMAIN toClient' : ~IsAnswer(toClient'[n]) =>
          \A s \in Subs : \A k \in DOMAIN heard'[s] : heard'[s][k] < toClient'[n].news
    BY <2>1, <2>3
  <2>5. \A s \in Subs : \A k \in DOMAIN heard'[s] : heard'[s][k] <= news
    BY <2>2, <2>3
  <2> QED
    BY <1>t, <2>1, <2>4, <2>5 DEF OrderInv, IsAnswer
<1>10. OwedInv'
  <2>1. ASSUME NEW s \in Subs, Installed(s)
        PROVE  s \in accepted /\ \A n \in DOMAIN toClient' : Owes(s, toClient'[n])
    BY <1>t, <1>1, <2>1 DEF OwedInv
  <2>2. ASSUME NEW n \in DOMAIN toClient', toClient'[n].kind = "success",
               pending[toClient'[n].id].method = "subscribe", NEW s, s = pending[toClient'[n].id].sub
        PROVE  s \in accepted /\ \A m \in (n + 1)..Len(toClient') : Owes(s, toClient'[m])
    <3>1. n + 1 \in DOMAIN toClient /\ toClient'[n] = toClient[n + 1]
      BY <1>1
    <3>2. s \in accepted /\ \A m \in ((n + 1) + 1)..Len(toClient) : Owes(s, toClient[m])
      BY <1>t, <2>2, <3>1 DEF OwedInv
    <3>3. \A m \in (n + 1)..Len(toClient') : m \in DOMAIN toClient' /\ m + 1 \in ((n + 1) + 1)..Len(toClient)
      BY <1>1
    <3> QED
      BY <1>1, <3>2, <3>3
  <2>3. pending' = pending /\ owed' = owed /\ accepted' = accepted /\ phase' = phase
    BY <1>t
  <2> QED
    BY <2>1, <2>2, <2>3 DEF OwedInv, Owes, IsAnswer, Installed
<1>11. ServerInv'
  BY <1>t, <1>5 DEF ServerInv, Keeps, Installed, OnItsWay
<1>12. OnlyOwedIsHeard'
  <2>1. ASSUME NEW s \in Subs
        PROVE  /\ \A k, l \in DOMAIN heard'[s] : k < l => heard'[s][k] < heard'[s][l]
               /\ \A k \in DOMAIN heard'[s] : \E l \in DOMAIN owed[s] : owed[s][l] = heard'[s][k]
    <3>1. /\ \A k, l \in DOMAIN heard[s] : k < l => heard[s][k] < heard[s][l]
          /\ \A k \in DOMAIN heard[s] : \E l \in DOMAIN owed[s] : owed[s][l] = heard[s][k]
      BY <1>t DEF OnlyOwedIsHeard
    <3>2. CASE ~hears(s)
      BY <1>3, <3>1, <3>2
    <3>3. CASE hears(s)
      <4>1. \E l \in DOMAIN owed[s] : owed[s][l] = f.news
        <5>1. Installed(s) /\ f.topic = TopicOf(s)
          BY <1>t, <3>3 DEF ClientTypeOK, Installed, Matches
        <5> QED
          BY <1>t, <1>1, <1>2, <5>1 DEF OwedInv, Owes
      <4>2. \A k \in DOMAIN heard[s] : heard[s][k] < f.news
        BY <1>t, <1>1, <1>2 DEF OrderInv
      <4>3. \A k \in DOMAIN heard'[s] : k \in DOMAIN heard[s] \/ k = Len(heard[s]) + 1
        BY <1>4, <3>3
      <4>4. \A k \in DOMAIN heard[s] : k < Len(heard[s]) + 1 /\ ~(Len(heard[s]) + 1 < k)
        BY <1>4, <3>3
      <4>5. \A k \in DOMAIN heard[s] : heard'[s][k] = heard[s][k]
        BY <1>4, <3>3
      <4>6. heard'[s][Len(heard[s]) + 1] = f.news
        BY <1>4, <3>3
      <4>7. ~(Len(heard[s]) + 1 < Len(heard[s]) + 1)
        BY <1>4, <3>3
      <4> HIDE DEF f
      <4> QED
        BY <3>1, <4>1, <4>2, <4>3, <4>4, <4>5, <4>6, <4>7
    <3> QED
      BY <3>2, <3>3
  <2> QED
    BY <1>t, <2>1 DEF OnlyOwedIsHeard
<1>c. TurnInv'
  BY <1>t, WsClientAssumption DEF TurnInv, ClientTypeOK
<1> QED
  BY <1>c, <1>6, <1>7, <1>8, <1>9, <1>10, <1>11, <1>12 DEF ClientIInv

(* An answer: its call waits no longer, and a subscription that is granted is
   owed what comes after. *)
LEMMA SettleKeeps ==
  ASSUME ClientIInv, HandleFrame, Head(toClient).kind # "notification"
  PROVE  ClientIInv'
<1> DEFINE f == toClient[1]
           call == pending[f.id]
           sub == call.sub
           now == IF f.kind = "success" /\ call.method = "subscribe" THEN "granted" ELSE "idle"
<1>t. /\ ClientTypeOK /\ SocketInv /\ RequestsInv /\ AnswersInv /\ CallsInv /\ OrderInv /\ OwedInv
      /\ ServerInv /\ OnlyOwedIsHeard
      /\ toClient # <<>> /\ inTurn < FramesPerTurn /\ inTurn' = inTurn + 1 /\ toClient' = Tail(toClient)
      /\ Settle(Head(toClient))
      /\ UNCHANGED <<socket, idCursor, listening, toServer, server, news, accepted, owed, heard>>
  BY DEF ClientIInv, HandleFrame, Settle
<1>1. /\ Head(toClient) = f /\ f \in Frame /\ 1 \in DOMAIN toClient
      /\ toClient' \in Seq(Frame) /\ DOMAIN toClient' = 1..(Len(toClient) - 1)
      /\ Len(toClient) \in Nat /\ DOMAIN toClient = 1..Len(toClient) /\ Len(toClient') = Len(toClient) - 1
      /\ \A n \in DOMAIN toClient' :
           n \in Nat /\ n + 1 \in DOMAIN toClient /\ toClient'[n] = toClient[n + 1]
  BY <1>t, FrameTaken
<1>2. /\ IsAnswer(f) /\ f.id \in Asking /\ f.id \in Ids /\ f.kind \in {"success", "error"}
      /\ (f.kind = "success") = (TopicOf(sub) # Invalid) /\ ~OnItsWay(f.id)
  BY <1>t, <1>1, FramesAreTyped DEF AnswersInv, IsAnswer
<1>3. /\ sub \in Subs /\ call.method \in {"subscribe", "unsubscribe"}
      /\ phase[sub] = IF call.method = "subscribe" THEN "asking" ELSE "leaving"
  BY <1>t, <1>2, CallsAreTyped DEF CallsInv
<1>4. pending' = [pending EXCEPT ![f.id] = NoCall] /\ phase' = [phase EXCEPT ![sub] = now]
  BY <1>t, <1>1, <1>2 DEF Settle, Settles, Asking
<1>5. /\ pending' \in [Ids -> [sub : Subs, method : {"subscribe", "unsubscribe"}] \cup {NoCall}]
      /\ pending'[f.id] = NoCall /\ \A i \in Ids \ {f.id} : pending'[i] = pending[i]
  <2>1. pending \in [Ids -> [sub : Subs, method : {"subscribe", "unsubscribe"}] \cup {NoCall}]
    BY <1>t DEF ClientTypeOK
  <2> HIDE DEF f
  <2> QED
    BY <1>2, <1>4, <2>1
<1>6. Asking' = Asking \ {f.id} /\ Asking \subseteq Ids
  BY <1>5 DEF Asking
<1>7. /\ phase' \in [Subs -> {"idle", "asking", "granted", "on", "leaving"}]
      /\ phase'[sub] = now /\ \A s \in Subs \ {sub} : phase'[s] = phase[s]
  <2>1. phase \in [Subs -> {"idle", "asking", "granted", "on", "leaving"}]
    BY <1>t DEF ClientTypeOK
  <2>2. now \in {"idle", "granted"}
    OBVIOUS
  <2> HIDE DEF now, sub
  <2> QED
    BY <1>3, <1>4, <2>1, <2>2
<1>8. \A i \in Asking \ {f.id} : pending'[i] = pending[i] /\ pending[i].sub # sub /\ pending[i].sub \in Subs
  BY <1>t, <1>2, <1>5, <1>6, CallsAreTyped DEF CallsInv
<1>9. now \in {"idle", "granted"} /\ (now = "granted" => f.kind = "success" /\ call.method = "subscribe")
  OBVIOUS
<1>10. now = "idle" => f.kind # "success" \/ call.method # "subscribe"
  OBVIOUS
<1>11. ClientTypeOK'
  <2>1. inTurn' \in 0..FramesPerTurn
    BY <1>t, WsClientAssumption DEF ClientTypeOK
  <2>2. listening' = {s \in Subs : phase'[s] = "on"}
    BY <1>t, <1>3, <1>7, <1>9 DEF ClientTypeOK
  <2> HIDE DEF f, sub, call, now
  <2> QED
    BY <1>t, <1>1, <1>5, <1>7, <2>1, <2>2 DEF ClientTypeOK, Frame
<1>12. SocketInv' /\ RequestsInv'
  <2>1. socket = "open"
    BY <1>t DEF SocketInv
  <2>2. \A n \in DOMAIN toServer : toServer[n].id # f.id
    BY <1>2 DEF OnItsWay
  <2>3. SocketInv'
    BY <1>t, <2>1 DEF SocketInv
  <2>4. \A n \in DOMAIN toServer' : LET r == toServer'[n] IN
          r.id \in Asking' /\ pending'[r.id].method = r.method /\ Name[pending'[r.id].sub] = r.name
    BY <1>t, <1>6, <1>8, <2>2 DEF RequestsInv
  <2>5. /\ \A i \in Asking' : i <= idCursor'
        /\ \A m, n \in DOMAIN toServer' : toServer'[m].id = toServer'[n].id => m = n
    BY <1>t, <1>6 DEF RequestsInv
  <2> QED
    BY <2>3, <2>4, <2>5 DEF RequestsInv
<1>13. AnswersInv'
  <2>1. /\ \A m, n \in DOMAIN toClient' :
             IsAnswer(toClient'[m]) /\ IsAnswer(toClient'[n]) /\ toClient'[m].id = toClient'[n].id => m = n
        /\ \A n \in DOMAIN toClient' : IsAnswer(toClient'[n]) =>
             /\ toClient'[n].id \in Asking /\ toClient'[n].id # f.id
             /\ ~ \E k \in DOMAIN toServer : toServer[k].id = toClient'[n].id
             /\ (toClient'[n].kind = "success") = (TopicOf(pending[toClient'[n].id].sub) # Invalid)
        /\ \A i : Answered(i) => Answered(i)' \/ f.id = i
    BY <1>t, <1>2, AnswersAfterFrame
  <2> HIDE DEF f, sub, call, now
  <2>2. ASSUME socket' = "open", NEW i \in Asking'
        PROVE  OnItsWay(i)' \/ Answered(i)'
    BY <1>t, <1>6, <2>1, <2>2 DEF AnswersInv, OnItsWay
  <2>3. (\A n \in DOMAIN toClient : IsAnswer(toClient[n]) =>
          /\ toClient[n].id \in Asking /\ ~OnItsWay(toClient[n].id)
          /\ (toClient[n].kind = "success") = (TopicOf(pending[toClient[n].id].sub) # Invalid))'
    BY <1>t, <1>6, <1>8, <2>1 DEF OnItsWay, IsAnswer
  <2> QED
    BY <2>1, <2>2, <2>3 DEF AnswersInv, IsAnswer
<1>14. CallsInv'
  <2>1. now \notin {"asking", "leaving"}
    BY <1>9
  <2> HIDE DEF f, sub, call, now
  <2>2. \A i, j \in Asking' : pending'[i].sub = pending'[j].sub => i = j
    BY <1>t, <1>6, <1>8 DEF CallsInv
  <2>3. \A i \in Asking' : phase'[pending'[i].sub] = IF pending'[i].method = "subscribe" THEN "asking" ELSE "leaving"
    BY <1>t, <1>6, <1>7, <1>8 DEF CallsInv
  <2>4. ASSUME NEW s \in Subs, phase'[s] \in {"asking", "leaving"}
        PROVE  \E i \in Asking' : pending'[i].sub = s
    <3>1. s # sub /\ phase[s] \in {"asking", "leaving"}
      BY <1>7, <2>1, <2>4
    <3>2. PICK i \in Asking : pending[i].sub = s
      BY <1>t, <3>1 DEF CallsInv
    <3>3. i # f.id
      BY <3>1, <3>2 DEF sub, call
    <3> QED
      BY <1>6, <1>8, <3>2, <3>3
  <2> QED
    BY <2>2, <2>3, <2>4 DEF CallsInv
<1>15. OrderInv'
  <2>1. \A n \in DOMAIN toClient' : ~IsAnswer(toClient'[n]) =>
          /\ toClient'[n].news <= news
          /\ \A m \in 1..(n - 1) : ~IsAnswer(toClient'[m]) => toClient'[m].news < toClient'[n].news
          /\ \A s \in Subs : \A k \in DOMAIN heard[s] : heard[s][k] < toClient'[n].news
    BY <1>t, OrderAfterFrame
  <2> QED
    BY <1>t, <2>1 DEF OrderInv, IsAnswer
<1>16. OwedInv'
  <2>1. ASSUME NEW s \in Subs, Installed(s)'
        PROVE  s \in accepted /\ \A n \in DOMAIN toClient' : Owes(s, toClient'[n])
    <3>1. CASE s # sub
      <4>1. Installed(s)
        BY <1>7, <2>1, <3>1 DEF Installed
      <4> QED
        BY <1>t, <1>1, <4>1 DEF OwedInv
    <3>2. CASE s = sub
      <4>1. f.kind = "success" /\ call.method = "subscribe"
        BY <1>7, <1>9, <2>1, <3>2 DEF Installed
      <4>2. s \in accepted /\ \A m \in (1 + 1)..Len(toClient) : Owes(s, toClient[m])
        BY <1>t, <1>1, <3>2, <4>1 DEF OwedInv
      <4>3. \A n \in DOMAIN toClient' : n + 1 \in (1 + 1)..Len(toClient)
        BY <1>1
      <4> QED
        BY <1>1, <4>2, <4>3
    <3> QED
      BY <3>1, <3>2
  <2>2. ASSUME NEW n \in DOMAIN toClient', toClient'[n].kind = "success",
               pending'[toClient'[n].id].method = "subscribe", NEW s, s = pending'[toClient'[n].id].sub
        PROVE  s \in accepted /\ \A m \in (n + 1)..Len(toClient') : Owes(s, toClient'[m])
    <3>1. n + 1 \in DOMAIN toClient /\ toClient'[n] = toClient[n + 1]
      BY <1>1
    <3>2. pending'[toClient'[n].id] = pending[toClient'[n].id]
      <4>1. toClient'[n].id \in Asking /\ toClient'[n].id # f.id
        BY <1>t, <1>2, <2>2, AnswersAfterFrame DEF IsAnswer
      <4> HIDE DEF f
      <4> QED
        BY <1>5, <1>6, <4>1
    <3>3. s \in accepted /\ \A m \in ((n + 1) + 1)..Len(toClient) : Owes(s, toClient[m])
      BY <1>t, <2>2, <3>1, <3>2 DEF OwedInv
    <3>4. \A m \in (n + 1)..Len(toClient') : m \in DOMAIN toClient' /\ m + 1 \in ((n + 1) + 1)..Len(toClient)
      BY <1>1
    <3> QED
      BY <1>1, <3>3, <3>4
  <2>3. owed' = owed /\ accepted' = accepted
    BY <1>t
  <2> HIDE DEF f, sub, call, now
  <2> QED
    BY <2>1, <2>2, <2>3 DEF OwedInv, Owes, IsAnswer
<1>17. ServerInv'
  <2>1. ASSUME NEW s \in Subs, Keeps(s), TopicOf(s) # Invalid
        PROVE  Keeps(s)'
    <3>1. CASE s = sub
      <4>1. ~Installed(s)
        BY <1>3, <3>1 DEF Installed
      <4>2. PICK i \in Asking : pending[i].sub = s /\ (pending[i].method = "subscribe") = ~OnItsWay(i)
        BY <2>1, <4>1 DEF Keeps
      <4>3. i = f.id
        BY <1>8, <3>1, <4>2
      <4>4. call.method = "subscribe" /\ f.kind = "success"
        BY <1>2, <2>1, <3>1, <4>2, <4>3
      <4>5. phase'[s] = "granted"
        BY <1>7, <3>1, <4>4
      <4> QED
        BY <4>5 DEF Keeps, Installed
    <3>2. CASE s # sub
      <4>1. Installed(s) => Installed(s)'
        BY <1>7, <3>2 DEF Installed
      <4>2. ASSUME NEW i \in Asking, pending[i].sub = s, (pending[i].method = "subscribe") = ~OnItsWay(i)
            PROVE  Keeps(s)'
        <5>1. i # f.id
          BY <3>2, <4>2
        <5>2. i \in Asking' /\ pending'[i] = pending[i] /\ OnItsWay(i)' = OnItsWay(i)
          BY <1>6, <1>8, <1>t, <5>1 DEF OnItsWay
        <5> HIDE DEF f, sub, call, now
        <5> QED
          BY <4>2, <5>2 DEF Keeps
      <4> QED
        BY <2>1, <4>1, <4>2 DEF Keeps
    <3> QED
      BY <3>1, <3>2
  <2>2. \A p \in server : p # Invalid
    BY <1>t DEF ClientTypeOK, TopicSet
  <2> HIDE DEF f, sub, call, now
  <2> QED
    BY <1>t, <2>1, <2>2 DEF ServerInv
<1>18. OnlyOwedIsHeard'
  BY <1>t DEF OnlyOwedIsHeard
<1>c. TurnInv'
  BY <1>t, WsClientAssumption DEF TurnInv, ClientTypeOK
<1> QED
  BY <1>c, <1>11, <1>12, <1>13, <1>14, <1>15, <1>16, <1>17, <1>18 DEF ClientIInv

LEMMA ClientStep == ClientIInv /\ [ClientNext]_clientVars => ClientIInv'
<1> SUFFICES ASSUME ClientIInv, [ClientNext]_clientVars
             PROVE  ClientIInv'
  OBVIOUS
<1>1. CASE UNCHANGED clientVars
  <2> USE <1>1 DEF clientVars
  <2>1. Asking' = Asking /\ (\A s : Installed(s)' = Installed(s)) /\ \A i : OnItsWay(i)' = OnItsWay(i)
    BY DEF Asking, Installed, OnItsWay
  <2>2. ClientTypeOK' /\ SocketInv' /\ RequestsInv'
    BY <2>1 DEF ClientIInv, ClientTypeOK, Frame, SocketInv, RequestsInv
  <2>3. AnswersInv' /\ CallsInv' /\ OrderInv'
    BY <2>1 DEF ClientIInv, AnswersInv, CallsInv, OrderInv, OnItsWay, Answered, IsAnswer
  <2>4. OwedInv' /\ ServerInv' /\ TurnInv' /\ OnlyOwedIsHeard'
    BY <2>1 DEF ClientIInv, TurnInv, OwedInv, Owes, IsAnswer, Installed, ServerInv, Keeps, OnItsWay, OnlyOwedIsHeard
  <2> QED
    BY <2>2, <2>3, <2>4 DEF ClientIInv
<1>2. CASE Connect
  BY <1>2, ConnectKeeps
<1>3. ASSUME NEW s \in Subs, SubscribeUpdates(s) PROVE ClientIInv'
  BY <1>3, SubscribeUpdatesKeeps
<1>4. ASSUME NEW s \in Subs, UnsubscribeUpdates(s) PROVE ClientIInv'
  BY <1>4, UnsubscribeUpdatesKeeps
<1>5. CASE HandleFrame
  BY <1>5, NotifyKeeps, SettleKeeps
<1>6. CASE EndTurn
  BY <1>6, EndTurnKeeps
<1>7. CASE Close
  BY <1>7, CloseClientKeeps
<1>8. CASE Serve
  BY <1>8, ServeKeeps
<1>9. ASSUME NEW p \in TopicSet, Happens(p) PROVE ClientIInv'
  BY <1>9, HappensKeeps
<1> QED
  BY <1>1, <1>2, <1>3, <1>4, <1>5, <1>6, <1>7, <1>8, <1>9 DEF ClientNext

LEMMA ClientInvariance == ClientSpec => []ClientIInv
  BY ClientInitially, ClientStep, PTL DEF ClientSpec

(* A call that waits is on its way or answered, and not both, as no two frames
   carry its id. *)
LEMMA EachHasOneAnswer == ClientIInv => OneAnswerPerRequest
<1> SUFFICES ASSUME ClientIInv, socket = "open", NEW i \in Ids
             PROVE  LET asked == {n \in DOMAIN toServer : toServer[n].id = i}
                        answered == {n \in DOMAIN toClient :
                                       toClient[n].kind # "notification" /\ toClient[n].id = i}
                    IN  Cardinality(asked) + Cardinality(answered) = IF pending[i] = NoCall THEN 0 ELSE 1
  BY DEF OneAnswerPerRequest
<1> DEFINE asked == {n \in DOMAIN toServer : toServer[n].id = i}
           answered == {n \in DOMAIN toClient : toClient[n].kind # "notification" /\ toClient[n].id = i}
<1>1. RequestsInv /\ AnswersInv
  BY DEF ClientIInv
<1>2. /\ asked # {} <=> OnItsWay(i)
      /\ answered # {} <=> Answered(i)
  BY DEF OnItsWay, Answered, IsAnswer
<1>3. /\ \A m, n \in asked : m = n
      /\ \A m, n \in answered : m = n
  BY <1>1 DEF RequestsInv, AnswersInv, IsAnswer
<1>4. /\ asked # {} => i \in Asking
      /\ answered # {} => i \in Asking /\ asked = {}
      /\ i \in Asking => asked # {} \/ answered # {}
  <2>1. asked # {} => i \in Asking
    BY <1>1 DEF RequestsInv
  <2>2. answered # {} => i \in Asking /\ ~OnItsWay(i)
    BY <1>1 DEF AnswersInv, IsAnswer
  <2>3. i \in Asking => OnItsWay(i) \/ Answered(i)
    BY <1>1 DEF AnswersInv
  <2> QED
    BY <1>2, <2>1, <2>2, <2>3
<1>5. i \in Asking <=> pending[i] # NoCall
  BY DEF Asking
<1>6. \A S : S # {} /\ (\A m, n \in S : m = n) => Cardinality(S) = 1
  <2> SUFFICES ASSUME NEW S, NEW x \in S, \A m, n \in S : m = n
               PROVE  Cardinality(S) = 1
    OBVIOUS
  <2>1. S = {x}
    OBVIOUS
  <2> QED
    BY <2>1, FS_Singleton
<1>7. Cardinality({}) = 0
  BY FS_EmptySet
<1> HIDE DEF asked, answered
<1>8. Cardinality(asked) + Cardinality(answered) = IF pending[i] = NoCall THEN 0 ELSE 1
  <2>1. CASE pending[i] = NoCall
    BY <1>4, <1>5, <1>7, <2>1
  <2>2. CASE pending[i] # NoCall /\ asked # {}
    BY <1>3, <1>4, <1>5, <1>6, <1>7, <2>2
  <2>3. CASE pending[i] # NoCall /\ asked = {}
    BY <1>3, <1>4, <1>5, <1>6, <1>7, <2>3
  <2> QED
    BY <2>1, <2>2, <2>3
<1> QED
  BY <1>8 DEF asked, answered

(* Once nothing is under way, whoever the server tells has a listener for it.
   index.ts:121-126, ws-rpc.ts:163-217. *)
THEOREM NobodyIsToldInVain == ClientSpec => []NoIdleSubscription
<1>1. ASSUME ClientIInv, Quiet
      PROVE  server \subseteq {TopicOf(s) : s \in listening}
  <2>1. Asking = {}
    BY <1>1 DEF Quiet, Asking
  <2>2. ASSUME NEW p \in server
        PROVE  \E s \in listening : TopicOf(s) = p
    <3>1. PICK s \in Subs : TopicOf(s) = p /\ Keeps(s)
      BY <1>1 DEF ClientIInv, ServerInv
    <3>2. Installed(s)
      BY <2>1, <3>1 DEF Keeps
    <3>3. phase[s] = "on"
      BY <1>1, <3>2 DEF Installed, ClientIInv, TurnInv, Quiet
    <3> QED
      BY <1>1, <3>1, <3>3 DEF ClientIInv, ClientTypeOK
  <2> QED
    BY <2>2
<1>2. ClientIInv => NoIdleSubscription
  BY <1>1 DEF NoIdleSubscription
<1> QED
  BY <1>2, ClientInvariance, PTL

-----------------------------------------------------------------------------
(***************************************************************************)
(* What a callback misses.  When nobody shares its topic, nobody ends it   *)
(* at the server, and all that is owed comes after the answer.             *)
(***************************************************************************)

AcceptedInv ==
  /\ \A s \in accepted : phase[s] \in {"asking", "granted", "on"} /\ TopicOf(s) # Invalid
  /\ \A n \in DOMAIN toServer :
       toServer[n].method = "subscribe" => pending[toServer[n].id].sub \notin accepted
  /\ \A s \in Subs : phase[s] = "asking" /\ s \notin accepted => owed[s] = <<>>
  /\ \A s \in Subs : \A l \in DOMAIN owed[s] :
       owed[s][l] <= news /\ \A k \in 1..(l - 1) : owed[s][k] < owed[s][l]
  /\ socket = "open" => \A s \in accepted : Alone(s) => TopicOf(s) \in server

(* Event v comes to s, after frame n. *)
Comes(s, v, n) ==
  \E k \in DOMAIN toClient : /\ k > n /\ ~IsAnswer(toClient[k])
                             /\ toClient[k].news = v /\ toClient[k].topic = TopicOf(s)
HasHeard(s, v) == \E k \in DOMAIN heard[s] : heard[s][k] = v

(* At most so many events are missed: none before the answer, and in its turn those
   after it. *)
Misses(s) ==
  /\ phase[s] = "asking" =>
       \E n \in DOMAIN toClient :
         /\ toClient[n].kind = "success" /\ pending[toClient[n].id].sub = s
         /\ \A l \in DOMAIN owed[s] : Comes(s, owed[s][l], n)
  /\ phase[s] = "granted" =>
       \E m \in 0..(inTurn - 1) : \A l \in DOMAIN owed[s] : l > m => Comes(s, owed[s][l], 0)
  /\ phase[s] = "on" =>
       \E m \in 0..(FramesPerTurn - 1) : \A l \in DOMAIN owed[s] :
         l > m => HasHeard(s, owed[s][l]) \/ Comes(s, owed[s][l], 0)
MissedInv == socket = "open" => \A s \in accepted : Alone(s) => Misses(s)

(* Events that come, when more frames do. *)
LEMMA StillComes ==
  ASSUME NEW s, NEW v, NEW n, Comes(s, v, n),
         \A k \in DOMAIN toClient : k \in DOMAIN toClient' /\ toClient'[k] = toClient[k]
  PROVE  Comes(s, v, n)'
  BY DEF Comes, IsAnswer

(* And when the first frame is taken, if it is not the one. *)
LEMMA ComesNext ==
  ASSUME ClientTypeOK, toClient # <<>>, toClient' = Tail(toClient),
         NEW s, NEW v, NEW n \in Nat, Comes(s, v, n),
         n # 0 \/ IsAnswer(toClient[1]) \/ toClient[1].news # v \/ toClient[1].topic # TopicOf(s)
  PROVE  \A m \in Nat : m = (IF n = 0 THEN 0 ELSE n - 1) => Comes(s, v, m)'
<1>1. PICK k \in DOMAIN toClient :
         k > n /\ ~IsAnswer(toClient[k]) /\ toClient[k].news = v /\ toClient[k].topic = TopicOf(s)
  BY DEF Comes
<1>2. k # 1 /\ k \in Nat
  <2>1. k \in 1..Len(toClient) /\ Len(toClient) \in Nat
    BY FrameTaken
  <2>2. n # 0 => k # 1
    BY <1>1, <2>1
  <2> QED
    BY <1>1, <2>1, <2>2
<1>3. k - 1 \in DOMAIN toClient' /\ toClient'[k - 1] = toClient[k]
  BY <1>2, FrameTaken
<1>4. k \in 1..Len(toClient) /\ Len(toClient) \in Nat
  BY FrameTaken
<1>5. \A m \in Nat : m = (IF n = 0 THEN 0 ELSE n - 1) => k - 1 > m
  BY <1>1, <1>2, <1>4
<1> QED
  BY <1>1, <1>3, <1>5 DEF Comes, IsAnswer

(* Of what is owed, only the next can be the first to come. *)
LEMMA FirstIsNext ==
  ASSUME ClientTypeOK, OrderInv, AcceptedInv, toClient # <<>>, ~IsAnswer(toClient[1]),
         NEW s \in Subs, NEW m \in Nat, NEW l \in DOMAIN owed[s], l > m + 1, m + 1 \in DOMAIN owed[s],
         Comes(s, owed[s][m + 1], 0)
  PROVE  toClient[1].news # owed[s][l]
<1>1. PICK k \in DOMAIN toClient : ~IsAnswer(toClient[k]) /\ toClient[k].news = owed[s][m + 1]
  BY DEF Comes
<1>2. /\ 1 \in DOMAIN toClient /\ DOMAIN toClient = 1..Len(toClient) /\ Len(toClient) \in Nat
      /\ \A n \in DOMAIN toClient : ~IsAnswer(toClient[n]) => toClient[n].news \in Nat
  <2>1. toClient \in Seq(Frame)
    BY DEF ClientTypeOK
  <2> QED
    BY <2>1, FramesAreTyped, TailHas
<1>3. toClient[1].news <= toClient[k].news
  <2>1. CASE k = 1
    BY <1>1, <1>2, <2>1
  <2>2. CASE k # 1
    <3>1. 1 \in 1..(k - 1)
      BY <1>2, <2>2
    <3>2. toClient[1].news < toClient[k].news
      BY <1>1, <3>1 DEF OrderInv
    <3> QED
      BY <1>1, <1>2, <3>2
  <2> QED
    BY <2>1, <2>2
<1>4. owed[s] \in Seq(1..MaxNews)
  BY DEF ClientTypeOK
<1>5. /\ DOMAIN owed[s] = 1..Len(owed[s]) /\ Len(owed[s]) \in Nat
      /\ \A i \in DOMAIN owed[s] : owed[s][i] \in 1..MaxNews
  BY <1>4, SequencesHave
<1>6. m + 1 \in 1..(l - 1)
  BY <1>5
<1>7. owed[s][m + 1] < owed[s][l]
  BY <1>6 DEF AcceptedInv
<1>8. owed[s][m + 1] \in Nat /\ owed[s][l] \in Nat /\ toClient[1].news \in Nat
  BY <1>2, <1>5
<1> QED
  BY <1>1, <1>3, <1>7, <1>8

(* The store: what is owed comes last. *)
LEMMA HappensMisses ==
  ASSUME ClientIInv, AcceptedInv, MissedInv, NEW p \in TopicSet, Happens(p)
  PROVE  AcceptedInv' /\ MissedInv'
<1> DEFINE new == [kind |-> "notification", topic |-> p, news |-> news + 1]
           gets(s) == s \in accepted /\ TopicOf(s) = p
<1>t. /\ ClientTypeOK /\ CallsInv /\ AnswersInv
      /\ news < MaxNews /\ news' = news + 1
      /\ owed' = [s \in Subs |-> IF gets(s) THEN Append(owed[s], news + 1) ELSE owed[s]]
      /\ toClient' = IF p \in server THEN Append(toClient, new) ELSE toClient
      /\ UNCHANGED <<socket, idCursor, pending, phase, listening, inTurn, toServer, server, accepted, heard>>
  BY DEF ClientIInv, Happens, client
<1>1. /\ news \in Nat /\ news + 1 \in 1..MaxNews
      /\ new \in Frame /\ ~IsAnswer(new) /\ new.news = news + 1 /\ new.topic = p
  BY <1>t, WsClientAssumption DEF ClientTypeOK, Frame, IsAnswer
<1> HIDE DEF new
<1>2. /\ Len(toClient) \in Nat /\ DOMAIN toClient = 1..Len(toClient)
      /\ \A n \in DOMAIN toClient : n \in DOMAIN toClient' /\ toClient'[n] = toClient[n]
      /\ p \in server => Len(toClient) + 1 \in DOMAIN toClient' /\ toClient'[Len(toClient) + 1] = new
  <2>1. toClient \in Seq(Frame)
    BY <1>t DEF ClientTypeOK
  <2>2. /\ Len(toClient) \in Nat /\ DOMAIN toClient = 1..Len(toClient)
        /\ DOMAIN Append(toClient, new) = 1..(Len(toClient) + 1)
        /\ \A n \in 1..Len(toClient) : Append(toClient, new)[n] = toClient[n]
        /\ Append(toClient, new)[Len(toClient) + 1] = new
    BY <1>1, <2>1, AppendHas, SequencesHave
  <2>3. 1..Len(toClient) \subseteq 1..(Len(toClient) + 1) /\ Len(toClient) + 1 \in 1..(Len(toClient) + 1)
    BY <2>2
  <2>4. CASE p \in server
    BY <1>t, <2>2, <2>3, <2>4
  <2>5. CASE p \notin server
    BY <1>t, <2>2, <2>5
  <2> QED
    BY <2>4, <2>5
<1>3. ASSUME NEW s \in Subs
      PROVE  /\ DOMAIN owed[s] = 1..Len(owed[s]) /\ Len(owed[s]) \in Nat
             /\ \A l \in DOMAIN owed[s] : owed[s][l] \in Nat
             /\ ~gets(s) => owed'[s] = owed[s]
             /\ gets(s) => /\ DOMAIN owed'[s] = 1..(Len(owed[s]) + 1)
                           /\ \A l \in DOMAIN owed[s] : owed'[s][l] = owed[s][l]
                           /\ owed'[s][Len(owed[s]) + 1] = news + 1
  <2>1. owed[s] \in Seq(1..MaxNews)
    BY <1>t DEF ClientTypeOK
  <2>2. /\ DOMAIN owed[s] = 1..Len(owed[s]) /\ Len(owed[s]) \in Nat
        /\ \A l \in DOMAIN owed[s] : owed[s][l] \in 1..MaxNews
        /\ DOMAIN Append(owed[s], news + 1) = 1..(Len(owed[s]) + 1)
        /\ \A l \in 1..Len(owed[s]) : Append(owed[s], news + 1)[l] = owed[s][l]
        /\ Append(owed[s], news + 1)[Len(owed[s]) + 1] = news + 1
    <3>1. /\ DOMAIN owed[s] = 1..Len(owed[s]) /\ Len(owed[s]) \in Nat
          /\ \A l \in DOMAIN owed[s] : owed[s][l] \in 1..MaxNews
      BY <2>1, SequencesHave
    <3> QED
      BY <1>1, <2>1, <3>1, AppendHas
  <2>3. owed'[s] = IF gets(s) THEN Append(owed[s], news + 1) ELSE owed[s]
    BY <1>t
  <2>4. \A l \in 1..MaxNews : l \in Nat
    OBVIOUS
  <2> HIDE DEF gets
  <2> QED
    BY <2>2, <2>3, <2>4
<1>4. \A s \in Subs : \A l \in DOMAIN owed'[s] :
        \/ l \in DOMAIN owed[s] /\ owed'[s][l] = owed[s][l]
        \/ gets(s) /\ l = Len(owed[s]) + 1 /\ owed'[s][l] = news + 1
  <2> SUFFICES ASSUME NEW s \in Subs, NEW l \in DOMAIN owed'[s]
               PROVE  \/ l \in DOMAIN owed[s] /\ owed'[s][l] = owed[s][l]
                      \/ gets(s) /\ l = Len(owed[s]) + 1 /\ owed'[s][l] = news + 1
    OBVIOUS
  <2>1. CASE gets(s)
    <3>1. l \in 1..Len(owed[s]) \/ l = Len(owed[s]) + 1
      BY <1>3, <2>1
    <3> QED
      BY <1>3, <2>1, <3>1
  <2>2. CASE ~gets(s)
    BY <1>3, <2>2
  <2> QED
    BY <2>1, <2>2
<1>5. AcceptedInv'
  <2>1. \A s \in Subs : phase[s] = "asking" /\ s \notin accepted => owed'[s] = <<>>
    BY <1>3 DEF AcceptedInv
  <2>2. ASSUME NEW s \in Subs, NEW l \in DOMAIN owed'[s]
        PROVE  owed'[s][l] <= news + 1 /\ \A k \in 1..(l - 1) : owed'[s][k] < owed'[s][l]
    <3>0. \A i \in DOMAIN owed[s] : owed[s][i] <= news /\ owed[s][i] \in Nat
      BY <1>3 DEF AcceptedInv
    <3>1. \A k \in 1..(l - 1) : k \in DOMAIN owed[s] /\ owed'[s][k] = owed[s][k]
      BY <1>3, <1>4, <2>2
    <3>2. CASE l \in DOMAIN owed[s] /\ owed'[s][l] = owed[s][l]
      <4>1. owed[s][l] <= news + 1
        BY <1>1, <3>0, <3>2
      <4>2. \A k \in 1..(l - 1) : owed[s][k] < owed[s][l]
        BY <3>2 DEF AcceptedInv
      <4> QED
        BY <3>1, <3>2, <4>1, <4>2
    <3>3. CASE owed'[s][l] = news + 1
      <4>1. \A v \in Nat : v <= news => v < news + 1
        BY <1>1
      <4> QED
        BY <1>1, <3>0, <3>1, <3>3, <4>1
    <3> QED
      BY <1>4, <3>2, <3>3
  <2>3. /\ \A s \in accepted : phase[s] \in {"asking", "granted", "on"} /\ TopicOf(s) # Invalid
        /\ \A n \in DOMAIN toServer :
             toServer[n].method = "subscribe" => pending[toServer[n].id].sub \notin accepted
        /\ socket = "open" => \A s \in accepted : Alone(s) => TopicOf(s) \in server
    BY DEF AcceptedInv
  <2> QED
    BY <1>t, <2>1, <2>2, <2>3 DEF AcceptedInv
<1>6. MissedInv'
  <2> SUFFICES ASSUME socket = "open", NEW s \in accepted, Alone(s)
               PROVE  Misses(s)'
    BY <1>t DEF MissedInv
  <2>1. s \in Subs /\ TopicOf(s) \in server
    BY <1>t DEF AcceptedInv, ClientTypeOK
  <2>2. ASSUME NEW n \in 0..Len(toClient), NEW l \in DOMAIN owed'[s],
               l \in DOMAIN owed[s] => Comes(s, owed[s][l], n)
        PROVE  Comes(s, owed[s][l], n)'
    <3>1. CASE l \in DOMAIN owed[s] /\ owed'[s][l] = owed[s][l]
      <4>1. \A v : Comes(s, v, n) => Comes(s, v, n)'
        BY <1>2 DEF Comes, IsAnswer
      <4>2. \A v : v = owed[s][l] => Comes(s, v, n)'
        BY <2>2, <3>1, <4>1
      <4> QED
        BY <3>1, <4>2 DEF Comes, IsAnswer
    <3>2. CASE gets(s) /\ owed'[s][l] = news + 1
      <4>1. /\ Len(toClient) + 1 \in DOMAIN toClient' /\ toClient'[Len(toClient) + 1] = new
            /\ Len(toClient) + 1 > n /\ TopicOf(s) = p
        BY <1>2, <2>1, <3>2
      <4> QED
        BY <1>1, <3>2, <4>1 DEF Comes, IsAnswer
    <3> QED
      BY <1>4, <2>1, <3>1, <3>2
  <2>3. ASSUME phase[s] = "asking"
        PROVE  (\E n \in DOMAIN toClient :
                  /\ toClient[n].kind = "success" /\ pending[toClient[n].id].sub = s
                  /\ \A l \in DOMAIN owed[s] : Comes(s, owed[s][l], n))'
    <3>1. PICK n \in DOMAIN toClient :
             /\ toClient[n].kind = "success" /\ pending[toClient[n].id].sub = s
             /\ \A l \in DOMAIN owed[s] : Comes(s, owed[s][l], n)
      BY <2>3 DEF MissedInv, Misses
    <3>2. n \in 0..Len(toClient)
      BY <1>2
    <3>3. (\A l \in DOMAIN owed[s] : Comes(s, owed[s][l], n))'
      BY <2>2, <3>1, <3>2
    <3> QED
      BY <1>2, <1>t, <3>1, <3>3
  <2>4. 0 \in 0..Len(toClient)
    BY <1>2
  <2>5. ASSUME phase[s] = "granted"
        PROVE  (\E m \in 0..(inTurn - 1) : \A l \in DOMAIN owed[s] : l > m => Comes(s, owed[s][l], 0))'
    <3>1. PICK m \in 0..(inTurn - 1) : \A l \in DOMAIN owed[s] : l > m => Comes(s, owed[s][l], 0)
      BY <2>5 DEF MissedInv, Misses
    <3>2. (\A l \in DOMAIN owed[s] : l > m => Comes(s, owed[s][l], 0))'
      BY <2>2, <2>4, <3>1
    <3> QED
      BY <1>t, <3>2
  <2>6. ASSUME phase[s] = "on"
        PROVE  (\E m \in 0..(FramesPerTurn - 1) : \A l \in DOMAIN owed[s] :
                  l > m => HasHeard(s, owed[s][l]) \/ Comes(s, owed[s][l], 0))'
    <3>1. PICK m \in 0..(FramesPerTurn - 1) : \A l \in DOMAIN owed[s] :
             l > m => HasHeard(s, owed[s][l]) \/ Comes(s, owed[s][l], 0)
      BY <2>6 DEF MissedInv, Misses
    <3>2. ASSUME NEW l \in DOMAIN owed'[s], l > m
          PROVE  (HasHeard(s, owed[s][l]) \/ Comes(s, owed[s][l], 0))'
      <4>1. CASE l \in DOMAIN owed[s] /\ HasHeard(s, owed[s][l])
        <5>1. owed'[s][l] = owed[s][l]
          BY <1>3, <2>1, <4>1
        <5> QED
          BY <1>t, <4>1, <5>1 DEF HasHeard
      <4>2. CASE ~(l \in DOMAIN owed[s] /\ HasHeard(s, owed[s][l]))
        <5>1. l \in DOMAIN owed[s] => Comes(s, owed[s][l], 0)
          BY <3>1, <3>2, <4>2
        <5> QED
          BY <2>2, <2>4, <5>1
      <4> QED
        BY <4>1, <4>2
    <3> QED
      BY <3>2
  <2> QED
    BY <1>t, <2>3, <2>5, <2>6 DEF Misses
<1> QED
  BY <1>5, <1>6

(* A notification: the callback that listens has heard it; one that does not yet
   misses one more, of this turn. *)
LEMMA NotifyMisses ==
  ASSUME ClientIInv, AcceptedInv, MissedInv, HandleFrame, Head(toClient).kind = "notification"
  PROVE  AcceptedInv' /\ MissedInv'
<1> DEFINE f == toClient[1]
           hears(s) == s \in listening /\ Matches(s, f.topic)
<1>t. /\ ClientTypeOK /\ OrderInv /\ TurnInv /\ SocketInv
      /\ toClient # <<>> /\ inTurn < FramesPerTurn /\ inTurn' = inTurn + 1 /\ toClient' = Tail(toClient)
      /\ heard' = [s \in Subs |-> IF s \in listening /\ Matches(s, Head(toClient).topic)
                                  THEN Append(heard[s], Head(toClient).news) ELSE heard[s]]
      /\ UNCHANGED <<socket, idCursor, pending, phase, listening, toServer, server, news, accepted, owed>>
  BY DEF ClientIInv, HandleFrame, Notify
<1>1. /\ Head(toClient) = f /\ f \in Frame /\ f.kind = "notification"
      /\ \A n \in DOMAIN toClient : n \in Nat /\ (n # 1 => n - 1 \in DOMAIN toClient' /\ toClient'[n - 1] = toClient[n])
  <2>1. DOMAIN toClient = 1..Len(toClient) /\ Len(toClient) \in Nat
    BY <1>t, FrameTaken
  <2> QED
    BY <1>t, <2>1, FrameTaken
<1>2. ~IsAnswer(f) /\ f.news \in 1..MaxNews /\ inTurn \in Nat /\ FramesPerTurn \in Nat
  <2>1. 1 \in DOMAIN toClient
    BY <1>t, FrameTaken
  <2> QED
    BY <1>t, <1>1, <2>1, FramesAreTyped, WsClientAssumption DEF IsAnswer, ClientTypeOK
<1>3. AcceptedInv'
  BY <1>t DEF AcceptedInv
<1>4. ASSUME NEW s \in Subs
      PROVE  /\ \A v : HasHeard(s, v) => HasHeard(s, v)'
             /\ hears(s) => \A v : v = f.news => HasHeard(s, v)'
  <2>1. heard[s] \in Seq(1..MaxNews)
    BY <1>t DEF ClientTypeOK
  <2>2. heard'[s] = IF hears(s) THEN Append(heard[s], f.news) ELSE heard[s]
    BY <1>t, <1>1
  <2>3. /\ Len(heard[s]) \in Nat /\ DOMAIN heard[s] = 1..Len(heard[s])
        /\ DOMAIN Append(heard[s], f.news) = 1..(Len(heard[s]) + 1)
        /\ \A k \in 1..Len(heard[s]) : Append(heard[s], f.news)[k] = heard[s][k]
        /\ Append(heard[s], f.news)[Len(heard[s]) + 1] = f.news
    <3>1. Len(heard[s]) \in Nat /\ DOMAIN heard[s] = 1..Len(heard[s])
      BY <2>1, SequencesHave
    <3> QED
      BY <1>2, <2>1, <3>1, AppendHas
  <2>4. 1..Len(heard[s]) \subseteq 1..(Len(heard[s]) + 1) /\ Len(heard[s]) + 1 \in 1..(Len(heard[s]) + 1)
    BY <2>3
  <2> HIDE DEF f, hears
  <2> QED
    BY <2>2, <2>3, <2>4 DEF HasHeard
<1> HIDE DEF f
<1>5. MissedInv'
  <2> SUFFICES ASSUME socket = "open", NEW s \in accepted, Alone(s)
               PROVE  Misses(s)'
    BY <1>t DEF MissedInv
  <2>1. s \in Subs
    BY <1>t DEF ClientTypeOK
  <2>2. ASSUME phase[s] = "asking"
        PROVE  (\E n \in DOMAIN toClient :
                  /\ toClient[n].kind = "success" /\ pending[toClient[n].id].sub = s
                  /\ \A l \in DOMAIN owed[s] : Comes(s, owed[s][l], n))'
    <3>1. PICK n \in DOMAIN toClient :
             /\ toClient[n].kind = "success" /\ pending[toClient[n].id].sub = s
             /\ \A l \in DOMAIN owed[s] : Comes(s, owed[s][l], n)
      BY <2>2 DEF MissedInv, Misses
    <3>2. n # 1
      BY <1>1, <3>1 DEF f
    <3>3. n \in Nat /\ n # 0 /\ n - 1 \in Nat /\ n - 1 \in DOMAIN toClient' /\ toClient'[n - 1] = toClient[n]
      <4>1. n \in 1..Len(toClient) /\ Len(toClient) \in Nat
        BY <1>t, FrameTaken
      <4> QED
        BY <1>1, <3>2, <4>1
    <3>4. \A l \in DOMAIN owed[s] : \A m \in Nat : m = n - 1 => Comes(s, owed[s][l], m)'
      <4> SUFFICES ASSUME NEW l \in DOMAIN owed[s], NEW m \in Nat, m = n - 1
                   PROVE  Comes(s, owed[s][l], m)'
        OBVIOUS
      <4>1. \A v : v = owed[s][l] => Comes(s, v, n)
        BY <3>1
      <4>2. \A v : v = owed[s][l] => Comes(s, v, m)'
        BY <1>t, <3>3, <4>1, ComesNext
      <4> QED
        BY <1>t, <4>2 DEF Comes, IsAnswer
    <3>5. \A m \in Nat : m = n - 1 => (\A l \in DOMAIN owed[s] : Comes(s, owed[s][l], m))'
      BY <1>t, <3>4
    <3>6. \A m \in Nat : m = n - 1 =>
            m \in DOMAIN toClient' /\ toClient'[m].kind = "success" /\ pending'[toClient'[m].id].sub = s
      BY <1>t, <3>1, <3>3
    <3> QED
      BY <3>3, <3>5, <3>6
  <2>3. ASSUME phase[s] = "granted"
        PROVE  (\E m \in 0..(inTurn - 1) : \A l \in DOMAIN owed[s] : l > m => Comes(s, owed[s][l], 0))'
    <3>1. PICK m \in 0..(inTurn - 1) : \A l \in DOMAIN owed[s] : l > m => Comes(s, owed[s][l], 0)
      BY <2>3 DEF MissedInv, Misses
    <3>2. m \in Nat /\ m + 1 \in 0..(inTurn' - 1)
      BY <1>t, <1>2, <3>1
    <3>3. ASSUME NEW l \in DOMAIN owed'[s], l > m + 1
          PROVE  Comes(s, owed[s][l], 0)'
      <4>1. /\ l \in DOMAIN owed[s] /\ m + 1 \in DOMAIN owed[s] /\ l > m /\ m + 1 > m
        <5>1. owed[s] \in Seq(1..MaxNews)
          BY <1>t, <2>1 DEF ClientTypeOK
        <5>2. DOMAIN owed[s] = 1..Len(owed[s]) /\ Len(owed[s]) \in Nat
          BY <5>1, SequencesHave
        <5> QED
          BY <1>t, <3>2, <3>3, <5>2
      <4>2. toClient[1].news # owed[s][l]
        BY <1>t, <1>2, <2>1, <3>1, <3>2, <3>3, <4>1, FirstIsNext DEF f
      <4>3. \A v : v = owed[s][l] => Comes(s, v, 0)'
        BY <1>t, <3>1, <4>1, <4>2, ComesNext
      <4> QED
        BY <1>t, <4>3 DEF Comes, IsAnswer
    <3> QED
      BY <3>2, <3>3
  <2>4. ASSUME phase[s] = "on"
        PROVE  (\E m \in 0..(FramesPerTurn - 1) : \A l \in DOMAIN owed[s] :
                  l > m => HasHeard(s, owed[s][l]) \/ Comes(s, owed[s][l], 0))'
    <3>1. PICK m \in 0..(FramesPerTurn - 1) : \A l \in DOMAIN owed[s] :
             l > m => HasHeard(s, owed[s][l]) \/ Comes(s, owed[s][l], 0)
      BY <2>4 DEF MissedInv, Misses
    <3>2. s \in listening
      BY <1>t, <2>1, <2>4 DEF ClientTypeOK
    <3>3. ASSUME NEW l \in DOMAIN owed'[s], l > m
          PROVE  (HasHeard(s, owed[s][l]) \/ Comes(s, owed[s][l], 0))'
      <4>1. CASE HasHeard(s, owed[s][l])
        <5>1. \A v : v = owed[s][l] => HasHeard(s, v)'
          BY <1>4, <2>1, <4>1
        <5> QED
          BY <1>t, <5>1 DEF HasHeard
      <4>2. CASE Comes(s, owed[s][l], 0) /\ toClient[1].news = owed[s][l] /\ toClient[1].topic = TopicOf(s)
        <5>1. hears(s)
          BY <3>2, <4>2 DEF Matches, f
        <5>2. \A v : v = owed[s][l] => HasHeard(s, v)'
          BY <1>4, <2>1, <4>2, <5>1 DEF f
        <5> QED
          BY <1>t, <5>2 DEF HasHeard
      <4>3. CASE Comes(s, owed[s][l], 0) /\ ~(toClient[1].news = owed[s][l] /\ toClient[1].topic = TopicOf(s))
        <5>1. \A v : v = owed[s][l] => Comes(s, v, 0)'
          BY <1>t, <4>3, ComesNext
        <5> QED
          BY <1>t, <5>1 DEF Comes, IsAnswer
      <4> QED
        BY <1>t, <3>1, <3>3, <4>1, <4>2, <4>3
    <3> QED
      BY <3>3
  <2> QED
    BY <1>t, <2>2, <2>3, <2>4 DEF Misses
<1> QED
  BY <1>3, <1>5

(* The answer to a subscription: all that is owed is behind it. *)
LEMMA SettleMisses ==
  ASSUME ClientIInv, AcceptedInv, MissedInv, HandleFrame, Head(toClient).kind # "notification"
  PROVE  AcceptedInv' /\ MissedInv'
<1> DEFINE f == toClient[1]
           sub == pending[f.id].sub
           now == IF f.kind = "success" /\ pending[f.id].method = "subscribe" THEN "granted" ELSE "idle"
<1>t. /\ ClientTypeOK /\ SocketInv /\ RequestsInv /\ AnswersInv /\ CallsInv /\ OrderInv /\ TurnInv
      /\ toClient # <<>> /\ inTurn < FramesPerTurn /\ inTurn' = inTurn + 1 /\ toClient' = Tail(toClient)
      /\ Settle(Head(toClient))
      /\ UNCHANGED <<socket, idCursor, listening, toServer, server, news, accepted, owed, heard>>
  BY DEF ClientIInv, HandleFrame, Settle
<1>1. /\ Head(toClient) = f /\ 1 \in DOMAIN toClient
      /\ DOMAIN toClient = 1..Len(toClient) /\ Len(toClient) \in Nat
  BY <1>t, FrameTaken
<1>2. /\ IsAnswer(f) /\ f.id \in Asking /\ f.id \in Ids /\ f.kind \in {"success", "error"}
      /\ (f.kind = "success") = (TopicOf(sub) # Invalid) /\ ~OnItsWay(f.id)
  BY <1>t, <1>1, FramesAreTyped DEF AnswersInv, IsAnswer
<1>3. /\ sub \in Subs /\ pending[f.id].method \in {"subscribe", "unsubscribe"}
      /\ phase[sub] = IF pending[f.id].method = "subscribe" THEN "asking" ELSE "leaving"
  BY <1>t, <1>2, CallsAreTyped DEF CallsInv
<1>4. pending' = [pending EXCEPT ![f.id] = NoCall] /\ phase' = [phase EXCEPT ![sub] = now]
  BY <1>t, <1>1, <1>2 DEF Settle, Settles, Asking
<1>5. \A i \in Ids \ {f.id} : pending'[i] = pending[i]
  <2>1. pending \in [Ids -> [sub : Subs, method : {"subscribe", "unsubscribe"}] \cup {NoCall}]
    BY <1>t DEF ClientTypeOK
  <2> HIDE DEF f
  <2> QED
    BY <1>2, <1>4, <2>1
<1>6. phase'[sub] = now /\ \A s \in Subs \ {sub} : phase'[s] = phase[s]
  <2>1. phase \in [Subs -> {"idle", "asking", "granted", "on", "leaving"}]
    BY <1>t DEF ClientTypeOK
  <2> HIDE DEF now, sub
  <2> QED
    BY <1>3, <1>4, <2>1
<1>7. sub \in accepted => phase[sub] = "asking" /\ now = "granted"
  BY <1>2, <1>3 DEF AcceptedInv
<1>8. now \in {"granted", "idle"} /\ inTurn \in Nat
  BY <1>t, WsClientAssumption DEF ClientTypeOK
<1>9. \A n \in DOMAIN toServer : toServer[n].id \in Ids /\ toServer[n].id # f.id
  BY <1>t, <1>2, FramesAreTyped DEF OnItsWay
<1>10. AcceptedInv'
  <2> HIDE DEF f, sub, now
  <2>1. \A s \in accepted : phase'[s] \in {"asking", "granted", "on"} /\ TopicOf(s) # Invalid
    <3>1. accepted \subseteq Subs
      BY <1>t DEF ClientTypeOK
    <3> QED
      BY <1>6, <1>7, <3>1 DEF AcceptedInv
  <2>2. \A n \in DOMAIN toServer :
          toServer[n].method = "subscribe" => pending'[toServer[n].id].sub \notin accepted
    BY <1>5, <1>9 DEF AcceptedInv
  <2>3. \A s \in Subs : phase'[s] = "asking" /\ s \notin accepted => owed[s] = <<>>
    BY <1>6, <1>8 DEF AcceptedInv
  <2> QED
    BY <1>t, <2>1, <2>2, <2>3 DEF AcceptedInv
<1>11. MissedInv'
  <2> SUFFICES ASSUME socket = "open", NEW s \in accepted, Alone(s)
               PROVE  Misses(s)'
    BY <1>t DEF MissedInv
  <2>1. s \in Subs
    BY <1>t DEF ClientTypeOK
  <2>2. \A v : Comes(s, v, 0) => Comes(s, v, 0)'
    BY <1>t, <1>2, ComesNext
  <2>3. \A n \in DOMAIN toClient : n \in Nat /\ n # 0
    BY <1>1
  <2>4. \A n \in DOMAIN toClient : \A m \in Nat : m = n - 1 =>
          \A v : Comes(s, v, n) => Comes(s, v, m)'
    BY <1>t, <2>3, ComesNext
  <2>5. ASSUME phase'[s] = "asking"
        PROVE  (\E n \in DOMAIN toClient :
                  /\ toClient[n].kind = "success" /\ pending[toClient[n].id].sub = s
                  /\ \A l \in DOMAIN owed[s] : Comes(s, owed[s][l], n))'
    <3>1. s # sub /\ phase[s] = "asking"
      BY <1>6, <1>8, <2>1, <2>5
    <3>2. PICK n \in DOMAIN toClient :
             /\ toClient[n].kind = "success" /\ pending[toClient[n].id].sub = s
             /\ \A l \in DOMAIN owed[s] : Comes(s, owed[s][l], n)
      BY <3>1 DEF MissedInv, Misses
    <3>3. n # 1 /\ toClient[n].id # f.id /\ toClient[n].id \in Ids
      BY <1>t, <3>1, <3>2, FramesAreTyped DEF IsAnswer
    <3>4. n - 1 \in Nat /\ n - 1 \in DOMAIN toClient' /\ toClient'[n - 1] = toClient[n]
      <4>1. n \in 1..Len(toClient) /\ Len(toClient) \in Nat
        BY <1>1
      <4> QED
        BY <1>t, <3>3, <4>1, FrameTaken
    <3>5. \A m \in Nat : m = n - 1 => (\A l \in DOMAIN owed[s] : Comes(s, owed[s][l], m))'
      <4>1. \A l \in DOMAIN owed[s] : \A m \in Nat : m = n - 1 =>
              \A v : v = owed[s][l] => Comes(s, v, m)'
        BY <2>4, <3>2
      <4> QED
        BY <1>t, <4>1 DEF Comes, IsAnswer
    <3>6. \A m \in Nat : m = n - 1 =>
            m \in DOMAIN toClient' /\ toClient'[m].kind = "success" /\ pending'[toClient'[m].id].sub = s
      BY <1>5, <3>2, <3>3, <3>4
    <3> QED
      BY <3>4, <3>5, <3>6
  <2>6. ASSUME phase'[s] = "granted"
        PROVE  (\E m \in 0..(inTurn - 1) : \A l \in DOMAIN owed[s] : l > m => Comes(s, owed[s][l], 0))'
    <3>1. CASE s = sub
      <4>1. phase[s] = "asking"
        BY <1>7, <3>1
      <4>2. PICK n \in DOMAIN toClient :
               /\ toClient[n].kind = "success" /\ pending[toClient[n].id].sub = s
               /\ \A l \in DOMAIN owed[s] : Comes(s, owed[s][l], n)
        BY <4>1 DEF MissedInv, Misses
      <4>3. \A l \in DOMAIN owed[s] : \A v : v = owed[s][l] => Comes(s, v, 0)
        <5>1. \A v : Comes(s, v, n) => Comes(s, v, 0)
          <6>1. \A k \in DOMAIN toClient : k > n => k > 0
            BY <1>1
          <6> QED
            BY <6>1 DEF Comes
        <5> QED
          BY <4>2, <5>1
      <4>4. \A l \in DOMAIN owed[s] : \A v : v = owed[s][l] => Comes(s, v, 0)'
        BY <2>2, <4>3
      <4>5. (\A l \in DOMAIN owed[s] : Comes(s, owed[s][l], 0))'
        BY <1>t, <4>4 DEF Comes, IsAnswer
      <4>6. 0 \in 0..(inTurn' - 1)
        BY <1>t, <1>8
      <4> QED
        BY <4>5, <4>6
    <3>2. CASE s # sub
      <4>1. phase[s] = "granted"
        BY <1>6, <2>1, <2>6, <3>2
      <4>2. PICK m \in 0..(inTurn - 1) : \A l \in DOMAIN owed[s] : l > m => Comes(s, owed[s][l], 0)
        BY <4>1 DEF MissedInv, Misses
      <4>3. m \in 0..(inTurn' - 1)
        BY <1>t, <1>8, <4>2
      <4>4. \A l \in DOMAIN owed[s] : l > m => \A v : v = owed[s][l] => Comes(s, v, 0)'
        BY <2>2, <4>2
      <4>5. (\A l \in DOMAIN owed[s] : l > m => Comes(s, owed[s][l], 0))'
        BY <1>t, <4>4 DEF Comes, IsAnswer
      <4> QED
        BY <4>3, <4>5
    <3> QED
      BY <3>1, <3>2
  <2>7. ASSUME phase'[s] = "on"
        PROVE  (\E m \in 0..(FramesPerTurn - 1) : \A l \in DOMAIN owed[s] :
                  l > m => HasHeard(s, owed[s][l]) \/ Comes(s, owed[s][l], 0))'
    <3>1. phase[s] = "on"
      BY <1>6, <1>8, <2>1, <2>7
    <3>2. PICK m \in 0..(FramesPerTurn - 1) : \A l \in DOMAIN owed[s] :
             l > m => HasHeard(s, owed[s][l]) \/ Comes(s, owed[s][l], 0)
      BY <3>1 DEF MissedInv, Misses
    <3>3. \A v : HasHeard(s, v) => HasHeard(s, v)'
      BY <1>t DEF HasHeard
    <3>4. \A l \in DOMAIN owed[s] : l > m => \A v : v = owed[s][l] => HasHeard(s, v)' \/ Comes(s, v, 0)'
      BY <2>2, <3>2, <3>3
    <3>5. (\A l \in DOMAIN owed[s] : l > m => HasHeard(s, owed[s][l]) \/ Comes(s, owed[s][l], 0))'
      BY <1>t, <3>4 DEF Comes, IsAnswer, HasHeard
    <3> QED
      BY <3>5
  <2> QED
    BY <2>5, <2>6, <2>7 DEF Misses
<1> QED
  BY <1>10, <1>11

(* Where nothing but more frames may come, a subscription misses what it did. *)
LEMMA StillMisses ==
  ASSUME MissedInv, socket = "open", NEW s \in accepted, Alone(s),
         phase'[s] = phase[s], owed'[s] = owed[s], heard'[s] = heard[s], inTurn' = inTurn,
         \A n \in DOMAIN toClient :
           /\ n \in DOMAIN toClient' /\ toClient'[n] = toClient[n]
           /\ toClient[n].kind = "success" => pending'[toClient[n].id] = pending[toClient[n].id]
  PROVE  Misses(s)'
<1>1. \A v, n : Comes(s, v, n) => Comes(s, v, n)'
  BY DEF Comes, IsAnswer
<1>2. \A v : HasHeard(s, v) => HasHeard(s, v)'
  BY DEF HasHeard
<1>3. Misses(s)
  BY DEF MissedInv
<1>4. ASSUME phase'[s] = "asking"
      PROVE  (\E n \in DOMAIN toClient :
                /\ toClient[n].kind = "success" /\ pending[toClient[n].id].sub = s
                /\ \A l \in DOMAIN owed[s] : Comes(s, owed[s][l], n))'
  <2>1. PICK n \in DOMAIN toClient :
           /\ toClient[n].kind = "success" /\ pending[toClient[n].id].sub = s
           /\ \A l \in DOMAIN owed[s] : Comes(s, owed[s][l], n)
    BY <1>3, <1>4 DEF Misses
  <2>2. \A l \in DOMAIN owed[s] : \A v : v = owed[s][l] => Comes(s, v, n)'
    BY <1>1, <2>1
  <2>3. (\A l \in DOMAIN owed[s] : Comes(s, owed[s][l], n))'
    BY <2>2 DEF Comes, IsAnswer
  <2> QED
    BY <2>1, <2>3
<1>5. ASSUME phase'[s] = "granted"
      PROVE  (\E m \in 0..(inTurn - 1) : \A l \in DOMAIN owed[s] : l > m => Comes(s, owed[s][l], 0))'
  <2>1. PICK m \in 0..(inTurn - 1) : \A l \in DOMAIN owed[s] : l > m => Comes(s, owed[s][l], 0)
    BY <1>3, <1>5 DEF Misses
  <2>2. \A l \in DOMAIN owed[s] : l > m => \A v : v = owed[s][l] => Comes(s, v, 0)'
    BY <1>1, <2>1
  <2>3. (\A l \in DOMAIN owed[s] : l > m => Comes(s, owed[s][l], 0))'
    BY <2>2 DEF Comes, IsAnswer
  <2> QED
    BY <2>1, <2>3
<1>6. ASSUME phase'[s] = "on"
      PROVE  (\E m \in 0..(FramesPerTurn - 1) : \A l \in DOMAIN owed[s] :
                l > m => HasHeard(s, owed[s][l]) \/ Comes(s, owed[s][l], 0))'
  <2>1. PICK m \in 0..(FramesPerTurn - 1) : \A l \in DOMAIN owed[s] :
           l > m => HasHeard(s, owed[s][l]) \/ Comes(s, owed[s][l], 0)
    BY <1>3, <1>6 DEF Misses
  <2>2. \A l \in DOMAIN owed[s] : l > m => \A v : v = owed[s][l] => HasHeard(s, v)' \/ Comes(s, v, 0)'
    BY <1>1, <1>2, <2>1
  <2>3. (\A l \in DOMAIN owed[s] : l > m => HasHeard(s, owed[s][l]) \/ Comes(s, owed[s][l], 0))'
    BY <2>2 DEF Comes, IsAnswer, HasHeard
  <2> QED
    BY <2>1, <2>3
<1> QED
  BY <1>4, <1>5, <1>6 DEF Misses

(* A call that is made: no other is of a subscription that is accepted already. *)
LEMMA CallsToCome ==
  ASSUME ClientIInv, AcceptedInv, NEW s, NEW id,
         Asking' = Asking \cup {id}, RequestsInv', pending'[id].sub = s,
         \A i \in Asking : pending'[i] = pending[i] /\ pending[i].sub # s,
         \A i \in Asking : OnItsWay(i)' = OnItsWay(i)
  PROVE  \A n \in DOMAIN toServer' :
           toServer'[n].method = "subscribe" => pending'[toServer'[n].id].sub \notin accepted \ {s}
<1> SUFFICES ASSUME NEW n \in DOMAIN toServer', toServer'[n].method = "subscribe"
             PROVE  pending'[toServer'[n].id].sub \notin accepted \ {s}
  OBVIOUS
<1>1. toServer'[n].id \in Asking' /\ pending'[toServer'[n].id].method = "subscribe"
  BY DEF RequestsInv
<1>2. CASE toServer'[n].id = id
  BY <1>2
<1>3. CASE toServer'[n].id # id
  <2>1. PICK i \in Asking : toServer'[n].id = i
    BY <1>1, <1>3
  <2>2. PICK k \in DOMAIN toServer : toServer[k].id = i
    BY <2>1 DEF OnItsWay
  <2>3. toServer[k].method = "subscribe"
    BY <1>1, <2>1, <2>2 DEF ClientIInv, RequestsInv
  <2> QED
    BY <2>1, <2>2, <2>3 DEF AcceptedInv
<1> QED
  BY <1>2, <1>3

LEMMA SubscribeUpdatesMisses ==
  ASSUME ClientIInv, AcceptedInv, MissedInv, NEW s \in Subs, SubscribeUpdates(s)
  PROVE  AcceptedInv' /\ MissedInv'
<1> DEFINE id == NextId
<1>t. /\ ClientTypeOK /\ AnswersInv
      /\ socket # "connecting" /\ phase[s] = "idle" /\ RpcCall(s, "subscribe")
      /\ phase' = [phase EXCEPT ![s] = "asking"]
      /\ owed' = [owed EXCEPT ![s] = <<>>] /\ heard' = [heard EXCEPT ![s] = <<>>]
      /\ UNCHANGED <<socket, listening, inTurn, toClient, server, news, accepted>>
  BY DEF ClientIInv, SubscribeUpdates
<1>1. /\ id \notin Asking /\ Asking' = Asking \cup {id} /\ Asking \subseteq Ids
      /\ \A i \in Asking : pending'[i] = pending[i] /\ pending[i].sub # s
      /\ \A i \in Asking : OnItsWay(i)' = OnItsWay(i)
      /\ pending'[id].sub = s /\ RequestsInv'
  <2>1. Asking \subseteq Ids
    BY DEF Asking
  <2> QED
    BY <1>t, <2>1, RpcCallKeeps
<1>2. s \notin accepted
  BY <1>t DEF AcceptedInv
<1>3. /\ phase'[s] = "asking" /\ owed'[s] = <<>>
      /\ \A t \in Subs \ {s} : phase'[t] = phase[t] /\ owed'[t] = owed[t] /\ heard'[t] = heard[t]
  BY <1>t DEF ClientTypeOK
<1>4. accepted \subseteq Subs \ {s}
  BY <1>t, <1>2 DEF ClientTypeOK
<1>5. \A n \in DOMAIN toServer' :
        toServer'[n].method = "subscribe" => pending'[toServer'[n].id].sub \notin accepted \ {s}
  BY <1>1, CallsToCome
<1> HIDE DEF id
<1>6. AcceptedInv'
  <2>1. \A t \in accepted : phase'[t] \in {"asking", "granted", "on"} /\ TopicOf(t) # Invalid
    BY <1>3, <1>4 DEF AcceptedInv
  <2>2. \A t \in Subs : phase'[t] = "asking" /\ t \notin accepted => owed'[t] = <<>>
    BY <1>3 DEF AcceptedInv
  <2>3. \A t \in Subs : \A l \in DOMAIN owed'[t] :
          owed'[t][l] <= news /\ \A k \in 1..(l - 1) : owed'[t][k] < owed'[t][l]
    BY <1>3 DEF AcceptedInv
  <2> QED
    BY <1>t, <1>2, <1>5, <2>1, <2>2, <2>3 DEF AcceptedInv
<1>7. MissedInv'
  <2>1. \A n \in DOMAIN toClient : toClient[n].kind = "success" => pending'[toClient[n].id] = pending[toClient[n].id]
    BY <1>t, <1>1 DEF AnswersInv, IsAnswer
  <2>2. ASSUME socket = "open", NEW t \in accepted, Alone(t)
        PROVE  Misses(t)'
    BY <1>t, <1>3, <1>4, <2>1, <2>2, StillMisses
  <2> QED
    BY <1>t, <2>2 DEF MissedInv, Alone
<1> QED
  BY <1>6, <1>7

LEMMA UnsubscribeUpdatesMisses ==
  ASSUME ClientIInv, AcceptedInv, MissedInv, NEW s \in Subs, UnsubscribeUpdates(s)
  PROVE  AcceptedInv' /\ MissedInv'
<1> DEFINE id == NextId
<1>t. /\ ClientTypeOK /\ AnswersInv /\ SocketInv
      /\ phase[s] = "on" /\ RpcCall(s, "unsubscribe")
      /\ phase' = [phase EXCEPT ![s] = "leaving"] /\ accepted' = accepted \ {s}
      /\ UNCHANGED <<socket, inTurn, toClient, server, news, owed, heard>>
  BY DEF ClientIInv, UnsubscribeUpdates
<1>1. socket # "connecting"
  BY <1>t DEF SocketInv
<1>2. phase' = [phase EXCEPT ![s] = IF "unsubscribe" = "subscribe" THEN "asking" ELSE "leaving"]
  BY <1>t
<1>3. /\ \A n \in DOMAIN toServer' :
           toServer'[n].method = "subscribe" => pending'[toServer'[n].id].sub \notin accepted \ {s}
      /\ \A i \in Asking : pending'[i] = pending[i]
  <2>1. /\ "unsubscribe" \in {"subscribe", "unsubscribe"} /\ phase[s] \in {"idle", "on"}
        /\ UNCHANGED <<socket, toClient, server>> /\ RpcCall(s, "unsubscribe")
    BY <1>t
  <2>2. /\ Asking' = Asking \cup {id}
        /\ \A i \in Asking : pending'[i] = pending[i] /\ pending[i].sub # s
        /\ \A i \in Asking : OnItsWay(i)' = OnItsWay(i)
        /\ pending'[id].sub = s /\ RequestsInv'
    BY <1>1, <1>2, <2>1, RpcCallKeeps
  <2> HIDE DEF id
  <2> QED
    BY <2>2, CallsToCome
<1>4. phase'[s] = "leaving" /\ \A t \in Subs \ {s} : phase'[t] = phase[t]
  BY <1>t DEF ClientTypeOK
<1>5. accepted \subseteq Subs
  BY <1>t DEF ClientTypeOK
<1>6. AcceptedInv'
  <2>1. \A t \in accepted \ {s} : phase'[t] \in {"asking", "granted", "on"} /\ TopicOf(t) # Invalid
    BY <1>4, <1>5 DEF AcceptedInv
  <2>2. \A t \in Subs : phase'[t] = "asking" /\ t \notin accepted \ {s} => owed[t] = <<>>
    BY <1>4 DEF AcceptedInv
  <2>3. socket = "open" => \A t \in accepted \ {s} : Alone(t) => TopicOf(t) \in server
    BY DEF AcceptedInv
  <2>4. \A t \in Subs : \A l \in DOMAIN owed[t] :
          owed[t][l] <= news /\ \A k \in 1..(l - 1) : owed[t][k] < owed[t][l]
    BY DEF AcceptedInv
  <2> QED
    BY <1>t, <1>3, <2>1, <2>2, <2>3, <2>4 DEF AcceptedInv
<1>7. MissedInv'
  <2>1. \A n \in DOMAIN toClient : toClient[n].kind = "success" => pending'[toClient[n].id] = pending[toClient[n].id]
    BY <1>t, <1>3 DEF AnswersInv, IsAnswer
  <2>2. ASSUME socket = "open", NEW t \in accepted \ {s}, Alone(t)
        PROVE  Misses(t)'
    BY <1>t, <1>4, <1>5, <2>1, <2>2, StillMisses
  <2> QED
    BY <1>t, <2>2 DEF MissedInv, Alone
<1> QED
  BY <1>6, <1>7

(* The turn is over, and as many events are missed as it had frames after the answer,
   so never all of them. *)
LEMMA EndTurnMisses ==
  ASSUME ClientIInv, AcceptedInv, MissedInv, EndTurn
  PROVE  AcceptedInv' /\ MissedInv'
<1>t. /\ ClientTypeOK /\ inTurn > 0
      /\ phase' = [s \in Subs |-> IF s \in {t \in Subs : phase[t] = "granted"} THEN "on" ELSE phase[s]]
      /\ UNCHANGED <<socket, idCursor, pending, toServer, toClient, server, news, accepted, owed, heard>>
  BY DEF ClientIInv, EndTurn
<1>1. /\ accepted \subseteq Subs
      /\ \A s \in Subs : phase'[s] = IF phase[s] = "granted" THEN "on" ELSE phase[s]
  BY <1>t DEF ClientTypeOK
<1>2. AcceptedInv'
  <2>1. \A s \in accepted : phase'[s] \in {"asking", "granted", "on"} /\ TopicOf(s) # Invalid
    BY <1>1 DEF AcceptedInv
  <2>2. \A s \in Subs : phase'[s] = "asking" /\ s \notin accepted => owed[s] = <<>>
    BY <1>1 DEF AcceptedInv
  <2>3. \A s \in Subs : \A l \in DOMAIN owed[s] :
          owed[s][l] <= news /\ \A k \in 1..(l - 1) : owed[s][k] < owed[s][l]
    BY DEF AcceptedInv
  <2>4. socket = "open" => \A s \in accepted : Alone(s) => TopicOf(s) \in server
    BY DEF AcceptedInv
  <2>5. \A n \in DOMAIN toServer :
          toServer[n].method = "subscribe" => pending[toServer[n].id].sub \notin accepted
    BY DEF AcceptedInv
  <2> QED
    BY <1>t, <2>1, <2>2, <2>3, <2>4, <2>5 DEF AcceptedInv
<1>3. MissedInv'
  <2> SUFFICES ASSUME socket = "open", NEW s \in accepted, Alone(s)
               PROVE  Misses(s)'
    BY <1>t DEF MissedInv
  <2>1. Misses(s)
    BY DEF MissedInv
  <2>2. /\ (\A v, n : Comes(s, v, n)' = Comes(s, v, n)) /\ \A v : HasHeard(s, v)' = HasHeard(s, v)
    BY <1>t DEF Comes, HasHeard, IsAnswer
  <2>3. CASE phase[s] = "granted"
    <3>1. PICK m \in 0..(inTurn - 1) : \A l \in DOMAIN owed[s] : l > m => Comes(s, owed[s][l], 0)
      BY <2>1, <2>3 DEF Misses
    <3>2. m \in 0..(FramesPerTurn - 1)
      BY <1>t, <3>1, WsClientAssumption DEF ClientTypeOK
    <3>3. (\A l \in DOMAIN owed[s] : l > m => HasHeard(s, owed[s][l]) \/ Comes(s, owed[s][l], 0))'
      BY <1>t, <3>1 DEF Comes, HasHeard, IsAnswer
    <3>4. phase'[s] = "on"
      BY <1>1, <2>3
    <3> QED
      BY <3>2, <3>3, <3>4 DEF Misses
  <2>4. CASE phase[s] # "granted"
    <3>1. phase'[s] = phase[s] /\ phase[s] # "granted"
      BY <1>1, <2>4
    <3> QED
      BY <1>t, <2>1, <3>1 DEF Misses, Comes, HasHeard, IsAnswer
  <2> QED
    BY <2>3, <2>4
<1> QED
  BY <1>2, <1>3

(* A request is answered: a subscription that is accepted now is owed nothing yet. *)
LEMMA ServeMisses ==
  ASSUME ClientIInv, AcceptedInv, MissedInv, Serve
  PROVE  AcceptedInv' /\ MissedInv'
<1> DEFINE req == Head(toServer)
           topics == {Normal[req.name]} \ {Invalid}
           caller == {s \in Subs : pending[req.id].sub = s}
           sub == pending[req.id].sub
           last == Len(toClient) + 1
           begins == req.method = "subscribe" /\ TopicOf(sub) # Invalid
<1>t. /\ ClientTypeOK /\ RequestsInv /\ CallsInv
      /\ toServer # <<>> /\ toServer' = Tail(toServer)
      /\ toClient' = Append(toClient, Answer(req))
      /\ IF req.method = "subscribe"
         THEN /\ server' = server \cup topics
              /\ accepted' = IF topics = {} THEN accepted ELSE accepted \cup caller
         ELSE server' = server \ topics /\ accepted' = accepted
      /\ UNCHANGED <<socket, idCursor, pending, phase, listening, inTurn, news, owed, heard>>
  BY DEF ClientIInv, Serve, client
<1>1. /\ req = toServer[1] /\ 1 \in DOMAIN toServer
      /\ \A n \in DOMAIN toServer' : toServer'[n] = toServer[n + 1] /\ n + 1 \in DOMAIN toServer /\ n + 1 # 1
  <2>1. toServer \in Seq([id : Ids, method : {"subscribe", "unsubscribe"}, name : Names])
    BY <1>t DEF ClientTypeOK
  <2>2. /\ req = toServer[1] /\ 1 \in DOMAIN toServer /\ Len(toServer) \in Nat
        /\ DOMAIN toServer' = 1..(Len(toServer) - 1)
        /\ \A n \in 1..(Len(toServer) - 1) : toServer'[n] = toServer[n + 1] /\ n + 1 \in DOMAIN toServer
    BY <1>t, <2>1, TailHas, SequencesHave
  <2>3. \A n \in 1..(Len(toServer) - 1) : n + 1 # 1
    BY <2>2
  <2> QED
    BY <2>2, <2>3
<1>2. /\ req.id \in Asking /\ pending[req.id].method = req.method
      /\ sub \in Subs /\ TopicOf(sub) = Normal[req.name] /\ req.method \in {"subscribe", "unsubscribe"}
      /\ phase[sub] = IF req.method = "subscribe" THEN "asking" ELSE "leaving"
  <2>1. req.id \in Asking /\ pending[req.id].method = req.method /\ Name[sub] = req.name
    BY <1>t, <1>1 DEF RequestsInv
  <2> QED
    BY <1>t, <2>1, CallsAreTyped DEF TopicOf, CallsInv
<1>3. /\ accepted' = IF begins THEN accepted \cup {sub} ELSE accepted
      /\ accepted \subseteq Subs
      /\ req.method = "subscribe" => TopicOf(sub) = Invalid \/ TopicOf(sub) \in server'
      /\ \A p \in server : p \notin server' => req.method # "subscribe" /\ p = TopicOf(sub)
  <2>1. caller = {sub} /\ accepted \subseteq Subs
    BY <1>t, <1>2 DEF ClientTypeOK
  <2>2. topics = IF TopicOf(sub) = Invalid THEN {} ELSE {TopicOf(sub)}
    BY <1>2
  <2> HIDE DEF req, topics, caller, sub
  <2> QED
    BY <1>t, <2>1, <2>2
<1>4. /\ Answer(req).id = req.id /\ Answer(req) \in Frame
      /\ TopicOf(sub) # Invalid => Answer(req).kind = "success"
  BY <1>2 DEF Answer, Frame, Asking
<1>5. /\ \A n \in DOMAIN toClient : n \in DOMAIN toClient' /\ toClient'[n] = toClient[n]
      /\ last \in DOMAIN toClient' /\ toClient'[last] = Answer(req)
  <2>1. toClient \in Seq(Frame)
    BY <1>t DEF ClientTypeOK
  <2> HIDE DEF req
  <2>2. /\ Len(toClient) \in Nat /\ DOMAIN toClient = 1..Len(toClient) /\ DOMAIN toClient' = 1..last
        /\ \A n \in 1..Len(toClient) : toClient'[n] = toClient[n]
        /\ toClient'[last] = Answer(req)
    BY <1>t, <1>4, <2>1, AppendHas, SequencesHave
  <2>3. last \in 1..last /\ 1..Len(toClient) \subseteq 1..last
    BY <2>2
  <2> HIDE DEF last
  <2> QED
    BY <2>2, <2>3
<1>6. sub \notin accepted
  BY <1>1, <1>2 DEF AcceptedInv
<1> HIDE DEF req, topics, caller, sub, last, begins
<1>7. AcceptedInv'
  <2>1. \A s \in accepted' : phase[s] \in {"asking", "granted", "on"} /\ TopicOf(s) # Invalid
    BY <1>2, <1>3 DEF AcceptedInv, begins
  <2>2. ASSUME NEW n \in DOMAIN toServer', toServer'[n].method = "subscribe"
        PROVE  pending[toServer'[n].id].sub \notin accepted'
    <3>1. toServer'[n].id # req.id /\ toServer'[n].id \in Asking
      BY <1>t, <1>1 DEF RequestsInv
    <3>2. pending[toServer'[n].id].sub # sub
      BY <1>t, <1>2, <3>1 DEF CallsInv, sub
    <3>3. pending[toServer'[n].id].sub \notin accepted
      BY <1>1, <2>2 DEF AcceptedInv
    <3> QED
      BY <1>3, <3>2, <3>3
  <2>3. \A s \in Subs : phase[s] = "asking" /\ s \notin accepted' => owed[s] = <<>>
    BY <1>3 DEF AcceptedInv
  <2>4. \A s \in Subs : \A l \in DOMAIN owed[s] :
          owed[s][l] <= news /\ \A k \in 1..(l - 1) : owed[s][k] < owed[s][l]
    BY DEF AcceptedInv
  <2>5. ASSUME socket = "open", NEW s \in accepted', Alone(s)
        PROVE  TopicOf(s) \in server'
    <3>1. CASE s = sub
      BY <1>3, <1>6, <2>5, <3>1 DEF begins
    <3>2. CASE s # sub
      <4>1. s \in Subs /\ TopicOf(s) \in server
        BY <1>3, <2>5, <3>2 DEF AcceptedInv
      <4>2. TopicOf(s) # TopicOf(sub)
        BY <1>2, <2>5, <3>2 DEF Alone
      <4> QED
        BY <1>3, <4>1, <4>2
    <3> QED
      BY <3>1, <3>2
  <2> QED
    BY <1>t, <2>1, <2>2, <2>3, <2>4, <2>5 DEF AcceptedInv, Alone
<1>8. MissedInv'
  <2> SUFFICES ASSUME socket = "open", NEW s \in accepted', Alone(s)
               PROVE  Misses(s)'
    BY <1>t DEF MissedInv, Alone
  <2>1. CASE s = sub
    <3>1. begins
      BY <1>3, <1>6, <2>1
    <3>2. phase'[s] = "asking" /\ owed'[s] = <<>>
      BY <1>t, <1>2, <1>6, <2>1, <3>1 DEF AcceptedInv, begins
    <3>3. toClient'[last].kind = "success" /\ pending'[toClient'[last].id].sub = s
      BY <1>t, <1>4, <1>5, <2>1, <3>1 DEF begins, sub
    <3>4. (\A l \in DOMAIN owed[s] : Comes(s, owed[s][l], last))'
      BY <3>2
    <3> QED
      BY <1>5, <3>2, <3>3, <3>4 DEF Misses
  <2>2. CASE s # sub
    <3>1. s \in accepted
      BY <1>3, <2>2
    <3> QED
      BY <1>t, <1>5, <3>1, StillMisses
  <2> QED
    BY <2>1, <2>2
<1> QED
  BY <1>7, <1>8

(* Before the socket is open nobody is accepted, and once it is closed nothing comes. *)
LEMMA SocketMisses ==
  ASSUME ClientIInv, AcceptedInv, Connect \/ Close
  PROVE  AcceptedInv' /\ MissedInv'
<1>t. /\ UNCHANGED <<pending, phase, news, accepted, owed>>
      /\ SocketInv /\ ClientTypeOK
  BY DEF ClientIInv, Connect, Close
<1>1. toServer' = toServer \/ toServer' = <<>>
  BY DEF Connect, Close
<1>2. socket' = "open" => accepted = {}
  <2>1. socket' = "open" => \A s \in Subs : phase[s] = "idle"
    BY <1>t DEF Connect, Close, SocketInv
  <2> QED
    BY <1>t, <2>1 DEF AcceptedInv, ClientTypeOK
<1>3. AcceptedInv'
  BY <1>t, <1>1, <1>2 DEF AcceptedInv
<1> QED
  BY <1>t, <1>2, <1>3 DEF MissedInv

LEMMA MissesStep == ClientIInv /\ AcceptedInv /\ MissedInv /\ [ClientNext]_clientVars => AcceptedInv' /\ MissedInv'
<1> SUFFICES ASSUME ClientIInv, AcceptedInv, MissedInv, [ClientNext]_clientVars
             PROVE  AcceptedInv' /\ MissedInv'
  OBVIOUS
<1>1. CASE UNCHANGED clientVars
  BY <1>1 DEF clientVars, AcceptedInv, MissedInv, Misses, Comes, HasHeard, IsAnswer, Alone
<1>2. CASE Connect \/ Close
  BY <1>2, SocketMisses
<1>3. ASSUME NEW s \in Subs, SubscribeUpdates(s) PROVE AcceptedInv' /\ MissedInv'
  BY <1>3, SubscribeUpdatesMisses
<1>4. ASSUME NEW s \in Subs, UnsubscribeUpdates(s) PROVE AcceptedInv' /\ MissedInv'
  BY <1>4, UnsubscribeUpdatesMisses
<1>5. CASE HandleFrame
  BY <1>5, NotifyMisses, SettleMisses
<1>6. CASE EndTurn
  BY <1>6, EndTurnMisses
<1>7. CASE Serve
  BY <1>7, ServeMisses
<1>8. ASSUME NEW p \in TopicSet, Happens(p) PROVE AcceptedInv' /\ MissedInv'
  BY <1>8, HappensMisses
<1> QED
  BY <1>1, <1>2, <1>3, <1>4, <1>5, <1>6, <1>7, <1>8 DEF ClientNext

LEMMA MissesInvariance == ClientSpec => [](ClientIInv /\ AcceptedInv /\ MissedInv)
<1>1. ClientInit => AcceptedInv /\ MissedInv
  BY DEF ClientInit, AcceptedInv, MissedInv
<1> QED
  BY <1>1, ClientInitially, ClientStep, MissesStep, PTL DEF ClientSpec

LEMMA OnlyThatIsMissed == ClientIInv /\ MissedInv => OnlyItsTurnIsMissed
<1> SUFFICES ASSUME ClientIInv, MissedInv, NEW s \in Subs, socket = "open", phase[s] = "on", Alone(s)
             PROVE  \E m \in 0..(FramesPerTurn - 1) : \A l \in (m + 1)..Len(owed[s]) :
                      \/ \E k \in DOMAIN heard[s] : heard[s][k] = owed[s][l]
                      \/ \E n \in DOMAIN toClient :
                           toClient[n].kind = "notification" /\ toClient[n].news = owed[s][l]
  BY DEF OnlyItsTurnIsMissed
<1>1. s \in accepted
  BY DEF ClientIInv, OwedInv, Installed
<1>2. PICK m \in 0..(FramesPerTurn - 1) : \A l \in DOMAIN owed[s] :
         l > m => HasHeard(s, owed[s][l]) \/ Comes(s, owed[s][l], 0)
  BY <1>1 DEF MissedInv, Misses
<1>3. DOMAIN owed[s] = 1..Len(owed[s]) /\ Len(owed[s]) \in Nat /\ m \in Nat
  <2>1. owed[s] \in Seq(1..MaxNews)
    BY DEF ClientIInv, ClientTypeOK
  <2>2. m \in Nat
    BY <1>2
  <2> QED
    BY <2>1, <2>2, SequencesHave
<1>4. \A l \in (m + 1)..Len(owed[s]) : l \in DOMAIN owed[s] /\ l > m
  BY <1>3
<1> QED
  BY <1>2, <1>4 DEF HasHeard, Comes, IsAnswer

(* Whatever is called, also from a callback, and whatever the socket hands over at a
   time: each call is settled by the answer to it, and a callback hears only what
   happened since its subscription was accepted, once and in order, and, if no other
   has its topic, all of it but what came in the turn of the answer.  index.ts:58-127. *)
THEOREM AnswersArePaired == ClientSpec => []ClientInv
<1>1. ClientIInv /\ MissedInv => ClientInv
  BY EachHasOneAnswer, OnlyThatIsMissed DEF ClientIInv, ClientInv
<1> QED
  BY <1>1, MissesInvariance, PTL

=============================================================================
