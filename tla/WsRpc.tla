------------------------------- MODULE WsRpc -------------------------------
(***************************************************************************)
(* The WebSocket server (src/api/routes/ws-rpc.ts) on top of the block     *)
(* store: who is subscribed to what, and who is told what when the store   *)
(* emits an event.                                                         *)
(*                                                                         *)
(* Transaction notifications are sent in the turn of the event.  A balance *)
(* notification is prepared by a job of a promise queue, which holds on to *)
(* the Set of subscribers it found at the event, reads the balance by two  *)
(* queries and only then sends.  The Sets are therefore objects here, with *)
(* an identity that outlives their place in the map of topics.             *)
(***************************************************************************)
EXTENDS ChainStore, Sequences, FiniteSets

CONSTANTS
  Clients,      \* the sockets; a closed one does not come back
  Addresses,    \* the principals
  AddressesOf,  \* AddressesOf[b]: the addresses the transactions of b concern
  Topics,       \* the topics
  Asks,         \* the pairs <<c, p>> such that client c may ask for topic p
  SetIds,       \* identities of Set objects
  MaxJobs       \* bound on the waiting balance jobs (the code has none)

TxTopic(t) == <<"tx_update", t>>
AddressTopic(a) == <<"address_tx_update", a>>
BalanceTopic(a) == <<"address_balance_update", a>>

NoSet == "no set"

ASSUME WsRpcAssumption ==
  /\ IsFiniteSet(Addresses)
  /\ AddressesOf \in [Blocks -> SUBSET Addresses]
  /\ Topics \subseteq {TxTopic(t) : t \in Txs}
                        \cup {AddressTopic(a) : a \in Addresses}
                        \cup {BalanceTopic(a) : a \in Addresses}
  /\ Asks \subseteq Clients \X Topics
  /\ NoSet \notin SetIds
  /\ MaxJobs \in Nat \ {0}

VARIABLES
  open,       \* the sockets that are open
  wants,      \* the pairs <<c, p>> such that client c was answered that it is subscribed to p
  current,    \* current[p]: the Set of topic p in the map, NoSet when there is none
  members,    \* members[s]: the sockets in the Set s
  listeners,  \* listeners[c]: the topics that the 'close' listeners of c remove it from
  jobs,       \* the balance jobs that wait
  reading,    \* the balance job between its two queries
  told,       \* told[c][p]: the last thing c was sent about p since it subscribed
  unheard     \* history, read by no action: the topics that changed without news, see Unannounced

wsVars == <<open, wants, current, members, listeners, jobs, reading, told, unheard>>

NoJob == [addr |-> "none"]
Nothing == <<>>

Wanting(p) == {c \in Clients : <<c, p>> \in wants}

-----------------------------------------------------------------------------
(***************************************************************************)
(* SubscriptionManager.                                                    *)
(***************************************************************************)

KeptJobs == {jobs[i] : i \in DOMAIN jobs} \cup (IF reading = NoJob THEN {} ELSE {reading})

LiveSets == {current[p] : p \in Topics} \cup {j.set : j \in KeptJobs}

FreshSet == CHOOSE s \in SetIds : s \notin LiveSets

AddSubscription_ListenOnce(c, p) ==
  /\ IF current[p] = NoSet
     THEN /\ SetIds \ LiveSets # {}
          /\ current' = [current EXCEPT ![p] = FreshSet]
          /\ members' = [members EXCEPT ![FreshSet] = {c}]
          /\ listeners' = [listeners EXCEPT ![c] = @ \cup {p}]
     ELSE /\ members' = [members EXCEPT ![current[p]] = @ \cup {c}]
          /\ UNCHANGED <<current, listeners>>

(* SetIds is a bound of the model: with one more than topics and jobs a new Set
   is always there to take. *)
AddSubscription(c, p) ==
  /\ IF current[p] = NoSet
     THEN /\ SetIds \ LiveSets # {}
          /\ current' = [current EXCEPT ![p] = FreshSet]
          /\ members' = [members EXCEPT ![FreshSet] = {c}]
     ELSE /\ members' = [members EXCEPT ![current[p]] = @ \cup {c}]
          /\ UNCHANGED current
  /\ listeners' = [listeners EXCEPT ![c] = @ \cup {p}]

RemoveSubscriptions_DropTopic(c, ps) ==
  /\ members' = [s \in SetIds |-> IF \E p \in ps : current[p] = s THEN members[s] \ {c}
                                                                  ELSE members[s]]
  /\ current' = [p \in Topics |-> IF p \in ps THEN NoSet ELSE current[p]]

(* Take c out of the Sets of the topics ps; a Set left empty leaves the map. *)
RemoveSubscriptions(c, ps) ==
  /\ members' = [s \in SetIds |-> IF \E p \in ps : current[p] = s THEN members[s] \ {c}
                                                                  ELSE members[s]]
  /\ current' = [p \in Topics |->
                   IF p \in ps /\ current[p] # NoSet /\ members'[current[p]] = {}
                   THEN NoSet ELSE current[p]]

-----------------------------------------------------------------------------
WsInit ==
  /\ Init
  /\ open = Clients
  /\ wants = {}
  /\ current = [p \in Topics |-> NoSet]
  /\ members = [s \in SetIds |-> {}]
  /\ listeners = [c \in Clients |-> {}]
  /\ jobs = <<>>
  /\ reading = NoJob
  /\ told = [c \in Clients |-> [p \in Topics |-> Nothing]]
  /\ unheard = {}

Subscribe(c, p) ==
  /\ c \in open
  /\ AddSubscription(c, p)
  /\ wants' = wants \cup {<<c, p>>}
  /\ UNCHANGED <<vars, open, jobs, reading, told, unheard>>

(* No job owes c a notification about ps any more. *)
Forgive(c, ps) ==
  LET owed(j) == IF BalanceTopic(j.addr) \in ps THEN [j EXCEPT !.owed = @ \ {c}] ELSE j
  IN  /\ jobs' = [i \in DOMAIN jobs |-> owed(jobs[i])]
      /\ reading' = IF reading = NoJob THEN NoJob ELSE owed(reading)

Unsubscribe(c, p) ==
  /\ c \in open
  /\ RemoveSubscriptions(c, {p})
  /\ wants' = wants \ {<<c, p>>}
  /\ Forgive(c, {p})
  /\ told' = [told EXCEPT ![c][p] = Nothing]
  /\ UNCHANGED <<vars, open, listeners, unheard>>

CloseSocket(c) ==
  /\ c \in open
  /\ open' = open \ {c}
  /\ RemoveSubscriptions(c, listeners[c])
  /\ wants' = {w \in wants : w[1] # c}
  /\ Forgive(c, Topics)
  /\ told' = [told EXCEPT ![c] = [p \in Topics |-> Nothing]]
  /\ listeners' = [listeners EXCEPT ![c] = {}]
  /\ UNCHANGED <<vars, unheard>>

(* The sockets that a send to the Set of p reaches now. *)
Receivers(p) == IF current[p] = NoSet THEN {} ELSE members[current[p]]

(* processTxUpdate, and processAddressUpdate: sent in the turn of the event. *)
Send(ps, news) ==
  /\ told' = [c \in Clients |-> [p \in Topics |->
               IF p \in ps /\ c \in Receivers(p) THEN news ELSE told[c][p]]]
  /\ unheard' = unheard \ ps

JobFor(a) == [addr |-> a, set |-> current[BalanceTopic(a)], owed |-> Wanting(BalanceTopic(a))]

Subscribed(as) ==
  {a \in as : BalanceTopic(a) \in Topics /\ current[BalanceTopic(a)] # NoSet}

Queue(as) ==
  \E order \in [1..Cardinality(as) -> as] :
    /\ \A a \in as : \E i \in DOMAIN order : order[i] = a
    /\ jobs' = jobs \o [i \in DOMAIN order |-> JobFor(order[i])]

EnqueueJobs_Dedup(as) ==
  Queue({a \in Subscribed(as) : reading.addr # a /\ \A i \in DOMAIN jobs : jobs[i].addr # a})

(* processAddressBalanceUpdate for each address with subscribers, in the order
   of the Map that emitAddressTxUpdates has built. *)
EnqueueJobs(as) == Queue(Subscribed(as))

(* The events of a stored block: its transactions, then their addresses. *)
EmitBlock ==
  /\ EmitUpdate
  /\ Len(jobs) < MaxJobs
  /\ Send({TxTopic(t) : t \in TxsOf[txn.block]}
            \cup {AddressTopic(a) : a \in AddressesOf[txn.block]}, <<"mined">>)
  /\ EnqueueJobs(AddressesOf[txn.block])
  /\ UNCHANGED <<open, wants, current, members, listeners, reading>>

EmitMempoolTx(t) ==
  /\ UpdateMempoolTx(t)
  /\ Send({TxTopic(t)}, <<"pending">>)
  /\ UNCHANGED <<open, wants, current, members, listeners, jobs, reading>>

(* The blocks whose rows in a table count for the address a. *)
Counted(T, a) == {b \in db.live[T] : a \in AddressesOf[b]}

(* The first query of getStxBalance, over stx_events. *)
ReadEvents ==
  /\ reading = NoJob
  /\ jobs # <<>>
  /\ reading' = [addr |-> Head(jobs).addr, set |-> Head(jobs).set, owed |-> Head(jobs).owed,
                 credits |-> Counted("stx_events", Head(jobs).addr)]
  /\ jobs' = Tail(jobs)
  /\ unheard' = IF Head(jobs).set = current[BalanceTopic(Head(jobs).addr)]
                THEN unheard \ {BalanceTopic(Head(jobs).addr)} ELSE unheard
  /\ UNCHANGED <<vars, open, wants, current, members, listeners, told>>

(* The second query, over txs, and the notification. *)
ReadFeesAndSend ==
  /\ reading # NoJob
  /\ LET p == BalanceTopic(reading.addr)
     IN  told' = [c \in Clients |->
                    IF c \in members[reading.set]
                    THEN [told[c] EXCEPT ![p] = <<reading.credits, Counted("txs", reading.addr)>>]
                    ELSE told[c]]
  /\ reading' = NoJob
  /\ UNCHANGED <<vars, open, wants, current, members, listeners, jobs, unheard>>

(* A query fails: it is logged, and nobody is told anything.  What subscribers were
   told before stays with them. *)
ReadFails ==
  /\ reading # NoJob
  /\ unheard' = unheard \cup {BalanceTopic(reading.addr)}
  /\ reading' = NoJob
  /\ UNCHANGED <<vars, open, wants, current, members, listeners, jobs, told>>

(* A query of the block transaction fails before COMMIT.  The death of the
   process is left out: it closes every socket. *)
UpdateFails == Fail /\ txn.pc # "emit"

(* What a commit changes and no event tells of: update announces the block that it
   was called with, and nothing of the blocks that its reorganisation has moved. *)
Unannounced ==
  LET moved == {b \in Blocks : (b \in db.canonical) # (b \in db'.canonical)} \ {txn.block}
      left  == (db.mempool \ db'.mempool) \ TxsOf[txn.block]
  IN  {BalanceTopic(a) : a \in UNION {AddressesOf[b] : b \in moved}} \cup {TxTopic(t) : t \in left}

Commit ==
  /\ CommitUpdate
  /\ unheard' = unheard \cup Unannounced
  /\ UNCHANGED <<open, wants, current, members, listeners, jobs, reading, told>>

StoreStep == (\E b \in Blocks : BeginUpdate(b)) \/ RestoreOrphanedChain \/ UpdateFails

WsNext ==
  \/ StoreStep /\ UNCHANGED wsVars
  \/ Commit
  \/ EmitBlock
  \/ \E t \in Txs : EmitMempoolTx(t)
  \/ \E w \in Asks : Subscribe(w[1], w[2]) \/ Unsubscribe(w[1], w[2])
  \/ \E c \in Clients : CloseSocket(c)
  \/ ReadEvents
  \/ ReadFeesAndSend
  \/ ReadFails

WsSpec == WsInit /\ [][WsNext]_<<vars, wsVars>>

-----------------------------------------------------------------------------
Job == [addr : Addresses, set : SetIds, owed : SUBSET Clients]

WsTypeOK ==
  /\ TypeOK
  /\ open \subseteq Clients
  /\ wants \subseteq open \X Topics
  /\ current \in [Topics -> SetIds \cup {NoSet}]
  /\ members \in [SetIds -> SUBSET Clients]
  /\ listeners \in [Clients -> SUBSET Topics]
  /\ jobs \in Seq(Job) /\ Len(jobs) <= MaxJobs + Cardinality(Addresses)
  /\ reading = NoJob \/ reading \in [addr : Addresses, set : SetIds, owed : SUBSET Clients,
                                     credits : SUBSET Blocks]

(* The map of topics holds exactly the open sockets that were told they are
   subscribed: none is forgotten when another one leaves, and neither a closed
   socket nor an empty Set stays behind.  ws-rpc.ts:34-62. *)
MapFollowsClients ==
  \A p \in Topics : IF Wanting(p) = {} THEN current[p] = NoSet
                    ELSE current[p] # NoSet /\ members[current[p]] = Wanting(p)

(* Why: a Set belongs to one topic, in the map and in the jobs that kept it; one
   that has left the map is empty; and the close listeners of a socket cover all
   it is subscribed to.  ws-rpc.ts:34-62. *)
SetsInv ==
  /\ \A w \in wants : w[2] \in listeners[w[1]]
  /\ \A p, q \in Topics : current[p] = current[q] /\ current[p] # NoSet => p = q
  /\ \A j \in KeptJobs :
       /\ BalanceTopic(j.addr) \in Topics
       /\ \A q \in Topics : current[q] = j.set => q = BalanceTopic(j.addr)
       /\ current[BalanceTopic(j.addr)] = j.set \/ members[j.set] = {}

(* All three, the invariant of the subscriptions. *)
SubscriptionInv == WsTypeOK /\ MapFollowsClients /\ SetsInv

(* The Set a balance job has kept is never stale: whoever it holds when the
   balance is sent is still subscribed, and whoever was subscribed at the event
   and stayed is in it.  ws-rpc.ts:265-280. *)
KeptSetIsFresh ==
  \A j \in KeptJobs : /\ members[j.set] \subseteq Wanting(BalanceTopic(j.addr))
                      /\ j.owed \subseteq members[j.set]

(* When nothing is under way, what a subscriber was last told still holds: the
   balance is the one a reader would get, whatever was committed between the two
   queries or while the job waited, and a transaction told to be pending is in
   the mempool.  Only two things leave a subscriber with what holds no more, until
   the next news of the topic: a balance that could not be read, which is logged
   and not tried again, and blocks that a reorganisation has moved, of which no
   event tells.  ws-rpc.ts:219-285, postgres-store.ts:357, 1507-1550. *)
ToldIsCurrent ==
  (txn = NoTxn /\ jobs = <<>> /\ reading = NoJob) =>
    \A w \in wants : w[2] \notin unheard =>
      LET news == told[w[1]][w[2]] IN
      /\ \A a \in Addresses : (w[2] = BalanceTopic(a) /\ news # Nothing) =>
           news = <<Counted("stx_events", a), Counted("txs", a)>>
      /\ \A t \in Txs : (w[2] = TxTopic(t) /\ news = <<"pending">>) => t \in db.mempool

=============================================================================
