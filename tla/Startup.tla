------------------------------ MODULE Startup ------------------------------
(***************************************************************************)
(* The life of the server process (src/index.ts, PgDataStore.connect and   *)
(* runMigrations, startEventServer, startApiServer): it waits for the      *)
(* database, migrates it, listens for the node's events and then for       *)
(* requests, and beside that asks the core node every so often whether it  *)
(* is there (core-rpc/client.ts).  docker-compose.yml restarts a process   *)
(* that failed.                                                            *)
(*                                                                         *)
(* External: the database and the node, which come and go on their own,    *)
(* and the supervisor.                                                     *)
(***************************************************************************)
EXTENDS Naturals, FiniteSets

CONSTANTS
  MaxOutages,  \* how often the database may stop
  MaxTries,    \* tries of waitForConnection that fit into retryTimeout
  NodeStates   \* "down", "up", or "hung": it accepts connections and never answers

ASSUME StartupAssumption == MaxOutages \in Nat /\ MaxTries \in Nat \ {0} /\ "up" \in NodeStates

VARIABLES
  pg,         \* "down", "starting" (it refuses with an error of its own) or "up"
  outages,    \* how often it has stopped
  schema,     \* the migrations have been applied
  node,       \* the core node
  pc,         \* where init() is
  clients,    \* connections to the database that the process holds open
  listening,  \* the servers that accept connections
  monitor,    \* where monitorCoreRpcConnection is
  tries       \* the tries it has made

proc == <<pc, clients, listening, monitor, tries>>
startVars == <<pg, outages, schema, node, proc>>

Places == {"connect", "wait", "migrate", "pool", "events", "api", "ready", "exited"}

-----------------------------------------------------------------------------
StartInit ==
  /\ pg = "down" /\ outages = 0 /\ schema = FALSE /\ node = "up"
  /\ pc = "connect" /\ clients = {} /\ listening = {} /\ monitor = "off" /\ tries = 0

Exit == pc' = "exited" /\ clients' = {} /\ listening' = {} /\ monitor' = "off" /\ tries' = 0

(* ECONNREFUSED and a terminated connection are tried again, no other error. *)
Retried == {"down"}

AfterConnect_Again == "wait"

(* The break out of the loop. *)
AfterConnect == "migrate"

Ended_OnFailure(c) == IF pg = "up" THEN c ELSE c \ {"probe"}

(* finally: client.end(). *)
Ended(c) == c \ {"probe"}

(* One turn of the loop of PgDataStore.connect: a client opened for nothing
   else, and ended however it went. *)
Connect ==
  /\ pc = "connect"
  /\ IF pg \in Retried \cup {"up"}
     THEN /\ pc' = IF pg = "up" THEN AfterConnect ELSE "wait"
          /\ clients' = Ended(clients \cup {"probe"})
          /\ UNCHANGED <<listening, monitor, tries>>
     ELSE Exit
  /\ UNCHANGED <<pg, outages, schema, node>>

(* timeout(2000). *)
Wait ==
  /\ pc = "wait"
  /\ pc' = "connect"
  /\ UNCHANGED <<pg, outages, schema, node, clients, listening, monitor, tries>>

(* runMigrations: nothing is tried again. *)
Migrate ==
  /\ pc = "migrate"
  /\ IF pg = "up"
     THEN schema' = TRUE /\ pc' = "pool" /\ UNCHANGED <<clients, listening, monitor, tries>>
     ELSE UNCHANGED schema /\ Exit
  /\ UNCHANGED <<pg, outages, node>>

OpenPool ==
  /\ pc = "pool"
  /\ IF pg = "up"
     THEN pc' = "events" /\ clients' = clients \cup {"pool"} /\ UNCHANGED <<listening, monitor, tries>>
     ELSE Exit
  /\ UNCHANGED <<pg, outages, schema, node>>

(* startEventServer, after which the monitor is started and not waited for. *)
ListenForEvents ==
  /\ pc = "events"
  /\ pc' = "api" /\ listening' = listening \cup {"events"} /\ monitor' = "asking" /\ tries' = 0
  /\ UNCHANGED <<pg, outages, schema, node, clients>>

(* startApiServer: 'App initialized'. *)
ListenForRequests ==
  /\ pc = "api"
  /\ pc' = "ready" /\ listening' = listening \cup {"api"}
  /\ UNCHANGED <<pg, outages, schema, node, clients, monitor, tries>>

(* The pool opens a client for a query, and closes one that has long been
   idle; a query that cannot connect is an error of its request. *)
Query ==
  /\ listening # {} /\ pg = "up"
  /\ clients' = clients \cup {"pool"}
  /\ UNCHANGED <<pg, outages, schema, node, pc, listening, monitor, tries>>

CloseIdle ==
  /\ listening # {}
  /\ clients' = clients \ {"pool"}
  /\ UNCHANGED <<pg, outages, schema, node, pc, listening, monitor, tries>>

-----------------------------------------------------------------------------
(* while (true): whatever the answer was, the monitor sleeps and asks again. *)
Continues == "sleeping"

LastTry(n) == n + 1 = MaxTries

(* One try of waitForConnection.  It answers, or it fails and is repeated
   until retryTimeout is over; the error is caught and logged. *)
Ask ==
  /\ monitor = "asking"
  /\ node # "hung"
  /\ IF node = "up" \/ LastTry(tries)
     THEN monitor' = Continues /\ tries' = 0
     ELSE monitor' = monitor /\ tries' = tries + 1
  /\ UNCHANGED <<pg, outages, schema, node, pc, clients, listening>>

(* timeout(CORE_RPC_HEARTBEAT_INTERVAL). *)
Sleep ==
  /\ monitor = "sleeping"
  /\ monitor' = "asking"
  /\ UNCHANGED <<pg, outages, schema, node, pc, clients, listening, tries>>

-----------------------------------------------------------------------------
(* The database stops.  A client in use fails its query; an idle one is dropped
   by the pool, whose error nothing listens to: the logger catches it and the
   process goes on. *)
PgStops ==
  /\ pg # "down" /\ outages < MaxOutages
  /\ pg' = "down" /\ outages' = outages + 1
  /\ clients' = {}
  /\ UNCHANGED <<schema, node, pc, listening, monitor, tries>>

PgStarts ==
  /\ pg # "up"
  /\ pg' = IF pg = "down" THEN "starting" ELSE "up"
  /\ UNCHANGED <<outages, schema, node, proc>>

(* A node that hangs does so for good. *)
NodeChanges ==
  /\ node # "hung"
  /\ node' \in NodeStates \ {node}
  /\ UNCHANGED <<pg, outages, schema, proc>>

(* restart: on-failure. *)
Restart ==
  /\ pc = "exited"
  /\ pc' = "connect"
  /\ UNCHANGED <<pg, outages, schema, node, clients, listening, monitor, tries>>

Step == Connect \/ Wait \/ Migrate \/ OpenPool \/ ListenForEvents \/ ListenForRequests

StartNext ==
  \/ Step \/ Query \/ CloseIdle \/ Ask \/ Sleep
  \/ PgStops \/ PgStarts \/ NodeChanges \/ Restart

StartSpec == StartInit /\ [][StartNext]_startVars

(* The process goes on, its timers run off, a node that is not hung answers or
   refuses, the supervisor restarts and the database comes back. *)
Fairness == WF_startVars(Step) /\ WF_startVars(Ask) /\ WF_startVars(Sleep) /\ WF_startVars(PgStarts) /\ WF_startVars(Restart)

FairStart == StartSpec /\ Fairness

-----------------------------------------------------------------------------
StartTypeOK ==
  /\ pg \in {"down", "starting", "up"} /\ outages \in 0 .. MaxOutages
  /\ schema \in BOOLEAN /\ node \in NodeStates \cup {"up"}
  /\ pc \in Places /\ clients \subseteq {"probe", "pool"}
  /\ listening \subseteq {"events", "api"}
  /\ monitor \in {"off", "asking", "sleeping"} /\ tries \in 0 .. MaxTries - 1

(* No block is taken from the node before the tables it goes to exist, and no
   request is before blocks are: over all restarts and outages, the servers
   open in that order and only on a migrated database.  index.ts:32-57. *)
OpensInOrder ==
  /\ listening # {} => schema
  /\ "api" \in listening => "events" \in listening

(* Waiting for the database holds no connection to it, however many times it
   was tried.  postgres-store.ts:729-752. *)
NoClientLeft == pc \in {"connect", "wait", "migrate", "pool"} => clients = {}

(* The place of init() tells which servers are open, and that every place
   behind the migrations finds a migrated database. *)
Progress ==
  /\ pc \in {"pool", "events", "api", "ready"} => schema
  /\ listening # {} => pc \in {"api", "ready"}
  /\ pc = "api" => listening = {"events"}
  /\ pc = "ready" => listening = {"events", "api"}
  /\ pc = "exited" => clients = {}

(* The invariant of the process, from which the three above follow: a server
   that is open finds what it needs, and a process that starts again finds
   nothing left of the one before.  index.ts:32-66, postgres-store.ts:723-772. *)
IInv == StartTypeOK /\ Progress /\ NoClientLeft

(* A database that refuses connections does not end the process while it is
   in its loop: it asks again.  postgres-store.ts:735-744. *)
KeepsRetrying == [][pc = "connect" /\ pg = "down" => pc' # "exited"]_startVars

(* Once the database stays up the server is in the end ready for good,
   whichever way it failed before: an outage between its loop and its servers ends
   the process, which begins again, and a later one does not.  index.ts:32-66. *)
ReadyAtLast == <>[](pc = "ready" /\ listening = {"events", "api"})

(* The monitor asks the node and sleeps again and again, whatever the node
   answers and however often the process begins again, unless a node takes its
   connection and never answers.  index.ts:12-30, core-rpc/client.ts:57-74. *)
AsksForEver ==
  [](node # "hung") => []<>(monitor = "asking") /\ []<>(monitor = "sleeping")

(* Both: the server and its monitor get where they are meant to stay, the
   server also when the node hangs. *)
ServesAtLast == ReadyAtLast /\ AsksForEver

=============================================================================
