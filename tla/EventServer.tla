---------------------------- MODULE EventServer ----------------------------
(***************************************************************************)
(* The event server (src/event-stream/event-server.ts) in front of the     *)
(* block store.  The core node posts blocks to /new_block and batches of   *)
(* mempool transactions to /new_mempool_tx; every message is a job of one  *)
(* promise queue, and is answered 200 when its job resolves, 500 when it   *)
(* rejects.                                                                *)
(*                                                                         *)
(* ChainStore has one block transaction at a time, and no mempool insert   *)
(* beside it.  Here each job has a transaction of its own, and that they   *)
(* never overlap is a theorem of the queue: this module implements         *)
(* ChainStore.  The process may die at any moment; the tables survive.     *)
(***************************************************************************)
EXTENDS Naturals, SequencesExt

CONSTANTS
  Blocks, Txs, Height, Parent, TxsOf,   \* see ChainStore
  Batches,       \* the messages of /new_mempool_tx
  BatchTxs,      \* BatchTxs[m]: the sequence of transactions of the batch m
  Undecodable,   \* the messages that handleClientMessage or its mempool
                 \* counterpart cannot decode, e.g. one with a poison-microblock
  MaxQueue       \* bound on the waiting messages (the code has none)

Messages == Blocks \cup Batches

ASSUME EventServerAssumption ==
  /\ Height \in [Blocks -> Nat \ {0}]
  /\ Parent \in [Blocks -> Blocks]
  /\ TxsOf \in [Blocks -> SUBSET Txs]
  /\ Blocks \cap Batches = {}
  /\ BatchTxs \in [Batches -> Seq(Txs)]
  /\ Undecodable \subseteq Messages
  /\ MaxQueue \in Nat \ {0}

VARIABLES
  db,        \* the committed tables
  emitted,   \* the last event emitted to the listeners of the store
  queue,     \* the messages waiting in the promise queue
  running,   \* the jobs that have started, oldest first
  acked      \* the messages the core node has seen answered 200

vars == <<db, emitted, queue, running, acked>>

(* The block transaction that is open, as ChainStore sees it. *)
OpenIn(jobs) == {i \in DOMAIN jobs : jobs[i].msg \in Blocks /\ jobs[i].txn.pc # "idle"}

TxnOf(jobs) == IF OpenIn(jobs) = {} THEN [pc |-> "idle"]
               ELSE jobs[CHOOSE i \in OpenIn(jobs) : TRUE].txn

OpenTxn == TxnOf(running)

Store == INSTANCE ChainStore WITH txn <- OpenTxn

-----------------------------------------------------------------------------
Job ==
  [msg : Blocks, txn : Store!Txn] \cup [msg : Batches, rest : Seq(Txs)]

NewJob(m) ==
  IF m \in Blocks THEN [msg |-> m, txn |-> Store!NoTxn] ELSE [msg |-> m, rest |-> BatchTxs[m]]

Concurrency_Two == 2

(* PQueue({ concurrency: 1 }). *)
Concurrency == 1

Init ==
  /\ db = Store!EmptyImage
  /\ emitted = Store!NoEvent
  /\ queue = <<>>
  /\ running = <<>>
  /\ acked = {}

(* A message arrives, be it the first time or again. *)
Post(m) ==
  /\ Len(queue) < MaxQueue
  /\ queue' = Append(queue, m)
  /\ UNCHANGED <<db, emitted, running, acked>>

Start ==
  /\ queue # <<>>
  /\ Len(running) < Concurrency
  /\ running' = Append(running, NewJob(Head(queue)))
  /\ queue' = Tail(queue)
  /\ UNCHANGED <<db, emitted, acked>>

(* The job i is over, and its message answered. *)
Close(i) == running' = RemoveAt(running, i)

Answer200(i) == Close(i) /\ acked' = acked \cup {running[i].msg}

Answer500(i) == Close(i) /\ UNCHANGED acked

IsBlockJob(i, pc) == running[i].msg \in Blocks /\ running[i].txn.pc = pc

IsMempoolJob(i) == running[i].msg \in Batches

Decodes(i) == running[i].msg \notin Undecodable

SetTxn(i, x) == running' = [running EXCEPT ![i] = [msg |-> running[i].msg, txn |-> x]]

Refuse_Hangs(i) == FALSE

(* The message is not decoded, or update() finds no parent: 500, and the
   tables are as they were.  The parser runs over the whole message first. *)
Refuse(i) ==
  /\ \/ ~Decodes(i) /\ (IsMempoolJob(i) \/ IsBlockJob(i, "idle"))
     \/ IsBlockJob(i, "idle") /\ ~Store!Accepts(db, running[i].msg)
  /\ Answer500(i)
  /\ UNCHANGED <<db, emitted, queue>>

Begin(i) ==
  /\ IsBlockJob(i, "idle")
  /\ Decodes(i)
  /\ Store!Accepts(db, running[i].msg)
  /\ SetTxn(i, Store!Begun(db, running[i].msg))
  /\ UNCHANGED <<db, emitted, queue, acked>>

Restore(i) ==
  /\ IsBlockJob(i, "restore")
  /\ Store!FindsOrphan(running[i].txn)
  /\ SetTxn(i, Store!Restored(running[i].txn))
  /\ UNCHANGED <<db, emitted, queue, acked>>

Commit(i) ==
  /\ IsBlockJob(i, "store")
  /\ LET x == running[i].txn
     IN  /\ db' = Store!StoreBlock(x.work, x.block, x.tip)
         /\ SetTxn(i, [pc |-> "emit", block |-> x.block,
                       canonical |-> Store!IsCanonical(x.block, x.tip)])
  /\ UNCHANGED <<emitted, queue, acked>>

(* The events and the answer follow COMMIT without another query. *)
Emit(i) ==
  /\ IsBlockJob(i, "emit")
  /\ emitted' = [kind |-> "block", block |-> running[i].txn.block,
                 canonical |-> running[i].txn.canonical]
  /\ Answer200(i)
  /\ UNCHANGED <<db, queue>>

Insert_First(i) ==
  /\ IsMempoolJob(i)
  /\ Decodes(i)
  /\ running[i].rest # <<>>
  /\ LET t == Head(running[i].rest)
     IN  IF t \in db.mempool
         THEN UNCHANGED <<db, emitted>>
         ELSE /\ db' = [db EXCEPT !.mempool = @ \cup {t}]
              /\ emitted' = [kind |-> "mempool", tx |-> t]
  /\ running' = [running EXCEPT ![i].rest = <<>>]
  /\ UNCHANGED <<queue, acked>>

(* The next updateMempoolTx of the batch. *)
Insert(i) ==
  /\ IsMempoolJob(i)
  /\ Decodes(i)
  /\ running[i].rest # <<>>
  /\ LET t == Head(running[i].rest)
     IN  IF t \in db.mempool
         THEN UNCHANGED <<db, emitted>>
         ELSE /\ db' = [db EXCEPT !.mempool = @ \cup {t}]
              /\ emitted' = [kind |-> "mempool", tx |-> t]
  /\ running' = [running EXCEPT ![i].rest = Tail(@)]
  /\ UNCHANGED <<queue, acked>>

FinishBatch(i) ==
  /\ IsMempoolJob(i)
  /\ Decodes(i)
  /\ running[i].rest = <<>>
  /\ Answer200(i)
  /\ UNCHANGED <<db, emitted, queue>>

(* A query of the job fails: the block transaction is rolled back, or the
   batch stops where it is; 500.  A COMMIT whose result is lost ends here too,
   with the block stored. *)
QueryFails(i) ==
  /\ Decodes(i)
  /\ IsMempoolJob(i) => running[i].rest # <<>>
  /\ Answer500(i)
  /\ UNCHANGED <<db, emitted, queue>>

(* The process dies, and starts again with an empty queue. *)
Crash ==
  /\ queue' = <<>>
  /\ running' = <<>>
  /\ UNCHANGED <<db, emitted, acked>>

Work(i) == Refuse(i) \/ Begin(i) \/ Restore(i) \/ Commit(i) \/ Emit(i) \/ Insert(i) \/ FinishBatch(i)

Fault == Crash \/ \E i \in DOMAIN running : QueryFails(i)

Next ==
  \/ \E m \in Messages : Post(m)
  \/ Start
  \/ \E i \in DOMAIN running : Work(i)
  \/ Fault

Spec == Init /\ [][Next]_vars

(* The queue starts the next job, a started job runs, and the core node posts
   a message again until it is answered 200 (strong fairness, for a queue that
   is full now and then). *)
FairSpec ==
  /\ Spec
  /\ WF_vars(Start)
  /\ WF_vars(\E i \in DOMAIN running : Work(i))
  /\ \A m \in Messages : SF_vars(m \notin acked /\ Post(m))

-----------------------------------------------------------------------------
(* Types, and at most one job at a time.  event-server.ts:241. *)
TypeOK ==
  /\ db \in Store!Image
  /\ emitted \in Store!Event
  /\ queue \in Seq(Messages) /\ Len(queue) <= MaxQueue
  /\ running \in Seq(Job) /\ Len(running) <= 1
  /\ acked \subseteq Messages

Durable(t) == t \in db.mempool \/ \E b \in db.known : t \in TxsOf[b]

(* What was answered 200 is never lost, whatever fails afterwards: the block is
   stored, and a transaction of the batch is pending or in a stored block.
   event-server.ts:58, 231, 282-303. *)
AnsweredIsDurable ==
  /\ acked \cap Blocks \subseteq db.known
  /\ \A m \in acked \cap Batches : \A k \in DOMAIN BatchTxs[m] : Durable(BatchTxs[m][k])

(* Before the answer: a job works on the block it was started for, and has stored
   it when it emits; a transaction of a batch is durable or still to be inserted. *)
JobInv ==
  \A i \in DOMAIN running : LET j == running[i] IN
    /\ j.msg \in Blocks =>
         /\ j.txn.pc # "idle" => j.txn.block = j.msg
         /\ j.txn.pc = "emit" => j.msg \in db.known
    /\ j.msg \in Batches => \A k \in DOMAIN BatchTxs[j.msg] :
         Durable(BatchTxs[j.msg][k]) \/ \E n \in DOMAIN j.rest : j.rest[n] = BatchTxs[j.msg][k]

(* All three, the invariant of the server. *)
ServerInv == TypeOK /\ AnsweredIsDurable /\ JobInv

(* The handlers share the tables as if the store were called by one client at
   a time.  event-server.ts:239-252. *)
StoreSpec == Store!Spec

(* b can be stored: it and its ancestors, for a chain of at most n, decode. *)
StorableIn[n \in Nat] ==
  IF n = 0 THEN {}
  ELSE {b \in Blocks \ Undecodable :
          Height[b] > 1 => Height[Parent[b]] = Height[b] - 1 /\ Parent[b] \in StorableIn[n - 1]}

Storable == UNION {StorableIn[Height[b]] : b \in Blocks} \cup (Batches \ Undecodable)

(* When the faults cease, every message that can be stored is answered 200,
   whichever were lost, repeated, posted out of order, or can never be decoded.
   event-server.ts:239-252, 282-303. *)
EveryMessageAnswered ==
  (<>[][~Fault]_vars) => \A m \in Messages : m \in Storable => <>(m \in acked)

=============================================================================
