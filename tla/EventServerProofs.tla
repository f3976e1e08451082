------------------------- MODULE EventServerProofs -------------------------
(***************************************************************************)
(* Proofs about EventServer, for every set of messages and every order in  *)
(* which they are posted, lost, repeated, fail, or die with the process.   *)
(*                                                                         *)
(* The queue runs one job at a time (OneJob), so the handlers together are *)
(* one client of the store: a step of the server is a step of ChainStore   *)
(* or leaves its variables alone.  What ChainStoreProofs proves of the     *)
(* store then holds of the tables of the server, and the durability of     *)
(* what was answered rests on it.                                          *)
(*                                                                         *)
(* The last part is about Startup, which opens the event server.           *)
(***************************************************************************)
EXTENDS EventServer, Startup, TLAPS

P == INSTANCE ChainStoreProofs WITH txn <- OpenTxn

(* The store of the proofs is the store of the server. *)
LEMMA StoreAssumption == P!ChainAssumption
  BY EventServerAssumption DEF P!ChainAssumption

-----------------------------------------------------------------------------
(***************************************************************************)
(* One job at a time.                                                      *)
(***************************************************************************)

BlockJob(m, x) == <<[msg |-> m, txn |-> x]>>

BatchJob(m, r) == <<[msg |-> m, rest |-> r]>>

(* A job that has only just started has no transaction yet. *)
Fresh(x) == x.pc = "idle" => x = Store!NoTxn

(* The queue and the job it runs, which is at most one. *)
OneJob ==
  /\ queue \in Seq(Messages)
  /\ \/ running = <<>>
     \/ \E m \in Blocks : \E x : running = BlockJob(m, x) /\ Fresh(x)
     \/ \E m \in Batches, r \in Seq(Txs) : running = BatchJob(m, r)

(* The transaction of the store is the one of the job. *)
LEMMA NoJobNoTxn == TxnOf(<<>>) = Store!NoTxn
  BY DEF TxnOf, OpenIn, Store!NoTxn

(* The job of a block message is the client its transaction is open for. *)
LEMMA BlockJobTxn ==
  ASSUME NEW m \in Blocks, NEW x, Fresh(x)
  PROVE  TxnOf(BlockJob(m, x)) = x
<1> DEFINE j == BlockJob(m, x)
<1>1. DOMAIN j = {1} /\ j[1].msg = m /\ j[1].txn = x
  BY DEF BlockJob
<1>2. CASE x.pc = "idle"
  <2>1. OpenIn(j) = {}
    BY <1>1, <1>2 DEF OpenIn
  <2> QED
    BY <1>2, <2>1 DEF TxnOf, Fresh, Store!NoTxn
<1>3. CASE x.pc # "idle"
  <2>1. OpenIn(j) = {1}
    BY <1>1, <1>3 DEF OpenIn
  <2> QED
    BY <1>1, <2>1 DEF TxnOf
<1> QED
  BY <1>2, <1>3

(* The job of a batch opens no transaction. *)
LEMMA BatchJobTxn ==
  ASSUME NEW m \in Batches, NEW r
  PROVE  TxnOf(BatchJob(m, r)) = Store!NoTxn
<1>1. DOMAIN BatchJob(m, r) = {1} /\ BatchJob(m, r)[1].msg \notin Blocks
  BY EventServerAssumption DEF BatchJob
<1>2. OpenIn(BatchJob(m, r)) = {}
  BY <1>1 DEF OpenIn
<1> QED
  BY <1>2 DEF TxnOf, Store!NoTxn

(* A job that ends leaves none. *)
LEMMA CloseOne ==
  ASSUME NEW j, running = <<j>>, NEW i \in DOMAIN running, Close(i)
  PROVE  running' = <<>>
<1>1. i = 1 /\ Len(running) = 1
  OBVIOUS
<1>2. SubSeq(<<j>>, 1, 0) = <<>> /\ SubSeq(<<j>>, 2, 1) = <<>>
  OBVIOUS
<1> QED
  BY <1>1, <1>2 DEF Close, RemoveAt

-----------------------------------------------------------------------------
(***************************************************************************)
(* A step of a job is a step of the store.                                 *)
(***************************************************************************)

(* The job of a block takes one step of its transaction, or ends it. *)
LEMMA BlockJobStep ==
  ASSUME NEW m \in Blocks, NEW x, running = BlockJob(m, x), Fresh(x),
         NEW i \in DOMAIN running, Work(i) \/ QueryFails(i)
  PROVE  /\ OneJob => OneJob'
         /\ Store!Next \/ UNCHANGED Store!vars
<1>1. i = 1 /\ running[1].msg = m /\ running[1].txn = x /\ m \notin Batches
  BY EventServerAssumption DEF BlockJob
<1>2. ~IsMempoolJob(i) /\ OpenTxn = x
  BY <1>1, BlockJobTxn DEF IsMempoolJob, OpenTxn
<1>3. ASSUME NEW y, y.pc # "idle", SetTxn(i, y), UNCHANGED queue
      PROVE  OpenTxn' = y /\ (OneJob => OneJob')
  <2>1. running' = BlockJob(m, y) /\ Fresh(y)
    BY <1>1, <1>3 DEF SetTxn, BlockJob, Fresh
  <2> QED
    BY <1>3, <2>1, BlockJobTxn DEF OpenTxn, OneJob
<1>4. ASSUME Close(i), UNCHANGED queue
      PROVE  OpenTxn' = Store!NoTxn /\ (OneJob => OneJob')
  <2>1. running' = <<>>
    BY <1>4, CloseOne DEF BlockJob
  <2> QED
    BY <1>4, <2>1, NoJobNoTxn DEF OpenTxn, OneJob
<1>5. CASE Refuse(i) \/ QueryFails(i)
  BY <1>2, <1>4, <1>5 DEF Refuse, QueryFails, Answer500, Store!Next, Store!Fail, Store!vars
<1>6. CASE Begin(i)
  <2>1. x = Store!NoTxn /\ SetTxn(i, Store!Begun(db, m)) /\ UNCHANGED queue
    BY <1>1, <1>6 DEF Begin, IsBlockJob, Fresh
  <2>2. Store!Begun(db, m).pc # "idle"
    BY DEF Store!Begun
  <2>3. Store!BeginUpdate(m)
    BY <1>1, <1>2, <1>3, <1>6, <2>1, <2>2 DEF Begin, Store!BeginUpdate
  <2> QED
    BY <1>3, <2>1, <2>2, <2>3 DEF Store!Next
<1>7. CASE Restore(i)
  <2>1. SetTxn(i, Store!Restored(x)) /\ UNCHANGED queue
    BY <1>1, <1>7 DEF Restore
  <2>2. Store!Restored(x).pc # "idle"
    BY DEF Store!Restored
  <2>3. Store!RestoreOrphanedChain
    BY <1>1, <1>2, <1>3, <1>7, <2>1, <2>2 DEF Restore, IsBlockJob, Store!RestoreOrphanedChain
  <2> QED
    BY <1>3, <2>1, <2>2, <2>3 DEF Store!Next
<1>8. CASE Commit(i)
  <2> DEFINE y == [pc |-> "emit", block |-> x.block,
                   canonical |-> Store!IsCanonical(x.block, x.tip)]
  <2>1. SetTxn(i, y) /\ UNCHANGED queue /\ y.pc # "idle"
    BY <1>1, <1>8 DEF Commit
  <2>2. OpenTxn' = y /\ (OneJob => OneJob')
    BY <1>3, <2>1
  <2>3. Store!CommitUpdate
    BY <1>1, <1>2, <1>8, <2>2 DEF Commit, IsBlockJob, Store!CommitUpdate
  <2> QED
    BY <2>2, <2>3 DEF Store!Next
<1>9. CASE Emit(i)
  <2>1. Store!EmitUpdate
    BY <1>1, <1>2, <1>4, <1>9 DEF Emit, Answer200, IsBlockJob, Store!EmitUpdate
  <2> QED
    BY <1>4, <1>9, <2>1 DEF Emit, Answer200, Store!Next
<1> QED
  BY <1>2, <1>5, <1>6, <1>7, <1>8, <1>9 DEF Work, Insert, FinishBatch

(* The job of a batch inserts one transaction into the mempool, or ends. *)
LEMMA BatchJobStep ==
  ASSUME NEW m \in Batches, NEW r \in Seq(Txs), running = BatchJob(m, r),
         NEW i \in DOMAIN running, Work(i) \/ QueryFails(i)
  PROVE  /\ OneJob => OneJob'
         /\ Store!Next \/ UNCHANGED Store!vars
<1>1. i = 1 /\ running[1].msg = m /\ running[1].rest = r /\ m \notin Blocks
  BY EventServerAssumption DEF BatchJob
<1>2. OpenTxn = Store!NoTxn /\ \A where : ~IsBlockJob(i, where)
  BY <1>1, BatchJobTxn DEF IsBlockJob, OpenTxn
<1>3. ASSUME Close(i), UNCHANGED queue
      PROVE  OpenTxn' = Store!NoTxn /\ (OneJob => OneJob')
  <2>1. running' = <<>>
    BY <1>3, CloseOne DEF BatchJob
  <2> QED
    BY <1>3, <2>1, NoJobNoTxn DEF OpenTxn, OneJob
<1>4. CASE Refuse(i) \/ QueryFails(i) \/ FinishBatch(i)
  BY <1>2, <1>3, <1>4 DEF Refuse, QueryFails, FinishBatch, Answer200, Answer500, Store!vars
<1>5. CASE Insert(i)
  <2>1. r # <<>> /\ Head(r) \in Txs /\ Tail(r) \in Seq(Txs)
    BY <1>1, <1>5 DEF Insert
  <2>2. running' = BatchJob(m, Tail(r)) /\ UNCHANGED queue
    BY <1>1, <1>5 DEF Insert, BatchJob
  <2>3. OpenTxn' = Store!NoTxn /\ (OneJob => OneJob')
    BY <2>1, <2>2, BatchJobTxn DEF OpenTxn, OneJob
  <2>4. CASE Head(r) \in db.mempool
    BY <1>1, <1>2, <1>5, <2>3, <2>4 DEF Insert, Store!vars
  <2>5. CASE Head(r) \notin db.mempool
    <3>1. Store!UpdateMempoolTx(Head(r))
      BY <1>1, <1>2, <1>5, <2>3, <2>5 DEF Insert, Store!UpdateMempoolTx
    <3> QED
      BY <2>1, <2>3, <3>1 DEF Store!Next
  <2> QED
    BY <2>4, <2>5
<1> QED
  BY <1>2, <1>4, <1>5 DEF Work, Begin, Restore, Commit, Emit

(* So is every other step of the server. *)
LEMMA ServerStep ==
  ASSUME OneJob, [Next]_vars
  PROVE  OneJob' /\ (Store!Next \/ UNCHANGED Store!vars)
<1>1. ASSUME NEW m \in Messages, Post(m) PROVE OneJob' /\ UNCHANGED Store!vars
  BY <1>1 DEF Post, OneJob, OpenTxn, Store!vars
<1>2. CASE Start
  <2>1. running = <<>>
    BY <1>2 DEF Start, OneJob, Concurrency, BlockJob, BatchJob
  <2>2. PICK m \in Messages : running' = <<NewJob(m)>> /\ queue' = Tail(queue)
    BY <1>2, <2>1 DEF Start, OneJob
  <2>3. queue' \in Seq(Messages) /\ UNCHANGED <<db, emitted>>
    BY <1>2, <2>2 DEF Start, OneJob
  <2>4. CASE m \in Blocks
    <3>1. running' = BlockJob(m, Store!NoTxn) /\ Fresh(Store!NoTxn)
      BY <2>2, <2>4 DEF NewJob, BlockJob, Fresh
    <3> QED
      BY <2>1, <2>3, <2>4, <3>1, BlockJobTxn, NoJobNoTxn DEF OneJob, OpenTxn, Store!vars
  <2>5. CASE m \in Batches
    <3>1. running' = BatchJob(m, BatchTxs[m]) /\ BatchTxs[m] \in Seq(Txs)
      BY <2>2, <2>5, EventServerAssumption DEF NewJob, BatchJob
    <3> QED
      BY <2>1, <2>3, <2>5, <3>1, BatchJobTxn, NoJobNoTxn DEF OneJob, OpenTxn, Store!vars
  <2> QED
    BY <2>4, <2>5 DEF Messages
<1>3. ASSUME NEW i \in DOMAIN running, Work(i) \/ QueryFails(i)
      PROVE  OneJob' /\ (Store!Next \/ UNCHANGED Store!vars)
  <2>1. running # <<>>
    OBVIOUS
  <2> QED
    BY <1>3, <2>1, BlockJobStep, BatchJobStep DEF OneJob
<1>4. CASE Crash
  <2>1. OneJob' /\ OpenTxn' = Store!NoTxn /\ UNCHANGED <<db, emitted>>
    BY <1>4, NoJobNoTxn DEF Crash, OneJob, OpenTxn
  <2> QED
    BY <2>1 DEF Store!Next, Store!Fail, Store!vars
<1>5. CASE UNCHANGED vars
  BY <1>5 DEF vars, OneJob, OpenTxn, Store!vars
<1> QED
  BY <1>1, <1>2, <1>3, <1>4, <1>5 DEF Next, Fault

(* The server starts with no job, over empty tables. *)
LEMMA InitServer == Init => OneJob /\ Store!Init
  BY NoJobNoTxn DEF Init, OneJob, OpenTxn, Store!Init

(* Whatever the messages, their order, their repetitions and the failures, the
   handlers act on the tables as the one client ChainStore describes. *)
THEOREM ImplementsChainStore == Spec => StoreSpec
<1>1. OneJob /\ [Next]_vars => OneJob' /\ [Store!Next]_Store!vars
  BY ServerStep
<1> QED
  BY <1>1, InitServer, PTL DEF Spec, StoreSpec, Store!Spec

-----------------------------------------------------------------------------
(***************************************************************************)
(* What is answered is durable.                                            *)
(***************************************************************************)

(* The store of the server is the one ChainStoreProofs is about. *)
LEMMA SameStore ==
  /\ Store!Init <=> P!Init
  /\ [Store!Next]_Store!vars <=> [P!Next]_P!vars
  /\ Store!CommitUpdate <=> P!CommitUpdate
  BY Zenon DEF
     Store!EntityTables, P!EntityTables, Store!EmptyImage, P!EmptyImage, Store!TipRows,
     P!TipRows, Store!GetChainTipHeight, P!GetChainTipHeight, Store!HasParentRow,
     P!HasParentRow, Store!PruneMempoolTxs, P!PruneMempoolTxs,
     Store!MarkEntitiesCanonical, P!MarkEntitiesCanonical,
     Store!MarkEntitiesNonCanonical, P!MarkEntitiesNonCanonical, Store!Conflicting,
     P!Conflicting, Store!OrphanConflicting, P!OrphanConflicting,
     Store!TxsMarkedCanonical, P!TxsMarkedCanonical, Store!RestoreBlock,
     P!RestoreBlock, Store!ParentIsOrphaned, P!ParentIsOrphaned, Store!IsCanonical,
     P!IsCanonical, Store!InsertEntities, P!InsertEntities, Store!InsertBlock,
     P!InsertBlock, Store!StoreBlock, P!StoreBlock, Store!NoTxn, P!NoTxn,
     Store!NoEvent, P!NoEvent, Store!Accepts, P!Accepts, Store!BuildsOnOrphan,
     P!BuildsOnOrphan, Store!Begun, P!Begun, Store!Restored, P!Restored,
     Store!FindsOrphan, P!FindsOrphan, Store!BeginUpdate, P!BeginUpdate,
     Store!RestoreOrphanedChain, P!RestoreOrphanedChain, Store!CommitUpdate,
     P!CommitUpdate, Store!EmitUpdate, P!EmitUpdate, Store!Fail, P!Fail,
     Store!UpdateMempoolTx, P!UpdateMempoolTx, Store!Next, P!Next, Store!vars, P!vars,
     Store!Init, P!Init

(* The types of the store, in the terms of the instance that StoreSpec names. *)
LEMMA SameTypes == P!TypeOK => db \in Store!Image /\ emitted \in Store!Event /\ OpenTxn \in Store!Txn
  BY DEF P!TypeOK,
     Store!Image, P!Image, Store!Event, P!Event, Store!Txn, P!Txn, Store!EntityTables,
     P!EntityTables, Store!NoTxn, P!NoTxn, Store!NoEvent, P!NoEvent

(* Every reachable state of the tables satisfies the invariant of the store. *)
LEMMA StoreInvariance == Spec => []P!IInv
<1>1. Spec => Store!Spec
  BY ImplementsChainStore DEF StoreSpec
<1>2. Store!Spec => P!Spec
  BY SameStore, PTL DEF Store!Spec, P!Spec
<1>3. P!Spec => []P!IInv
  BY StoreAssumption, P!Invariance
<1> QED
  BY <1>1, <1>2, <1>3

(* The parts of the invariant that are not about types. *)
DurabilityInv ==
  /\ Len(queue) <= MaxQueue
  /\ acked \subseteq Messages
  /\ AnsweredIsDurable
  /\ JobInv

(* The types follow from those of the store. *)
LEMMA ServerTypes == OneJob /\ P!TypeOK /\ DurabilityInv => ServerInv
<1> SUFFICES ASSUME OneJob, P!TypeOK, DurabilityInv PROVE ServerInv
  OBVIOUS
<1>1. running \in Seq(Job) /\ Len(running) <= 1
  <2>1. ASSUME NEW m \in Blocks, NEW x, running = BlockJob(m, x), Fresh(x)
        PROVE  running \in Seq(Job) /\ Len(running) <= 1
    <3>1. x \in Store!Txn
      BY <2>1, BlockJobTxn, SameTypes DEF OpenTxn
    <3> QED
      BY <2>1, <3>1 DEF BlockJob, Job
  <2>2. ASSUME NEW m \in Batches, NEW r \in Seq(Txs), running = BatchJob(m, r)
        PROVE  running \in Seq(Job) /\ Len(running) <= 1
    BY <2>2 DEF BatchJob, Job
  <2>3. ASSUME running = <<>> PROVE running \in Seq(Job) /\ Len(running) <= 1
    BY <2>3
  <2> QED
    BY <2>1, <2>2, <2>3 DEF OneJob
<1> QED
  BY <1>1, SameTypes DEF ServerInv, TypeOK, OneJob, DurabilityInv

(* What is durable stays durable, and no stored block is forgotten. *)
LEMMA DurableStays ==
  ASSUME P!IInv, P!IInv', [P!Next]_P!vars
  PROVE  /\ db.known \subseteq db'.known
         /\ \A t : Durable(t) => Durable(t)'
         /\ P!CommitUpdate => OpenTxn.block \in db'.known
<1>1. /\ db.known \subseteq db'.known
      /\ \A t \in db.mempool \ db'.mempool : \E b \in db'.canonical : t \in TxsOf[b]
      /\ P!CommitUpdate => OpenTxn.block \in db'.known
  BY StoreAssumption, P!StepLosesNothing
<1>2. db'.canonical \subseteq db'.known
  BY DEF P!IInv, P!Sound
<1> QED
  BY <1>1, <1>2 DEF Durable

(* A step of the job of a block. *)
LEMMA BlockJobDurable ==
  ASSUME NEW m \in Blocks, NEW x, running = BlockJob(m, x), Fresh(x), DurabilityInv,
         NEW i \in DOMAIN running, Work(i) \/ QueryFails(i),
         P!IInv, P!IInv', [P!Next]_P!vars
  PROVE  DurabilityInv'
<1>1. i = 1 /\ running[1].msg = m /\ running[1].txn = x /\ m \notin Batches
  BY EventServerAssumption DEF BlockJob
<1>2. ~IsMempoolJob(i) /\ OpenTxn = x
  BY <1>1, BlockJobTxn DEF IsMempoolJob, OpenTxn
<1>3. (x.pc # "idle" => x.block = m) /\ (x.pc = "emit" => m \in db.known)
  BY <1>1 DEF DurabilityInv, JobInv
<1>4. ASSUME acked' \subseteq acked \cup (IF m \in db'.known THEN {m} ELSE {}), acked' \subseteq Messages
      PROVE AnsweredIsDurable'
  BY <1>1, <1>4, DurableStays DEF DurabilityInv, AnsweredIsDurable
<1>5. ASSUME Close(i) PROVE JobInv'
  <2>1. running' = <<>>
    BY <1>5, CloseOne DEF BlockJob
  <2> QED
    BY <2>1 DEF JobInv
<1>6. ASSUME NEW y, SetTxn(i, y), y.pc # "idle", y.block = m, y.pc = "emit" => m \in db'.known
      PROVE  JobInv'
  <2>1. DOMAIN running' = {1} /\ running'[1].msg = m /\ running'[1].txn = y
    BY <1>1, <1>6 DEF SetTxn, BlockJob
  <2> QED
    BY <1>1, <1>6, <2>1 DEF JobInv
<1>7. CASE Refuse(i) \/ QueryFails(i)
  BY <1>4, <1>5, <1>7 DEF Refuse, QueryFails, Answer500, DurabilityInv
<1>8. CASE Begin(i)
  <2>1. SetTxn(i, Store!Begun(db, m)) /\ UNCHANGED <<queue, acked>>
    BY <1>1, <1>8 DEF Begin
  <2>2. Store!Begun(db, m).pc \in {"restore", "store"} /\ Store!Begun(db, m).block = m
    BY DEF Store!Begun
  <2> QED
    BY <1>4, <1>6, <2>1, <2>2 DEF DurabilityInv
<1>9. CASE Restore(i)
  <2>1. SetTxn(i, Store!Restored(x)) /\ UNCHANGED <<queue, acked>> /\ x.pc = "restore"
    BY <1>1, <1>9 DEF Restore, IsBlockJob
  <2>2. Store!Restored(x).pc \in {"restore", "store"} /\ Store!Restored(x).block = x.block
    BY DEF Store!Restored
  <2> QED
    BY <1>3, <1>4, <1>6, <2>1, <2>2 DEF DurabilityInv
<1>10. CASE Commit(i)
  <2> DEFINE y == [pc |-> "emit", block |-> x.block,
                   canonical |-> Store!IsCanonical(x.block, x.tip)]
  <2>1. SetTxn(i, y) /\ UNCHANGED <<queue, acked>> /\ x.pc = "store" /\ x.block = m
    BY <1>1, <1>3, <1>10 DEF Commit, IsBlockJob
  <2>2. running' = BlockJob(m, y)
    BY <1>1, <2>1 DEF SetTxn, BlockJob
  <2>3. OpenTxn' = y
    BY <2>2, BlockJobTxn DEF OpenTxn, Fresh
  <2>4. Store!CommitUpdate
    BY <1>1, <1>2, <1>10, <2>3 DEF Commit, IsBlockJob, Store!CommitUpdate
  <2>5. m \in db'.known
    BY <1>2, <2>1, <2>4, SameStore, DurableStays
  <2> QED
    BY <1>4, <1>6, <2>1, <2>5 DEF DurabilityInv
<1>11. CASE Emit(i)
  <2>1. acked' = acked \cup {m} /\ Close(i) /\ UNCHANGED <<db, queue>> /\ m \in db.known
    BY <1>1, <1>3, <1>11 DEF Emit, Answer200, IsBlockJob
  <2> QED
    BY <1>4, <1>5, <2>1 DEF DurabilityInv, Messages
<1> QED
  BY <1>2, <1>7, <1>8, <1>9, <1>10, <1>11 DEF Work, Insert, FinishBatch

(* A step of the job of a batch. *)
LEMMA BatchJobDurable ==
  ASSUME NEW m \in Batches, NEW r \in Seq(Txs), running = BatchJob(m, r), DurabilityInv,
         NEW i \in DOMAIN running, Work(i) \/ QueryFails(i),
         P!TypeOK, P!IInv, P!IInv', [P!Next]_P!vars
  PROVE  DurabilityInv'
<1>1. i = 1 /\ running[1].msg = m /\ running[1].rest = r /\ m \notin Blocks
  BY EventServerAssumption DEF BatchJob
<1>2. \A where : ~IsBlockJob(i, where)
  BY <1>1 DEF IsBlockJob
<1>3. ASSUME NEW k \in DOMAIN BatchTxs[m]
      PROVE  Durable(BatchTxs[m][k]) \/ \E n \in DOMAIN r : r[n] = BatchTxs[m][k]
  BY <1>1 DEF DurabilityInv, JobInv
<1>4. ASSUME acked' = acked PROVE AnsweredIsDurable'
  BY <1>4, DurableStays DEF DurabilityInv, AnsweredIsDurable
<1>5. ASSUME Close(i) PROVE JobInv'
  <2>1. running' = <<>>
    BY <1>5, CloseOne DEF BatchJob
  <2> QED
    BY <2>1 DEF JobInv
<1>6. CASE Refuse(i) \/ QueryFails(i)
  BY <1>4, <1>5, <1>6 DEF Refuse, QueryFails, Answer500, DurabilityInv
<1>7. CASE FinishBatch(i)
  <2>1. r = <<>> /\ acked' = acked \cup {m} /\ Close(i) /\ UNCHANGED <<db, queue>>
    BY <1>1, <1>7 DEF FinishBatch, Answer200
  <2>2. \A k \in DOMAIN BatchTxs[m] : Durable(BatchTxs[m][k])'
    BY <1>3, <2>1, DurableStays
  <2>3. AnsweredIsDurable'
    BY <1>1, <2>1, <2>2, DurableStays DEF DurabilityInv, AnsweredIsDurable
  <2> QED
    BY <1>5, <2>1, <2>3 DEF DurabilityInv, Messages
<1>8. CASE Insert(i)
  <2>1. r # <<>> /\ UNCHANGED <<queue, acked>>
    BY <1>1, <1>8 DEF Insert
  <2>2. Durable(Head(r))'
    BY <1>1, <1>8, DurableStays DEF Insert, Durable, P!TypeOK, P!Image
  <2>3. DOMAIN running' = {1} /\ running'[1].msg = m /\ running'[1].rest = Tail(r)
    BY <1>1, <1>8 DEF Insert, BatchJob
  <2>4. ASSUME NEW k \in DOMAIN BatchTxs[m]
        PROVE  Durable(BatchTxs[m][k])' \/ \E n \in DOMAIN Tail(r) : Tail(r)[n] = BatchTxs[m][k]
    <3>1. CASE Durable(BatchTxs[m][k])
      BY <3>1, DurableStays
    <3>2. ASSUME NEW n \in DOMAIN r, r[n] = BatchTxs[m][k]
          PROVE  Durable(BatchTxs[m][k])' \/ \E n2 \in DOMAIN Tail(r) : Tail(r)[n2] = BatchTxs[m][k]
      <4>1. CASE n = 1
        BY <2>1, <2>2, <3>2, <4>1
      <4>2. CASE n # 1
        <5>1. n - 1 \in DOMAIN Tail(r) /\ Tail(r)[n - 1] = r[n]
          BY <2>1, <4>2
        <5> QED
          BY <3>2, <5>1
      <4> QED
        BY <4>1, <4>2
    <3> QED
      BY <1>3, <3>1, <3>2
  <2>5. JobInv'
    BY <1>1, <2>3, <2>4 DEF JobInv
  <2> QED
    BY <1>4, <2>1, <2>5 DEF DurabilityInv
<1> QED
  BY <1>2, <1>6, <1>7, <1>8 DEF Work, Begin, Restore, Commit, Emit

(* Every step of the server keeps what was answered 200 in the tables. *)
LEMMA DurabilityStep ==
  ASSUME OneJob, DurabilityInv, [Next]_vars, P!TypeOK, P!IInv, P!IInv', [P!Next]_P!vars
  PROVE  DurabilityInv'
<1>1. ASSUME NEW m \in Messages, Post(m) PROVE DurabilityInv'
  <2>1. Len(queue') <= MaxQueue
    BY <1>1, EventServerAssumption DEF Post, OneJob
  <2> QED
    BY <1>1, <2>1 DEF Post, DurabilityInv, AnsweredIsDurable, JobInv, Durable
<1>2. CASE Start
  <2>1. running = <<>> /\ queue # <<>> /\ UNCHANGED <<db, acked>>
    BY <1>2 DEF Start, OneJob, Concurrency, BlockJob, BatchJob
  <2>2. PICK m \in Messages : running' = <<NewJob(m)>>
    BY <1>2, <2>1 DEF Start, OneJob
  <2>3. Len(queue') <= MaxQueue
    BY <1>2, <2>1, EventServerAssumption DEF Start, OneJob, DurabilityInv
  <2>4. DOMAIN running' = {1} /\ running'[1] = NewJob(m)
    BY <2>2
  <2>5. ASSUME m \in Blocks PROVE JobInv'
    <3>1. m \notin Batches /\ running'[1].msg = m /\ running'[1].txn.pc = "idle"
      BY <2>4, <2>5, EventServerAssumption DEF NewJob, Store!NoTxn
    <3> QED
      BY <2>4, <2>5, <3>1 DEF JobInv
  <2>6. ASSUME m \in Batches PROVE JobInv'
    <3>1. m \notin Blocks /\ running'[1].msg = m /\ running'[1].rest = BatchTxs[m]
      BY <2>4, <2>6, EventServerAssumption DEF NewJob
    <3> QED
      BY <2>4, <2>6, <3>1 DEF JobInv
  <2> QED
    BY <2>1, <2>3, <2>5, <2>6 DEF DurabilityInv, AnsweredIsDurable, Durable, Messages
<1>3. ASSUME NEW i \in DOMAIN running, Work(i) \/ QueryFails(i) PROVE DurabilityInv'
  <2>1. running # <<>>
    OBVIOUS
  <2> QED
    BY <1>3, <2>1, BlockJobDurable, BatchJobDurable DEF OneJob
<1>4. CASE Crash
  BY <1>4, EventServerAssumption DEF Crash, DurabilityInv, AnsweredIsDurable, JobInv, Durable
<1>5. CASE UNCHANGED vars
  BY <1>5 DEF vars, DurabilityInv, AnsweredIsDurable, JobInv, Durable
<1> QED
  BY <1>1, <1>2, <1>3, <1>4, <1>5 DEF Next, Fault

(* Of any messages, whatever is lost, repeated or fails: the types, one job at a
   time, and nothing that was answered 200 is ever lost. *)
THEOREM ServerInvariance == Spec => []ServerInv
<1>1. Init => DurabilityInv
  BY EventServerAssumption DEF Init, DurabilityInv, AnsweredIsDurable, JobInv
<1>2. P!IInv => P!TypeOK
  BY DEF P!IInv
<1>3. OneJob /\ DurabilityInv /\ [Next]_vars /\ P!IInv /\ P!IInv' => OneJob' /\ DurabilityInv'
  BY <1>2, ServerStep, SameStore, DurabilityStep
<1>4. OneJob /\ DurabilityInv /\ P!IInv => ServerInv
  BY <1>2, ServerTypes
<1> QED
  BY <1>1, <1>3, <1>4, InitServer, StoreInvariance, PTL DEF Spec

-----------------------------------------------------------------------------
(***************************************************************************)
(* Start-up, for every number of outages and tries and every set of states *)
(* of the node.                                                            *)
(***************************************************************************)
LEMMA InitIInv == StartInit => IInv
<1> SUFFICES ASSUME StartInit PROVE IInv
  OBVIOUS
<1>1. 0 \in 0 .. MaxOutages /\ 0 \in 0 .. MaxTries - 1
  BY StartupAssumption DEF StartupAssumption
<1>2. StartTypeOK
  BY <1>1 DEF StartInit, StartTypeOK, Places
<1>3. Progress /\ NoClientLeft
  BY DEF StartInit, Progress, NoClientLeft
<1> QED
  BY <1>2, <1>3 DEF IInv

(* Wherever it is, an exit leaves nothing open. *)
LEMMA ExitIInv ==
  ASSUME IInv, Exit,
         pg' \in {"down", "starting", "up"}, outages' \in 0 .. MaxOutages,
         schema' \in BOOLEAN, node' \in NodeStates \cup {"up"}
  PROVE  IInv'
  BY StartupAssumption
  DEF StartupAssumption, Exit, IInv, StartTypeOK, Progress, NoClientLeft, Places

LEMMA ConnectIInv == IInv /\ Connect => IInv'
<1> SUFFICES ASSUME IInv, Connect PROVE IInv'
  OBVIOUS
<1>1. CASE Exit
  BY <1>1, ExitIInv DEF Connect, IInv, StartTypeOK
<1>2. CASE /\ pc' = IF pg = "up" THEN AfterConnect ELSE "wait"
           /\ clients' = Ended(clients \cup {"probe"})
           /\ UNCHANGED <<listening, monitor, tries>>
  BY <1>2
  DEF Connect, AfterConnect, Ended, IInv, StartTypeOK, Progress, NoClientLeft, Places
<1> QED
  BY <1>1, <1>2 DEF Connect

LEMMA MigrateIInv == IInv /\ Migrate => IInv'
<1> SUFFICES ASSUME IInv, Migrate PROVE IInv'
  OBVIOUS
<1>1. CASE pg = "up"
  BY <1>1 DEF Migrate, IInv, StartTypeOK, Progress, NoClientLeft, Places
<1>2. CASE pg # "up"
  BY <1>2, ExitIInv DEF Migrate, IInv, StartTypeOK
<1> QED
  BY <1>1, <1>2

LEMMA OpenPoolIInv == IInv /\ OpenPool => IInv'
<1> SUFFICES ASSUME IInv, OpenPool PROVE IInv'
  OBVIOUS
<1>1. CASE pg = "up"
  BY <1>1 DEF OpenPool, IInv, StartTypeOK, Progress, NoClientLeft, Places
<1>2. CASE pg # "up"
  BY <1>2, ExitIInv DEF OpenPool, IInv, StartTypeOK
<1> QED
  BY <1>1, <1>2

LEMMA AskIInv == IInv /\ Ask => IInv'
<1> SUFFICES ASSUME IInv, Ask PROVE IInv'
  OBVIOUS
<1>1. tries' \in 0 .. MaxTries - 1
  BY StartupAssumption DEF StartupAssumption, Ask, LastTry, IInv, StartTypeOK
<1> QED
  BY <1>1 DEF Ask, Continues, IInv, StartTypeOK, Progress, NoClientLeft, Places

LEMMA PgStopsIInv == IInv /\ PgStops => IInv'
<1> SUFFICES ASSUME IInv, PgStops PROVE IInv'
  OBVIOUS
<1>1. outages' \in 0 .. MaxOutages /\ pg' = "down" /\ UNCHANGED <<schema, node>>
  BY StartupAssumption DEF StartupAssumption, PgStops, IInv, StartTypeOK
<1>2. clients' = {} /\ UNCHANGED <<pc, listening, monitor, tries>>
  BY DEF PgStops
<1> QED
  BY <1>1, <1>2 DEF IInv, StartTypeOK, Progress, NoClientLeft, Places

LEMMA NextIInv == IInv /\ [StartNext]_startVars => IInv'
<1> SUFFICES ASSUME IInv, [StartNext]_startVars PROVE IInv'
  OBVIOUS
<1> USE DEF IInv, StartTypeOK, Progress, NoClientLeft, Places
<1>1. CASE Wait
  BY <1>1 DEF Wait
<1>2. CASE ListenForEvents
  BY <1>2, StartupAssumption DEF ListenForEvents, StartupAssumption
<1>3. CASE ListenForRequests
  BY <1>3 DEF ListenForRequests
<1>4. CASE Query
  BY <1>4 DEF Query
<1>5. CASE CloseIdle
  BY <1>5 DEF CloseIdle
<1>6. CASE Sleep
  BY <1>6 DEF Sleep
<1>7. CASE PgStarts
  BY <1>7 DEF PgStarts, proc
<1>8. CASE NodeChanges
  BY <1>8 DEF NodeChanges, proc
<1>9. CASE Restart
  BY <1>9 DEF Restart
<1>10. CASE UNCHANGED startVars
  BY <1>10 DEF startVars, proc
<1> QED
  BY <1>1, <1>2, <1>3, <1>4, <1>5, <1>6, <1>7, <1>8, <1>9, <1>10,
     ConnectIInv, MigrateIInv, OpenPoolIInv, AskIInv, PgStopsIInv
  DEF StartNext, Step

(* The inductive invariant of the process. *)
THEOREM StartInductive == StartSpec => []IInv
  BY InitIInv, NextIInv, PTL DEF StartSpec

(* Every variable keeps its type. *)
THEOREM StartTypeCorrect == StartSpec => []StartTypeOK
  BY StartInductive, PTL DEF IInv

(* The event server and then the API open, on a migrated database only, over
   any number of outages and restarts.  index.ts:32-57. *)
THEOREM ServersOpenInOrder == StartSpec => []OpensInOrder
<1>1. IInv => OpensInOrder
  BY DEF IInv, StartTypeOK, Progress, OpensInOrder
<1> QED
  BY <1>1, StartInductive, PTL

(* The loop of connect holds no client between its turns.
   postgres-store.ts:729-752. *)
THEOREM NoProbeIsLeft == StartSpec => []NoClientLeft
  BY StartInductive, PTL DEF IInv

(* A refused connection is tried again and never ends the process.
   postgres-store.ts:735-744. *)
THEOREM RefusalIsRetried == StartSpec => KeepsRetrying
<1>1. ASSUME IInv, [StartNext]_startVars
      PROVE  [pc = "connect" /\ pg = "down" => pc' # "exited"]_startVars
  <2> SUFFICES ASSUME StartNext, pc = "connect", pg = "down" PROVE pc' # "exited"
    BY <1>1 DEF startVars
  <2>1. ~PgStops
    BY DEF PgStops
  <2>2. CASE Connect
    BY <2>2 DEF Connect, Retried, AfterConnect
  <2>3. CASE StartNext /\ ~Connect
    BY <1>1, <2>1, <2>3
    DEF StartNext, Step, Wait, Migrate, OpenPool, ListenForEvents, ListenForRequests, Query,
        CloseIdle, Ask, Sleep, PgStarts, NodeChanges, Restart, proc
  <2> QED
    BY <2>2, <2>3
<1> QED
  BY <1>1, StartInductive, PTL DEF StartSpec, KeepsRetrying

=============================================================================
