----------------------------- MODULE ChainStore -----------------------------
(***************************************************************************)
(* The write side of PgDataStore (src/datastore/postgres-store.ts): the    *)
(* database transaction that stores one block, reorganising the chain when *)
(* the block builds on an orphaned fork, and the insertion of a mempool    *)
(* transaction.                                                            *)
(*                                                                         *)
(* The tables are one record, an image.  `db' is the image other           *)
(* connections read, `txn.work' the image of the open transaction; COMMIT  *)
(* copies the second into the first.  Every recursive call of              *)
(* restoreOrphanedChain is an action, so the transaction can fail, or the  *)
(* process die, between any two of them.                                   *)
(*                                                                         *)
(* An operator named Op_Fault is a faulty variant of Op: the properties    *)
(* below are tested by putting it in the place of Op.                      *)
(***************************************************************************)
EXTENDS Naturals

CONSTANTS
  Blocks,   \* the blocks, one for each index_block_hash
  Txs,      \* the non-coinbase transactions (a coinbase is never in the mempool)
  Height,   \* Height[b]: block_height of b
  Parent,   \* Parent[b]: the block whose hash is b's parent_index_block_hash
  TxsOf     \* TxsOf[b]: the transactions of b; a transaction may be in several

ASSUME ChainAssumption ==
  /\ Height \in [Blocks -> Nat \ {0}]
  /\ Parent \in [Blocks -> Blocks]
  /\ TxsOf \in [Blocks -> SUBSET Txs]

VARIABLES
  db,       \* the committed tables
  txn,      \* the open block transaction, if any
  emitted   \* the last event emitted to the listeners of the store

vars == <<db, txn, emitted>>

-----------------------------------------------------------------------------
(***************************************************************************)
(* The tables.                                                             *)
(***************************************************************************)

(* The tables whose rows carry an index_block_hash and a canonical flag of
   their own.  The rows of a block are always flagged together. *)
EntityTables ==
  {"txs", "stx_events", "ft_events", "nft_events", "contract_logs", "smart_contracts"}

(* known: the rows of `blocks'; canonical: those with canonical = true;
   live[T]: the blocks whose rows in T have canonical = true;
   copies[b]: how many times the rows of b were inserted in the entity tables;
   mempool: the rows of `mempool_txs'. *)
Image ==
  [known     : SUBSET Blocks,
   canonical : SUBSET Blocks,
   live      : [EntityTables -> SUBSET Blocks],
   copies    : [Blocks -> Nat],
   mempool   : SUBSET Txs]

EmptyImage ==
  [known     |-> {},
   canonical |-> {},
   live      |-> [T \in EntityTables |-> {}],
   copies    |-> [b \in Blocks |-> 0],
   mempool   |-> {}]

(* The rows of: canonical = true AND block_height = MAX(block_height). *)
TipRows(img) ==
  {b \in img.canonical : \A k \in img.known : Height[k] <= Height[b]}

GetChainTipHeight(img) ==
  IF TipRows(img) = {} THEN 0 ELSE Height[CHOOSE b \in TipRows(img) : TRUE]

(* The row handleReorg and restoreOrphanedChain look up as the parent of b. *)
HasParentRow(img, b) ==
  /\ Parent[b] \in img.known
  /\ Height[Parent[b]] = Height[b] - 1

PruneMempoolTxs(img, txIds) == [img EXCEPT !.mempool = @ \ txIds]

MarkEntitiesCanonical(img, b) ==
  [img EXCEPT !.live = [T \in EntityTables |-> @[T] \cup {b}]]

MarkEntitiesNonCanonical(img, b) ==
  [img EXCEPT !.live = [T \in EntityTables |-> @[T] \ {b}]]

-----------------------------------------------------------------------------
(***************************************************************************)
(* Reorganisation.                                                         *)
(***************************************************************************)

(* The canonical blocks that conflict with b, restored at the same height. *)
Conflicting(img, b) == {o \in img.canonical : Height[o] = Height[b] /\ o # b}

OrphanConflicting_KeepEntities(img, b) ==
  [img EXCEPT !.canonical = @ \ Conflicting(img, b)]

(* Orphan the conflicting blocks.  All of them lose their flag, the entities
   only of the first row the UPDATE returns. *)
OrphanConflicting(img, b) ==
  LET orphans  == Conflicting(img, b)
      orphaned == [img EXCEPT !.canonical = @ \ orphans]
  IN  IF orphans = {} THEN img
      ELSE MarkEntitiesNonCanonical(orphaned, CHOOSE o \in orphans : TRUE)

TxsMarkedCanonical_None(img, b) == {}

(* The transactions of b that its restoration turns canonical. *)
TxsMarkedCanonical(img, b) == IF b \in img.live["txs"] THEN {} ELSE TxsOf[b]

(* One call of restoreOrphanedChain, up to its recursive call. *)
RestoreBlock(img, b) ==
  LET restored == [img EXCEPT !.canonical = @ \cup {b}]
      orphaned == OrphanConflicting(restored, b)
  IN  PruneMempoolTxs(MarkEntitiesCanonical(orphaned, b), TxsMarkedCanonical(orphaned, b))

ParentIsOrphaned_Never(img, b) == FALSE

(* The parent of b is orphaned too: restoreOrphanedChain calls itself. *)
ParentIsOrphaned(img, b) == HasParentRow(img, b) /\ Parent[b] \notin img.canonical

-----------------------------------------------------------------------------
(***************************************************************************)
(* Storing the block.                                                      *)
(***************************************************************************)

IsCanonical_SameHeight(b, tip) == Height[b] >= tip

(* The incoming block is stored as canonical only when it is higher than the
   chain tip read at the start of the transaction. *)
IsCanonical(b, tip) == Height[b] > tip

InsertEntities(img, b, isCanonical) ==
  [img EXCEPT !.live   = [T \in EntityTables |-> IF isCanonical THEN img.live[T] \cup {b}
                                                                ELSE img.live[T]],
              !.copies = [img.copies EXCEPT ![b] = @ + 1]]

InsertBlock_RowsAgain(img, b, isCanonical) ==
  InsertEntities([img EXCEPT !.known = @ \cup {b},
                             !.canonical = IF isCanonical THEN @ \cup {b} ELSE @],
                 b, isCanonical)

InsertBlock_Upsert(img, b, isCanonical) ==
  IF b \in img.known
  THEN [img EXCEPT !.canonical = IF isCanonical THEN @ \cup {b} ELSE @ \ {b}]
  ELSE InsertEntities([img EXCEPT !.known = @ \cup {b},
                                  !.canonical = IF isCanonical THEN @ \cup {b} ELSE @],
                      b, isCanonical)

(* INSERT ... ON CONFLICT DO NOTHING: a block already stored keeps its row,
   and nothing is inserted for it. *)
InsertBlock(img, b, isCanonical) ==
  IF b \in img.known THEN img
  ELSE InsertEntities([img EXCEPT !.known = @ \cup {b},
                                  !.canonical = IF isCanonical THEN @ \cup {b} ELSE @],
                      b, isCanonical)

StoreBlock_AlwaysPrune(img, b, tip) ==
  InsertBlock(PruneMempoolTxs(img, TxsOf[b]), b, IsCanonical(b, tip))

StoreBlock(img, b, tip) ==
  LET isCanonical == IsCanonical(b, tip)
      pruned      == IF isCanonical THEN PruneMempoolTxs(img, TxsOf[b]) ELSE img
  IN  InsertBlock(pruned, b, isCanonical)

-----------------------------------------------------------------------------
(***************************************************************************)
(* The transaction of one call of update().                                *)
(*                                                                         *)
(*   idle -> restore -> ... -> restore -> store -> emit -> idle            *)
(*                                                                         *)
(* The event server runs one message handler at a time, so there is one    *)
(* block transaction at most and no mempool insertion while it is open.    *)
(***************************************************************************)

NoTxn == [pc |-> "idle"]

NoEvent == [kind |-> "none"]

Txn ==
  {NoTxn}
    \cup [pc : {"restore"}, block : Blocks, tip : Nat, cursor : Blocks, work : Image]
    \cup [pc : {"store"}, block : Blocks, tip : Nat, work : Image]
    \cup [pc : {"emit"}, block : Blocks, canonical : BOOLEAN]

Event ==
  {NoEvent}
    \cup [kind : {"block"}, block : Blocks, canonical : BOOLEAN]
    \cup [kind : {"mempool"}, tx : Txs]

Init ==
  /\ db = EmptyImage
  /\ txn = NoTxn
  /\ emitted = NoEvent

(* A block of height 1 needs no parent; any other is refused without one. *)
Accepts(img, b) == Height[b] > 1 => HasParentRow(img, b)

BuildsOnOrphan_AnyHeight(img, b, tip) == Height[b] > 1 /\ Parent[b] \notin img.canonical

BuildsOnOrphan(img, b, tip) ==
  /\ Height[b] > 1
  /\ Parent[b] \notin img.canonical
  /\ Height[b] > tip

(* BEGIN, getChainTipHeight and the parent check of handleReorg. *)
Begun(img, b) ==
  LET tip == GetChainTipHeight(img)
  IN  IF BuildsOnOrphan(img, b, tip)
      THEN [pc |-> "restore", block |-> b, tip |-> tip, cursor |-> Parent[b], work |-> img]
      ELSE [pc |-> "store", block |-> b, tip |-> tip, work |-> img]

(* A block that is refused throws, and its ROLLBACK undoes nothing. *)
BeginUpdate(b) ==
  /\ txn = NoTxn
  /\ Accepts(db, b)
  /\ txn' = Begun(db, b)
  /\ UNCHANGED <<db, emitted>>

Restored_SameCursor(x) ==
  LET work == RestoreBlock(x.work, x.cursor)
  IN  IF ParentIsOrphaned(work, x.cursor)
      THEN [x EXCEPT !.work = work]
      ELSE [pc |-> "store", block |-> x.block, tip |-> x.tip, work |-> work]

(* One call of restoreOrphanedChain in the transaction x: it calls itself for
   an orphaned parent, or returns to update. *)
Restored(x) ==
  LET b    == x.cursor
      work == RestoreBlock(x.work, b)
  IN  IF ParentIsOrphaned(work, b)
      THEN [pc |-> "restore", block |-> x.block, tip |-> x.tip,
            cursor |-> Parent[b], work |-> work]
      ELSE [pc |-> "store", block |-> x.block, tip |-> x.tip, work |-> work]

(* The UPDATE of the call finds exactly one orphaned row, or it throws (Fail). *)
FindsOrphan(x) == x.cursor \in x.work.known \ x.work.canonical

RestoreOrphanedChain ==
  /\ txn.pc = "restore"
  /\ FindsOrphan(txn)
  /\ txn' = Restored(txn)
  /\ UNCHANGED <<db, emitted>>

(* Pruning, the INSERTs and COMMIT. *)
CommitUpdate ==
  /\ txn.pc = "store"
  /\ db' = StoreBlock(txn.work, txn.block, txn.tip)
  /\ txn' = [pc |-> "emit", block |-> txn.block, canonical |-> IsCanonical(txn.block, txn.tip)]
  /\ UNCHANGED emitted

(* The blockUpdate event and the txUpdate and addressUpdate events that
   follow it in the same turn of the event loop. *)
EmitUpdate ==
  /\ txn.pc = "emit"
  /\ emitted' = [kind |-> "block", block |-> txn.block, canonical |-> txn.canonical]
  /\ txn' = NoTxn
  /\ UNCHANGED db

(* A query fails, restoreOrphanedChain throws, or the process dies: the open
   transaction is rolled back, and after COMMIT the events are lost. *)
Fail ==
  /\ txn # NoTxn
  /\ txn' = NoTxn
  /\ UNCHANGED <<db, emitted>>

(* updateMempoolTx: one autocommitted INSERT ... ON CONFLICT DO NOTHING, and a
   txUpdate event only when it inserted a row; a transaction already there
   changes nothing.  The `txs' table is not looked at. *)
UpdateMempoolTx(t) ==
  /\ txn = NoTxn
  /\ t \notin db.mempool
  /\ db' = [db EXCEPT !.mempool = @ \cup {t}]
  /\ emitted' = [kind |-> "mempool", tx |-> t]
  /\ UNCHANGED txn

Next ==
  \/ \E b \in Blocks : BeginUpdate(b)
  \/ RestoreOrphanedChain
  \/ CommitUpdate
  \/ EmitUpdate
  \/ Fail
  \/ \E t \in Txs : UpdateMempoolTx(t)

Spec == Init /\ [][Next]_vars

(* The process runs the transaction it has begun; nothing says that a query
   ever fails, that a block arrives, or that it does not. *)
FairSpec == Spec /\ WF_vars(RestoreOrphanedChain) /\ WF_vars(CommitUpdate) /\ WF_vars(EmitUpdate)

-----------------------------------------------------------------------------
(***************************************************************************)
(* Properties.                                                             *)
(***************************************************************************)

TypeOK ==
  /\ db \in Image
  /\ txn \in Txn
  /\ emitted \in Event

(* The canonical flags of an image mark one path of blocks linked by their
   parent hashes, one block at each height that has any. *)
OnePerHeight(img) ==
  \A b, c \in img.canonical : Height[b] = Height[c] => b = c

Linked(img) ==
  \A b \in img.canonical : Height[b] > 1 => HasParentRow(img, b) /\ Parent[b] \in img.canonical

Covered(img) ==
  \A b \in img.known : \A h \in 1..Height[b] : \E c \in img.canonical : Height[c] = h

(* Readers see one canonical chain: no gap, no second block at a height, no
   block whose parent is orphaned, and no canonical block that is not stored.
   postgres-store.ts update, handleReorg, restoreOrphanedChain. *)
OneCanonicalChain ==
  /\ db.canonical \subseteq db.known
  /\ OnePerHeight(db)
  /\ Linked(db)
  /\ Covered(db)

(* The rows a block has in every entity table carry the flag of the block:
   a balance or a transaction list never counts an orphaned block, nor misses
   a restored one.  postgres-store.ts markEntitiesCanonical and its callers. *)
EntitiesFollowBlocks ==
  \A T \in EntityTables : db.live[T] = db.canonical

(* The event tables have no unique constraint; still a block delivered again
   never inserts its rows again.  postgres-store.ts:331-332. *)
RowsInsertedOnce ==
  \A b \in Blocks : db.copies[b] = IF b \in db.known THEN 1 ELSE 0

(* restoreOrphanedChain never throws: each block it is called for is stored
   and orphaned in the image of its transaction.  postgres-store.ts:553-562. *)
RestoreFindsOrphan == txn.pc = "restore" => FindsOrphan(txn)

(* A transaction leaves the mempool in the very commit that makes it canonical,
   be it mined in the new block or brought back by a restored one.
   postgres-store.ts:321-325 and 596. *)
MinedLeavesMempool ==
  [][\A b \in db'.canonical \ db.canonical : TxsOf[b] \cap db'.mempool = {}]_vars

(* Nothing but that empties the mempool: a transaction that is only in orphaned
   or side blocks stays pending.  postgres-store.ts:310-329. *)
OnlyMinedLeavesMempool ==
  [][\A t \in db.mempool \ db'.mempool : \E b \in db'.canonical : t \in TxsOf[b]]_vars

(* Delivering a block again changes no table.  postgres-store.ts:309, 780-782. *)
RedeliveryChangesNothing ==
  [][(txn.pc = "store" /\ txn.block \in db.known) => db' = db]_vars

(* The inductive invariant behind the properties above.  In the open
   transaction the restored blocks hang from the cursor: each of them is linked
   to its parent, except the lowest, whose parent is the cursor. *)
ParentsKnown(img) == \A b \in img.known : Height[b] > 1 => HasParentRow(img, b)

TipOnTop(img) == img.known # {} => TipRows(img) # {}

RowsAgree(img) ==
  /\ \A T \in EntityTables : img.live[T] = img.canonical
  /\ \A b \in Blocks : img.copies[b] = IF b \in img.known THEN 1 ELSE 0

Sound(img) ==
  /\ img.canonical \subseteq img.known
  /\ ParentsKnown(img)
  /\ OnePerHeight(img)
  /\ Covered(img)
  /\ TipOnTop(img)
  /\ RowsAgree(img)

LinkedDownTo(img, cursor) ==
  \A b \in img.canonical : Height[b] > 1 =>
    IF Height[b] = Height[cursor] + 1 THEN Parent[b] = cursor ELSE Parent[b] \in img.canonical

(* tip is what getChainTipHeight returned for an image with these blocks. *)
IsTipOf(tip, img) ==
  /\ \A k \in img.known : Height[k] <= tip
  /\ tip = 0 \/ \E k \in img.known : Height[k] = tip

PrunedSince(img) == \A b \in img.canonical \ db.canonical : TxsOf[b] \cap img.mempool = {}

PrunedBecauseMined(img) ==
  \A t \in db.mempool \ img.mempool : \E b \in img.canonical \ db.canonical : t \in TxsOf[b]

WorkInv(img) ==
  /\ Sound(img)
  /\ img.known = db.known
  /\ PrunedBecauseMined(img)
  /\ PrunedSince(img)
  /\ IsTipOf(txn.tip, img)

RestoreInv ==
  txn.pc = "restore" =>
    /\ WorkInv(txn.work)
    /\ txn.cursor \in txn.work.known \ txn.work.canonical
    /\ LinkedDownTo(txn.work, txn.cursor)
    /\ HasParentRow(txn.work, txn.block)
    /\ Height[txn.block] > txn.tip
    /\ \/ txn.cursor = Parent[txn.block]
       \/ /\ Parent[txn.block] \in txn.work.canonical
          /\ Height[txn.cursor] < Height[Parent[txn.block]]
    /\ \A b \in Blocks :
         Height[b] <= Height[txn.cursor] => (b \in txn.work.canonical <=> b \in db.canonical)

StoreInv ==
  txn.pc = "store" =>
    /\ WorkInv(txn.work)
    /\ Linked(txn.work)
    /\ Height[txn.block] > 1 => HasParentRow(txn.work, txn.block)
    /\ IF Height[txn.block] > txn.tip
       THEN Height[txn.block] > 1 => Parent[txn.block] \in txn.work.canonical
       ELSE txn.work = db

IInv ==
  /\ TypeOK
  /\ Sound(db)
  /\ Linked(db)
  /\ RestoreInv
  /\ StoreInv

(* What datastore-tests.ts says of a mined transaction, and does not hold when
   it is announced to the mempool after the block that mined it. *)
MinedNotPending ==
  \A b \in db.canonical : TxsOf[b] \cap db.mempool = {}

(* The store implements the fork choice it promises. *)
Promise == INSTANCE ForkChoice WITH known <- db.known, canonical <- db.canonical

ForkChoiceSpec == Promise!Spec

(* Every transaction begun is closed: the chain of recursive restorations ends. *)
UpdateTerminates == (txn # NoTxn) ~> (txn = NoTxn)

=============================================================================
