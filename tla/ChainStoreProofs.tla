-------------------------- MODULE ChainStoreProofs --------------------------
(***************************************************************************)
(* Proofs about ChainStore, for every set of blocks and transactions, every *)
(* assignment of heights, parents and transactions to the blocks, and      *)
(* every order of deliveries, failures and mempool insertions.             *)
(***************************************************************************)
EXTENDS ChainStore, TLAPS

-----------------------------------------------------------------------------
(***************************************************************************)
(* What the operators on images do to each table.                          *)
(***************************************************************************)

(* pruneMempoolTxs touches nothing but the mempool. *)
LEMMA PruneFields ==
  ASSUME NEW img \in Image, NEW ids
  PROVE  LET p == PruneMempoolTxs(img, ids)
         IN  /\ p \in Image
             /\ p.known = img.known /\ p.canonical = img.canonical
             /\ p.live = img.live /\ p.copies = img.copies
             /\ p.mempool = img.mempool \ ids
  BY DEF PruneMempoolTxs, Image

(* markEntitiesCanonical(.., true) flags the rows of b in every entity table. *)
LEMMA MarkCanonicalFields ==
  ASSUME NEW img \in Image, NEW b \in Blocks
  PROVE  LET m == MarkEntitiesCanonical(img, b)
         IN  /\ m \in Image
             /\ m.known = img.known /\ m.canonical = img.canonical
             /\ \A T \in EntityTables : m.live[T] = img.live[T] \cup {b}
             /\ m.copies = img.copies /\ m.mempool = img.mempool
  BY DEF MarkEntitiesCanonical, Image

(* markEntitiesCanonical(.., false) clears the flag in every entity table. *)
LEMMA MarkNonCanonicalFields ==
  ASSUME NEW img \in Image, NEW b \in Blocks
  PROVE  LET m == MarkEntitiesNonCanonical(img, b)
         IN  /\ m \in Image
             /\ m.known = img.known /\ m.canonical = img.canonical
             /\ \A T \in EntityTables : m.live[T] = img.live[T] \ {b}
             /\ m.copies = img.copies /\ m.mempool = img.mempool
  BY DEF MarkEntitiesNonCanonical, Image

(* With one conflicting block at most, orphaning it keeps the flags of its
   entities in step with its own. *)
LEMMA OrphanFields ==
  ASSUME NEW img \in Image, NEW b \in Blocks,
         \A o, p \in Conflicting(img, b) : o = p
  PROVE  LET r == OrphanConflicting(img, b)
         IN  /\ r \in Image
             /\ r.known = img.known
             /\ r.canonical = img.canonical \ Conflicting(img, b)
             /\ \A T \in EntityTables : r.live[T] = img.live[T] \ Conflicting(img, b)
             /\ r.copies = img.copies /\ r.mempool = img.mempool
<1> DEFINE orphans == Conflicting(img, b)
<1> DEFINE orphaned == [img EXCEPT !.canonical = @ \ orphans]
<1> DEFINE first == CHOOSE o \in orphans : TRUE
<1>1. CASE orphans = {}
  BY <1>1 DEF OrphanConflicting, Image
<1>2. CASE orphans # {}
  <2>1. first \in orphans
    BY <1>2
  <2>2. orphans = {first}
    BY <2>1
  <2>3. first \in Blocks
    BY <2>1 DEF Conflicting, Image
  <2>4. /\ orphaned \in Image
        /\ orphaned.known = img.known /\ orphaned.canonical = img.canonical \ orphans
        /\ orphaned.live = img.live
        /\ orphaned.copies = img.copies /\ orphaned.mempool = img.mempool
    BY DEF Image
  <2>5. OrphanConflicting(img, b) = MarkEntitiesNonCanonical(orphaned, first)
    BY <1>2 DEF OrphanConflicting
  <2> HIDE DEF orphaned, first
  <2> QED
    BY <2>2, <2>3, <2>4, <2>5, MarkNonCanonicalFields
<1> QED
  BY <1>1, <1>2

(* One call of restoreOrphanedChain on an image whose flags agree: the block
   takes the place of the canonical block of its height, in every table, and
   its transactions leave the mempool. *)
LEMMA RestoreFields ==
  ASSUME NEW img \in Image, NEW b \in img.known \ img.canonical,
         OnePerHeight(img), RowsAgree(img)
  PROVE  LET r == RestoreBlock(img, b)
         IN  /\ r \in Image
             /\ r.known = img.known
             /\ r.canonical = (img.canonical \ Conflicting(img, b)) \cup {b}
             /\ \A T \in EntityTables : r.live[T] = r.canonical
             /\ r.copies = img.copies
             /\ r.mempool = img.mempool \ TxsOf[b]
<1> DEFINE restored == [img EXCEPT !.canonical = @ \cup {b}]
<1> DEFINE orphaned == OrphanConflicting(restored, b)
<1> DEFINE marked == MarkEntitiesCanonical(orphaned, b)
<1>1. b \in Blocks
  BY DEF Image
<1>2. /\ restored \in Image
      /\ restored.known = img.known /\ restored.canonical = img.canonical \cup {b}
      /\ restored.live = img.live
      /\ restored.copies = img.copies /\ restored.mempool = img.mempool
  BY <1>1 DEF Image
<1> HIDE DEF restored
<1>3. Conflicting(restored, b) = Conflicting(img, b)
  BY <1>2 DEF Conflicting
<1>4. \A o, p \in Conflicting(restored, b) : o = p
  BY <1>3 DEF Conflicting, OnePerHeight
<1>5. /\ orphaned \in Image
      /\ orphaned.known = img.known
      /\ orphaned.canonical = (img.canonical \cup {b}) \ Conflicting(img, b)
      /\ \A T \in EntityTables : orphaned.live[T] = img.live[T] \ Conflicting(img, b)
      /\ orphaned.copies = img.copies /\ orphaned.mempool = img.mempool
  BY <1>1, <1>2, <1>3, <1>4, OrphanFields
<1> HIDE DEF orphaned
<1>6. /\ marked \in Image
      /\ marked.known = img.known /\ marked.canonical = orphaned.canonical
      /\ \A T \in EntityTables : marked.live[T] = orphaned.live[T] \cup {b}
      /\ marked.copies = img.copies /\ marked.mempool = img.mempool
  BY <1>1, <1>5, MarkCanonicalFields
<1>7. TxsMarkedCanonical(orphaned, b) = TxsOf[b]
  BY <1>5 DEF TxsMarkedCanonical, RowsAgree, EntityTables
<1>8. RestoreBlock(img, b) = PruneMempoolTxs(marked, TxsOf[b])
  BY <1>7 DEF RestoreBlock, restored, orphaned
<1> HIDE DEF marked
<1>9. b \notin Conflicting(img, b)
  BY DEF Conflicting
<1>10. \A T \in EntityTables : img.live[T] = img.canonical
  BY DEF RowsAgree
<1> DEFINE r == PruneMempoolTxs(marked, TxsOf[b])
<1>11. /\ r \in Image
       /\ r.known = marked.known /\ r.canonical = marked.canonical
       /\ r.live = marked.live /\ r.copies = marked.copies
       /\ r.mempool = marked.mempool \ TxsOf[b]
  BY <1>6, PruneFields
<1> HIDE DEF r
<1>12. r.canonical = (img.canonical \ Conflicting(img, b)) \cup {b}
  BY <1>5, <1>6, <1>9, <1>11
<1>13. ASSUME NEW T \in EntityTables PROVE r.live[T] = r.canonical
  BY <1>5, <1>6, <1>10, <1>11, <1>12
<1> QED
  BY <1>5, <1>6, <1>8, <1>11, <1>12, <1>13 DEF r

(* Inserting the rows of a block that is not known yet. *)
LEMMA InsertFields ==
  ASSUME NEW img \in Image, NEW b \in Blocks, b \notin img.known, NEW c \in BOOLEAN
  PROVE  LET s == InsertBlock(img, b, c)
         IN  /\ s \in Image
             /\ s.known = img.known \cup {b}
             /\ s.canonical = IF c THEN img.canonical \cup {b} ELSE img.canonical
             /\ \A T \in EntityTables :
                  s.live[T] = IF c THEN img.live[T] \cup {b} ELSE img.live[T]
             /\ s.copies = [img.copies EXCEPT ![b] = @ + 1]
             /\ s.mempool = img.mempool
<1> DEFINE row == [img EXCEPT !.known = @ \cup {b},
                              !.canonical = IF c THEN @ \cup {b} ELSE @]
<1> DEFINE flags == [T \in EntityTables |-> IF c THEN row.live[T] \cup {b} ELSE row.live[T]]
<1> DEFINE counts == [row.copies EXCEPT ![b] = @ + 1]
<1>1. /\ row \in Image
      /\ row.known = img.known \cup {b}
      /\ row.canonical = IF c THEN img.canonical \cup {b} ELSE img.canonical
      /\ row.live = img.live /\ row.copies = img.copies /\ row.mempool = img.mempool
  BY DEF Image
<1>2. InsertBlock(img, b, c) = [row EXCEPT !.live = flags, !.copies = counts]
  BY Zenon DEF InsertBlock, InsertEntities
<1> HIDE DEF row
<1>3. flags \in [EntityTables -> SUBSET Blocks]
  BY <1>1 DEF Image
<1>4. counts \in [Blocks -> Nat]
  BY <1>1 DEF Image
<1>5. \A T \in EntityTables : flags[T] = IF c THEN img.live[T] \cup {b} ELSE img.live[T]
  BY <1>1
<1>6. counts = [img.copies EXCEPT ![b] = @ + 1]
  BY <1>1
<1> HIDE DEF flags, counts
<1> QED
  BY <1>1, <1>2, <1>3, <1>4, <1>5, <1>6 DEF Image

(* Storing a new block above the tip. *)
LEMMA StoreOnTopFields ==
  ASSUME NEW img \in Image, NEW b \in Blocks, b \notin img.known, NEW tip, Height[b] > tip
  PROVE  LET s == StoreBlock(img, b, tip)
         IN  /\ s \in Image
             /\ s.known = img.known \cup {b}
             /\ s.canonical = img.canonical \cup {b}
             /\ \A T \in EntityTables : s.live[T] = img.live[T] \cup {b}
             /\ s.copies = [img.copies EXCEPT ![b] = @ + 1]
             /\ s.mempool = img.mempool \ TxsOf[b]
<1> DEFINE pruned == PruneMempoolTxs(img, TxsOf[b])
<1>1. /\ pruned \in Image
      /\ pruned.known = img.known /\ pruned.canonical = img.canonical
      /\ pruned.live = img.live /\ pruned.copies = img.copies
      /\ pruned.mempool = img.mempool \ TxsOf[b]
  BY PruneFields
<1> DEFINE c == IsCanonical(b, tip)
<1>2. c \in BOOLEAN
  BY DEF IsCanonical
<1>3. c
  BY DEF IsCanonical
<1>4. StoreBlock(img, b, tip) = InsertBlock(pruned, b, c)
  BY <1>3 DEF StoreBlock
<1> HIDE DEF pruned, c
<1> DEFINE s == InsertBlock(pruned, b, c)
<1>5. /\ s \in Image
      /\ s.known = pruned.known \cup {b}
      /\ s.canonical = IF c THEN pruned.canonical \cup {b} ELSE pruned.canonical
      /\ \A T \in EntityTables :
           s.live[T] = IF c THEN pruned.live[T] \cup {b} ELSE pruned.live[T]
      /\ s.copies = [pruned.copies EXCEPT ![b] = @ + 1]
      /\ s.mempool = pruned.mempool
  BY <1>1, <1>2, InsertFields
<1> HIDE DEF s
<1> QED
  BY <1>1, <1>3, <1>4, <1>5 DEF s

(* Storing a new block at or below the tip. *)
LEMMA StoreAsideFields ==
  ASSUME NEW img \in Image, NEW b \in Blocks, b \notin img.known, NEW tip, ~(Height[b] > tip)
  PROVE  LET s == StoreBlock(img, b, tip)
         IN  /\ s \in Image
             /\ s.known = img.known \cup {b}
             /\ s.canonical = img.canonical
             /\ \A T \in EntityTables : s.live[T] = img.live[T]
             /\ s.copies = [img.copies EXCEPT ![b] = @ + 1]
             /\ s.mempool = img.mempool
<1>1. StoreBlock(img, b, tip) = InsertBlock(img, b, FALSE)
  <2>1. IsCanonical(b, tip) = FALSE
    BY DEF IsCanonical
  <2> QED
    BY <2>1 DEF StoreBlock
<1> DEFINE s == InsertBlock(img, b, FALSE)
<1>2. /\ s \in Image
      /\ s.known = img.known \cup {b}
      /\ s.canonical = img.canonical
      /\ \A T \in EntityTables : s.live[T] = img.live[T]
      /\ s.copies = [img.copies EXCEPT ![b] = @ + 1]
      /\ s.mempool = img.mempool
  BY InsertFields
<1> HIDE DEF s
<1> QED
  BY <1>1, <1>2 DEF s

(* Storing a block again, at or below the tip, changes nothing. *)
LEMMA StoreAgain ==
  ASSUME NEW img, NEW b, NEW tip, b \in img.known, ~(Height[b] > tip)
  PROVE  StoreBlock(img, b, tip) = img
  BY DEF StoreBlock, IsCanonical, InsertBlock

-----------------------------------------------------------------------------
(***************************************************************************)
(* The chain tip.                                                          *)
(***************************************************************************)

(* getChainTipHeight of a sound image bounds every height, and is the height of
   a block unless there is none. *)
LEMMA TipHeight ==
  ASSUME NEW img \in Image, Sound(img)
  PROVE  /\ GetChainTipHeight(img) \in Nat
         /\ IsTipOf(GetChainTipHeight(img), img)
<1>1. CASE img.known = {}
  <2>1. TipRows(img) = {}
    BY <1>1 DEF TipRows, Sound
  <2> QED
    BY <1>1, <2>1 DEF GetChainTipHeight, IsTipOf
<1>2. CASE img.known # {}
  <2>1. PICK t : t = CHOOSE b \in TipRows(img) : TRUE
    OBVIOUS
  <2>2. t \in TipRows(img) /\ TipRows(img) # {}
    BY <1>2, <2>1 DEF Sound, TipOnTop
  <2>3. GetChainTipHeight(img) = Height[t]
    BY <2>1, <2>2 DEF GetChainTipHeight
  <2>4. t \in img.known /\ t \in Blocks /\ \A k \in img.known : Height[k] <= Height[t]
    BY <2>2 DEF TipRows, Sound, Image
  <2> QED
    BY <2>3, <2>4, ChainAssumption DEF IsTipOf
<1> QED
  BY <1>1, <1>2

-----------------------------------------------------------------------------
(***************************************************************************)
(* Types.                                                                  *)
(***************************************************************************)

(* RestoreBlock keeps the type of the image, whatever its flags. *)
LEMMA RestoreType ==
  ASSUME NEW img \in Image, NEW b \in Blocks
  PROVE  RestoreBlock(img, b) \in Image
<1> DEFINE restored == [img EXCEPT !.canonical = @ \cup {b}]
<1> DEFINE orphaned == OrphanConflicting(restored, b)
<1>1. restored \in Image
  BY DEF Image
<1> HIDE DEF restored
<1> DEFINE orphans == Conflicting(restored, b)
<1> DEFINE cleared == [restored EXCEPT !.canonical = @ \ orphans]
<1>2. cleared \in Image
  BY <1>1 DEF Image
<1>3. orphaned \in Image
  <2>1. CASE orphans = {}
    BY <1>1, <2>1 DEF OrphanConflicting
  <2>2. CASE orphans # {}
    <3> DEFINE first == CHOOSE o \in orphans : TRUE
    <3>1. first \in Blocks
      BY <1>1, <2>2 DEF Conflicting, Image
    <3>2. orphaned = MarkEntitiesNonCanonical(cleared, first)
      BY <2>2 DEF OrphanConflicting
    <3> HIDE DEF cleared, first, orphaned
    <3> QED
      BY <1>2, <3>1, <3>2, MarkNonCanonicalFields
  <2> QED
    BY <2>1, <2>2
<1> HIDE DEF orphaned
<1>4. MarkEntitiesCanonical(orphaned, b) \in Image
  BY <1>3, MarkCanonicalFields
<1>5. PruneMempoolTxs(MarkEntitiesCanonical(orphaned, b), TxsMarkedCanonical(orphaned, b)) \in Image
  BY <1>4, PruneFields
<1> QED
  BY <1>5 DEF RestoreBlock, orphaned, restored

(* StoreBlock keeps the type of the image. *)
LEMMA StoreType ==
  ASSUME NEW img \in Image, NEW b \in Blocks, NEW tip \in Nat
  PROVE  StoreBlock(img, b, tip) \in Image
<1>1. CASE b \in img.known
  BY <1>1, PruneFields DEF StoreBlock, InsertBlock
<1>2. CASE b \notin img.known
  BY <1>2, StoreOnTopFields, StoreAsideFields
<1> QED
  BY <1>1, <1>2

(* Every step keeps the types. *)
LEMMA TypeStep == TypeOK /\ [Next]_vars => TypeOK'
<1> SUFFICES ASSUME TypeOK, [Next]_vars PROVE TypeOK'
  OBVIOUS
<1> USE DEF TypeOK
<1>1. ASSUME NEW b \in Blocks, BeginUpdate(b) PROVE TypeOK'
  <2>1. GetChainTipHeight(db) \in Nat
    BY ChainAssumption DEF GetChainTipHeight, TipRows, Image
  <2>2. Parent[b] \in Blocks
    BY ChainAssumption
  <2> QED
    BY <1>1, <2>1, <2>2 DEF BeginUpdate, Begun, Txn
<1>2. CASE RestoreOrphanedChain
  <2>1. /\ txn \in [pc : {"restore"}, block : Blocks, tip : Nat, cursor : Blocks, work : Image]
        /\ RestoreBlock(txn.work, txn.cursor) \in Image
    BY <1>2, RestoreType DEF RestoreOrphanedChain, Restored, FindsOrphan, Txn, NoTxn
  <2>2. Parent[txn.cursor] \in Blocks
    BY <2>1, ChainAssumption
  <2> QED
    BY <1>2, <2>1, <2>2 DEF RestoreOrphanedChain, Restored, FindsOrphan, Txn
<1>3. CASE CommitUpdate
  <2>1. txn \in [pc : {"store"}, block : Blocks, tip : Nat, work : Image]
    BY <1>3 DEF CommitUpdate, Txn, NoTxn
  <2>2. StoreBlock(txn.work, txn.block, txn.tip) \in Image
    BY <2>1, StoreType
  <2>3. IsCanonical(txn.block, txn.tip) \in BOOLEAN
    BY DEF IsCanonical
  <2> QED
    BY <1>3, <2>1, <2>2, <2>3 DEF CommitUpdate, Txn
<1>4. CASE EmitUpdate
  <2>1. txn \in [pc : {"emit"}, block : Blocks, canonical : BOOLEAN]
    BY <1>4 DEF EmitUpdate, Txn, NoTxn
  <2> QED
    BY <1>4, <2>1 DEF EmitUpdate, Txn, Event
<1>5. CASE Fail
  BY <1>5 DEF Fail, Txn
<1>6. ASSUME NEW t \in Txs, UpdateMempoolTx(t) PROVE TypeOK'
  BY <1>6 DEF UpdateMempoolTx, Image, Event
<1>7. CASE UNCHANGED vars
  BY <1>7 DEF vars
<1> QED
  BY <1>1, <1>2, <1>3, <1>4, <1>5, <1>6, <1>7 DEF Next

(* Every variable keeps its type. *)
THEOREM TypeCorrect == Spec => []TypeOK
<1>1. Init => TypeOK
  BY DEF Init, TypeOK, EmptyImage, Image, Txn, Event, NoTxn, NoEvent
<1> QED
  BY <1>1, TypeStep, PTL DEF Spec

-----------------------------------------------------------------------------
(***************************************************************************)
(* The canonical chain.                                                    *)
(***************************************************************************)

(* One call of restoreOrphanedChain on the cursor: the image stays sound, and
   either the chain is whole again or its next missing link is the parent. *)
LEMMA RestoreKeepsSound ==
  ASSUME NEW img \in Image, NEW b \in img.known \ img.canonical,
         Sound(img), LinkedDownTo(img, b)
  PROVE  LET r == RestoreBlock(img, b)
         IN  /\ Sound(r)
             /\ ParentIsOrphaned(r, b) => /\ Parent[b] \in r.known \ r.canonical
                                          /\ LinkedDownTo(r, Parent[b])
             /\ ~ParentIsOrphaned(r, b) => Linked(r)
<1> DEFINE r == RestoreBlock(img, b)
<1>0. b \in Blocks /\ img.known \subseteq Blocks /\ img.canonical \subseteq img.known
  BY DEF Image, Sound
<1>1. /\ r \in Image
      /\ r.known = img.known
      /\ r.canonical = (img.canonical \ Conflicting(img, b)) \cup {b}
      /\ \A T \in EntityTables : r.live[T] = r.canonical
      /\ r.copies = img.copies
  BY RestoreFields DEF Sound
<1> HIDE DEF r
<1>2. \A x \in r.canonical : x = b \/ (x \in img.canonical /\ Height[x] # Height[b])
  BY <1>1 DEF Conflicting
<1>3. \A x \in img.canonical : Height[x] # Height[b] => x \in r.canonical
  BY <1>1 DEF Conflicting
<1>4. b \in r.canonical
  BY <1>1
<1>5. Sound(r)
  <2>1. r.canonical \subseteq r.known
    BY <1>0, <1>1
  <2>2. ParentsKnown(r)
    BY <1>1 DEF Sound, ParentsKnown, HasParentRow
  <2>3. OnePerHeight(r)
    BY <1>2 DEF Sound, OnePerHeight
  <2>4. Covered(r)
    BY <1>1, <1>3, <1>4 DEF Sound, Covered
  <2>5. TipOnTop(r)
    <3> SUFFICES ASSUME r.known # {} PROVE TipRows(r) # {}
      BY DEF TipOnTop
    <3>1. PICK t \in img.canonical : \A k \in img.known : Height[k] <= Height[t]
      BY <1>1 DEF Sound, TipOnTop, TipRows
    <3>2. CASE Height[t] = Height[b]
      BY <1>1, <1>4, <3>1, <3>2 DEF TipRows
    <3>3. CASE Height[t] # Height[b]
      BY <1>1, <1>3, <3>1, <3>3 DEF TipRows
    <3> QED
      BY <3>2, <3>3
  <2>6. RowsAgree(r)
    BY <1>1 DEF Sound, RowsAgree
  <2> QED
    BY <2>1, <2>2, <2>3, <2>4, <2>5, <2>6 DEF Sound
<1>6. \A x \in r.canonical : Height[x] > 1 => HasParentRow(r, x)
  BY <1>5 DEF Sound, ParentsKnown
<1>7. ASSUME NEW x \in r.canonical, Height[x] > 1, x # b
      PROVE  Parent[x] \in r.canonical
  <2>1. x \in img.canonical /\ Height[x] # Height[b]
    BY <1>2, <1>7
  <2>2. CASE Height[x] = Height[b] + 1
    BY <1>4, <1>7, <2>1, <2>2 DEF LinkedDownTo
  <2>3. CASE Height[x] # Height[b] + 1
    <3>1. Parent[x] \in img.canonical
      BY <1>7, <2>1, <2>3 DEF LinkedDownTo
    <3>2. Height[Parent[x]] = Height[x] - 1
      BY <1>6, <1>7 DEF HasParentRow
    <3>3. Height[x] \in Nat /\ Height[b] \in Nat
      BY <1>0, <2>1, ChainAssumption
    <3>4. Height[Parent[x]] # Height[b]
      BY <2>3, <3>2, <3>3
    <3> QED
      BY <1>3, <3>1, <3>4
  <2> QED
    BY <2>2, <2>3
<1>8. ASSUME ParentIsOrphaned(r, b)
      PROVE  Parent[b] \in r.known \ r.canonical /\ LinkedDownTo(r, Parent[b])
  <2>1. Parent[b] \in r.known \ r.canonical /\ Height[Parent[b]] = Height[b] - 1
    BY <1>8 DEF ParentIsOrphaned, HasParentRow
  <2>2. Height[b] \in Nat /\ Height[Parent[b]] + 1 = Height[b]
    BY <1>0, <2>1, ChainAssumption
  <2>3. \A x \in r.canonical : Height[x] = Height[b] => x = b
    BY <1>2
  <2> QED
    BY <1>7, <2>1, <2>2, <2>3 DEF LinkedDownTo
<1>9. ASSUME ~ParentIsOrphaned(r, b) PROVE Linked(r)
  <2>1. Height[b] > 1 => Parent[b] \in r.canonical
    BY <1>4, <1>6, <1>9 DEF ParentIsOrphaned
  <2> QED
    BY <1>6, <1>7, <2>1 DEF Linked
<1> QED
  BY <1>5, <1>8, <1>9 DEF r

(* Storing a new block keeps one linked chain up to the greatest height. *)
LEMMA StoreKeepsSound ==
  ASSUME NEW img \in Image, NEW b \in Blocks \ img.known, NEW tip \in Nat,
         Sound(img), Linked(img), IsTipOf(tip, img),
         Height[b] > 1 => HasParentRow(img, b),
         (Height[b] > tip /\ Height[b] > 1) => Parent[b] \in img.canonical
  PROVE  Sound(StoreBlock(img, b, tip)) /\ Linked(StoreBlock(img, b, tip))
<1> b \in Blocks /\ b \notin img.known
  OBVIOUS
<1> DEFINE s == StoreBlock(img, b, tip)
<1>0. /\ img.known \subseteq Blocks /\ img.canonical \subseteq img.known
      /\ \A x \in Blocks : Height[x] \in Nat /\ Height[x] >= 1
  BY ChainAssumption DEF Image, Sound
<1>a. ASSUME Height[b] > tip
      PROVE  /\ s \in Image
             /\ s.known = img.known \cup {b}
             /\ s.canonical = img.canonical \cup {b}
             /\ \A T \in EntityTables : s.live[T] = img.live[T] \cup {b}
             /\ s.copies = [img.copies EXCEPT ![b] = @ + 1]
  BY <1>a, StoreOnTopFields
<1>b. ASSUME ~(Height[b] > tip)
      PROVE  /\ s \in Image
             /\ s.known = img.known \cup {b}
             /\ s.canonical = img.canonical
             /\ \A T \in EntityTables : s.live[T] = img.live[T]
             /\ s.copies = [img.copies EXCEPT ![b] = @ + 1]
  BY <1>b, StoreAsideFields
<1> HIDE DEF s
<1>1. /\ s \in Image
      /\ s.known = img.known \cup {b}
      /\ s.canonical = IF Height[b] > tip THEN img.canonical \cup {b} ELSE img.canonical
      /\ \A T \in EntityTables :
           s.live[T] = IF Height[b] > tip THEN img.live[T] \cup {b} ELSE img.live[T]
      /\ s.copies = [img.copies EXCEPT ![b] = @ + 1]
  BY <1>a, <1>b
<1>2. \A x \in s.canonical : x \in img.canonical \/ (x = b /\ Height[b] > tip)
  BY <1>1
<1>3. img.canonical \subseteq s.canonical
  BY <1>1
<1>4. \A k \in img.known : Height[k] <= tip
  BY DEF IsTipOf
<1>5. \A x \in s.known : Height[x] > 1 => HasParentRow(s, x)
  BY <1>1 DEF Sound, ParentsKnown, HasParentRow
<1>6. Covered(s)
  <2>1. ASSUME NEW h \in 1..Height[b] PROVE \E c \in s.canonical : Height[c] = h
    <3>1. CASE Height[b] > tip /\ h = Height[b]
      BY <1>1, <3>1
    <3>2. CASE Height[b] > tip /\ h # Height[b]
      <4>1. Parent[b] \in img.known /\ Height[Parent[b]] = Height[b] - 1
        BY <1>0, <3>2 DEF HasParentRow
      <4>2. h \in 1..Height[Parent[b]]
        BY <1>0, <3>2, <4>1
      <4> QED
        BY <1>3, <4>1, <4>2 DEF Sound, Covered
    <3>3. CASE ~(Height[b] > tip)
      <4>1. PICK k \in img.known : Height[k] = tip
        BY <1>0, <3>3 DEF IsTipOf
      <4>2. h \in 1..Height[k]
        BY <1>0, <3>3, <4>1
      <4> QED
        BY <1>3, <4>1, <4>2 DEF Sound, Covered
    <3> QED
      BY <3>1, <3>2, <3>3
  <2>2. ASSUME NEW k \in img.known, NEW h \in 1..Height[k]
        PROVE  \E c \in s.canonical : Height[c] = h
    BY <1>3 DEF Sound, Covered
  <2> QED
    BY <1>1, <2>1, <2>2 DEF Covered
<1>7. TipOnTop(s)
  <2>1. CASE Height[b] > tip
    <3>1. b \in s.canonical /\ \A k \in s.known : Height[k] <= Height[b]
      BY <1>0, <1>1, <1>4, <2>1
    <3> QED
      BY <3>1 DEF TipOnTop, TipRows
  <2>2. CASE ~(Height[b] > tip)
    <3>1. PICK k \in img.known : Height[k] = tip
      BY <1>0, <2>2 DEF IsTipOf
    <3>2. PICK t \in img.canonical : \A x \in img.known : Height[x] <= Height[t]
      BY <3>1 DEF Sound, TipOnTop, TipRows
    <3>3. Height[b] <= Height[t]
      BY <1>0, <2>2, <3>1, <3>2
    <3> QED
      BY <1>1, <1>3, <3>2, <3>3 DEF TipOnTop, TipRows
  <2> QED
    BY <2>1, <2>2
<1>8. OnePerHeight(s)
  <2>1. \A x \in img.canonical : Height[x] <= tip /\ Height[x] \in Nat
    BY <1>0, <1>4
  <2>2. ASSUME NEW x \in img.canonical, Height[b] > tip PROVE Height[x] # Height[b]
    BY <1>0, <2>1, <2>2
  <2> QED
    BY <1>2, <2>2 DEF Sound, OnePerHeight
<1>9. Linked(s)
  <2>1. s.canonical \subseteq s.known
    BY <1>0, <1>1
  <2>2. \A x \in s.canonical : Height[x] > 1 => Parent[x] \in s.canonical
    BY <1>2, <1>3 DEF Linked
  <2> QED
    BY <1>5, <2>1, <2>2 DEF Linked
<1>10. RowsAgree(s)
  <2>1. \A T \in EntityTables : s.live[T] = s.canonical
    BY <1>1 DEF Sound, RowsAgree
  <2>2. \A x \in Blocks : s.copies[x] = IF x \in s.known THEN 1 ELSE 0
    <3>1. img.copies \in [Blocks -> Nat]
      BY DEF Image
    <3> QED
      BY <1>1, <3>1 DEF Sound, RowsAgree
  <2> QED
    BY <2>1, <2>2 DEF RowsAgree
<1>11. s.canonical \subseteq s.known
  BY <1>0, <1>1
<1> QED
  BY <1>5, <1>6, <1>7, <1>8, <1>9, <1>10, <1>11 DEF Sound, ParentsKnown, s

(* The empty database satisfies the invariant. *)
LEMMA InitIInv == Init => IInv
<1> SUFFICES ASSUME Init PROVE IInv
  OBVIOUS
<1>1. TypeOK
  BY DEF Init, TypeOK, EmptyImage, Image, Txn, Event, NoTxn, NoEvent
<1>2. Sound(db) /\ Linked(db)
  BY DEF Init, EmptyImage, Sound, Linked, ParentsKnown, OnePerHeight, Covered, TipOnTop, RowsAgree
<1>3. RestoreInv /\ StoreInv
  BY DEF Init, NoTxn, RestoreInv, StoreInv
<1> QED
  BY <1>1, <1>2, <1>3 DEF IInv

(* BEGIN copies a sound image; if the block builds on an orphaned parent, no
   canonical block is as high as the block. *)
LEMMA BeginKeepsIInv ==
  ASSUME IInv, TypeOK', NEW b \in Blocks, BeginUpdate(b)
  PROVE  IInv'
<1> DEFINE tip == GetChainTipHeight(db)
<1>1. db' = db /\ db \in Image /\ Sound(db) /\ Linked(db)
  BY DEF BeginUpdate, Begun, IInv, TypeOK
<1>2. tip \in Nat /\ IsTipOf(tip, db)
  BY <1>1, TipHeight
<1>3. Height[b] > 1 => HasParentRow(db, b)
  BY DEF BeginUpdate, Begun, Accepts
<1>4. \/ /\ BuildsOnOrphan(db, b, tip)
         /\ txn' = [pc |-> "restore", block |-> b, tip |-> tip, cursor |-> Parent[b], work |-> db]
      \/ /\ ~BuildsOnOrphan(db, b, tip)
         /\ txn' = [pc |-> "store", block |-> b, tip |-> tip, work |-> db]
  BY DEF BeginUpdate, Begun
<1> HIDE DEF tip
<1>5. db.known \subseteq Blocks /\ db.canonical \subseteq db.known
  BY <1>1 DEF Image, Sound
<1>6. WorkInv(txn.work)'
  <2>1. txn'.work = db /\ txn'.tip = tip
    BY <1>4
  <2>2. PrunedSince(txn.work)' /\ PrunedBecauseMined(txn.work)'
    BY <1>1, <2>1 DEF PrunedSince, PrunedBecauseMined
  <2>3. Sound(txn.work)' /\ IsTipOf(txn.tip, txn.work)'
    BY <1>1, <1>2, <2>1 DEF Sound, IsTipOf, ParentsKnown, HasParentRow, OnePerHeight, Covered,
                            TipOnTop, TipRows, RowsAgree
  <2> QED
    BY <1>1, <2>1, <2>2, <2>3 DEF WorkInv
<1>7. RestoreInv'
  <2> SUFFICES ASSUME txn'.pc = "restore" PROVE RestoreInv'
    BY DEF RestoreInv
  <2>1. /\ BuildsOnOrphan(db, b, tip)
        /\ txn'.block = b /\ txn'.cursor = Parent[b] /\ txn'.work = db /\ txn'.tip = tip
    BY <1>4
  <2>2. /\ HasParentRow(db, b) /\ Height[b] > tip
        /\ Parent[b] \in db.known \ db.canonical
        /\ Height[b] = Height[Parent[b]] + 1
    <3>1. HasParentRow(db, b) /\ Height[b] > tip /\ Parent[b] \notin db.canonical
      BY <1>3, <2>1 DEF BuildsOnOrphan
    <3> QED
      BY <3>1, <1>5, ChainAssumption DEF HasParentRow
  <2>3. LinkedDownTo(db, Parent[b])
    <3> SUFFICES ASSUME NEW x \in db.canonical, Height[x] > 1
                 PROVE  Height[x] # Height[b] /\ Parent[x] \in db.canonical
      BY <2>2 DEF LinkedDownTo
    <3>1. Height[x] <= tip /\ Height[x] \in Nat /\ Height[b] \in Nat
      BY <1>2, <1>5, ChainAssumption DEF IsTipOf
    <3>2. Parent[x] \in db.canonical
      BY <1>1 DEF Linked
    <3> QED
      BY <1>2, <2>2, <3>1, <3>2
  <2>4. LinkedDownTo(txn.work, txn.cursor)' /\ HasParentRow(txn.work, txn.block)'
    BY <2>1, <2>2, <2>3 DEF LinkedDownTo, HasParentRow
  <2> QED
    BY <1>1, <1>6, <2>1, <2>2, <2>4 DEF RestoreInv
<1>8. StoreInv'
  <2> SUFFICES ASSUME txn'.pc = "store" PROVE StoreInv'
    BY DEF StoreInv
  <2>1. /\ ~BuildsOnOrphan(db, b, tip)
        /\ txn'.block = b /\ txn'.work = db /\ txn'.tip = tip
    BY <1>4
  <2>2. (Height[b] > tip /\ Height[b] > 1) => Parent[b] \in db.canonical
    BY <2>1 DEF BuildsOnOrphan
  <2>3. Linked(txn.work)' /\ (Height[b] > 1 => HasParentRow(txn.work, txn.block)')
    BY <1>1, <1>3, <2>1 DEF Linked, HasParentRow
  <2> QED
    BY <1>1, <1>6, <2>1, <2>2, <2>3 DEF StoreInv
<1>9. Sound(db)' /\ Linked(db)'
  BY <1>1 DEF Sound, Linked, ParentsKnown, HasParentRow, OnePerHeight, Covered, TipOnTop, TipRows,
              RowsAgree
<1> QED
  BY <1>7, <1>8, <1>9 DEF IInv

(* One restoration: the chain below the cursor is untouched, the chain above
   it is linked down to the block just restored. *)
LEMMA RestoreKeepsIInv ==
  ASSUME IInv, TypeOK', RestoreOrphanedChain
  PROVE  IInv'
<1>w. PICK w : w = txn.work
  OBVIOUS
<1>c. PICK c : c = txn.cursor
  OBVIOUS
<1>r. PICK r : r = RestoreBlock(w, c)
  OBVIOUS
<1>1. /\ txn.pc = "restore" /\ db' = db
      /\ txn \in [pc : {"restore"}, block : Blocks, tip : Nat, cursor : Blocks, work : Image]
  BY DEF RestoreOrphanedChain, Restored, FindsOrphan, IInv, TypeOK, Txn, NoTxn
<1>2. /\ w \in Image /\ c \in w.known \ w.canonical /\ txn.block \in Blocks
      /\ Sound(w) /\ w.known = db.known /\ PrunedBecauseMined(w) /\ PrunedSince(w)
      /\ IsTipOf(txn.tip, w) /\ LinkedDownTo(w, c)
      /\ HasParentRow(w, txn.block) /\ Height[txn.block] > txn.tip
      /\ \/ c = Parent[txn.block]
         \/ Parent[txn.block] \in w.canonical /\ Height[c] < Height[Parent[txn.block]]
      /\ \A b \in Blocks : Height[b] <= Height[c] => (b \in w.canonical <=> b \in db.canonical)
  BY <1>w, <1>c, <1>1 DEF IInv, RestoreInv, WorkInv
<1>3. /\ r \in Image
      /\ r.known = w.known
      /\ r.canonical = (w.canonical \ Conflicting(w, c)) \cup {c}
      /\ r.mempool = w.mempool \ TxsOf[c]
  BY <1>r, <1>2, RestoreFields DEF Sound
<1>4. /\ Sound(r)
      /\ ParentIsOrphaned(r, c) => Parent[c] \in r.known \ r.canonical /\ LinkedDownTo(r, Parent[c])
      /\ ~ParentIsOrphaned(r, c) => Linked(r)
  BY <1>r, <1>2, RestoreKeepsSound
<1>5. \/ /\ ParentIsOrphaned(r, c)
         /\ txn' = [pc |-> "restore", block |-> txn.block, tip |-> txn.tip,
                    cursor |-> Parent[c], work |-> r]
      \/ /\ ~ParentIsOrphaned(r, c)
         /\ txn' = [pc |-> "store", block |-> txn.block, tip |-> txn.tip, work |-> r]
  BY <1>w, <1>c, <1>r DEF RestoreOrphanedChain, Restored, FindsOrphan
<1>6. w.known \subseteq Blocks /\ w.canonical \subseteq w.known /\ c \in Blocks
  BY <1>2 DEF Image, Sound
<1>7. \A x \in Blocks : Height[x] # Height[c] => (x \in r.canonical <=> x \in w.canonical)
  BY <1>3 DEF Conflicting
<1>8. txn'.work = r /\ txn'.tip = txn.tip /\ txn'.block = txn.block
  BY <1>1, <1>5
<1>9. c \notin db.canonical /\ c \in r.canonical
  BY <1>2, <1>3, <1>6, ChainAssumption
<1>10. WorkInv(r)'
  <2>1. PrunedSince(r)
    BY <1>2, <1>3 DEF PrunedSince
  <2>2. PrunedBecauseMined(r)
    <3> SUFFICES ASSUME NEW t \in db.mempool \ r.mempool
                 PROVE  \E b \in r.canonical \ db.canonical : t \in TxsOf[b]
      BY DEF PrunedBecauseMined
    <3>1. CASE t \in w.mempool
      BY <1>3, <1>9, <3>1
    <3>2. CASE t \notin w.mempool
      <4>1. PICK b \in w.canonical \ db.canonical : t \in TxsOf[b]
        BY <1>2, <3>2 DEF PrunedBecauseMined
      <4>2. Height[b] # Height[c]
        BY <1>2, <1>6, <4>1, ChainAssumption
      <4> QED
        BY <1>6, <1>7, <4>1, <4>2
    <3> QED
      BY <3>1, <3>2
  <2>3. IsTipOf(txn.tip, r)
    BY <1>2, <1>3 DEF IsTipOf
  <2> QED
    BY <1>1, <1>2, <1>3, <1>4, <1>8, <2>1, <2>2, <2>3
       DEF WorkInv, PrunedSince, PrunedBecauseMined, IsTipOf
<1>11. /\ HasParentRow(r, txn.block)
       /\ Parent[txn.block] \in r.canonical
  <2>1. HasParentRow(r, txn.block)
    BY <1>2, <1>3 DEF HasParentRow
  <2>2. Parent[txn.block] \in Blocks /\ Height[Parent[txn.block]] \in Nat /\ Height[c] \in Nat
    BY <1>2, <1>6, ChainAssumption
  <2> QED
    BY <1>2, <1>7, <1>9, <2>1, <2>2
<1>12. RestoreInv'
  <2> SUFFICES ASSUME txn'.pc = "restore" PROVE RestoreInv'
    BY DEF RestoreInv
  <2>1. ParentIsOrphaned(r, c) /\ txn'.cursor = Parent[c]
    BY <1>1, <1>5
  <2>2. Parent[c] \in Blocks /\ Height[Parent[c]] + 1 = Height[c] /\ Height[Parent[c]] \in Nat
    BY <1>6, <2>1, ChainAssumption DEF ParentIsOrphaned, HasParentRow
  <2>3. \A b \in Blocks : Height[b] <= Height[Parent[c]] => (b \in r.canonical <=> b \in db.canonical)
    <3> SUFFICES ASSUME NEW b \in Blocks, Height[b] <= Height[Parent[c]]
                 PROVE  b \in r.canonical <=> b \in db.canonical
      OBVIOUS
    <3>1. Height[b] <= Height[c] /\ Height[b] # Height[c]
      BY <2>2, ChainAssumption
    <3> QED
      BY <1>2, <1>7, <3>1
  <2>4. Parent[txn.block] \in r.canonical /\ Height[Parent[c]] < Height[Parent[txn.block]]
    <3>1. Parent[txn.block] \in Blocks /\ Height[Parent[txn.block]] \in Nat
      BY <1>2, ChainAssumption
    <3> QED
      BY <1>2, <1>11, <2>2, <3>1
  <2> QED
    BY <1>1, <1>2, <1>4, <1>8, <1>10, <1>11, <2>1, <2>3, <2>4 DEF RestoreInv, LinkedDownTo, HasParentRow
<1>13. StoreInv'
  <2> SUFFICES ASSUME txn'.pc = "store" PROVE StoreInv'
    BY DEF StoreInv
  <2>1. ~ParentIsOrphaned(r, c)
    BY <1>1, <1>5
  <2> QED
    BY <1>2, <1>4, <1>8, <1>10, <1>11, <2>1 DEF StoreInv, Linked, HasParentRow
<1>14. Sound(db)' /\ Linked(db)'
  BY <1>1 DEF IInv, Sound, Linked, ParentsKnown, HasParentRow, OnePerHeight, Covered, TipOnTop,
              TipRows, RowsAgree
<1> QED
  BY <1>12, <1>13, <1>14 DEF IInv

(* COMMIT: the image becomes the database. *)
LEMMA CommitKeepsIInv ==
  ASSUME IInv, TypeOK', CommitUpdate
  PROVE  IInv'
<1> DEFINE s == StoreBlock(txn.work, txn.block, txn.tip)
<1>1. /\ txn.pc = "store" /\ db' = s /\ txn'.pc = "emit"
      /\ txn \in [pc : {"store"}, block : Blocks, tip : Nat, work : Image]
  BY DEF CommitUpdate, IInv, TypeOK, Txn, NoTxn
<1>2. WorkInv(txn.work) /\ Linked(txn.work) /\ StoreInv
  BY <1>1 DEF IInv, StoreInv
<1>3. Sound(s) /\ Linked(s)
  <2>1. CASE txn.block \in txn.work.known
    <3>1. Height[txn.block] <= txn.tip /\ Height[txn.block] \in Nat /\ txn.tip \in Nat
      BY <1>1, <1>2, <2>1, ChainAssumption DEF WorkInv, IsTipOf
    <3>2. s = txn.work
      BY <2>1, <3>1, StoreAgain
    <3> QED
      BY <1>2, <3>2 DEF WorkInv
  <2>2. CASE txn.block \notin txn.work.known
    BY <1>1, <1>2, <2>2, StoreKeepsSound DEF WorkInv, StoreInv
  <2> QED
    BY <2>1, <2>2
<1> HIDE DEF s
<1>4. Sound(db)' /\ Linked(db)'
  BY <1>1, <1>3 DEF Sound, Linked, ParentsKnown, HasParentRow, OnePerHeight, Covered, TipOnTop,
                    TipRows, RowsAgree
<1> QED
  BY <1>1, <1>4 DEF IInv, RestoreInv, StoreInv

(* Every step keeps the invariant. *)
LEMMA IInvStep == IInv /\ [Next]_vars => IInv'
<1> SUFFICES ASSUME IInv, [Next]_vars PROVE IInv'
  OBVIOUS
<1>0. TypeOK'
  BY TypeStep DEF IInv
<1>1. ASSUME NEW b \in Blocks, BeginUpdate(b) PROVE IInv'
  BY <1>0, <1>1, BeginKeepsIInv
<1>2. CASE RestoreOrphanedChain
  BY <1>0, <1>2, RestoreKeepsIInv
<1>3. CASE CommitUpdate
  BY <1>0, <1>3, CommitKeepsIInv
<1> USE DEF Sound, Linked, ParentsKnown, HasParentRow, OnePerHeight, Covered, TipOnTop, TipRows,
            RowsAgree
<1>4. CASE EmitUpdate
  BY <1>0, <1>4 DEF EmitUpdate, NoTxn, IInv, RestoreInv, StoreInv
<1>5. CASE Fail
  BY <1>0, <1>5 DEF Fail, NoTxn, IInv, RestoreInv, StoreInv
<1>6. ASSUME NEW t \in Txs, UpdateMempoolTx(t) PROVE IInv'
  <2>1. /\ db'.known = db.known /\ db'.canonical = db.canonical
        /\ db'.live = db.live /\ db'.copies = db.copies
    BY <1>6 DEF UpdateMempoolTx, IInv, TypeOK, Image
  <2>2. txn = NoTxn /\ txn' = NoTxn
    BY <1>6 DEF UpdateMempoolTx
  <2> QED
    BY <1>0, <2>1, <2>2 DEF NoTxn, IInv, RestoreInv, StoreInv
<1>7. CASE UNCHANGED vars
  BY <1>0, <1>7 DEF vars, IInv, RestoreInv, StoreInv, WorkInv, PrunedSince, PrunedBecauseMined,
                    IsTipOf, LinkedDownTo
<1> QED
  BY <1>1, <1>2, <1>3, <1>4, <1>5, <1>6, <1>7 DEF Next

(* The inductive invariant holds in every reachable state. *)
THEOREM Invariance == Spec => []IInv
  BY InitIInv, IInvStep, PTL DEF Spec

-----------------------------------------------------------------------------
(***************************************************************************)
(* What readers of the database can rely on.                               *)
(***************************************************************************)

(* Whatever the order of deliveries, reorganisations and failures, the blocks
   readers see as canonical form one linked chain without a gap. *)
THEOREM CanonicalChainIsOne == Spec => []OneCanonicalChain
<1>1. IInv => OneCanonicalChain
  BY DEF IInv, Sound, OneCanonicalChain
<1> QED
  BY <1>1, Invariance, PTL

(* In every entity table the flags are those of the blocks. *)
THEOREM EntitiesAgree == Spec => []EntitiesFollowBlocks
<1>1. IInv => EntitiesFollowBlocks
  BY DEF IInv, Sound, RowsAgree, EntitiesFollowBlocks
<1> QED
  BY <1>1, Invariance, PTL

(* The rows of a block are inserted once, however often it is delivered. *)
THEOREM NoDuplicateRows == Spec => []RowsInsertedOnce
<1>1. IInv => RowsInsertedOnce
  BY DEF IInv, Sound, RowsAgree, RowsInsertedOnce
<1> QED
  BY <1>1, Invariance, PTL

(* restoreOrphanedChain is never called for a block it cannot restore. *)
THEOREM RestoreNeverThrows == Spec => []RestoreFindsOrphan
<1>1. IInv => RestoreFindsOrphan
  BY DEF IInv, RestoreInv, RestoreFindsOrphan, FindsOrphan
<1> QED
  BY <1>1, Invariance, PTL

(* A commit of a block already stored writes back the image it began with; a
   commit of a new block is StoreBlock of a sound image. *)
LEMMA CommitCases ==
  ASSUME IInv, CommitUpdate
  PROVE  /\ txn.block \in Blocks /\ txn.tip \in Nat /\ txn.work \in Image /\ StoreInv
         /\ WorkInv(txn.work) /\ Linked(txn.work)
         /\ db' = StoreBlock(txn.work, txn.block, txn.tip)
         /\ txn.block \in db.known => db' = db
<1>1. /\ txn.pc = "store" /\ db' = StoreBlock(txn.work, txn.block, txn.tip)
      /\ txn \in [pc : {"store"}, block : Blocks, tip : Nat, work : Image]
  BY DEF CommitUpdate, IInv, TypeOK, Txn, NoTxn
<1>2. StoreInv /\ WorkInv(txn.work) /\ Linked(txn.work)
  BY <1>1 DEF IInv, StoreInv
<1>3. ASSUME txn.block \in db.known PROVE db' = db
  <2>1. txn.block \in txn.work.known
    BY <1>2, <1>3 DEF WorkInv
  <2>2. ~(Height[txn.block] > txn.tip)
    BY <1>1, <1>2, <2>1, ChainAssumption DEF WorkInv, IsTipOf
  <2>3. db' = txn.work
    BY <1>1, <2>1, <2>2, StoreAgain
  <2> QED
    BY <1>1, <1>2, <2>2, <2>3 DEF StoreInv
<1> QED
  BY <1>1, <1>2, <1>3

(* Delivering a block again changes no table. *)
THEOREM RedeliveryIsHarmless == Spec => RedeliveryChangesNothing
<1>1. IInv /\ [Next]_vars => [(txn.pc = "store" /\ txn.block \in db.known) => db' = db]_vars
  <2> SUFFICES ASSUME IInv, Next, txn.pc = "store", txn.block \in db.known PROVE db' = db
    OBVIOUS
  <2>1. CASE CommitUpdate
    BY <2>1, CommitCases
  <2>2. txn # NoTxn
    BY DEF NoTxn
  <2> QED
    BY <2>1, <2>2 DEF Next, BeginUpdate, Begun, RestoreOrphanedChain, Restored, FindsOrphan, EmitUpdate, Fail, UpdateMempoolTx
<1> QED
  BY <1>1, Invariance, PTL DEF Spec, RedeliveryChangesNothing

(* How a commit of a new block moves the canonical flags and the mempool. *)
LEMMA NewBlockCommit ==
  ASSUME IInv, CommitUpdate, txn.block \notin db.known
  PROVE  /\ db'.known = db.known \cup {txn.block}
         /\ Height[txn.block] > txn.tip =>
              /\ db'.canonical = txn.work.canonical \cup {txn.block}
              /\ db'.mempool = txn.work.mempool \ TxsOf[txn.block]
         /\ ~(Height[txn.block] > txn.tip) =>
              /\ txn.work = db
              /\ db'.canonical = db.canonical
              /\ db'.mempool = db.mempool
<1>1. PICK b, w, tip : b = txn.block /\ w = txn.work /\ tip = txn.tip
  OBVIOUS
<1>2. b \in Blocks /\ w \in Image /\ b \notin w.known
  BY <1>1, CommitCases DEF WorkInv
<1> DEFINE s == StoreBlock(w, b, tip)
<1>3. ASSUME Height[b] > tip
      PROVE  /\ s \in Image
             /\ s.known = w.known \cup {b}
             /\ s.canonical = w.canonical \cup {b}
             /\ \A T \in EntityTables : s.live[T] = w.live[T] \cup {b}
             /\ s.copies = [w.copies EXCEPT ![b] = @ + 1]
             /\ s.mempool = w.mempool \ TxsOf[b]
  BY <1>2, <1>3, StoreOnTopFields
<1>4. ASSUME ~(Height[b] > tip)
      PROVE  /\ s \in Image
             /\ s.known = w.known \cup {b}
             /\ s.canonical = w.canonical
             /\ \A T \in EntityTables : s.live[T] = w.live[T]
             /\ s.copies = [w.copies EXCEPT ![b] = @ + 1]
             /\ s.mempool = w.mempool
  BY <1>2, <1>4, StoreAsideFields
<1>5. db' = s /\ w.known = db.known
  BY <1>1, CommitCases DEF WorkInv
<1>6. ~(Height[b] > tip) => w = db
  BY <1>1, CommitCases DEF StoreInv, CommitUpdate
<1> HIDE DEF s
<1> QED
  BY <1>1, <1>3, <1>4, <1>5, <1>6

(* A transaction leaves the mempool in the commit that makes it canonical. *)
THEOREM MinedTxsLeaveMempool == Spec => MinedLeavesMempool
<1>1. IInv /\ [Next]_vars =>
        [\A b \in db'.canonical \ db.canonical : TxsOf[b] \cap db'.mempool = {}]_vars
  <2> SUFFICES ASSUME IInv, Next, NEW b \in db'.canonical \ db.canonical
               PROVE  TxsOf[b] \cap db'.mempool = {}
    OBVIOUS
  <2>1. CASE CommitUpdate
    <3>1. txn.block \notin db.known
      BY <2>1, CommitCases
    <3>2. Height[txn.block] > txn.tip
      BY <2>1, <3>1, NewBlockCommit
    <3>3. /\ db'.canonical = txn.work.canonical \cup {txn.block}
          /\ db'.mempool = txn.work.mempool \ TxsOf[txn.block]
      BY <2>1, <3>1, <3>2, NewBlockCommit
    <3>4. PrunedSince(txn.work)
      BY <2>1, CommitCases DEF WorkInv
    <3> QED
      BY <3>3, <3>4 DEF PrunedSince
  <2>2. ASSUME NEW t \in Txs, UpdateMempoolTx(t) PROVE db'.canonical = db.canonical
    BY <2>2 DEF UpdateMempoolTx, IInv, TypeOK, Image
  <2> QED
    BY <2>1, <2>2 DEF Next, BeginUpdate, Begun, RestoreOrphanedChain, Restored, FindsOrphan, EmitUpdate, Fail
<1> QED
  BY <1>1, Invariance, PTL DEF Spec, MinedLeavesMempool

(* A step forgets no block, and takes a transaction out of the mempool only when
   a canonical block has it. *)
LEMMA StepLosesNothing ==
  ASSUME IInv, [Next]_vars
  PROVE  /\ db.known \subseteq db'.known
         /\ \A t \in db.mempool \ db'.mempool : \E b \in db'.canonical : t \in TxsOf[b]
         /\ CommitUpdate => txn.block \in db'.known
<1>1. CASE CommitUpdate
  <2>1. CASE txn.block \in db.known
    BY <1>1, <2>1, CommitCases
  <2>2. CASE txn.block \notin db.known /\ Height[txn.block] > txn.tip
    <3>1. /\ db'.canonical = txn.work.canonical \cup {txn.block}
          /\ db'.mempool = txn.work.mempool \ TxsOf[txn.block]
          /\ db'.known = db.known \cup {txn.block}
      BY <1>1, <2>2, NewBlockCommit
    <3>2. PrunedBecauseMined(txn.work)
      BY <1>1, CommitCases DEF WorkInv
    <3> QED
      BY <3>1, <3>2 DEF PrunedBecauseMined
  <2>3. CASE txn.block \notin db.known /\ ~(Height[txn.block] > txn.tip)
    BY <1>1, <2>3, NewBlockCommit
  <2> QED
    BY <2>1, <2>2, <2>3
<1>2. ASSUME NEW u \in Txs, UpdateMempoolTx(u)
      PROVE  db.mempool \subseteq db'.mempool /\ db'.known = db.known /\ ~CommitUpdate
  BY <1>2 DEF UpdateMempoolTx, CommitUpdate, NoTxn, IInv, TypeOK, Image
<1>3. CASE ~CommitUpdate /\ db' = db
  BY <1>3
<1> QED
  BY <1>1, <1>2, <1>3 DEF Next, vars, BeginUpdate, RestoreOrphanedChain, EmitUpdate, Fail

(* And nothing else takes a transaction out of the mempool. *)
THEOREM OnlyMinedTxsLeaveMempool == Spec => OnlyMinedLeavesMempool
<1>1. IInv /\ [Next]_vars =>
        [\A t \in db.mempool \ db'.mempool : \E b \in db'.canonical : t \in TxsOf[b]]_vars
  BY StepLosesNothing
<1> QED
  BY <1>1, Invariance, PTL DEF Spec, OnlyMinedLeavesMempool

-----------------------------------------------------------------------------
(***************************************************************************)
(* The store implements its fork choice: COMMIT of a new block is Accept,  *)
(* every other step leaves the committed blocks alone.                     *)
(***************************************************************************)

(* COMMIT of a new block accepts it. *)
LEMMA CommitAccepts ==
  ASSUME IInv, IInv', CommitUpdate, txn.block \notin db.known
  PROVE  Promise!Accept(txn.block)
<1> DEFINE b == txn.block
<1>1. /\ b \in Blocks /\ txn.tip \in Nat /\ StoreInv /\ WorkInv(txn.work)
      /\ txn.work.known = db.known /\ IsTipOf(txn.tip, txn.work) /\ txn.work.canonical \subseteq db.known
      /\ db.known \subseteq Blocks /\ Height[b] \in Nat
  BY CommitCases, ChainAssumption DEF WorkInv, Sound, Image, IInv, TypeOK
<1>2. Promise!Attaches(b)
  BY <1>1 DEF StoreInv, CommitUpdate, HasParentRow, Promise!Attaches
<1>3. db'.known = db.known \cup {b}
  BY NewBlockCommit
<1>4. Promise!Extends(b) <=> Height[b] > txn.tip
  <2>1. \A k \in db.known : Height[k] \in Nat
    BY <1>1, ChainAssumption
  <2>2. Height[b] >= 1
    BY <1>1, ChainAssumption
  <2> QED
    BY <1>1, <2>1, <2>2 DEF Promise!Extends, IsTipOf
<1>5. ASSUME Height[b] > txn.tip
      PROVE  db'.canonical \in SUBSET db'.known /\ Promise!IsPathTo(db'.canonical, b)
  <2>1. db'.canonical = txn.work.canonical \cup {b}
    BY <1>5, NewBlockCommit
  <2>2. \A c \in db'.canonical : Height[c] <= Height[b]
    BY <1>1, <1>5, <2>1, ChainAssumption DEF IsTipOf
  <2>3. Sound(db)' /\ Linked(db)'
    BY DEF IInv
  <2>4. \A c, d \in db'.canonical : Height[c] = Height[d] => c = d
    BY <2>3 DEF Sound, OnePerHeight
  <2>5. \A c \in db'.canonical : Height[c] > 1 => /\ Parent[c] \in db'.canonical
                                                 /\ Height[Parent[c]] = Height[c] - 1
    BY <2>3 DEF Linked, HasParentRow
  <2> QED
    BY <1>1, <1>3, <2>1, <2>2, <2>4, <2>5 DEF Promise!IsPathTo
<1>6. ASSUME ~(Height[b] > txn.tip) PROVE db'.canonical = db.canonical
  BY <1>6, NewBlockCommit
<1> QED
  BY <1>2, <1>3, <1>4, <1>5, <1>6 DEF Promise!Accept

(* The detailed store implements ForkChoice. *)
THEOREM ImplementsForkChoice == Spec => ForkChoiceSpec
<1>1. Init => Promise!Init
  BY DEF Init, EmptyImage, Promise!Init
<1>2. IInv /\ IInv' /\ [Next]_vars => [Promise!Next]_<<db.known, db.canonical>>
  <2> SUFFICES ASSUME IInv, IInv', [Next]_vars,
                      ~(db'.known = db.known /\ db'.canonical = db.canonical)
               PROVE  Promise!Next
    OBVIOUS
  <2>1. CASE CommitUpdate
    <3>1. txn.block \notin db.known /\ txn.block \in Blocks
      BY <2>1, CommitCases
    <3> QED
      BY <2>1, <3>1, CommitAccepts DEF Promise!Next
  <2>2. ASSUME NEW t \in Txs, UpdateMempoolTx(t) PROVE FALSE
    BY <2>2 DEF UpdateMempoolTx, IInv, TypeOK, Image
  <2> QED
    BY <2>1, <2>2 DEF Next, vars, BeginUpdate, Begun, RestoreOrphanedChain, Restored, FindsOrphan, EmitUpdate, Fail
<1> QED
  BY <1>1, <1>2, Invariance, PTL DEF Spec, ForkChoiceSpec, Promise!Spec, Promise!vars

=============================================================================
