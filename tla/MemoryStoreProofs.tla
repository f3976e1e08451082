-------------------------- MODULE MemoryStoreProofs --------------------------
(***************************************************************************)
(* Proofs about MemoryStore, for every tree of blocks and every content of *)
(* theirs.                                                                 *)
(***************************************************************************)
EXTENDS MemoryStore, TLAPS

-----------------------------------------------------------------------------
(***************************************************************************)
(* What the Maps hold after update().                                      *)
(***************************************************************************)

LEMMA BlocksAfter ==
  ASSUME NEW b \in Blocks, Update(b)
  PROVE  /\ DOMAIN blocks' = DOMAIN blocks \cup {b}
         /\ blocks'[b] = TRUE
         /\ \A o \in DOMAIN blocks \ {b} : blocks'[o] = (blocks[o] /\ ~Orphans(b, o))
<1> DEFINE new == [o \in {b} |-> TRUE]
           old == [o \in DOMAIN blocks |-> blocks[o] /\ ~Orphans(b, o)]
<1>1. DOMAIN new = {b} /\ new[b] = TRUE
  OBVIOUS
<1>2. blocks' = Put(old, new)
  BY DEF Update
<1>3. DOMAIN old = DOMAIN blocks
  OBVIOUS
<1>4. \A o \in DOMAIN blocks : old[o] = (blocks[o] /\ ~Orphans(b, o))
  OBVIOUS
<1> HIDE DEF new, old
<1>5. DOMAIN blocks' = DOMAIN new \cup DOMAIN old
  BY <1>2 DEF Put
<1>6. blocks'[b] = new[b]
  BY <1>1, <1>2 DEF Put
<1>7. \A o \in DOMAIN blocks \ {b} : blocks'[o] = old[o]
  BY <1>1, <1>2, <1>3 DEF Put
<1> QED
  BY <1>1, <1>3, <1>4, <1>5, <1>6, <1>7

LEMMA EventsAfter ==
  ASSUME NEW b \in Blocks, Update(b)
  PROVE  /\ DOMAIN events' = DOMAIN events \cup EventKeys(b)
         /\ \A k \in EventKeys(b) : events'[k] = TRUE
         /\ \A k \in DOMAIN events \ EventKeys(b) :
              events'[k] = (events[k] /\ ~Orphans(b, k[2]))
<1> DEFINE new == [k \in EventKeys(b) |-> TRUE]
<1>1. DOMAIN new = EventKeys(b) /\ \A k \in EventKeys(b) : new[k] = TRUE
  OBVIOUS
<1>2. /\ DOMAIN SweptEvents(b) = DOMAIN events
      /\ \A k \in DOMAIN events : SweptEvents(b)[k] = (events[k] /\ ~Orphans(b, k[2]))
  BY DEF SweptEvents
<1>3. events' = Put(SweptEvents(b), new)
  BY DEF Update
<1> HIDE DEF new
<1> QED
  BY <1>1, <1>2, <1>3 DEF Put

(* The keys of the events of b name b. *)
LEMMA KeyNamesBlock ==
  ASSUME NEW b \in Blocks, NEW k \in EventKeys(b)
  PROVE  k[2] = b
  BY DEF EventKeys

LEMMA RowsAfter ==
  ASSUME NEW b \in Blocks, NEW rows, NEW ts, NEW keys,
         MapOf(rows, keys, Row), ts \subseteq keys
  PROVE  MapOf(Put(SweptRows(rows, b), RowsOf(b, ts)), keys, Row)
<1> DEFINE new == RowsOf(b, ts)
           old == SweptRows(rows, b)
<1>1. DOMAIN new = ts /\ \A t \in ts : new[t] \in Row
  BY DEF RowsOf, Row
<1>2. DOMAIN old = DOMAIN rows /\ \A t \in DOMAIN rows : old[t] \in Row
  <2> SUFFICES ASSUME NEW t \in DOMAIN rows PROVE old[t] \in Row
    BY DEF SweptRows
  <2>1. rows[t] \in Row
    BY DEF MapOf
  <2>2. old[t] = [rows[t] EXCEPT !.canonical = @ /\ ~Orphans(b, rows[t].block)]
    BY DEF SweptRows
  <2>3. (rows[t].canonical /\ ~Orphans(b, rows[t].block)) \in BOOLEAN
    OBVIOUS
  <2> QED
    BY <2>1, <2>2, <2>3 DEF Row
<1> HIDE DEF new, old
<1>3. DOMAIN Put(old, new) = ts \cup DOMAIN rows
  BY <1>1, <1>2 DEF Put
<1>4. \A t \in ts : Put(old, new)[t] = new[t]
  BY <1>1 DEF Put
<1>5. \A t \in DOMAIN rows \ ts : Put(old, new)[t] = old[t]
  BY <1>1, <1>2 DEF Put
<1>6. MapOf(Put(old, new), keys, Row)
  BY <1>1, <1>2, <1>3, <1>4, <1>5 DEF MapOf
<1> QED
  BY <1>6 DEF new, old

-----------------------------------------------------------------------------
(***************************************************************************)
(* Types.                                                                  *)
(***************************************************************************)

LEMMA InitType == Init => TypeOK
<1> SUFFICES ASSUME Init PROVE TypeOK
  OBVIOUS
<1>1. DOMAIN <<>> = {}
  OBVIOUS
<1>2. \A keys, values : MapOf(<<>>, keys, values)
  BY <1>1 DEF MapOf
<1> QED
  BY <1>2 DEF Init, TypeOK

LEMMA UpdateType ==
  ASSUME TypeOK, NEW b \in Blocks, Update(b)
  PROVE  TypeOK'
<1>1. MapOf(blocks, Blocks, BOOLEAN)'
  <2>1. DOMAIN blocks' \subseteq Blocks
    BY BlocksAfter DEF TypeOK, MapOf
  <2>2. \A o \in DOMAIN blocks' : blocks'[o] \in BOOLEAN
    BY BlocksAfter
  <2> QED
    BY <2>1, <2>2 DEF MapOf
<1>2. MapOf(txs, Txs, Row)'
  BY RowsAfter, MemoryAssumption DEF MemoryAssumption, TypeOK, Update, TxRowsAfter
<1>3. MapOf(events, UNION {EventKeys(o) : o \in Blocks}, BOOLEAN)'
  <2> DEFINE all == UNION {EventKeys(o) : o \in Blocks}
  <2>1. all' = all
    BY DEF EventKeys
  <2>2. EventKeys(b) \subseteq all
    OBVIOUS
  <2>3. DOMAIN events' \subseteq all
    BY <2>2, EventsAfter DEF TypeOK, MapOf
  <2>4. \A k \in DOMAIN events' : events'[k] \in BOOLEAN
    BY EventsAfter
  <2> QED
    BY <2>1, <2>3, <2>4 DEF MapOf
<1>4. MapOf(contracts, Deploys, Row)'
  BY RowsAfter DEF TypeOK, Update, Deployed
<1> QED
  BY <1>1, <1>2, <1>3, <1>4 DEF TypeOK, Update

-----------------------------------------------------------------------------
(***************************************************************************)
(* Whatever the node announces: one canonical block at a height, and the   *)
(* events with their blocks.                                               *)
(***************************************************************************)

LEMMA InitSafe == Init => OnePerHeight /\ EventsFollowBlocks
<1> SUFFICES ASSUME Init PROVE OnePerHeight /\ EventsFollowBlocks
  OBVIOUS
<1>1. DOMAIN blocks = {} /\ DOMAIN events = {}
  BY DEF Init
<1> QED
  BY <1>1 DEF OnePerHeight, EventsFollowBlocks, Canonical

(* A block that stays canonical while b is delivered is below b, or above a
   height at which nothing was orphaned. *)
LEMMA CanonicalAfter ==
  ASSUME NEW b \in Blocks, Update(b)
  PROVE  Canonical' = {b} \cup {o \in Canonical \ {b} : ~Orphans(b, o)}
<1>1. ASSUME NEW c \in Canonical', c # b
      PROVE  c \in Canonical /\ ~Orphans(b, c)
  BY <1>1, BlocksAfter DEF Canonical
<1>2. b \in Canonical'
  BY BlocksAfter DEF Canonical
<1>3. ASSUME NEW c \in Canonical, c # b, ~Orphans(b, c)
      PROVE  c \in Canonical'
  BY <1>3, BlocksAfter DEF Canonical
<1> QED
  BY <1>1, <1>2, <1>3

LEMMA UpdateOnePerHeight ==
  ASSUME TypeOK, OnePerHeight, NEW b \in Blocks, Update(b)
  PROVE  OnePerHeight'
<1>1. Canonical \subseteq Blocks
  BY DEF Canonical, TypeOK, MapOf
<1>2. \A c \in Blocks : Height[c] \in Nat
  BY MemoryAssumption DEF MemoryAssumption
<1>3. ASSUME NEW c \in Canonical', Height[c] = Height[b]
      PROVE  c = b
  <2> SUFFICES ASSUME c # b PROVE FALSE
    OBVIOUS
  <2>1. c \in Canonical /\ ~Orphans(b, c)
    BY CanonicalAfter
  <2>2. ReorgDetected(b)
    BY <1>3, <2>1 DEF ReorgDetected, Canonical
  <2> QED
    BY <1>1, <1>2, <1>3, <2>1, <2>2 DEF Orphans
<1>4. \A c \in Canonical' : c = b \/ c \in Canonical
  BY CanonicalAfter
<1> QED
  BY <1>3, <1>4 DEF OnePerHeight

LEMMA UpdateEvents ==
  ASSUME EventsFollowBlocks, NEW b \in Blocks, Update(b)
  PROVE  EventsFollowBlocks'
<1>1. DOMAIN events' = UNION {EventKeys(o) : o \in DOMAIN blocks'}
  <2>1. DOMAIN events = UNION {EventKeys(o) : o \in DOMAIN blocks}
    BY DEF EventsFollowBlocks
  <2>2. DOMAIN events' = DOMAIN events \cup EventKeys(b)
    BY EventsAfter
  <2>3. DOMAIN blocks' = DOMAIN blocks \cup {b}
    BY BlocksAfter
  <2>4. ASSUME NEW k
        PROVE  k \in DOMAIN events' <=> \E o \in DOMAIN blocks' : k \in EventKeys(o)
    BY <2>1, <2>2, <2>3
  <2> QED
    BY <2>4
<1>2. ASSUME NEW k \in DOMAIN events'
      PROVE  events'[k] = blocks'[k[2]]
  <2>1. CASE k \in EventKeys(b)
    BY <2>1, BlocksAfter, EventsAfter, KeyNamesBlock
  <2>2. CASE k \notin EventKeys(b)
    <3>1. k \in DOMAIN events
      BY <2>2, EventsAfter
    <3>2. PICK o \in DOMAIN blocks : k \in EventKeys(o)
      BY <3>1 DEF EventsFollowBlocks
    <3>3. k[2] = o
      BY <3>2 DEF EventKeys
    <3>4. o # b
      BY <2>2, <3>2
    <3>5. blocks'[o] = (blocks[o] /\ ~Orphans(b, o))
      BY <3>4, BlocksAfter
    <3>6. events'[k] = (events[k] /\ ~Orphans(b, o))
      BY <2>2, <3>1, <3>3, EventsAfter
    <3> QED
      BY <3>1, <3>3, <3>5, <3>6 DEF EventsFollowBlocks
  <2> QED
    BY <2>1, <2>2
<1>3. EventKeys(b)' = EventKeys(b)
  BY DEF EventKeys
<1> QED
  BY <1>1, <1>2 DEF EventsFollowBlocks, EventKeys

LEMMA InitIsSafe == Init => MemoryInv
  BY InitType, InitSafe DEF MemoryInv

LEMMA UpdateSafe ==
  ASSUME MemoryInv, NEW b \in Blocks, Update(b)
  PROVE  MemoryInv'
  BY UpdateType, UpdateOnePerHeight, UpdateEvents DEF MemoryInv

LEMMA StutterSafe == MemoryInv /\ UNCHANGED vars => MemoryInv'
  BY DEF MemoryInv, TypeOK, OnePerHeight, EventsFollowBlocks, Canonical, EventKeys, MapOf, vars

(* The invariant of the store, for every order in which the node announces the
   blocks of any forks.  memory-store.ts:73-145. *)
THEOREM Invariance == Spec => []MemoryInv
<1>1. MemoryInv /\ [Deliver]_vars => MemoryInv'
  BY UpdateSafe, StutterSafe DEF Deliver
<1> QED
  BY <1>1, InitIsSafe, PTL DEF Spec

(* Every Map keeps the type of its keys and values. *)
THEOREM TypeCorrect == Spec => []TypeOK
  BY Invariance, PTL DEF MemoryInv

(* Two canonical blocks never have one height, for every order in which the
   node announces the blocks of any forks.  memory-store.ts:73-114. *)
THEOREM OneBlockPerHeight == Spec => []OnePerHeight
  BY Invariance, PTL DEF MemoryInv

(* The four event Maps always agree with the blocks.  memory-store.ts:84-114. *)
THEOREM EventsAgree == Spec => []EventsFollowBlocks
  BY Invariance, PTL DEF MemoryInv

-----------------------------------------------------------------------------
(***************************************************************************)
(* While the node announces only blocks that build on the chain shown, the *)
(* store implements LastDelivered.                                         *)
(***************************************************************************)

(* The chain shown has a block at every height up to its tip's. *)
NoGaps ==
  \A c \in Canonical : \A h \in 1 .. Height[c] : \E d \in Canonical : Height[d] = h

Shown == Canonical = {} \/ \E t \in Canonical : Promise!IsPathTo(Canonical, t)

Chain == TypeOK /\ OnePerHeight /\ NoGaps /\ Shown

LEMMA InitChain == Init => Chain /\ Canonical = {}
<1> SUFFICES ASSUME Init PROVE Chain /\ Canonical = {}
  OBVIOUS
<1>1. Canonical = {}
  BY DEF Init, Canonical
<1> QED
  BY <1>1, InitType, InitSafe DEF Chain, NoGaps, Shown

(* A delivered block that is canonical already changes nothing. *)
LEMMA AgainChain ==
  ASSUME Chain, NEW b \in Canonical, b \in Blocks, Update(b)
  PROVE  Canonical' = Canonical
<1>1. ~ReorgDetected(b)
  BY DEF Chain, OnePerHeight, ReorgDetected, Canonical
<1>2. \A o \in Canonical : ~Orphans(b, o)
  BY <1>1 DEF Orphans
<1> QED
  BY <1>2, CanonicalAfter

(* Before a block whose parent is shown, everything at its height and above
   it goes: without a block at its height there is none above it. *)
LEMMA BelowNewBlock ==
  ASSUME Chain, NEW b \in Blocks, b \notin Canonical, Update(b)
  PROVE  Canonical' = {b} \cup {o \in Canonical : Height[o] < Height[b]}
<1>1. Canonical \subseteq Blocks
  BY DEF Chain, Canonical, TypeOK, MapOf
<1>2. \A c \in Blocks : Height[c] \in Nat \ {0}
  BY MemoryAssumption DEF MemoryAssumption
<1>3. ASSUME NEW o \in Canonical
      PROVE  Orphans(b, o) <=> ~(Height[o] < Height[b])
  <2>1. CASE ReorgDetected(b)
    BY <1>1, <1>2, <2>1 DEF Orphans
  <2>2. CASE ~ReorgDetected(b)
    <3>1. \A d \in Canonical : Height[d] # Height[b]
      BY <2>2 DEF ReorgDetected, Canonical
    <3>2. ~(Height[b] \in 1 .. Height[o])
      BY <3>1 DEF Chain, NoGaps
    <3>3. Height[o] < Height[b]
      BY <1>1, <1>2, <3>2
    <3> QED
      BY <2>2, <3>3 DEF Orphans
  <2> QED
    BY <2>1, <2>2
<1> QED
  BY <1>3, CanonicalAfter

LEMMA NewBlockChain ==
  ASSUME Chain, NEW b \in Blocks, b \notin Canonical, ParentShown(b), Update(b)
  PROVE  /\ Promise!IsPathTo(Canonical', b)
         /\ NoGaps'
         /\ Promise!Accept(b)
<1>1. Canonical \subseteq Blocks
  BY DEF Chain, Canonical, TypeOK, MapOf
<1>2. /\ \A c \in Blocks : Height[c] \in Nat \ {0}
      /\ \A c \in Blocks : Parent[c] \in Blocks
      /\ \A c \in Blocks : Height[c] > 1 => Height[Parent[c]] = Height[c] - 1
  BY MemoryAssumption DEF MemoryAssumption
<1>3. Canonical' = {b} \cup {o \in Canonical : Height[o] < Height[b]}
  BY BelowNewBlock
<1>4. Height[b] > 1 => Parent[b] \in Canonical
  BY DEF ParentShown, Canonical
<1>5. \A c, d \in Canonical : Height[c] = Height[d] => c = d
  BY DEF Chain, OnePerHeight
<1>6. ASSUME NEW c \in Canonical, Height[c] > 1
      PROVE  Parent[c] \in Canonical
  BY <1>6 DEF Chain, Shown, Promise!IsPathTo
<1>7. Promise!IsPathTo(Canonical', b)
  <2>1. \A c \in Canonical' : Height[c] <= Height[b]
    BY <1>1, <1>2, <1>3
  <2>2. \A c, d \in Canonical' : Height[c] = Height[d] => c = d
    BY <1>1, <1>2, <1>3, <1>5
  <2>3. ASSUME NEW c \in Canonical', Height[c] > 1
        PROVE  Parent[c] \in Canonical' /\ Height[Parent[c]] = Height[c] - 1
    <3>1. c \in Blocks /\ Height[c] <= Height[b] /\ Parent[c] \in Canonical
      BY <1>1, <1>2, <1>3, <1>4, <1>6, <2>1, <2>3
    <3>2. Height[Parent[c]] = Height[c] - 1
      BY <1>2, <2>3, <3>1
    <3> QED
      BY <1>2, <1>3, <3>1, <3>2
  <2> QED
    BY <1>3, <2>1, <2>2, <2>3 DEF Promise!IsPathTo
<1>8. NoGaps'
  <2>1. ASSUME NEW c \in Canonical', NEW h \in 1 .. Height[c]
        PROVE  \E d \in Canonical' : Height[d] = h
    <3>1. c \in Blocks /\ Height[c] \in Nat /\ Height[b] \in Nat /\ h \in Nat /\ h <= Height[c]
      BY <1>1, <1>2, <1>3
    <3>2. CASE c # b
      <4>1. PICK d \in Canonical : Height[d] = h
        BY <1>3, <3>2 DEF Chain, NoGaps
      <4> QED
        BY <1>3, <3>1, <3>2, <4>1
    <3>3. CASE c = b /\ h = Height[b]
      BY <1>3, <3>3
    <3>4. CASE c = b /\ h # Height[b]
      <4>1. h < Height[b] /\ Height[b] > 1
        BY <3>1, <3>4
      <4>2. Parent[b] \in Canonical /\ h \in 1 .. Height[Parent[b]]
        BY <1>2, <1>4, <3>1, <4>1
      <4>3. PICK d \in Canonical : Height[d] = h
        BY <4>2 DEF Chain, NoGaps
      <4> QED
        BY <1>3, <4>1, <4>3
    <3> QED
      BY <3>2, <3>3, <3>4
  <2> QED
    BY <2>1 DEF NoGaps
<1>9. Canonical' \in SUBSET (Canonical \cup {b})
  BY <1>3
<1> QED
  BY <1>7, <1>8, <1>9 DEF Promise!Accept

LEMMA FollowChain ==
  ASSUME Chain, Follow
  PROVE  Chain' /\ [Promise!Next]_Canonical
<1>1. PICK b \in Blocks : ParentShown(b) /\ Update(b)
  BY DEF Follow
<1>2. TypeOK' /\ OnePerHeight'
  BY <1>1, UpdateType, UpdateOnePerHeight DEF Chain
<1>3. CASE b \in Canonical
  <2>1. Canonical' = Canonical
    BY <1>1, <1>3, AgainChain
  <2> QED
    BY <1>2, <2>1 DEF Chain, NoGaps, Shown, Promise!IsPathTo
<1>4. CASE b \notin Canonical
  <2>1. Promise!IsPathTo(Canonical', b) /\ NoGaps' /\ Promise!Accept(b)
    BY <1>1, <1>4, NewBlockChain
  <2>2. b \in Canonical'
    BY <1>1, CanonicalAfter
  <2>3. Shown'
    BY <2>1, <2>2 DEF Shown, Promise!IsPathTo
  <2> QED
    BY <1>2, <2>1, <2>3 DEF Chain, Promise!Next
<1> QED
  BY <1>3, <1>4

LEMMA ChainStutters == Chain /\ UNCHANGED vars => Chain' /\ UNCHANGED Canonical
<1> SUFFICES ASSUME Chain, UNCHANGED vars PROVE Chain' /\ UNCHANGED Canonical
  OBVIOUS
<1>1. TypeOK'
  BY DEF Chain, vars, TypeOK, MapOf, EventKeys
<1>2. UNCHANGED Canonical
  BY DEF vars, Canonical
<1> QED
  BY <1>1, <1>2 DEF vars, Chain, OnePerHeight, NoGaps, Shown, Promise!IsPathTo, Canonical

(* A node that builds on what the store shows sees the promise of LastDelivered
   kept: each new block becomes the tip of the one canonical chain, and a block
   announced again changes nothing.  memory-store.ts:73-114. *)
THEOREM ImplementsLastDelivered == FollowSpec => LastDeliveredSpec
<1>1. Init => Promise!Init
  BY InitChain DEF Promise!Init
<1>2. Chain /\ [Follow]_vars => Chain' /\ [Promise!Next]_Canonical
  BY FollowChain, ChainStutters
<1> QED
  BY <1>1, <1>2, InitChain, PTL DEF FollowSpec, LastDeliveredSpec, Promise!Spec

-----------------------------------------------------------------------------
(***************************************************************************)
(* A transaction and its contract have one row, which each block that has  *)
(* the transaction overwrites.  While the node builds on the chain shown   *)
(* the row names the canonical block, because a transaction is in one      *)
(* block of a chain at most.                                               *)
(***************************************************************************)

(* The rows after update(), named so that the two Maps read alike. *)
Kept(rows, b, t) ==
  [block |-> rows[t].block, canonical |-> (rows[t].canonical /\ ~Orphans(b, rows[t].block))]

Fresh(b) == [block |-> b, canonical |-> TRUE]

(* The rows of transactions, or of contracts, after update(). *)
LEMMA RowAfter ==
  ASSUME NEW b \in Blocks, NEW rows, NEW keys, NEW ts, MapOf(rows, keys, Row)
  PROVE  LET after == Put(SweptRows(rows, b), RowsOf(b, ts))
         IN  /\ DOMAIN after = DOMAIN rows \cup ts
             /\ \A t \in ts : after[t] = Fresh(b)
             /\ \A t \in DOMAIN rows \ ts : after[t] = Kept(rows, b, t)
<1> DEFINE new == RowsOf(b, ts)
           old == SweptRows(rows, b)
<1>1. DOMAIN new = ts /\ \A t \in ts : new[t] = Fresh(b)
  BY DEF RowsOf, Fresh
<1>2. ASSUME NEW t \in DOMAIN rows
      PROVE  old[t] = Kept(rows, b, t)
  <2>1. rows[t] \in Row
    BY DEF MapOf
  <2>2. old[t] = [rows[t] EXCEPT !.canonical = @ /\ ~Orphans(b, rows[t].block)]
    BY DEF SweptRows
  <2> QED
    BY <2>1, <2>2 DEF Row, Kept
<1>3. DOMAIN old = DOMAIN rows
  BY DEF SweptRows
<1> HIDE DEF new, old
<1>4. /\ DOMAIN Put(old, new) = DOMAIN rows \cup ts
      /\ \A t \in ts : Put(old, new)[t] = new[t]
      /\ \A t \in DOMAIN rows \ ts : Put(old, new)[t] = old[t]
  BY <1>1, <1>3 DEF Put
<1>5. \A t \in DOMAIN rows \ ts : Put(old, new)[t] = Kept(rows, b, t)
  BY <1>2, <1>4
<1> QED
  BY <1>1, <1>4, <1>5 DEF new, old

(* The canonical blocks share no transaction. *)
LEMMA ShownOnce ==
  ASSUME Chain, NEW b \in Canonical, NEW c \in Canonical, b # c
  PROVE  TxsOf[b] \cap TxsOf[c] = {}
<1>1. Canonical \in Chains
  BY DEF Chain, Shown, Promise!IsPathTo, OnePerHeight, Chains, Canonical, TypeOK, MapOf
<1> QED
  BY <1>1, OncePerChain DEF OncePerChain

(* TxsFollowBlocks, with the rows of canonical blocks there. *)
RowsFollow ==
  /\ TxsFollowBlocks
  /\ \A b \in Canonical : TxsOf[b] \subseteq DOMAIN txs
  /\ DOMAIN contracts \subseteq DOMAIN txs

LEMMA InitRows == Init => RowsFollow
<1> SUFFICES ASSUME Init PROVE RowsFollow
  OBVIOUS
<1>1. Canonical = {} /\ DOMAIN txs = {} /\ DOMAIN contracts = {}
  BY DEF Init, Canonical
<1> QED
  BY <1>1 DEF RowsFollow, TxsFollowBlocks

(* A block that builds on the chain shown, new or announced again. *)
LEMMA UpdateRows ==
  ASSUME Chain, Chain', RowsFollow, NEW b \in Blocks, Update(b)
  PROVE  RowsFollow'
<1>1. /\ MapOf(txs, Txs, Row) /\ MapOf(contracts, Deploys, Row) /\ TxsOf[b] \subseteq Txs
  BY MemoryAssumption DEF MemoryAssumption, Chain, TypeOK
<1>2. /\ DOMAIN txs' = DOMAIN txs \cup TxsOf[b]
      /\ \A t \in TxsOf[b] : txs'[t] = Fresh(b)
      /\ \A t \in DOMAIN txs \ TxsOf[b] : txs'[t] = Kept(txs, b, t)
  <2> DEFINE after == Put(SweptRows(txs, b), RowsOf(b, TxsOf[b]))
  <2>1. txs' = after
    BY DEF Update, TxRowsAfter
  <2>2. /\ DOMAIN after = DOMAIN txs \cup TxsOf[b]
        /\ \A t \in TxsOf[b] : after[t] = Fresh(b)
        /\ \A t \in DOMAIN txs \ TxsOf[b] : after[t] = Kept(txs, b, t)
    <3>1. PICK ts : ts = TxsOf[b]
      OBVIOUS
    <3>2. LET put == Put(SweptRows(txs, b), RowsOf(b, ts))
          IN  /\ DOMAIN put = DOMAIN txs \cup ts
              /\ \A t \in ts : put[t] = Fresh(b)
              /\ \A t \in DOMAIN txs \ ts : put[t] = Kept(txs, b, t)
      BY <1>1, RowAfter
    <3> QED
      BY <3>1, <3>2
  <2> HIDE DEF after
  <2> QED
    BY <2>1, <2>2
<1>3. /\ DOMAIN contracts' = DOMAIN contracts \cup Deployed(b)
      /\ \A t \in Deployed(b) : contracts'[t] = Fresh(b)
      /\ \A t \in DOMAIN contracts \ Deployed(b) : contracts'[t] = Kept(contracts, b, t)
  <2> DEFINE after == Put(SweptRows(contracts, b), RowsOf(b, Deployed(b)))
  <2>1. contracts' = after
    BY DEF Update
  <2>2. /\ DOMAIN after = DOMAIN contracts \cup Deployed(b)
        /\ \A t \in Deployed(b) : after[t] = Fresh(b)
        /\ \A t \in DOMAIN contracts \ Deployed(b) : after[t] = Kept(contracts, b, t)
    BY <1>1, RowAfter
  <2> HIDE DEF after
  <2> QED
    BY <2>1, <2>2
<1>4. Canonical' = {b} \cup {o \in Canonical \ {b} : ~Orphans(b, o)}
  BY CanonicalAfter
<1>5. \A c, d \in Canonical : c # d => TxsOf[c] \cap TxsOf[d] = {}
  BY ShownOnce
<1>6. \A c \in Canonical' : c # b => TxsOf[c] \cap TxsOf[b] = {}
  <2>1. \A C \in Chains : \A c, d \in C : c # d => TxsOf[c] \cap TxsOf[d] = {}
    BY OncePerChain DEF OncePerChain
  <2>2. Canonical' \in Chains
    BY DEF Chain, Shown, Promise!IsPathTo, OnePerHeight, Chains, Canonical, TypeOK, MapOf
  <2> QED
    BY <1>4, <2>1, <2>2
<1>7. \A c \in Canonical : \A t \in TxsOf[c] : t \in DOMAIN txs /\ txs[t].block = c
  BY DEF RowsFollow, TxsFollowBlocks
<1>8. ASSUME NEW t \in DOMAIN txs'
      PROVE  txs'[t].canonical <=> \E c \in Canonical' : t \in TxsOf[c]
  <2>1. CASE t \in TxsOf[b]
    BY <1>2, <1>4, <2>1 DEF Fresh
  <2>2. CASE t \notin TxsOf[b]
    <3>1. /\ t \in DOMAIN txs
          /\ txs'[t].canonical = (txs[t].canonical /\ ~Orphans(b, txs[t].block))
      BY <1>2, <2>2 DEF Kept
    <3>2. txs[t].canonical <=> \E c \in Canonical : t \in TxsOf[c]
      BY <3>1 DEF RowsFollow, TxsFollowBlocks
    <3> QED
      BY <1>4, <1>7, <2>2, <3>1, <3>2
  <2> QED
    BY <2>1, <2>2
<1>9. ASSUME NEW c \in Canonical', NEW t \in TxsOf[c]
      PROVE  t \in DOMAIN txs' /\ txs'[t].block = c
  <2>1. CASE c = b
    BY <1>2, <2>1 DEF Fresh
  <2>2. CASE c # b
    <3>1. c \in Canonical /\ t \notin TxsOf[b]
      BY <1>4, <1>6, <2>2
    <3> QED
      BY <1>2, <1>7, <3>1 DEF Kept
  <2> QED
    BY <2>1, <2>2
<1>10. ASSUME NEW t \in DOMAIN contracts'
       PROVE  t \in DOMAIN txs' /\ contracts'[t] = txs'[t]
  <2>1. CASE t \in Deployed(b)
    BY <1>2, <1>3, <2>1 DEF Deployed
  <2>2. CASE t \notin Deployed(b)
    <3>1. t \in DOMAIN contracts /\ t \in Deploys /\ t \notin TxsOf[b]
      BY <1>1, <1>3, <2>2 DEF MapOf, Deployed
    <3>2. t \in DOMAIN txs /\ contracts[t] = txs[t]
      BY <3>1 DEF RowsFollow, TxsFollowBlocks
    <3> QED
      BY <1>2, <1>3, <2>2, <3>1, <3>2 DEF Kept
  <2> QED
    BY <2>1, <2>2
<1> QED
  BY <1>8, <1>9, <1>10 DEF RowsFollow, TxsFollowBlocks

LEMMA RowsStep == Chain /\ RowsFollow /\ [Follow]_vars => RowsFollow'
<1> SUFFICES ASSUME Chain, RowsFollow, [Follow]_vars PROVE RowsFollow'
  OBVIOUS
<1>1. CASE Follow
  BY <1>1, FollowChain, UpdateRows DEF Follow
<1>2. CASE UNCHANGED vars
  BY <1>2 DEF vars, RowsFollow, TxsFollowBlocks, Canonical
<1> QED
  BY <1>1, <1>2

(* What is read of a transaction, or of a contract, is what the chain shown says
   of it, while the node builds on that chain.  memory-store.ts:141-145, 254-260. *)
THEOREM TxsAgree == FollowSpec => []TxsFollowBlocks
<1>1. Chain /\ [Follow]_vars => Chain'
  BY FollowChain, ChainStutters
<1>2. RowsFollow => TxsFollowBlocks
  BY DEF RowsFollow
<1> QED
  BY <1>1, <1>2, InitChain, InitRows, RowsStep, PTL DEF FollowSpec

=============================================================================
