----------------------------- MODULE MemoryStore -----------------------------
(***************************************************************************)
(* MemoryDataStore (src/datastore/memory-store.ts), the store of the       *)
(* server started with STACKS_BLOCKCHAIN_API_DB=memory.  Each Map is a     *)
(* function on its keys.  A block has a row for itself; a transaction and  *)
(* a contract have one row, that of the last block that brought them; an   *)
(* event has one for every block it is in.                                 *)
(*                                                                         *)
(* update() awaits nothing but promises already resolved, so no request    *)
(* and no other message runs in the middle of it: it is one action.  The   *)
(* Map of the mempool and the array of faucet requests only grow, and      *)
(* update reads neither: they are left out.                                *)
(***************************************************************************)
EXTENDS Naturals, Sequences

CONSTANTS
  Blocks,       \* the blocks
  Txs,          \* the transactions
  Height,       \* Height[b]: block_height of b
  Parent,       \* Parent[b]: the block b builds on
  TxsOf,        \* TxsOf[b]: the transactions of b
  KindsOf,      \* KindsOf[t]: the kinds of the events of t, in order
  Deploys       \* the transactions that deploy a contract, each its own

Kinds == {"stx", "ft", "nft", "log"}

ASSUME MemoryAssumption ==
  /\ Height \in [Blocks -> Nat \ {0}]
  /\ Parent \in [Blocks -> Blocks]
  /\ \A b \in Blocks : Height[b] > 1 => Height[Parent[b]] = Height[b] - 1
  /\ TxsOf \in [Blocks -> SUBSET Txs]
  /\ KindsOf \in [Txs -> Seq(Kinds)]
  /\ Deploys \subseteq Txs

(* The chains a node may show: blocks with their parents, one at a height. *)
Chains ==
  {C \in SUBSET Blocks : /\ \A c \in C : Height[c] > 1 => Parent[c] \in C
                         /\ \A c, d \in C : Height[c] = Height[d] => c = d}

(* The node mines no transaction twice in one chain: its nonce is used up. *)
ASSUME OncePerChain ==
  \A C \in Chains : \A b, c \in C : b # c => TxsOf[b] \cap TxsOf[c] = {}

VARIABLES
  blocks,      \* blocks[b]: the canonical flag of a block delivered
  txs,         \* txs[t]: the block and the flag of the row of t
  events,      \* events[<<t, b, i>>]: the flag of event i of t in b
  contracts,   \* contracts[t]: the block and the flag of the contract of t
  emitted      \* the last event emitted

vars == <<blocks, txs, events, contracts, emitted>>

Row == [block : Blocks, canonical : BOOLEAN]

Init ==
  /\ blocks = <<>>
  /\ txs = <<>>
  /\ events = <<>>
  /\ contracts = <<>>
  /\ emitted = <<"none">>

-----------------------------------------------------------------------------
(***************************************************************************)
(* update: the block, then its transactions with all they bring.           *)
(***************************************************************************)

(* A block delivered at the height of b is canonical, and is not b. *)
ReorgDetected(b) ==
  \E o \in DOMAIN blocks : Height[o] = Height[b] /\ o # b /\ blocks[o]

Orphans_ThatHeight(b, o) == ReorgDetected(b) /\ Height[o] = Height[b]

(* Delivering b orphans all there is of o. *)
Orphans(b, o) == ReorgDetected(b) /\ Height[o] >= Height[b]

SweptRows(rows, b) ==
  [t \in DOMAIN rows |->
     [rows[t] EXCEPT !.canonical = @ /\ ~Orphans(b, rows[t].block)]]

SweptEvents_NotFt(b) ==
  [k \in DOMAIN events |->
     events[k] /\ (KindsOf[k[1]][k[3]] # "ft" => ~Orphans(b, k[2]))]

SweptEvents(b) == [k \in DOMAIN events |-> events[k] /\ ~Orphans(b, k[2])]

(* Map.set for every key of entries. *)
Put(map, entries) ==
  [k \in DOMAIN map \cup DOMAIN entries |->
     IF k \in DOMAIN entries THEN entries[k] ELSE map[k]]

RowsOf(b, ts) == [t \in ts |-> [block |-> b, canonical |-> TRUE]]

EventKeys(b) ==
  UNION {{<<t, b, i>> : i \in DOMAIN KindsOf[t]} : t \in TxsOf[b]}

Deployed(b) == TxsOf[b] \cap Deploys

TxRowsAfter_FirstKept(b) == Put(RowsOf(b, TxsOf[b]), SweptRows(txs, b))

TxRowsAfter(b) == Put(SweptRows(txs, b), RowsOf(b, TxsOf[b]))

Update(b) ==
  /\ blocks' = Put([o \in DOMAIN blocks |-> blocks[o] /\ ~Orphans(b, o)], [o \in {b} |-> TRUE])
  /\ txs' = TxRowsAfter(b)
  /\ events' = Put(SweptEvents(b), [k \in EventKeys(b) |-> TRUE])
  /\ contracts' = Put(SweptRows(contracts, b), RowsOf(b, Deployed(b)))
  /\ emitted' = <<"block", b>>

-----------------------------------------------------------------------------
(* The node announces a block after its parent, and any block again. *)
ParentKnown(b) == Height[b] > 1 => Parent[b] \in DOMAIN blocks

(* It announces only blocks that build on what is canonical here. *)
ParentShown(b) ==
  Height[b] > 1 => Parent[b] \in DOMAIN blocks /\ blocks[Parent[b]]

Deliver == \E b \in Blocks : ParentKnown(b) /\ Update(b)

Follow == \E b \in Blocks : ParentShown(b) /\ Update(b)

Spec == Init /\ [][Deliver]_vars

FollowSpec == Init /\ [][Follow]_vars

-----------------------------------------------------------------------------
(***************************************************************************)
(* Properties.                                                             *)
(***************************************************************************)

MapOf(map, keys, values) == DOMAIN map \subseteq keys /\ \A k \in DOMAIN map : map[k] \in values

TypeOK ==
  /\ MapOf(blocks, Blocks, BOOLEAN)
  /\ MapOf(txs, Txs, Row)
  /\ MapOf(events, UNION {EventKeys(b) : b \in Blocks}, BOOLEAN)
  /\ MapOf(contracts, Deploys, Row)

Canonical == {b \in DOMAIN blocks : blocks[b]}

(* However the node jumps between forks, getBlocks never lists two blocks of
   one height.  memory-store.ts updateBlock. *)
OnePerHeight == \A b, c \in Canonical : Height[b] = Height[c] => b = c

(* The event of a transaction in a block is canonical exactly when the block
   is, whatever has come since: the four event Maps are swept with the blocks.
   memory-store.ts:84-95. *)
EventsFollowBlocks ==
  /\ DOMAIN events = UNION {EventKeys(b) : b \in DOMAIN blocks}
  /\ \A k \in DOMAIN events : events[k] = blocks[k[2]]

(* All three, which hold however the node jumps between forks. *)
MemoryInv == TypeOK /\ OnePerHeight /\ EventsFollowBlocks

(* A transaction is shown as canonical exactly when a canonical block has it,
   and then it is shown in that block; the same for a contract.  The rows have
   no key for the block.  memory-store.ts:141-145, 254-260. *)
TxsFollowBlocks ==
  /\ \A t \in DOMAIN txs :
       txs[t].canonical <=> \E b \in Canonical : t \in TxsOf[b]
  /\ \A b \in Canonical : \A t \in TxsOf[b] : txs[t].block = b
  /\ \A t \in DOMAIN contracts : contracts[t] = txs[t]

(* While the node only announces blocks that build on the chain shown, that
   chain is the path to the last new block.  memory-store.ts:76-79. *)
Promise == INSTANCE LastDelivered WITH canonical <- Canonical

LastDeliveredSpec == Promise!Spec

=============================================================================
