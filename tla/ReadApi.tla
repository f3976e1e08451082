------------------------------ MODULE ReadApi ------------------------------
(***************************************************************************)
(* The requests that read the block store while it is being written        *)
(* (src/api/controllers/db-controller.ts, routes/tx.ts, block.ts,          *)
(* search.ts and the read side of postgres-store.ts).  A request makes     *)
(* several queries, each on a connection of its own that sees what is      *)
(* committed at that moment; the store commits in between.                 *)
(*                                                                         *)
(* Requests change nothing and do not see one another, so one in flight at *)
(* a time shows everything that can happen to any.                         *)
(***************************************************************************)
EXTENDS ChainStore, Sequences

ASSUME ReadAssumption == Txs \cap Blocks = {}

VARIABLE req   \* the request in flight, or the last one with its answer

(* A request:
   kind   "tx" (getTxFromDataStore), "search" (searchHash) or
          "block" (getBlockFromDataStore);
   id     what it asks for;
   todo   the tables it has still to look into, none once it is answered;
   answer what it has found so far;
   known  a row for id was there when the request began, or the caller has
          just read that row or been told of it;
   mined  id was in a canonical block all the time;
   txs    the transactions listed for a block. *)
Answers == {"none", "pending", "canonical", "orphaned"}

NoReq == [kind |-> "none", todo |-> <<>>]

TxLookup_TxsFirst == <<"txs", "mempool_txs">>

(* getTxFromDataStore looks into the mempool first. *)
TxLookup == <<"mempool_txs", "txs">>

SearchLookup == <<"txs", "mempool_txs", "blocks">>

(* getBlock, then getBlockTxs. *)
BlockLookup == <<"blocks", "block_txs">>

Lookup(kind) ==
  CASE kind = "tx" -> TxLookup [] kind = "search" -> SearchLookup [] kind = "block" -> BlockLookup

-----------------------------------------------------------------------------
BlocksWith(t) == {b \in db.known : t \in TxsOf[b]}

MinedIn(img, x) ==
  IF x \in Blocks THEN x \in img.canonical ELSE \E b \in img.live["txs"] : x \in TxsOf[b]

IsMined(x) == MinedIn(db, x)

Known(x) == IF x \in Blocks THEN x \in db.known ELSE x \in db.mempool \/ BlocksWith(x) # {}

Flag(b, flagged) == IF b \in flagged THEN "canonical" ELSE "orphaned"

TxRow_AnyBlock(t) == {Flag(b, db.live["txs"]) : b \in BlocksWith(t)}

(* getTx: ORDER BY canonical DESC. *)
TxRow(t) ==
  IF IsMined(t) THEN {"canonical"} ELSE {Flag(b, db.live["txs"]) : b \in BlocksWith(t)}

(* The rows that one query for x may answer with. *)
Rows(kind, table, x) ==
  CASE table = "mempool_txs" -> IF x \in db.mempool THEN {"pending"} ELSE {}
    [] table = "txs" /\ kind = "tx" -> TxRow(x)
    [] table = "txs" /\ kind # "tx" -> {Flag(b, db.live["txs"]) : b \in BlocksWith(x)}
    [] table = "blocks" -> IF x \in db.known THEN {Flag(x, db.canonical)} ELSE {}

NewReq(kind, x, known) ==
  [kind |-> kind, id |-> x, todo |-> Lookup(kind), answer |-> "none",
   known |-> known, mined |-> IsMined(x), txs |-> {}]

Free == req.todo = <<>>

-----------------------------------------------------------------------------
ReadInit == Init /\ req = NoReq

(* GET /tx/:id, /block/:hash and /search/:hash. *)
GetTx(t) == Free /\ req' = NewReq("tx", t, Known(t)) /\ UNCHANGED vars

GetBlock(b) == Free /\ req' = NewReq("block", b, Known(b)) /\ UNCHANGED vars

Search(x) == Free /\ req' = NewReq("search", x, Known(x)) /\ UNCHANGED vars

(* GET /tx and GET /block: what the list query has just returned is looked up
   again, row by row, and not finding it throws. *)
ListTxs ==
  /\ Free
  /\ \E t \in Txs : IsMined(t) /\ req' = NewReq("tx", t, TRUE)
  /\ UNCHANGED vars

ListBlocks ==
  /\ Free
  /\ \E b \in db.canonical : req' = NewReq("block", b, TRUE)
  /\ UNCHANGED vars

(* The tables left after the first: a block found has its transactions listed
   too, anything else is answered once it is found. *)
Onward(found) == IF (req.kind = "block") = found THEN Tail(req.todo) ELSE <<>>

(* The next query of the request. *)
Query ==
  /\ ~Free
  /\ LET table == Head(req.todo)
         rows  == Rows(req.kind, table, req.id)
     IN  /\ table # "block_txs"
         /\ \/ \E row \in rows : req' = [req EXCEPT !.answer = row, !.todo = Onward(TRUE)]
            \/ rows = {} /\ req' = [req EXCEPT !.todo = Onward(FALSE)]
  /\ UNCHANGED vars

(* WHERE index_block_hash = $1, whatever the flag. *)
BlockTxs(b) == IF b \in db.known THEN TxsOf[b] ELSE {}

GetBlockTxs ==
  /\ ~Free
  /\ Head(req.todo) = "block_txs"
  /\ req' = [req EXCEPT !.txs = BlockTxs(req.id), !.todo = <<>>]
  /\ UNCHANGED vars

(* What a request in flight remembers of a step of the store. *)
Watch == req' = IF Free THEN req ELSE [req EXCEPT !.mined = @ /\ MinedIn(db', req.id)]

(* GET /tx/stream: on each txUpdate event the transaction is looked up. *)
Stream(ts) ==
  Free /\ \E t \in ts : req' = [NewReq("tx", t, TRUE) EXCEPT !.mined = MinedIn(db', t)]

ReadNext ==
  \/ \E t \in Txs : GetTx(t)
  \/ \E b \in Blocks : GetBlock(b)
  \/ \E x \in Txs \cup Blocks : Search(x)
  \/ ListTxs
  \/ ListBlocks
  \/ Query
  \/ GetBlockTxs
  \/ Next /\ Watch
  \/ EmitUpdate /\ Stream(TxsOf[txn.block])
  \/ \E t \in Txs : UpdateMempoolTx(t) /\ Stream({t})

ReadSpec == ReadInit /\ [][ReadNext]_<<vars, req>>

-----------------------------------------------------------------------------
(* What a request has left to do: its tables, less the first few. *)
Stages(kind) == LET s == Lookup(kind) IN {s, Tail(s), Tail(Tail(s)), <<>>}

Tables == {"mempool_txs", "txs", "blocks", "block_txs"}

Request ==
  [kind : {"tx", "search", "block"}, id : Txs \cup Blocks,
   todo : Seq(Tables), answer : Answers,
   known : BOOLEAN, mined : BOOLEAN, txs : SUBSET Txs]

(* Types; and only the request for a block goes on once it has found a row. *)
ReadTypeOK ==
  /\ TypeOK
  /\ req # NoReq =>
       /\ req \in Request
       /\ req.kind = "tx" => req.id \in Txs
       /\ req.kind = "block" => req.id \in Blocks
       /\ req.todo \in Stages(req.kind)
       /\ req.answer = "none" \/ req.todo \in {<<"block_txs">>, <<>>}

Answered(kind) == req.kind = kind /\ req.todo = <<>>

(* What is in the store when a request begins is found, whatever is committed
   between its queries: a transaction on its way from the mempool to a block is
   never answered 404, and neither the lists nor the stream throws for a row
   they have just read or been told of.  A search, which looks into txs first,
   may miss a transaction that is mined between its queries, and nothing else.
   db-controller.ts:334-343, tx.ts:54-57, 100-103, block.ts:28-31,
   postgres-store.ts:1776-1829. *)
FoundIfKnown ==
  req.todo = <<>> /\ req.kind # "none" /\ req.known =>
    \/ req.answer # "none"
    \/ req.kind = "search" /\ req.id \in Txs /\ ~req.mined /\ BlocksWith(req.id) # {}

(* A transaction that was in a canonical block all the time is not answered as
   orphaned, though it may be in an orphaned block too.
   postgres-store.ts:1096-1097. *)
NotOrphanedWhileMined ==
  Answered("tx") /\ req.mined => req.answer # "orphaned"

(* A block is answered with all its transactions, also one that a
   reorganisation orphans or restores between the two queries.
   db-controller.ts:219-224, postgres-store.ts:852-863. *)
BlockWithItsTxs ==
  Answered("block") /\ req.answer # "none" => req.txs = TxsOf[req.id]

(* What a request in flight can rely on: a row that was there is there still, be
   it in another table; past the mempool it is in a block, and a search that did
   not find it in txs has not seen it mined all the time. *)
FlightInv ==
  ~Free =>
    /\ req.mined => IsMined(req.id)
    /\ req.known => Known(req.id)
    /\ req.known /\ req.id \in Txs /\ req.todo \in {<<"txs">>, <<"blocks">>} =>
         BlocksWith(req.id) # {}
    /\ req.kind = "search" /\ req.id \in Txs /\ Head(req.todo) # "txs" => ~req.mined
    /\ req.todo = <<"block_txs">> => req.id \in db.known /\ req.answer # "none"

(* The stream is told of a block once it is stored. *)
EmitsStored == txn.pc = "emit" => txn.block \in db.known

(* The requests have their types, no answer mixes what was true at two moments
   into something that never was, and why. *)
ReadInv == ReadTypeOK /\ NotOrphanedWhileMined /\ BlockWithItsTxs /\ FlightInv /\ EmitsStored

=============================================================================
