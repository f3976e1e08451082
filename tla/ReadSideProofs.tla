--------------------------- MODULE ReadSideProofs --------------------------
(***************************************************************************)
(* Proofs about the read side, for every tree of blocks, every request and *)
(* every commit of the store between its queries.                          *)
(*                                                                         *)
(* ReadApi: a row never goes away without another one taking its place:    *)
(* blocks are never deleted, and a transaction leaves the mempool in the   *)
(* commit that makes it canonical.  What a request does not find in the    *)
(* tables it has looked into is therefore in those it has still to look    *)
(* into.                                                                   *)
(*                                                                         *)
(* Ledger and PageWalk: the flags of all tables are those of the blocks,   *)
(* one at each height, linked down from the tip.  A row has therefore one  *)
(* place in its list, counted by the rows before it, and a commit that     *)
(* takes none away moves none forward.                                     *)
(***************************************************************************)
EXTENDS ReadApi, PageWalk, ChainStoreProofs, LibraryLemmas, SequenceTheorems

-----------------------------------------------------------------------------
(***************************************************************************)
(* What a step of the store does to the rows.                              *)
(***************************************************************************)

(* Every step of a request is a step of the store or leaves it alone. *)
LEMMA ReadIsStoreStep == [ReadNext]_<<vars, req>> => [Next]_vars
  BY DEF ReadNext, GetTx, GetBlock, Search, ListTxs, ListBlocks, Query, GetBlockTxs, Next, vars

(* A row that is there stays, or another one takes its place. *)
LEMMA RowsStay ==
  ASSUME IInv, IInv', [Next]_vars, NEW x
  PROVE  /\ db.known \subseteq db'.known
         /\ BlocksWith(x) \subseteq BlocksWith(x)'
         /\ Known(x) => Known(x)'
<1>1. /\ db.known \subseteq db'.known
      /\ \A t \in db.mempool \ db'.mempool : \E b \in db'.canonical : t \in TxsOf[b]
  BY StepLosesNothing
<1>2. db'.canonical \subseteq db'.known
  BY DEF IInv, Sound
<1>3. BlocksWith(x) \subseteq BlocksWith(x)'
  BY <1>1 DEF BlocksWith
<1>4. ASSUME x \in db.mempool, x \notin db'.mempool PROVE BlocksWith(x)' # {}
  BY <1>1, <1>2, <1>4 DEF BlocksWith
<1> QED
  BY <1>1, <1>3, <1>4 DEF Known

(* What is mined is stored, and blocks and transactions are not confused. *)
LEMMA MinedIsKnown ==
  ASSUME IInv, NEW x \in Txs \cup Blocks
  PROVE  /\ IsMined(x) => Known(x)
         /\ x \in Txs => (IsMined(x) => BlocksWith(x) # {}) /\ x \notin db.known
         /\ x \in Blocks => BlocksWith(x) = {} /\ x \notin db.mempool
<1>1. /\ db.canonical \subseteq db.known /\ db.live["txs"] = db.canonical
      /\ db.known \subseteq Blocks /\ db.mempool \subseteq Txs
      /\ TxsOf \in [Blocks -> SUBSET Txs]
  BY ChainAssumption DEF IInv, Sound, RowsAgree, EntityTables, TypeOK, Image
<1>2. CASE x \in Txs
  BY <1>1, <1>2, ReadAssumption DEF IsMined, MinedIn, Known, BlocksWith
<1>3. CASE x \in Blocks
  BY <1>1, <1>3, ReadAssumption DEF IsMined, MinedIn, Known, BlocksWith
<1> QED
  BY <1>2, <1>3, ReadAssumption

(* Whether a row is there, or is canonical, is a truth value. *)
LEMMA TruthValues ==
  ASSUME NEW img, NEW x
  PROVE  MinedIn(img, x) \in BOOLEAN /\ IsMined(x) \in BOOLEAN /\ Known(x) \in BOOLEAN
<1>1. CASE x \in Blocks
  <2>1. /\ MinedIn(img, x) = (x \in img.canonical)
        /\ IsMined(x) = (x \in db.canonical)
        /\ Known(x) = (x \in db.known)
    BY <1>1 DEF MinedIn, IsMined, Known
  <2> QED
    BY <2>1
<1>2. CASE x \notin Blocks
  BY <1>2, Zenon DEF MinedIn, IsMined, Known
<1> QED
  BY <1>1, <1>2

-----------------------------------------------------------------------------
(***************************************************************************)
(* The stages of a request.                                                *)
(***************************************************************************)

(* What can be left to do of each kind of request, written out. *)
LEMMA StagesOf ==
  /\ Stages("tx") = {<<"mempool_txs", "txs">>, <<"txs">>, <<>>}
  /\ Stages("search") = {<<"txs", "mempool_txs", "blocks">>, <<"mempool_txs", "blocks">>,
                         <<"blocks">>, <<>>}
  /\ Stages("block") = {<<"blocks", "block_txs">>, <<"block_txs">>, <<>>}
<1>1. Tail(<<"mempool_txs", "txs">>) = <<"txs">> /\ Tail(<<"txs">>) = <<>>
  OBVIOUS
<1>2. /\ Tail(<<"txs", "mempool_txs", "blocks">>) = <<"mempool_txs", "blocks">>
      /\ Tail(<<"mempool_txs", "blocks">>) = <<"blocks">>
  OBVIOUS
<1>3. Tail(<<"blocks", "block_txs">>) = <<"block_txs">> /\ Tail(<<"block_txs">>) = <<>>
  OBVIOUS
<1> QED
  BY <1>1, <1>2, <1>3 DEF Stages, Lookup, TxLookup, SearchLookup, BlockLookup

-----------------------------------------------------------------------------
(***************************************************************************)
(* The invariant.                                                          *)
(***************************************************************************)

ReadIInv ==
  /\ IInv /\ EmitsStored /\ ReadTypeOK /\ FlightInv
  /\ NotOrphanedWhileMined /\ BlockWithItsTxs /\ FoundIfKnown

(* The requests, without the store. *)
ReqInv == ReadTypeOK /\ FlightInv /\ NotOrphanedWhileMined /\ BlockWithItsTxs /\ FoundIfKnown

(* Where each kind of request starts. *)
LEMMA FirstStage ==
  ASSUME NEW kind \in {"tx", "search", "block"}
  PROVE  /\ Lookup(kind) \in Seq(Tables)
         /\ Lookup(kind) \notin {<<"txs">>, <<"blocks">>, <<"block_txs">>, <<>>}
         /\ kind = "search" => Head(Lookup(kind)) = "txs"
<1> DEFINE late == {<<"txs">>, <<"blocks">>, <<"block_txs">>, <<>>}
<1>1. /\ <<"mempool_txs", "txs">> \in Seq(Tables)
      /\ <<"txs", "mempool_txs", "blocks">> \in Seq(Tables)
      /\ <<"blocks", "block_txs">> \in Seq(Tables)
  BY DEF Tables
<1>2. /\ <<"mempool_txs", "txs">> \notin late
      /\ <<"txs", "mempool_txs", "blocks">> \notin late
      /\ <<"blocks", "block_txs">> \notin late
  OBVIOUS
<1>3. Head(<<"txs", "mempool_txs", "blocks">>) = "txs"
  OBVIOUS
<1> HIDE DEF late
<1>4. /\ Lookup(kind) \in Seq(Tables) /\ Lookup(kind) \notin late
      /\ kind = "search" => Head(Lookup(kind)) = "txs"
  BY <1>1, <1>2, <1>3, Zenon DEF Lookup, TxLookup, SearchLookup, BlockLookup
<1> QED
  BY <1>4 DEF late

(* A request has just begun. *)
LEMMA NewReqInv ==
  ASSUME TypeOK', NEW kind \in {"tx", "search", "block"}, NEW x \in Txs \cup Blocks,
         kind = "tx" => x \in Txs, kind = "block" => x \in Blocks,
         NEW known \in BOOLEAN, NEW mined \in BOOLEAN, known => Known(x)', mined => IsMined(x)',
         req' = [kind |-> kind, id |-> x, todo |-> Lookup(kind), answer |-> "none",
                 known |-> known, mined |-> mined, txs |-> {}]
  PROVE  ReqInv'
<1>1. /\ req'.kind = kind /\ req'.id = x /\ req'.todo = Lookup(kind) /\ req'.answer = "none"
      /\ req'.known = known /\ req'.mined = mined /\ req'.txs = {}
  OBVIOUS
<1>2. /\ Lookup(kind) \in Seq(Tables)
      /\ Lookup(kind) \notin {<<"txs">>, <<"blocks">>, <<"block_txs">>, <<>>}
      /\ kind = "search" => Head(Lookup(kind)) = "txs"
  BY FirstStage
<1>3. Lookup(kind) \in Stages(kind)
  BY DEF Stages
<1>4. req' \in Request
  BY <1>2 DEF Request, Answers
<1>5. ReadTypeOK'
  BY <1>1, <1>3, <1>4 DEF ReadTypeOK
<1>6. FlightInv'
  BY <1>1, <1>2 DEF FlightInv
<1>7. NotOrphanedWhileMined' /\ BlockWithItsTxs' /\ FoundIfKnown'
  BY <1>1, <1>2 DEF NotOrphanedWhileMined, BlockWithItsTxs, FoundIfKnown, Answered
<1> QED
  BY <1>5, <1>6, <1>7 DEF ReqInv

(* Where a request in flight can be. *)
LEMMA InFlight ==
  ASSUME ReqInv, ~Free
  PROVE  /\ req # NoReq /\ req \in Request
         /\ \/ req.kind = "tx" /\ req.id \in Txs /\ req.todo \in {<<"mempool_txs", "txs">>, <<"txs">>}
            \/ /\ req.kind = "search" /\ req.id \in Txs \cup Blocks
               /\ req.todo \in {<<"txs", "mempool_txs", "blocks">>, <<"mempool_txs", "blocks">>, <<"blocks">>}
            \/ /\ req.kind = "block" /\ req.id \in Blocks
               /\ req.todo \in {<<"blocks", "block_txs">>, <<"block_txs">>}
         /\ req.todo # <<"block_txs">> => req.answer = "none"
<1>1. req # NoReq
  BY DEF Free, NoReq
<1>2. /\ req \in Request /\ req.todo \in Stages(req.kind) /\ req.todo # <<>>
      /\ req.kind = "tx" => req.id \in Txs
      /\ req.kind = "block" => req.id \in Blocks
      /\ req.answer = "none" \/ req.todo \in {<<"block_txs">>, <<>>}
  BY <1>1 DEF ReqInv, ReadTypeOK, Free
<1>3. req.kind \in {"tx", "search", "block"} /\ req.id \in Txs \cup Blocks
  BY <1>2 DEF Request
<1> QED
  BY <1>1, <1>2, <1>3, StagesOf

(* Only a request for a block lists transactions. *)
LEMMA NotListing ==
  ASSUME ReqInv, ~Free, req.kind # "block"
  PROVE  req.todo # <<"block_txs">>
<1>1. /\ <<"block_txs">> \notin {<<"mempool_txs", "txs">>, <<"txs">>}
      /\ <<"block_txs">> \notin {<<"txs", "mempool_txs", "blocks">>, <<"mempool_txs", "blocks">>,
                                <<"blocks">>}
  OBVIOUS
<1> QED
  BY <1>1, InFlight

(* The store is as it was. *)
LEMMA SameRows ==
  ASSUME UNCHANGED vars, NEW x
  PROVE  /\ IsMined(x)' = IsMined(x) /\ Known(x)' = Known(x) /\ BlocksWith(x)' = BlocksWith(x)
         /\ db' = db /\ (TypeOK => TypeOK')
  BY DEF vars, IsMined, MinedIn, Known, BlocksWith, TypeOK

(* A row is found, and answered. *)
LEMMA FoundKeeps ==
  ASSUME ReqInv, ~Free, req.kind # "block", NEW row \in Answers \ {"none"},
         req.kind = "tx" /\ req.mined => row # "orphaned",
         req' = [req EXCEPT !.answer = row, !.todo = <<>>], UNCHANGED vars
  PROVE  ReqInv'
<1>1. req # NoReq /\ req \in Request
  BY InFlight
<1>2. /\ req'.kind = req.kind /\ req'.id = req.id /\ req'.todo = <<>> /\ req'.answer = row
      /\ req'.known = req.known /\ req'.mined = req.mined /\ req'.txs = req.txs
      /\ req' \in Request
  <2>1. <<>> \in Seq(Tables)
    OBVIOUS
  <2> QED
    BY <1>1, <2>1 DEF Request
<1>3. TypeOK'
  BY SameRows DEF ReqInv, ReadTypeOK
<1>4. ReadTypeOK'
  BY <1>1, <1>2, <1>3 DEF ReqInv, ReadTypeOK, Stages
<1>5. FlightInv'
  BY <1>2 DEF FlightInv, Free
<1> QED
  BY <1>2, <1>4, <1>5 DEF ReqInv, NotOrphanedWhileMined, BlockWithItsTxs, FoundIfKnown, Answered

(* A row is not found: the request moves on to the next table, or is answered
   that there is none. *)
LEMMA MissedKeeps ==
  ASSUME IInv, ReqInv, ~Free, req.kind # "block",
         Rows(req.kind, Head(req.todo), req.id) = {},
         req' = [req EXCEPT !.todo = Tail(@)], UNCHANGED vars
  PROVE  ReqInv'
<1>1. req # NoReq /\ req \in Request /\ req.answer = "none"
  BY InFlight, NotListing
<1>2. /\ req'.kind = req.kind /\ req'.id = req.id /\ req'.todo = Tail(req.todo)
      /\ req'.answer = "none" /\ req'.known = req.known /\ req'.mined = req.mined
  BY <1>1 DEF Request
<1>3. TypeOK'
  BY SameRows DEF ReqInv, ReadTypeOK
<1>4. /\ req.mined => IsMined(req.id)
      /\ req.known => Known(req.id)
      /\ req.known /\ req.id \in Txs /\ req.todo \in {<<"txs">>, <<"blocks">>} => BlocksWith(req.id) # {}
      /\ req.kind = "search" /\ req.id \in Txs /\ Head(req.todo) # "txs" => ~req.mined
  BY DEF ReqInv, FlightInv
<1>5. ASSUME req'.todo = <<>>, req.known => req.kind = "search" /\ req.id \in Txs /\ ~req.mined /\ BlocksWith(req.id) # {}
      PROVE  ReqInv'
  <2>1. req' \in Request
    <3>1. <<>> \in Seq(Tables)
      OBVIOUS
    <3>2. Tail(req.todo) \in Seq(Tables)
      BY <1>2, <1>5, <3>1, Zenon
    <3> QED
      BY <1>1, <3>2 DEF Request
  <2>2. ReadTypeOK'
    BY <1>1, <1>2, <1>3, <1>5, <2>1 DEF ReqInv, ReadTypeOK, Stages
  <2>3. FlightInv'
    BY <1>5 DEF FlightInv, Free
  <2>4. FoundIfKnown'
    BY <1>2, <1>5, SameRows DEF FoundIfKnown
  <2> QED
    BY <1>2, <2>2, <2>3, <2>4 DEF ReqInv, NotOrphanedWhileMined, BlockWithItsTxs, Answered
<1>6. ASSUME req'.todo \in Seq(Tables),
             req'.todo \in Stages(req.kind), req'.todo \notin {<<>>, <<"block_txs">>},
             req.known /\ req.id \in Txs /\ req'.todo \in {<<"txs">>, <<"blocks">>} => BlocksWith(req.id) # {},
             req.kind = "search" /\ req.id \in Txs => ~req.mined
      PROVE  ReqInv'
  <2>1. req' \in Request
    <3>1. Tail(req.todo) \in Seq(Tables)
      BY <1>2, <1>6
    <3> QED
      BY <1>1, <3>1 DEF Request
  <2>2. ReadTypeOK'
    BY <1>1, <1>2, <1>3, <1>6, <2>1 DEF ReqInv, ReadTypeOK
  <2>3. FlightInv'
    BY <1>2, <1>4, <1>6, SameRows DEF FlightInv
  <2> QED
    BY <1>2, <1>6, <2>2, <2>3 DEF ReqInv, NotOrphanedWhileMined, BlockWithItsTxs, FoundIfKnown, Answered
<1>7. CASE req.kind = "tx" /\ req.id \in Txs /\ req.todo = <<"mempool_txs", "txs">>
  <2>1. Tail(req.todo) = <<"txs">> /\ Head(req.todo) = "mempool_txs"
    BY <1>7
  <2>2. <<"txs">> \in Seq(Tables) /\ <<"txs">> \notin {<<>>, <<"block_txs">>}
    BY DEF Tables
  <2>3. req.id \notin db.mempool
    BY <2>1 DEF Rows
  <2>4. req.id \notin Blocks
    BY <1>7, ReadAssumption
  <2>5. req.known => BlocksWith(req.id) # {}
    BY <1>4, <2>3, <2>4 DEF Known
  <2>6. req'.todo = <<"txs">> /\ <<"txs">> \in Stages(req.kind)
    BY <1>2, <1>7, <2>1, StagesOf
  <2>7. req.kind # "search"
    BY <1>7
  <2> QED
    BY <1>6, <2>2, <2>5, <2>6, <2>7, Zenon
<1>8. CASE req.kind = "tx" /\ req.id \in Txs /\ req.todo = <<"txs">>
  <2>1. Tail(req.todo) = <<>> /\ Head(req.todo) = "txs"
    BY <1>8
  <2>2. BlocksWith(req.id) = {}
    BY <1>8, <2>1, MinedIsKnown DEF Rows, TxRow
  <2>3. req'.todo = <<>> /\ ~req.known
    BY <1>2, <1>4, <1>8, <2>1, <2>2
  <2> QED
    BY <1>5, <2>3, Zenon
<1>9. CASE req.kind = "search" /\ req.id \in Txs \cup Blocks /\ req.todo = <<"txs", "mempool_txs", "blocks">>
  <2>1. Tail(req.todo) = <<"mempool_txs", "blocks">> /\ Head(req.todo) = "txs"
    BY <1>9
  <2>2. /\ <<"mempool_txs", "blocks">> \in Seq(Tables)
        /\ <<"mempool_txs", "blocks">> \notin {<<>>, <<"block_txs">>, <<"txs">>, <<"blocks">>}
    BY DEF Tables
  <2>3. BlocksWith(req.id) = {}
    BY <1>9, <2>1 DEF Rows
  <2>4. req.id \in Txs => ~req.mined
    BY <1>4, <1>9, <2>3, MinedIsKnown
  <2>5. req'.todo = <<"mempool_txs", "blocks">> /\ <<"mempool_txs", "blocks">> \in Stages(req.kind)
    BY <1>2, <1>9, <2>1, StagesOf
  <2> QED
    BY <1>6, <2>2, <2>4, <2>5, Zenon
<1>10. CASE req.kind = "search" /\ req.id \in Txs \cup Blocks /\ req.todo = <<"mempool_txs", "blocks">>
  <2>1. Tail(req.todo) = <<"blocks">> /\ Head(req.todo) = "mempool_txs"
    BY <1>10
  <2>2. <<"blocks">> \in Seq(Tables) /\ <<"blocks">> \notin {<<>>, <<"block_txs">>}
    BY DEF Tables
  <2>3. req.id \notin db.mempool
    BY <2>1 DEF Rows
  <2>4. req.id \in Txs /\ req.known => BlocksWith(req.id) # {}
    BY <1>4, <2>3, ReadAssumption DEF Known
  <2>5. req.id \in Txs => ~req.mined
    BY <1>4, <1>10, <2>1
  <2>6. req'.todo = <<"blocks">> /\ <<"blocks">> \in Stages(req.kind)
    BY <1>2, <1>10, <2>1, StagesOf
  <2> QED
    BY <1>6, <2>2, <2>4, <2>5, <2>6, Zenon
<1>11. CASE req.kind = "search" /\ req.id \in Txs \cup Blocks /\ req.todo = <<"blocks">>
  <2>1. Tail(req.todo) = <<>> /\ Head(req.todo) = "blocks"
    BY <1>11
  <2>2. req.id \notin db.known
    BY <2>1 DEF Rows
  <2>3. req.known => req.id \in Txs
    BY <1>4, <1>11, <2>2 DEF Known
  <2>4. req.id \in Txs => ~req.mined
    BY <1>4, <1>11, <2>1
  <2>5. req.known => req.id \in Txs /\ BlocksWith(req.id) # {}
    BY <1>4, <1>11, <2>3
  <2>6. req'.todo = <<>>
    BY <1>2, <2>1
  <2> QED
    BY <1>5, <1>11, <2>4, <2>5, <2>6, Zenon
<1> QED
  BY <1>7, <1>8, <1>9, <1>10, <1>11, InFlight

(* What a query may find. *)
LEMMA RowsAre ==
  ASSUME NEW kind \in {"tx", "search", "block"}, NEW table \in Tables \ {"block_txs"}, NEW x,
         NEW row \in Rows(kind, table, x)
  PROVE  /\ row \in Answers \ {"none"}
         /\ kind = "tx" /\ table # "blocks" /\ IsMined(x) => row # "orphaned"
<1>1. \A b, f : Flag(b, f) \in {"canonical", "orphaned"}
  BY DEF Flag
<1>2. CASE table = "mempool_txs"
  BY <1>2 DEF Rows, Answers
<1>3. CASE table = "txs"
  <2>1. CASE kind = "tx"
    BY <1>1, <1>3, <2>1 DEF Rows, TxRow, Answers
  <2>2. CASE kind # "tx"
    BY <1>1, <1>3, <2>2 DEF Rows, Answers
  <2> QED
    BY <2>1, <2>2
<1>4. CASE table = "blocks"
  BY <1>1, <1>4 DEF Rows, Answers
<1> QED
  BY <1>2, <1>3, <1>4 DEF Tables

(* The queries of a request for a transaction, and of a search. *)
LEMMA QueryKeeps ==
  ASSUME IInv, ReqInv, Query, req.kind # "block"
  PROVE  ReqInv'
<1>1. ~Free /\ UNCHANGED vars /\ req \in Request
  BY InFlight DEF Query
<1> DEFINE rows == Rows(req.kind, Head(req.todo), req.id)
<1>2. \/ \E row \in rows : req' = [req EXCEPT !.answer = row, !.todo = <<>>]
      \/ rows = {} /\ req' = [req EXCEPT !.todo = Tail(@)]
  BY DEF Query, Onward
<1>3. ASSUME NEW row \in rows, req' = [req EXCEPT !.answer = row, !.todo = <<>>]
      PROVE  ReqInv'
  <2>1. /\ req.kind \in {"tx", "search", "block"} /\ Head(req.todo) \in Tables \ {"block_txs"}
        /\ req.kind = "tx" => Head(req.todo) # "blocks"
    <3>1. /\ req.kind = "tx" => req.todo \in {<<"mempool_txs", "txs">>, <<"txs">>}
          /\ req.kind = "search" => req.todo \in {<<"txs", "mempool_txs", "blocks">>,
                                                 <<"mempool_txs", "blocks">>, <<"blocks">>}
          /\ req.kind \in {"tx", "search"}
      BY <1>1, InFlight
    <3>2. /\ Head(<<"mempool_txs", "txs">>) = "mempool_txs" /\ Head(<<"txs">>) = "txs"
          /\ Head(<<"txs", "mempool_txs", "blocks">>) = "txs"
          /\ Head(<<"mempool_txs", "blocks">>) = "mempool_txs" /\ Head(<<"blocks">>) = "blocks"
      OBVIOUS
    <3> QED
      BY <3>1, <3>2 DEF Tables
  <2>2. row \in Answers \ {"none"} /\ (req.kind = "tx" /\ IsMined(req.id) => row # "orphaned")
    BY <1>3, <2>1, RowsAre
  <2>3. req.mined => IsMined(req.id)
    BY <1>1 DEF ReqInv, FlightInv
  <2> QED
    BY <1>1, <1>3, <2>2, <2>3, FoundKeeps
<1>4. CASE rows = {} /\ req' = [req EXCEPT !.todo = Tail(@)]
  BY <1>1, <1>4, MissedKeeps
<1> QED
  BY <1>2, <1>3, <1>4

(* The two queries of a request for a block. *)
LEMMA BlockQueryKeeps ==
  ASSUME IInv, ReqInv, Query, req.kind = "block"
  PROVE  ReqInv'
<1>1. /\ ~Free /\ UNCHANGED vars /\ req # NoReq /\ req \in Request /\ req.id \in Blocks
      /\ req.todo \in {<<"blocks", "block_txs">>, <<"block_txs">>}
      /\ req.known => Known(req.id)
      /\ req.mined => IsMined(req.id)
  <2>1. ~Free
    BY DEF Query
  <2>2. /\ req # NoReq /\ req \in Request /\ req.id \in Blocks
        /\ req.todo \in {<<"blocks", "block_txs">>, <<"block_txs">>}
    BY <2>1, InFlight
  <2>3. (req.known => Known(req.id)) /\ (req.mined => IsMined(req.id))
    BY <2>1 DEF ReqInv, FlightInv
  <2> QED
    BY <2>1, <2>2, <2>3 DEF Query
<1>2. req.todo = <<"blocks", "block_txs">> /\ req.answer = "none"
  <2>1. Head(<<"block_txs">>) = "block_txs" /\ <<"blocks", "block_txs">> # <<"block_txs">>
    OBVIOUS
  <2> QED
    BY <1>1, <2>1, InFlight DEF Query
<1>3. Head(req.todo) = "blocks" /\ Tail(req.todo) = <<"block_txs">>
  BY <1>2
<1>4. TypeOK'
  BY <1>1, SameRows DEF ReqInv, ReadTypeOK
<1>5. <<"block_txs">> \in Seq(Tables) /\ <<>> \in Seq(Tables) /\ <<"block_txs">> # <<>>
  BY DEF Tables
<1>6. Head(<<"block_txs">>) = "block_txs"
  OBVIOUS
<1>7. CASE req.id \in db.known
  <2>1. PICK row \in {"canonical", "orphaned"} : req' = [req EXCEPT !.answer = row, !.todo = <<"block_txs">>]
    BY <1>3, <1>7 DEF Query, Rows, Onward, Flag
  <2>2. /\ req'.kind = "block" /\ req'.id = req.id /\ req'.todo = <<"block_txs">> /\ req'.answer = row
        /\ req'.known = req.known /\ req'.mined = req.mined /\ req' \in Request
    BY <1>1, <1>5, <2>1 DEF Request, Answers
  <2>3. ReadTypeOK'
    BY <1>1, <1>4, <2>2, StagesOf DEF ReadTypeOK
  <2>4. db' = db /\ \A x : IsMined(x)' = IsMined(x) /\ Known(x)' = Known(x)
    BY <1>1, SameRows
  <2>5. req.id \notin Txs
    BY <1>1, ReadAssumption
  <2>6. FlightInv'
    BY <1>1, <1>6, <1>7, <2>2, <2>4, <2>5 DEF FlightInv
  <2> QED
    BY <1>5, <2>2, <2>3, <2>6 DEF ReqInv, NotOrphanedWhileMined, BlockWithItsTxs, FoundIfKnown, Answered
<1>8. CASE req.id \notin db.known
  <2>1. req' = [req EXCEPT !.todo = <<>>]
    BY <1>3, <1>8 DEF Query, Rows, Onward
  <2>2. ~req.known
    <3>1. req.id \notin db.mempool /\ BlocksWith(req.id) = {}
      BY <1>1, MinedIsKnown
    <3> QED
      BY <1>1, <1>8, <3>1 DEF Known
  <2>3. /\ req'.kind = "block" /\ req'.id = req.id /\ req'.todo = <<>> /\ req'.answer = "none"
        /\ req'.known = req.known /\ req'.mined = req.mined /\ req' \in Request
    BY <1>1, <1>2, <1>5, <2>1 DEF Request
  <2>4. ReadTypeOK'
    BY <1>1, <1>4, <2>3, StagesOf DEF ReadTypeOK
  <2>5. FlightInv'
    BY <2>3 DEF FlightInv, Free
  <2> QED
    BY <2>2, <2>3, <2>4, <2>5 DEF ReqInv, NotOrphanedWhileMined, BlockWithItsTxs, FoundIfKnown, Answered
<1> QED
  BY <1>7, <1>8

(* getBlockTxs, the last query of a request for a block. *)
LEMMA BlockTxsKeeps ==
  ASSUME IInv, ReqInv, GetBlockTxs
  PROVE  ReqInv'
<1>1. ~Free /\ UNCHANGED vars /\ Head(req.todo) = "block_txs"
  BY DEF GetBlockTxs
<1>2. /\ Head(<<"mempool_txs", "txs">>) = "mempool_txs" /\ Head(<<"txs">>) = "txs"
      /\ Head(<<"txs", "mempool_txs", "blocks">>) = "txs"
      /\ Head(<<"mempool_txs", "blocks">>) = "mempool_txs" /\ Head(<<"blocks">>) = "blocks"
      /\ Head(<<"blocks", "block_txs">>) = "blocks"
  OBVIOUS
<1>3. /\ req # NoReq /\ req \in Request /\ req.kind = "block" /\ req.id \in Blocks
      /\ req.todo = <<"block_txs">>
  BY <1>1, <1>2, InFlight
<1>4. req.id \in db.known /\ req.answer # "none"
  BY <1>1, <1>3 DEF ReqInv, FlightInv
<1>5. <<>> \in Seq(Tables) /\ TxsOf[req.id] \subseteq Txs
  BY <1>3, ChainAssumption
<1>6. req' = [req EXCEPT !.txs = TxsOf[req.id], !.todo = <<>>]
  BY <1>4 DEF GetBlockTxs, BlockTxs
<1>7. /\ req'.kind = "block" /\ req'.id = req.id /\ req'.todo = <<>> /\ req'.answer = req.answer
      /\ req'.txs = TxsOf[req.id] /\ req' \in Request
  BY <1>3, <1>5, <1>6 DEF Request
<1>8. TypeOK'
  BY <1>1, SameRows DEF ReqInv, ReadTypeOK
<1>9. ReadTypeOK'
  BY <1>3, <1>7, <1>8, StagesOf DEF ReadTypeOK
<1>10. FlightInv'
  BY <1>7 DEF FlightInv, Free
<1> QED
  BY <1>4, <1>7, <1>9, <1>10 DEF ReqInv, NotOrphanedWhileMined, BlockWithItsTxs, FoundIfKnown, Answered

(* A step of the store beside a request in flight, or none. *)
LEMMA WatchKeeps ==
  ASSUME IInv, IInv', ReqInv, [Next]_vars, Watch
  PROVE  ReqInv'
<1>1. TypeOK'
  BY DEF IInv
<1>2. CASE Free
  <2>1. req' = req
    BY <1>2 DEF Watch
  <2>2. ReadTypeOK'
    BY <1>1, <2>1 DEF ReqInv, ReadTypeOK
  <2>3. FlightInv'
    BY <1>2, <2>1 DEF FlightInv, Free
  <2>4. FoundIfKnown'
    <3>1. PICK x : x = req.id
      OBVIOUS
    <3>2. BlocksWith(x) \subseteq BlocksWith(x)'
      BY RowsStay
    <3> QED
      BY <2>1, <3>1, <3>2 DEF ReqInv, FoundIfKnown
  <2> QED
    BY <2>1, <2>2, <2>3, <2>4 DEF ReqInv, NotOrphanedWhileMined, BlockWithItsTxs, Answered
<1>3. CASE ~Free
  <2>1. req # NoReq /\ req \in Request
    BY <1>3, InFlight
  <2>2. PICK x : x = req.id
    OBVIOUS
  <2>3. req' = [req EXCEPT !.mined = @ /\ MinedIn(db', x)]
    BY <1>3, <2>2 DEF Watch
  <2>4. /\ req'.kind = req.kind /\ req'.id = x /\ req'.todo = req.todo /\ req'.answer = req.answer
        /\ req'.known = req.known /\ req'.txs = req.txs
        /\ req'.mined <=> req.mined /\ MinedIn(db', x)
        /\ req' \in Request
    BY <2>1, <2>2, <2>3 DEF Request, MinedIn
  <2>5. ReadTypeOK'
    BY <1>1, <2>1, <2>2, <2>4 DEF ReqInv, ReadTypeOK
  <2>6. /\ db.known \subseteq db'.known /\ BlocksWith(x) \subseteq BlocksWith(x)'
        /\ Known(x) => Known(x)'
    BY RowsStay
  <2>7. FlightInv'
    BY <1>3, <2>2, <2>4, <2>6 DEF ReqInv, FlightInv, Free, IsMined
  <2> QED
    BY <1>3, <2>4, <2>5, <2>7 DEF ReqInv, NotOrphanedWhileMined, BlockWithItsTxs, FoundIfKnown, Answered, Free
<1> QED
  BY <1>2, <1>3

(* A request begins between two steps of the store. *)
LEMMA BeginKeeps ==
  ASSUME IInv, TypeOK, UNCHANGED vars, NEW kind \in {"tx", "search", "block"}, NEW x \in Txs \cup Blocks,
         kind = "tx" => x \in Txs, kind = "block" => x \in Blocks,
         NEW known \in BOOLEAN, known => Known(x), req' = NewReq(kind, x, known)
  PROVE  ReqInv'
<1>1. /\ TypeOK' /\ Known(x)' = Known(x) /\ IsMined(x)' = IsMined(x)
  BY SameRows
<1>2. IsMined(x) \in BOOLEAN
  BY TruthValues
<1>3. req' = [kind |-> kind, id |-> x, todo |-> Lookup(kind), answer |-> "none",
              known |-> known, mined |-> IsMined(x), txs |-> {}]
  BY DEF NewReq
<1> QED
  BY <1>1, <1>2, <1>3, NewReqInv

(* Or in the turn of an event of the store. *)
LEMMA StreamKeeps ==
  ASSUME IInv', NEW ts \in SUBSET Txs, Stream(ts), \A t \in ts : Known(t)'
  PROVE  ReqInv'
<1>1. PICK t \in ts : req' = [NewReq("tx", t, TRUE) EXCEPT !.mined = MinedIn(db', t)]
  BY DEF Stream
<1>2. IsMined(t)' = MinedIn(db', t) /\ MinedIn(db', t) \in BOOLEAN
  <2>1. PICK img : img = db'
    OBVIOUS
  <2>2. MinedIn(img, t) \in BOOLEAN
    BY TruthValues
  <2>3. IsMined(t)' = MinedIn(db', t)
    BY DEF IsMined, MinedIn
  <2> QED
    BY <2>1, <2>2, <2>3
<1>3. req' = [kind |-> "tx", id |-> t, todo |-> Lookup("tx"), answer |-> "none",
              known |-> TRUE, mined |-> MinedIn(db', t), txs |-> {}]
  BY <1>1 DEF NewReq
<1>4. TypeOK' /\ t \in Txs
  BY DEF IInv
<1> QED
  BY <1>1, <1>2, <1>3, <1>4, NewReqInv

(* A block is stored before it is announced. *)
LEMMA EmitsStoredStep ==
  ASSUME IInv, EmitsStored, [Next]_vars
  PROVE  EmitsStored'
<1>1. CASE CommitUpdate
  BY <1>1, StepLosesNothing DEF CommitUpdate, EmitsStored
<1>2. CASE UNCHANGED vars
  BY <1>2 DEF vars, EmitsStored
<1>3. CASE Next /\ ~CommitUpdate
  <2>1. txn'.pc # "emit" \/ (txn' = txn /\ db'.known = db.known)
    BY <1>3 DEF Next, BeginUpdate, Begun, RestoreOrphanedChain, Restored, EmitUpdate, Fail, NoTxn,
       UpdateMempoolTx, IInv, TypeOK, Image
  <2> QED
    BY <2>1 DEF EmitsStored
<1> QED
  BY <1>1, <1>2, <1>3

(* Every step keeps what the requests rely on. *)
LEMMA ReqStep ==
  ASSUME IInv, IInv', EmitsStored, ReqInv, [ReadNext]_<<vars, req>>
  PROVE  ReqInv'
<1>1. TypeOK /\ [Next]_vars
  <2>1. TypeOK
    BY DEF IInv
  <2>2. [Next]_vars
    BY ReadIsStoreStep
  <2> QED
    BY <2>1, <2>2
<1>2. ASSUME NEW t \in Txs, GetTx(t) PROVE ReqInv'
  <2>1. req' = NewReq("tx", t, Known(t)) /\ UNCHANGED vars /\ Known(t) \in BOOLEAN
    BY <1>2, TruthValues DEF GetTx
  <2> QED
    BY <1>1, <2>1, BeginKeeps
<1>3. ASSUME NEW b \in Blocks, GetBlock(b) PROVE ReqInv'
  <2>1. req' = NewReq("block", b, Known(b)) /\ UNCHANGED vars /\ Known(b) \in BOOLEAN
    BY <1>3, TruthValues DEF GetBlock
  <2> QED
    BY <1>1, <2>1, BeginKeeps
<1>4. ASSUME NEW x \in Txs \cup Blocks, Search(x) PROVE ReqInv'
  <2>1. req' = NewReq("search", x, Known(x)) /\ UNCHANGED vars /\ Known(x) \in BOOLEAN
    BY <1>4, TruthValues DEF Search
  <2> QED
    BY <1>1, <2>1, BeginKeeps
<1>5. CASE ListTxs
  <2>1. PICK t \in Txs : IsMined(t) /\ req' = NewReq("tx", t, TRUE) /\ UNCHANGED vars
    BY <1>5 DEF ListTxs
  <2>2. Known(t)
    BY <2>1, MinedIsKnown
  <2> QED
    BY <1>1, <2>1, <2>2, BeginKeeps
<1>6. CASE ListBlocks
  <2>1. PICK b \in db.canonical : req' = NewReq("block", b, TRUE) /\ UNCHANGED vars
    BY <1>6 DEF ListBlocks
  <2>2. b \in Blocks /\ Known(b)
    BY <2>1 DEF IInv, Sound, TypeOK, Image, Known
  <2> QED
    BY <1>1, <2>1, <2>2, BeginKeeps
<1>7. CASE Query
  BY <1>7, QueryKeeps, BlockQueryKeeps
<1>8. CASE GetBlockTxs
  BY <1>8, BlockTxsKeeps
<1>9. CASE Next /\ Watch
  BY <1>9, <1>1, WatchKeeps
<1>10. CASE EmitUpdate /\ Stream(TxsOf[txn.block])
  <2>1. txn.block \in db.known /\ db' = db /\ txn.block \in Blocks
    BY <1>10 DEF EmitUpdate, EmitsStored, IInv, TypeOK, Image
  <2>2. TxsOf[txn.block] \in SUBSET Txs /\ \A t \in TxsOf[txn.block] : Known(t)'
    BY <2>1, ChainAssumption, ReadAssumption DEF Known, BlocksWith
  <2> QED
    BY <1>10, <2>2, StreamKeeps
<1>11. ASSUME NEW t \in Txs, UpdateMempoolTx(t), Stream({t}) PROVE ReqInv'
  <2>1. Known(t)'
    BY <1>11, ReadAssumption DEF UpdateMempoolTx, Known, IInv, TypeOK, Image
  <2> QED
    BY <1>11, <2>1, StreamKeeps
<1>12. CASE UNCHANGED <<vars, req>>
  <2>1. CASE Free
    BY <1>1, <1>12, <2>1, WatchKeeps DEF Watch
  <2>2. CASE ~Free
    <3>1. Watch
      <4>1. PICK x : x = req.id
        OBVIOUS
      <4>2. req \in Request /\ (req.mined => MinedIn(db', x))
        <5>1. req.mined => IsMined(x)
          BY <2>2, <4>1 DEF ReqInv, FlightInv
        <5>2. MinedIn(db', x) = IsMined(x)
          BY <1>12 DEF IsMined, vars
        <5>3. req \in Request
          BY <2>2, InFlight
        <5> QED
          BY <5>1, <5>2, <5>3
      <4>3. req = [req EXCEPT !.mined = @ /\ MinedIn(db', x)]
        BY <4>2 DEF Request
      <4> QED
        BY <1>12, <2>2, <4>1, <4>3 DEF Watch
    <3> QED
      BY <1>1, <3>1, WatchKeeps
  <2> QED
    BY <2>1, <2>2
<1> QED
  BY <1>2, <1>3, <1>4, <1>5, <1>6, <1>7, <1>8, <1>9, <1>10, <1>11, <1>12 DEF ReadNext

-----------------------------------------------------------------------------
(***************************************************************************)
(* What a client of the API can rely on.                                   *)
(***************************************************************************)

(* The invariant holds in every reachable state. *)
LEMMA ReadInvariance == ReadSpec => [](IInv /\ EmitsStored /\ ReqInv)
<1>1. ReadInit => IInv /\ EmitsStored /\ ReqInv
  <2> SUFFICES ASSUME ReadInit PROVE IInv /\ EmitsStored /\ ReqInv
    OBVIOUS
  <2>1. IInv /\ TypeOK /\ txn = NoTxn /\ req = NoReq
    BY InitIInv DEF ReadInit, Init, IInv
  <2> QED
    BY <2>1 DEF EmitsStored, NoTxn, NoReq, ReqInv, ReadTypeOK, FlightInv, Free,
       NotOrphanedWhileMined, BlockWithItsTxs, FoundIfKnown, Answered
<1>2. IInv /\ [ReadNext]_<<vars, req>> => IInv'
  BY ReadIsStoreStep, IInvStep
<1>3. IInv /\ IInv' /\ EmitsStored /\ ReqInv /\ [ReadNext]_<<vars, req>> => EmitsStored' /\ ReqInv'
  BY ReadIsStoreStep, EmitsStoredStep, ReqStep
<1> QED
  BY <1>1, <1>2, <1>3, PTL DEF ReadSpec

(* Whatever is committed between its queries, a request finds what was there when
   it began; a search may only miss what was mined in between. *)
THEOREM WhatIsKnownIsFound == ReadSpec => []FoundIfKnown
<1>1. ReqInv => FoundIfKnown
  BY DEF ReqInv
<1> QED
  BY <1>1, ReadInvariance, PTL

(* And no answer mixes two moments: a transaction mined all the time is not told
   orphaned, and a block comes with all its transactions. *)
THEOREM AnswersAreWhole == ReadSpec => []ReadInv
<1>1. EmitsStored /\ ReqInv => ReadInv
  BY DEF ReqInv, ReadInv
<1> QED
  BY <1>1, ReadInvariance, PTL

-----------------------------------------------------------------------------
(***************************************************************************)
(* Lists and their pages.                                                  *)
(***************************************************************************)

(* The place of r in the list: how many rows are shown before it. *)
Rank(rows, key, r) == Cardinality(Before(rows, key, r))

(* The keys tell the rows apart, and order them. *)
Orders(rows, key) ==
  /\ \A r \in rows : ~After(key[r], key[r])
  /\ \A r, s \in rows : r # s => After(key[r], key[s]) \/ After(key[s], key[r])
  /\ \A r, s, t \in rows : After(key[r], key[s]) /\ After(key[s], key[t]) => After(key[r], key[t])

LEMMA RankType ==
  ASSUME NEW rows, IsFiniteSet(rows), NEW key, Orders(rows, key), NEW r \in rows
  PROVE  Rank(rows, key, r) \in 0..(Cardinality(rows) - 1) /\ Cardinality(rows) \in Nat
<1>1. Before(rows, key, r) \in SUBSET rows /\ Before(rows, key, r) # rows
  BY DEF Before, Orders
<1>2. /\ IsFiniteSet(Before(rows, key, r))
      /\ Cardinality(Before(rows, key, r)) \in Nat /\ Cardinality(rows) \in Nat
  BY <1>1, FS_Subset, FS_CardinalityType
<1>3. Cardinality(Before(rows, key, r)) <= Cardinality(rows)
  BY <1>1, FS_Subset
<1>4. Cardinality(Before(rows, key, r)) # Cardinality(rows)
  BY <1>1, FS_Subset
<1> QED
  BY <1>2, <1>3, <1>4 DEF Rank

LEMMA RanksDiffer ==
  ASSUME NEW rows, IsFiniteSet(rows), NEW key, Orders(rows, key), NEW r \in rows, NEW s \in rows,
         After(key[r], key[s])
  PROVE  Rank(rows, key, r) < Rank(rows, key, s)
<1>1. /\ Before(rows, key, r) \in SUBSET Before(rows, key, s)
      /\ Before(rows, key, r) # Before(rows, key, s) /\ Before(rows, key, s) \in SUBSET rows
  BY DEF Before, Orders
<1>2. IsFiniteSet(Before(rows, key, s))
  BY <1>1, FS_Subset
<1>3. /\ Cardinality(Before(rows, key, r)) <= Cardinality(Before(rows, key, s))
      /\ Cardinality(Before(rows, key, r)) # Cardinality(Before(rows, key, s))
  BY <1>1, <1>2, FS_Subset
<1> QED
  BY <1>3, RankType DEF Rank

(* Each place of the list has one row, and each row its place. *)
LEMMA SortedIs ==
  ASSUME NEW rows, IsFiniteSet(rows), NEW key, Orders(rows, key)
  PROVE  /\ Sorted(rows, key) \in Seq(rows)
         /\ Len(Sorted(rows, key)) = Cardinality(rows)
         /\ \A r \in rows : Sorted(rows, key)[Rank(rows, key, r) + 1] = r
         /\ \A k \in 1..Cardinality(rows) : \E r \in rows : Rank(rows, key, r) = k - 1
<1> DEFINE n == Cardinality(rows)
           f == [r \in rows |-> Rank(rows, key, r)]
<1>0. n \in Nat
  BY FS_CardinalityType
<1>1. n \in Nat /\ Cardinality(0..(n - 1)) = n /\ IsFiniteSet(0..(n - 1))
  <2>1. n - 1 \in Int /\ 0 \in Int
    BY <1>0
  <2>2. IsFiniteSet(0..(n - 1)) /\ Cardinality(0..(n - 1)) = IF 0 > n - 1 THEN 0 ELSE (n - 1) - 0 + 1
    BY <2>1, FS_Interval
  <2> QED
    BY <1>0, <2>2
<1>2. \A r, s \in rows : Rank(rows, key, r) = Rank(rows, key, s) => r = s
  <2> SUFFICES ASSUME NEW r \in rows, NEW s \in rows, r # s
               PROVE  Rank(rows, key, r) # Rank(rows, key, s)
    OBVIOUS
  <2>1. After(key[r], key[s]) \/ After(key[s], key[r])
    BY DEF Orders
  <2>2. Rank(rows, key, r) < Rank(rows, key, s) \/ Rank(rows, key, s) < Rank(rows, key, r)
    BY <2>1, RanksDiffer
  <2>3. Rank(rows, key, r) \in Int /\ Rank(rows, key, s) \in Int
    BY <1>1, RankType
  <2> QED
    BY <2>2, <2>3
<1>3. f \in [rows -> 0..(n - 1)]
  BY RankType
<1>4. f \in Injection(rows, 0..(n - 1))
  BY <1>2, <1>3 DEF Injection, IsInjective
<1>5. f \in Surjection(rows, 0..(n - 1))
  BY <1>1, <1>4, FS_Injection
<1>6. \A k \in 1..n : \E r \in rows : Rank(rows, key, r) = k - 1
  <2> SUFFICES ASSUME NEW k \in 1..n PROVE \E r \in rows : f[r] = k - 1
    OBVIOUS
  <2>1. k - 1 \in 0..(n - 1)
    BY <1>1
  <2> QED
    BY <1>5, <2>1 DEF Surjection
<1> DEFINE placed == {<<Rank(rows, key, r), r>> : r \in rows}
           at(k) == CHOOSE p \in placed : p[1] = k - 1
<1>7. Sorted(rows, key) = [k \in 1..n |-> at(k)[2]]
  BY DEF Sorted, Rank
<1>a. ASSUME NEW k \in 1..n
      PROVE  at(k)[2] \in rows /\ Rank(rows, key, at(k)[2]) = k - 1
  <2>1. \E p \in placed : p[1] = k - 1
    <3>1. PICK r \in rows : Rank(rows, key, r) = k - 1
      BY <1>6
    <3>2. <<Rank(rows, key, r), r>> \in placed /\ <<Rank(rows, key, r), r>>[1] = Rank(rows, key, r)
      OBVIOUS
    <3> HIDE DEF placed
    <3> QED
      BY <3>1, <3>2
  <2>2. at(k) \in placed /\ at(k)[1] = k - 1
    BY <2>1
  <2>3. PICK r \in rows : at(k) = <<Rank(rows, key, r), r>>
    BY <2>2
  <2> HIDE DEF at
  <2>4. at(k)[1] = Rank(rows, key, r) /\ at(k)[2] = r
    BY <2>3
  <2> QED
    BY <2>2, <2>4
<1> HIDE DEF at
<1>b. Sorted(rows, key) \in [1..n -> rows]
  BY <1>7, <1>a
<1>8. ASSUME NEW r \in rows
      PROVE  Sorted(rows, key)[Rank(rows, key, r) + 1] = r
  <2> DEFINE k == Rank(rows, key, r) + 1
  <2>1. k \in 1..n /\ Rank(rows, key, r) = k - 1
    BY <1>1, RankType
  <2> HIDE DEF k
  <2>2. Sorted(rows, key)[k] = at(k)[2]
    BY <1>7, <2>1
  <2>3. Rank(rows, key, Sorted(rows, key)[k]) = k - 1 /\ Sorted(rows, key)[k] \in rows
    BY <1>a, <2>1, <2>2
  <2>4. Sorted(rows, key)[k] = r
    BY <1>2, <2>1, <2>3
  <2> QED
    BY <2>4 DEF k
<1> HIDE DEF n, f
<1>9. Sorted(rows, key) \in Seq(rows) /\ Len(Sorted(rows, key)) = n
  BY <1>1, <1>b
<1> QED
  BY <1>6, <1>8, <1>9 DEF n

Shows(page, r) == \E k \in DOMAIN page : page[k] = r

(* What a page shows: the rows whose places it covers. *)
LEMMA PageShows ==
  ASSUME NEW rows, IsFiniteSet(rows), NEW key, Orders(rows, key),
         NEW limit \in Nat, NEW offset \in Nat, NEW r \in rows,
         offset <= Rank(rows, key, r), Rank(rows, key, r) < offset + limit
  PROVE  Shows(Page(Sorted(rows, key), limit, offset), r)
<1> DEFINE list == Sorted(rows, key)
           place == Rank(rows, key, r)
           end == Least(Len(list), offset + limit)
           page == Page(list, limit, offset)
<1>1. list \in Seq(rows) /\ list[place + 1] = r
  BY SortedIs
<1>2. Len(list) \in Nat /\ place \in 0..(Len(list) - 1)
  BY SortedIs, RankType
<1> HIDE DEF list, place
<1>3. end \in Nat /\ end <= Len(list) /\ place < end /\ offset <= place
  BY <1>2 DEF Least, place
<1>4. page = SubSeq(list, offset + 1, end)
  BY DEF Page
<1> HIDE DEF end, page
<1>5. \A i \in (offset + 1)..end : list[i] \in rows
  BY <1>1, <1>3
<1>6. /\ page \in Seq(rows) /\ Len(page) = end - offset
      /\ \A i \in 1..(end - offset) : page[i] = list[offset + i]
  <2>1. offset + 1 \in Int /\ end \in Int /\ offset + 1 <= end
    BY <1>3, <1>2
  <2>2. /\ page \in Seq(rows) /\ Len(page) = end - (offset + 1) + 1
        /\ \A i \in 1..(end - (offset + 1) + 1) : page[i] = list[(offset + 1) + i - 1]
    BY <1>4, <1>5, <2>1, SubSeqProperties
  <2> QED
    BY <1>3, <2>2
<1>7. place + 1 - offset \in 1..(end - offset) /\ offset + (place + 1 - offset) = place + 1
  BY <1>2, <1>3
<1>8. page[place + 1 - offset] = r /\ place + 1 - offset \in DOMAIN page
  BY <1>1, <1>3, <1>6, <1>7
<1> QED
  BY <1>8 DEF page, list, Shows

(* A list that becomes longer moves its rows back, never forward. *)
LEMMA RanksGrow ==
  ASSUME NEW old, NEW new, old \subseteq new, IsFiniteSet(new), NEW key, NEW r,
         NEW keys, \A s \in old \cup {r} : keys[s] = key[s]
  PROVE  Rank(old, keys, r) <= Rank(new, key, r)
<1>1. Before(old, keys, r) \in SUBSET Before(new, key, r) /\ Before(new, key, r) \in SUBSET new
  BY DEF Before
<1> QED
  BY <1>1, FS_Subset DEF Rank

-----------------------------------------------------------------------------
(***************************************************************************)
(* The rows of the tables.                                                 *)
(***************************************************************************)

(* The blocks with rows that are canonical: the chain, which is finite. *)
LEMMA LiveIsCanonical ==
  ASSUME IInv
  PROVE  /\ \A T \in EntityTables : db.live[T] = db.canonical
         /\ db.canonical \subseteq db.known /\ db.known \subseteq Blocks
         /\ \A b \in db.known : db.copies[b] = 1
  BY DEF IInv, Sound, RowsAgree, TypeOK, Image

LEMMA ChainIsFinite ==
  ASSUME IInv
  PROVE  IsFiniteSet(db.canonical)
<1>1. db.canonical \subseteq Blocks /\ db.canonical \subseteq db.known
  BY LiveIsCanonical
<1>2. CASE db.known = {}
  BY <1>1, <1>2, FS_EmptySet
<1>3. CASE db.known # {}
  <2>1. PICK t \in TipRows(db) : TRUE
    BY <1>3 DEF IInv, Sound, TipOnTop
  <2>2. t \in Blocks /\ \A b \in db.known : Height[b] <= Height[t]
    BY <1>1, <2>1 DEF TipRows
  <2> DEFINE f == [b \in db.canonical |-> Height[b]]
  <2>3. f \in [db.canonical -> 1..Height[t]]
    BY <1>1, <2>2, ChainAssumption
  <2>4. f \in Injection(db.canonical, 1..Height[t])
    BY <2>3 DEF Injection, IsInjective, IInv, Sound, OnePerHeight
  <2>5. IsFiniteSet(1..Height[t])
    BY <2>2, ChainAssumption, FS_Interval
  <2> QED
    BY <2>4, <2>5, FS_Injection
<1> QED
  BY <1>2, <1>3

LEMMA MinedIs ==
  ASSUME IInv
  PROVE  /\ Mined = TxRows(db.canonical)
         /\ \A r \in Mined : /\ r = <<r[1], r[2]>> /\ r[1] \in db.canonical /\ r[1] \in Blocks
                             /\ r[2] \in DOMAIN Order[r[1]] /\ r[2] \in Nat /\ TxAt(r) \in Txs
         /\ IsFiniteSet(Mined)
<1>1. db.live["txs"] = db.canonical /\ db.canonical \subseteq Blocks
  BY LiveIsCanonical DEF EntityTables
<1>2. Mined = TxRows(db.canonical)
  BY <1>1 DEF Mined
<1>3. ASSUME NEW r \in Mined
      PROVE  /\ r = <<r[1], r[2]>> /\ r[1] \in db.canonical /\ r[1] \in Blocks
             /\ r[2] \in DOMAIN Order[r[1]] /\ r[2] \in Nat /\ TxAt(r) \in Txs
  <2>1. PICK b \in db.canonical : \E i \in DOMAIN Order[b] : r = <<b, i>>
    BY <1>2 DEF TxRows
  <2>2. PICK i \in DOMAIN Order[b] : r = <<b, i>>
    BY <2>1
  <2>3. Order[b] \in Seq(Txs)
    BY <1>1, LedgerAssumption
  <2>4. i \in Nat /\ Order[b][i] \in Txs
    BY <2>2, <2>3
  <2> QED
    BY <1>1, <2>2, <2>4 DEF TxAt
<1>4. IsFiniteSet(Mined)
  <2> DEFINE Of == [b \in db.canonical |-> {<<b, i>> : i \in DOMAIN Order[b]}]
  <2>1. ASSUME NEW b \in db.canonical PROVE IsFiniteSet(Of[b])
    <3> DEFINE f == [i \in DOMAIN Order[b] |-> <<b, i>>]
    <3>1. Order[b] \in Seq(Txs)
      BY <1>1, LedgerAssumption
    <3>2. DOMAIN f = 1..Len(Order[b]) /\ Len(Order[b]) \in Nat
      BY <3>1
    <3>3. IsFiniteSet(DOMAIN f)
      BY <3>2, FS_Interval
    <3>4. Of[b] = {f[i] : i \in DOMAIN f}
      OBVIOUS
    <3> HIDE DEF f, Of
    <3> QED
      BY <3>3, <3>4, ImageFinite
  <2>2. Mined = UNION {Of[b] : b \in DOMAIN Of}
    <3>1. DOMAIN Of = db.canonical /\ \A b \in db.canonical : Of[b] = {<<b, i>> : i \in DOMAIN Order[b]}
      OBVIOUS
    <3>2. \A r : r \in Mined <=> \E b \in db.canonical : r \in {<<b, i>> : i \in DOMAIN Order[b]}
      BY <1>2 DEF TxRows
    <3> HIDE DEF Of
    <3>3. \A r : r \in UNION {Of[b] : b \in DOMAIN Of} <=> \E b \in db.canonical : r \in Of[b]
      BY <3>1
    <3> QED
      BY <3>1, <3>2, <3>3
  <2>3. IsFiniteSet({Of[b] : b \in DOMAIN Of})
    <3>1. IsFiniteSet(DOMAIN Of)
      BY ChainIsFinite
    <3> HIDE DEF Of
    <3> QED
      BY <3>1, ImageFinite
  <2>4. \A s \in {Of[b] : b \in DOMAIN Of} : IsFiniteSet(s)
    BY <2>1
  <2> HIDE DEF Of
  <2> QED
    BY <2>2, <2>3, <2>4, FS_UNION
<1> QED
  BY <1>2, <1>3, <1>4

(* The order of keys with two parts. *)
LEMMA AfterPair ==
  ASSUME NEW a \in Nat, NEW b \in Nat, NEW c \in Nat, NEW d \in Nat
  PROVE  After(<<a, b>>, <<c, d>>) <=> a > c \/ (a = c /\ b > d)
<1> DEFINE k == <<a, b>>
           l == <<c, d>>
<1>1. DOMAIN k = 1..2 /\ k[1] = a /\ k[2] = b /\ l[1] = c /\ l[2] = d
  OBVIOUS
<1> HIDE DEF k, l
<1>2. ASSUME After(k, l) PROVE a > c \/ (a = c /\ b > d)
  <2>1. PICK i \in 1..2 : k[i] > l[i] /\ \A j \in 1..(i - 1) : k[j] = l[j]
    BY <1>1, <1>2 DEF After
  <2>2. CASE i = 1
    BY <1>1, <2>1, <2>2
  <2>3. CASE i = 2
    BY <1>1, <2>1, <2>3
  <2> QED
    BY <2>1, <2>2, <2>3
<1>3. ASSUME a > c PROVE After(k, l)
  BY <1>1, <1>3 DEF After
<1>4. ASSUME a = c, b > d PROVE After(k, l)
  BY <1>1, <1>4 DEF After
<1> QED
  BY <1>2, <1>3, <1>4 DEF k, l

(* A transaction row has a key of its own, since the chain has one block at a
   height. *)
LEMMA TxKeysOrder ==
  ASSUME IInv, NEW rows \in SUBSET Mined
  PROVE  /\ IsFiniteSet(rows)
         /\ \A r, s \in rows : TxKey(r) = TxKey(s) => r = s
         /\ Orders(rows, [r \in rows |-> TxKey(r)])
<1>1. IsFiniteSet(rows)
  BY MinedIs, FS_Subset
<1>2. \A r \in rows : /\ r = <<r[1], r[2]>> /\ r[1] \in db.canonical
                      /\ Height[r[1]] \in Nat /\ r[2] \in Nat /\ TxKey(r) = <<Height[r[1]], r[2]>>
  BY MinedIs, ChainAssumption DEF TxKey
<1>3. \A r, s \in rows : Height[r[1]] = Height[s[1]] /\ r[2] = s[2] => r = s
  BY <1>2 DEF IInv, Sound, OnePerHeight
<1>4. \A r, s \in rows : TxKey(r) = TxKey(s) => r = s
  BY <1>2, <1>3
<1>5. \A r, s \in rows : After(TxKey(r), TxKey(s)) <=>
        Height[r[1]] > Height[s[1]] \/ (Height[r[1]] = Height[s[1]] /\ r[2] > s[2])
  BY <1>2, AfterPair
<1> DEFINE key == [r \in rows |-> TxKey(r)]
<1>6. \A r, s \in rows : After(key[r], key[s]) <=>
        Height[r[1]] > Height[s[1]] \/ (Height[r[1]] = Height[s[1]] /\ r[2] > s[2])
  BY <1>5
<1> HIDE DEF key
<1>7. \A r, s \in rows : r # s => After(key[r], key[s]) \/ After(key[s], key[r])
  BY <1>2, <1>3, <1>6
<1>8. \A r \in rows : ~After(key[r], key[r])
  BY <1>2, <1>6
<1>9. \A r, s, t \in rows : After(key[r], key[s]) /\ After(key[s], key[t]) => After(key[r], key[t])
  BY <1>2, <1>6
<1> QED
  BY <1>1, <1>4, <1>7, <1>8, <1>9 DEF Orders, key

-----------------------------------------------------------------------------
(***************************************************************************)
(* The walk through the transactions of a principal.                       *)
(***************************************************************************)

LEMMA WalkIsStoreStep == [WalkNext]_<<vars, walk>> => [Next]_vars
  BY DEF WalkNext, Begin, QueryTotal, QueryPage, Commit, LedgerNext, vars

WalkType ==
  /\ DOMAIN walk = {"of", "pc", "offset", "total", "list", "seen", "grew"}
  /\ walk = [f \in DOMAIN walk |-> walk[f]]
  /\ walk.of \in {"txs", "address"} /\ walk.offset \in Nat /\ walk.grew \in BOOLEAN

Place(r) == Rank(AddressTxRows(Owner), [s \in AddressTxRows(Owner) |-> TxKey(s)], r)

(* As long as nothing has left the list, what the client has not seen of it is
   still to come: it is there, and not before the offset. *)
AddressWalk ==
  walk.of = "address" =>
    /\ walk.pc \in {"page", "done"}
    /\ walk.grew /\ walk.pc = "page" =>
         /\ walk.list \subseteq AddressTxRows(Owner)
         /\ \A r \in walk.list \ walk.seen : walk.offset <= Place(r)
    /\ walk.grew /\ walk.pc = "done" => walk.list \subseteq walk.seen

WalkInv == WalkType /\ AddressWalk

LEMMA AddressRowsOrder ==
  ASSUME IInv
  PROVE  /\ IsFiniteSet(AddressTxRows(Owner))
         /\ Orders(AddressTxRows(Owner), [s \in AddressTxRows(Owner) |-> TxKey(s)])
  BY TxKeysOrder DEF AddressTxRows

LEMMA WalkPage ==
  ASSUME IInv, WalkInv, QueryPage, walk.of = "address", walk.grew
  PROVE  AddressWalk'
<1> DEFINE rows == AddressTxRows(Owner)
           key == [s \in rows |-> TxKey(s)]
           list == Sorted(rows, key)
           page == Page(list, Limit, walk.offset)
           total == IF page = <<>> THEN 0 ELSE Cardinality(rows)
           seen == walk.seen \cup {page[k] : k \in DOMAIN page}
           next == walk.offset + Limit
<1>1. IsFiniteSet(rows) /\ Orders(rows, key) /\ Limit \in Nat \ {0} /\ walk.offset \in Nat
  BY AddressRowsOrder, PageWalkAssumption DEF WalkInv, WalkType
<1>2. /\ walk.list \subseteq rows /\ walk.pc = "page"
      /\ \A r \in walk.list \ walk.seen : walk.offset <= Rank(rows, key, r)
  BY DEF QueryPage, WalkInv, AddressWalk, Place
<1>3. walk' = IF next >= total
              THEN [walk EXCEPT !.pc = "done", !.total = total, !.seen = seen]
              ELSE [walk EXCEPT !.pc = "page", !.total = total, !.seen = seen, !.offset = next]
  BY DEF QueryPage, CountsWithRows, FirstQuery, List, TxsNewestFirst
<1>4. AddressTxRows(Owner)' = rows /\ \A r : Place(r)' = Rank(rows, key, r)
  BY DEF QueryPage, vars, AddressTxRows, Mined, TxRows, TxAt, TxConcerns, Place, Rank, Before, TxKey
<1>p. \A r \in rows : walk.offset <= Rank(rows, key, r) /\ Rank(rows, key, r) < walk.offset + Limit
                      => Shows(page, r)
  <2> SUFFICES ASSUME NEW r \in rows, walk.offset <= Rank(rows, key, r),
                      Rank(rows, key, r) < walk.offset + Limit
               PROVE  Shows(page, r)
    OBVIOUS
  <2>1. Limit \in Nat /\ walk.offset \in Nat /\ IsFiniteSet(rows) /\ Orders(rows, key)
    BY <1>1
  <2> HIDE DEF rows, key
  <2> QED
    BY <2>1, PageShows
<1>5. \A r \in walk.list \ seen : next <= Rank(rows, key, r)
  <2> SUFFICES ASSUME NEW r \in walk.list \ seen PROVE next <= Rank(rows, key, r)
    OBVIOUS
  <2>1. walk.offset <= Rank(rows, key, r) /\ r \in rows /\ Rank(rows, key, r) \in Nat
    BY <1>1, <1>2, RankType
  <2>2. ~(Rank(rows, key, r) < walk.offset + Limit)
    <3> SUFFICES ASSUME Rank(rows, key, r) < walk.offset + Limit PROVE FALSE
      OBVIOUS
    <3>1. \E k \in DOMAIN page : page[k] = r
      BY <1>p, <2>1 DEF Shows
    <3>2. r \notin {page[k] : k \in DOMAIN page}
      OBVIOUS
    <3> HIDE DEF page
    <3> QED
      BY <3>1, <3>2
  <2> QED
    BY <1>1, <2>1, <2>2
<1>6. page = <<>> => walk.list \subseteq seen
  <2> SUFFICES ASSUME page = <<>>, NEW r \in walk.list \ seen PROVE FALSE
    OBVIOUS
  <2>1. PICK s \in rows : Rank(rows, key, s) = walk.offset
    <3> DEFINE n == Cardinality(rows)
    <3>1. n \in Nat /\ Rank(rows, key, r) < n /\ Rank(rows, key, r) \in Nat /\ walk.offset <= Rank(rows, key, r)
      BY <1>1, <1>2, RankType
    <3>2. walk.offset + 1 \in 1..n /\ (walk.offset + 1) - 1 = walk.offset
      BY <1>1, <3>1
    <3>3. \A k \in 1..n : \E x \in rows : Rank(rows, key, x) = k - 1
      BY <1>1, SortedIs
    <3> HIDE DEF n, rows, key
    <3> QED
      BY <3>2, <3>3
  <2>2. walk.offset <= Rank(rows, key, s) /\ Rank(rows, key, s) < walk.offset + Limit
    BY <1>1, <2>1
  <2>3. \E k \in DOMAIN page : page[k] = s
    BY <1>p, <2>2 DEF Shows
  <2> QED
    BY <2>3
<1>7. ASSUME NEW r \in walk.list \ seen, next >= total PROVE FALSE
  <2> DEFINE n == Cardinality(rows)
  <2>1. page # <<>>
    BY <1>6, <1>7
  <2>2. n \in Nat /\ Rank(rows, key, r) < n /\ Rank(rows, key, r) \in Nat /\ next <= Rank(rows, key, r)
    <3>1. r \in rows /\ next <= Rank(rows, key, r)
      BY <1>2, <1>5, <1>7
    <3> HIDE DEF rows, key, next
    <3> QED
      BY <1>1, <3>1, RankType
  <2>3. total = n
    BY <2>1
  <2>4. next \in Nat
    BY <1>1
  <2> HIDE DEF n, total, next
  <2> QED
    BY <1>7, <2>2, <2>3, <2>4
<1> HIDE DEF rows, key, page, total, seen, next
<1>8. CASE next >= total
  <2>1. walk' = [walk EXCEPT !.pc = "done", !.total = total, !.seen = seen]
    BY <1>3, <1>8
  <2>2. walk'.pc = "done" /\ walk'.list = walk.list /\ walk'.seen = seen
    BY <2>1 DEF WalkInv, WalkType
  <2>3. walk.list \subseteq seen
    BY <1>7, <1>8
  <2> QED
    BY <2>2, <2>3 DEF AddressWalk
<1>9. CASE ~(next >= total)
  <2>1. walk' = [walk EXCEPT !.pc = "page", !.total = total, !.seen = seen, !.offset = next]
    BY <1>3, <1>9
  <2>2. walk'.pc = "page" /\ walk'.list = walk.list /\ walk'.seen = seen /\ walk'.offset = next
    BY <2>1 DEF WalkInv, WalkType
  <2>3. walk'.list \subseteq AddressTxRows(Owner)'
    BY <1>2, <1>4, <2>2
  <2>4. \A r \in walk'.list \ walk'.seen : walk'.offset <= Place(r)'
    BY <1>4, <1>5, <2>2
  <2> QED
    BY <2>2, <2>3, <2>4 DEF AddressWalk
<1> QED
  BY <1>8, <1>9

(* The rows of the principal after a commit are finitely many as well. *)
LEMMA AddressRowsFinite == IInv => IsFiniteSet(AddressTxRows(Owner))
  BY AddressRowsOrder

LEMMA WalkCommit ==
  ASSUME IInv, IInv', WalkInv, Commit, walk.of = "address"
  PROVE  AddressWalk'
<1> DEFINE old == AddressTxRows(Owner)
           new == AddressTxRows(Owner)'
           oldkey == [s \in old |-> TxKey(s)]
           newkey == [s \in new |-> TxKey(s)]
<1>1. /\ walk'.of = walk.of /\ walk'.pc = walk.pc /\ walk'.list = walk.list
      /\ walk'.seen = walk.seen /\ walk'.offset = walk.offset
      /\ walk'.grew => walk.grew
      /\ walk'.grew /\ walk.pc # "done" => old \subseteq new
  <2>1. CASE walk.pc = "done"
    BY <2>1 DEF Commit
  <2>2. CASE walk.pc # "done"
    BY <2>2 DEF Commit, WalkInv, WalkType, List
  <2> QED
    BY <2>1, <2>2
<1>2. IsFiniteSet(new)
  <2>1. (IInv => IsFiniteSet(AddressTxRows(Owner)))'
    BY AddressRowsFinite, PTL
  <2> QED
    BY <2>1
<1>3. \A r : Place(r) = Rank(old, oldkey, r) /\ Place(r)' = Rank(new, newkey, r)
  BY DEF Place, Rank, Before, TxKey
<1>4. ASSUME old \subseteq new, NEW r \in old
      PROVE  Rank(old, oldkey, r) <= Rank(new, newkey, r)
  <2>1. \A s \in old \cup {r} : oldkey[s] = newkey[s]
    BY <1>4
  <2> HIDE DEF old, new, oldkey, newkey
  <2> QED
    BY <1>2, <1>4, <2>1, RanksGrow
<1>5. ASSUME walk'.grew, walk'.pc = "page"
      PROVE  /\ walk'.list \subseteq new
             /\ \A r \in walk'.list \ walk'.seen : walk'.offset <= Place(r)'
  <2>1. /\ walk.list \subseteq old /\ old \subseteq new
        /\ \A r \in walk.list \ walk.seen : walk.offset <= Place(r)
    BY <1>1, <1>5 DEF WalkInv, AddressWalk
  <2> SUFFICES ASSUME NEW r \in walk.list \ walk.seen
               PROVE  walk.offset <= Place(r)'
    BY <1>1, <2>1
  <2>2. walk.offset <= Rank(old, oldkey, r) /\ Rank(old, oldkey, r) <= Rank(new, newkey, r)
    BY <1>3, <1>4, <2>1
  <2>3. walk.offset \in Nat /\ Rank(old, oldkey, r) \in Int /\ Rank(new, newkey, r) \in Int
    <3>1. IsFiniteSet(Before(old, oldkey, r)) /\ IsFiniteSet(Before(new, newkey, r))
      BY <1>2, <2>1, FS_Subset DEF Before
    <3>2. Cardinality(Before(old, oldkey, r)) \in Nat /\ Cardinality(Before(new, newkey, r)) \in Nat
      BY <3>1, FS_CardinalityType
    <3> QED
      BY <3>2 DEF Rank, WalkInv, WalkType
  <2> QED
    BY <1>3, <2>2, <2>3
<1>6. walk'.grew /\ walk'.pc = "done" => walk'.list \subseteq walk'.seen
  BY <1>1 DEF WalkInv, AddressWalk
<1>7. walk'.pc \in {"page", "done"}
  BY <1>1 DEF WalkInv, AddressWalk
<1> QED
  BY <1>5, <1>6, <1>7 DEF AddressWalk

LEMMA WalkStep == IInv /\ IInv' /\ WalkInv /\ [WalkNext]_<<vars, walk>> => WalkInv'
<1> SUFFICES ASSUME IInv, IInv', WalkInv, [WalkNext]_<<vars, walk>> PROVE WalkInv'
  OBVIOUS
<1>1. CASE Begin
  <2>1. PICK of \in {"txs", "address"} :
          walk' = [NoWalk EXCEPT !.of = of, !.pc = FirstQuery(of), !.list = List(of)]
    BY <1>1 DEF Begin
  <2>2. /\ DOMAIN walk' = DOMAIN NoWalk /\ walk'.of = of /\ walk'.pc = FirstQuery(of)
        /\ walk'.list = List(of) /\ walk'.offset = 0 /\ walk'.seen = {} /\ walk'.grew = TRUE
    BY <2>1 DEF NoWalk
  <2>3. WalkType'
    BY <2>1, <2>2 DEF WalkType, NoWalk
  <2>4. ASSUME of = "address" PROVE AddressWalk'
    <3>1. List(of) = AddressTxRows(Owner) /\ FirstQuery(of) = "page"
      BY <2>4 DEF List, FirstQuery, CountsWithRows
    <3>2. AddressTxRows(Owner)' = AddressTxRows(Owner) /\ \A r : Place(r)' = Place(r)
      BY <1>1 DEF Begin, vars, AddressTxRows, Mined, TxRows, TxAt, TxConcerns, Place, Rank, Before, TxKey
    <3>3. \A r \in AddressTxRows(Owner) : 0 <= Place(r)
      BY AddressRowsOrder, RankType DEF Place
    <3> QED
      BY <2>2, <3>1, <3>2, <3>3 DEF AddressWalk
  <2>5. of # "address" => AddressWalk'
    BY <2>2 DEF AddressWalk
  <2> QED
    BY <2>3, <2>4, <2>5 DEF WalkInv
<1>2. CASE QueryTotal
  <2>1. walk.of # "address"
    BY <1>2 DEF QueryTotal, WalkInv, AddressWalk
  <2>2. WalkType' /\ walk'.of = walk.of
    BY <1>2 DEF QueryTotal, WalkInv, WalkType
  <2> QED
    BY <2>1, <2>2 DEF WalkInv, AddressWalk
<1>3. CASE QueryPage
  <2>1. WalkType' /\ walk'.of = walk.of /\ walk'.grew = walk.grew
    <3>1. \E total, seen, next, pc :
            /\ next \in Nat
            /\ \/ walk' = [walk EXCEPT !.pc = "done", !.total = total, !.seen = seen]
               \/ walk' = [walk EXCEPT !.pc = pc, !.total = total, !.seen = seen, !.offset = next]
      <4>1. walk.offset + Limit \in Nat
        BY PageWalkAssumption DEF WalkInv, WalkType
      <4> DEFINE page == Page(TxsNewestFirst(List(walk.of)), Limit, walk.offset)
                 total == IF ~CountsWithRows(walk.of) THEN walk.total
                          ELSE IF page = <<>> THEN 0 ELSE Cardinality(List(walk.of))
                 seen == walk.seen \cup {page[k] : k \in DOMAIN page}
                 pc == FirstQuery(walk.of)
                 next == walk.offset + Limit
      <4>2. \/ walk' = [walk EXCEPT !.pc = "done", !.total = total, !.seen = seen]
            \/ walk' = [walk EXCEPT !.pc = pc, !.total = total, !.seen = seen, !.offset = next]
        BY <1>3 DEF QueryPage
      <4> HIDE DEF total, seen, pc
      <4> QED
        BY <4>1, <4>2
    <3> QED
      BY <3>1 DEF WalkInv, WalkType
  <2>2. CASE walk.of = "address" /\ walk.grew
    BY <1>3, <2>1, <2>2, WalkPage DEF WalkInv
  <2>3. CASE walk.of = "address" /\ ~walk.grew
    <3>1. walk'.pc \in {"page", "done"}
      BY <1>3, <2>3 DEF QueryPage, FirstQuery, CountsWithRows, WalkInv, WalkType
    <3> QED
      BY <2>1, <2>3, <3>1 DEF WalkInv, AddressWalk
  <2>4. CASE walk.of # "address"
    BY <2>1, <2>4 DEF WalkInv, AddressWalk
  <2> QED
    BY <2>2, <2>3, <2>4
<1>4. CASE Commit
  <2>1. WalkType' /\ walk'.of = walk.of
    BY <1>4 DEF Commit, WalkInv, WalkType
  <2> QED
    BY <1>4, <2>1, WalkCommit DEF WalkInv, AddressWalk
<1>5. CASE UNCHANGED <<vars, walk>>
  <2>1. AddressTxRows(Owner)' = AddressTxRows(Owner) /\ \A r : Place(r)' = Place(r)
    BY <1>5 DEF vars, AddressTxRows, Mined, TxRows, TxAt, TxConcerns, Place, Rank, Before, TxKey
  <2> QED
    BY <1>5, <2>1 DEF WalkInv, WalkType, AddressWalk
<1> QED
  BY <1>1, <1>2, <1>3, <1>4, <1>5 DEF WalkNext

-----------------------------------------------------------------------------
(***************************************************************************)
(* The order of the lists.                                                 *)
(***************************************************************************)

(* An event row names a block of the chain and a message of it. *)
LEMMA HappenedIs ==
  ASSUME IInv, NEW kind \in {"stx", "ft", "nft", "log"}, NEW r \in Happened(kind)
  PROVE  /\ r = <<r[1], r[2]>> /\ r[1] \in db.canonical /\ r[1] \in Blocks
         /\ r[2] \in DOMAIN Messages[r[1]] /\ r[2] \in Nat \ {0}
         /\ Msg(r) \in Message /\ Msg(r).tx \in TxsOf[r[1]] /\ Msg(r).kind = kind
<1>1. TableOf(kind) \in EntityTables
  BY DEF TableOf, EntityTables
<1>2. db.live[TableOf(kind)] = db.canonical /\ db.canonical \subseteq Blocks
  BY <1>1, LiveIsCanonical
<1>3. PICK b \in db.canonical :
        \E n \in {m \in DOMAIN Messages[b] : Messages[b][m].kind = kind} : r = <<b, n>>
  BY <1>2 DEF Happened, EventRows
<1>4. PICK n \in DOMAIN Messages[b] : Messages[b][n].kind = kind /\ r = <<b, n>>
  BY <1>3
<1>5. Messages[b] \in Seq(Message) /\ Messages[b][n].tx \in TxsOf[b]
  BY <1>2, <1>4, LedgerAssumption
<1>6. n \in Nat \ {0} /\ Messages[b][n] \in Message
  BY <1>4, <1>5
<1> QED
  BY <1>2, <1>4, <1>5, <1>6 DEF Msg

(* The transaction of a message has a place in the block, and only one
   transaction is at a place. *)
LEMMA TxIndexIs ==
  ASSUME NEW b \in Blocks, NEW t \in TxsOf[b]
  PROVE  TxIndex(b, t) \in DOMAIN Order[b] /\ Order[b][TxIndex(b, t)] = t
<1>1. ToSet(Order[b]) = TxsOf[b]
  BY LedgerAssumption
<1>2. \E i \in DOMAIN Order[b] : Order[b][i] = t
  BY <1>1 DEF ToSet
<1> QED
  BY <1>2 DEF TxIndex

(* Of two messages of one transaction the later has the greater index. *)
LEMMA EventIndexGrows ==
  ASSUME NEW b, NEW m \in Nat \ {0}, NEW n \in Nat \ {0}, m < n,
         Messages[b][m].tx = Messages[b][n].tx
  PROVE  EventIndex(<<b, m>>) < EventIndex(<<b, n>>)
<1> DEFINE T == Messages[b][n].tx
           M == {k \in 1..(m - 1) : Messages[b][k].tx = T}
           N == {k \in 1..(n - 1) : Messages[b][k].tx = T}
<1>1. EventIndex(<<b, m>>) = Cardinality(M) /\ EventIndex(<<b, n>>) = Cardinality(N)
  BY DEF EventIndex, Msg
<1>2. M \in SUBSET N /\ m \in N /\ m \notin M
  OBVIOUS
<1>3. IsFiniteSet(N)
  <2>1. IsFiniteSet(1..(n - 1))
    BY FS_Interval
  <2>2. N \in SUBSET (1..(n - 1))
    OBVIOUS
  <2> QED
    BY <2>1, <2>2, FS_Subset
<1> HIDE DEF M, N
<1>4. /\ IsFiniteSet(M) /\ Cardinality(M) <= Cardinality(N) /\ Cardinality(M) # Cardinality(N)
      /\ Cardinality(M) \in Nat /\ Cardinality(N) \in Nat
  BY <1>2, <1>3, FS_Subset, FS_CardinalityType
<1> QED
  BY <1>1, <1>4

LEMMA EventKeysDiffer ==
  ASSUME IInv, NEW kind \in {"stx", "ft", "nft", "log"}, NEW kind2 \in {"stx", "ft", "nft", "log"},
         NEW r \in Happened(kind), NEW s \in Happened(kind2), EventKey(r) = EventKey(s)
  PROVE  r = s
<1>1. /\ r = <<r[1], r[2]>> /\ r[1] \in db.canonical /\ r[1] \in Blocks /\ r[2] \in Nat \ {0}
      /\ Msg(r).tx \in TxsOf[r[1]]
      /\ s = <<s[1], s[2]>> /\ s[1] \in db.canonical /\ s[1] \in Blocks /\ s[2] \in Nat \ {0}
      /\ Msg(s).tx \in TxsOf[s[1]]
  BY HappenedIs
<1>2. /\ Height[r[1]] = Height[s[1]] /\ EventIndex(r) = EventIndex(s)
      /\ TxIndex(r[1], Msg(r).tx) = TxIndex(s[1], Msg(s).tx)
  BY DEF EventKey
<1>3. r[1] = s[1]
  BY <1>1, <1>2 DEF IInv, Sound, OnePerHeight
<1> DEFINE b == r[1]
           m == r[2]
           n == s[2]
<1>4. r = <<b, m>> /\ s = <<b, n>>
  BY <1>1, <1>3
<1>5. Messages[b][m].tx = Messages[b][n].tx
  <2>1. Msg(r).tx = Msg(s).tx
    BY <1>1, <1>2, <1>3, TxIndexIs
  <2> QED
    BY <2>1, <1>3 DEF Msg
<1>6. m \in Nat \ {0} /\ n \in Nat \ {0} /\ EventIndex(<<b, m>>) = EventIndex(<<b, n>>)
  BY <1>1, <1>2, <1>4
<1>7. EventIndex(<<b, m>>) \in Int
  <2>1. IsFiniteSet(1..(m - 1))
    BY <1>6, FS_Interval
  <2>2. {k \in 1..(m - 1) : Messages[b][k].tx = Messages[b][m].tx} \in SUBSET (1..(m - 1))
    OBVIOUS
  <2>3. Cardinality({k \in 1..(m - 1) : Messages[b][k].tx = Messages[b][m].tx}) \in Nat
    BY <2>1, <2>2, FS_Subset, FS_CardinalityType
  <2> QED
    BY <2>3 DEF EventIndex, Msg
<1> HIDE DEF b, m, n
<1>8. ~(m < n)
  BY <1>5, <1>6, <1>7, EventIndexGrows
<1>9. ~(n < m)
  BY <1>5, <1>6, <1>7, EventIndexGrows
<1> QED
  BY <1>4, <1>6, <1>8, <1>9

LEMMA OrderIsTotal == IInv => ListsHaveOneOrder
<1> SUFFICES ASSUME IInv PROVE ListsHaveOneOrder
  OBVIOUS
<1>1. \A r, s \in Mined : TxKey(r) = TxKey(s) => r = s
  BY TxKeysOrder
<1>2. \A b, c \in db.canonical : Height[b] = Height[c] => b = c
  BY DEF IInv, Sound, OnePerHeight
<1>3. \A a \in Addresses : \A r, s \in AddressEventRows(a) : EventKey(r) = EventKey(s) => r = s
  <2> SUFFICES ASSUME NEW a \in Addresses, NEW r \in AddressEventRows(a), NEW s \in AddressEventRows(a),
                      EventKey(r) = EventKey(s)
               PROVE  r = s
    OBVIOUS
  <2>1. PICK kind \in {"stx", "ft", "nft"} : r \in Happened(kind)
    BY DEF AddressEventRows
  <2>2. PICK kind2 \in {"stx", "ft", "nft"} : s \in Happened(kind2)
    BY DEF AddressEventRows
  <2> QED
    BY <2>1, <2>2, EventKeysDiffer
<1>4. \A c \in Contracts : \A r, s \in LogRows(c) : EventKey(r) = EventKey(s) => r = s
  <2> SUFFICES ASSUME NEW c \in Contracts, NEW r \in LogRows(c), NEW s \in LogRows(c),
                      EventKey(r) = EventKey(s)
               PROVE  r = s
    OBVIOUS
  <2>1. r \in Happened("log") /\ s \in Happened("log")
    BY DEF LogRows
  <2> QED
    BY <2>1, EventKeysDiffer
<1> QED
  BY <1>1, <1>2, <1>3, <1>4 DEF ListsHaveOneOrder

-----------------------------------------------------------------------------
(***************************************************************************)
(* The chain of parent hashes is the canonical blocks, and what is looked  *)
(* up is of it.                                                            *)
(***************************************************************************)

(* One step down from the block above, at i blocks below the tip. *)
Steps(f, top) ==
  f = [i \in 0..top |-> IF i = 0 THEN CHOOSE b \in TipRows(db) : TRUE ELSE Parent[f[i - 1]]]

At(h) == CHOOSE b \in db.canonical : Height[b] = h

LEMMA TopIs ==
  ASSUME IInv
  PROVE  LET top == GetChainTipHeight(db)
         IN  /\ top \in Nat
             /\ \A b \in db.known : Height[b] <= top
             /\ \A b \in db.canonical : Height[b] \in 1..top
             /\ top # 0 => (CHOOSE b \in TipRows(db) : TRUE) \in db.canonical
                           /\ Height[CHOOSE b \in TipRows(db) : TRUE] = top
<1> DEFINE top == GetChainTipHeight(db)
           tip == CHOOSE b \in TipRows(db) : TRUE
<1>0. /\ db.canonical \subseteq db.known /\ db.known \subseteq Blocks
      /\ \A b \in Blocks : Height[b] \in Nat \ {0}
  BY LiveIsCanonical, ChainAssumption
<1>1. CASE TipRows(db) = {}
  <2>1. db.known = {} /\ top = 0
    BY <1>1 DEF IInv, Sound, TipOnTop, GetChainTipHeight
  <2> QED
    BY <1>0, <2>1
<1>2. CASE TipRows(db) # {}
  <2>1. tip \in TipRows(db) /\ top = Height[tip]
    BY <1>2 DEF GetChainTipHeight
  <2>2. tip \in db.canonical /\ \A k \in db.known : Height[k] <= top
    BY <2>1 DEF TipRows
  <2> QED
    BY <1>0, <2>1, <2>2
<1> QED
  BY <1>1, <1>2

LEMMA AtIs ==
  ASSUME IInv, NEW h \in 1..GetChainTipHeight(db)
  PROVE  /\ At(h) \in db.canonical /\ Height[At(h)] = h
         /\ \A b \in db.canonical : Height[b] = h => b = At(h)
<1> DEFINE top == GetChainTipHeight(db)
           tip == CHOOSE b \in TipRows(db) : TRUE
<1>1. top \in Nat /\ (top # 0 => tip \in db.canonical /\ Height[tip] = top)
  BY TopIs
<1>2. tip \in db.known /\ Height[tip] = top
  BY <1>1, LiveIsCanonical
<1>3. \E c \in db.canonical : Height[c] = h
  BY <1>2 DEF IInv, Sound, Covered
<1>4. At(h) \in db.canonical /\ Height[At(h)] = h
  BY <1>3 DEF At
<1> QED
  BY <1>4 DEF IInv, Sound, OnePerHeight

(* Canonical blocks follow one another by parent hash. *)
LEMMA ParentIsBelow ==
  ASSUME IInv, NEW h \in 2..GetChainTipHeight(db)
  PROVE  Parent[At(h)] = At(h - 1)
<1>1. GetChainTipHeight(db) \in Nat
  BY TopIs
<1>2. h \in 1..GetChainTipHeight(db) /\ h - 1 \in 1..GetChainTipHeight(db) /\ h > 1
  BY <1>1
<1>3. At(h) \in db.canonical /\ Height[At(h)] = h
  BY <1>2, AtIs
<1>4. HasParentRow(db, At(h)) /\ Parent[At(h)] \in db.canonical
  BY <1>2, <1>3 DEF IInv, Linked
<1>5. Height[Parent[At(h)]] = h - 1
  BY <1>3, <1>4 DEF HasParentRow
<1> QED
  BY <1>2, <1>4, <1>5, AtIs

LEMMA ChainIs ==
  ASSUME IInv
  PROVE  /\ Chain = [h \in 1..GetChainTipHeight(db) |-> At(h)]
         /\ ToSet(Chain) = db.canonical
<1> DEFINE top == GetChainTipHeight(db)
           tip == CHOOSE b \in TipRows(db) : TRUE
           down == CHOOSE f : Steps(f, top)
<1>1. /\ top \in Nat
      /\ \A b \in db.canonical : Height[b] \in 1..top
      /\ top # 0 => tip \in db.canonical /\ Height[tip] = top
  BY TopIs
<1>2. Chain = [h \in 1..top |-> down[top - h]]
  <2>1. CASE TipRows(db) = {}
    <3>1. top = 0 /\ Chain = <<>>
      BY <2>1 DEF Chain, GetChainTipHeight
    <3> HIDE DEF top, down
    <3> QED
      BY <3>1
  <2>2. CASE TipRows(db) # {}
    <3>1. top = Height[tip]
      BY <2>2 DEF GetChainTipHeight
    <3> QED
      BY <2>2, <3>1 DEF Chain, LineTo, Steps
  <2> QED
    BY <2>1, <2>2
<1>3. top # 0 => tip = At(top)
  BY <1>1, AtIs
<1>4. \E f : Steps(f, top)
  <2> DEFINE g == [i \in 0..top |-> IF i = 0 THEN tip ELSE IF i < top THEN At(top - i) ELSE Parent[IF top = 1 THEN tip ELSE At(1)]]
  <2>1. ASSUME NEW i \in 0..top, i # 0
        PROVE  g[i] = Parent[g[i - 1]]
    <3>1. i - 1 \in 0..top /\ i \in 0..top /\ top # 0 /\ i \in 1..top
      BY <1>1, <2>1
    <3>2. CASE i < top
      <4>1. top - (i - 1) \in 2..top /\ (top - (i - 1)) - 1 = top - i
        BY <1>1, <3>1, <3>2
      <4>2. Parent[At(top - (i - 1))] = At(top - i)
        BY <4>1, ParentIsBelow
      <4>3. g[i] = At(top - i)
        BY <3>1, <3>2
      <4>4. g[i - 1] = At(top - (i - 1))
        <5>1. CASE i - 1 = 0
          BY <1>1, <1>3, <3>1, <5>1
        <5>2. CASE i - 1 # 0
          BY <1>1, <3>1, <3>2, <5>2
        <5> QED
          BY <5>1, <5>2
      <4> QED
        BY <4>2, <4>3, <4>4
    <3>3. CASE i = top
      <4>1. g[i] = Parent[IF top = 1 THEN tip ELSE At(1)]
        BY <1>1, <3>1, <3>3
      <4>2. g[i - 1] = IF top = 1 THEN tip ELSE At(1)
        <5>1. CASE top = 1
          BY <1>1, <3>1, <3>3, <5>1
        <5>2. CASE top # 1
          <6>1. i - 1 # 0 /\ i - 1 < top /\ top - (i - 1) = 1
            BY <1>1, <3>1, <3>3, <5>2
          <6> QED
            BY <3>1, <5>2, <6>1
        <5> QED
          BY <5>1, <5>2
      <4> QED
        BY <4>1, <4>2
    <3> QED
      BY <1>1, <3>1, <3>2, <3>3
  <2>2. g[0] = tip
    BY <1>1
  <2>3. g = [i \in 0..top |-> g[i]]
    OBVIOUS
  <2> HIDE DEF g
  <2>4. g = [i \in 0..top |-> IF i = 0 THEN tip ELSE Parent[g[i - 1]]]
    BY <2>1, <2>2, <2>3
  <2> QED
    BY <2>4 DEF Steps
<1>5. Steps(down, top)
  BY <1>4
<1> HIDE DEF down
<1>6. /\ down[0] = tip
      /\ \A i \in 0..top : i # 0 => down[i] = Parent[down[i - 1]]
  <2>1. \A i \in 0..top : down[i] = IF i = 0 THEN tip ELSE Parent[down[i - 1]]
    BY <1>5 DEF Steps
  <2>2. 0 \in 0..top
    BY <1>1
  <2> HIDE DEF top, tip
  <2> QED
    BY <2>1, <2>2
<1>7. \A i \in 0..(top - 1) : down[i] = At(top - i)
  <2> DEFINE F == {i \in 0..(top - 1) : down[i] # At(top - i)}
  <2> SUFFICES ASSUME F # {} PROVE FALSE
    OBVIOUS
  <2>1. F \in SUBSET Nat
    OBVIOUS
  <2> HIDE DEF F
  <2>2. PICK m \in F : \A n \in F : m <= n
    BY <2>1, SmallestNumber
  <2>3. m \in 0..(top - 1) /\ down[m] # At(top - m) /\ top # 0
    BY <1>1, <2>2 DEF F
  <2>4. m # 0
    <3>1. down[0] = At(top - 0)
      <4>1. top - 0 = top
        BY <1>1
      <4> QED
        BY <1>3, <1>6, <2>3, <4>1
    <3> HIDE DEF top
    <3> QED
      BY <2>3, <3>1
  <2>5. m - 1 \in 0..(top - 1) /\ ~(m <= m - 1) /\ m \in 0..top /\ top - (m - 1) \in 2..top
        /\ (top - (m - 1)) - 1 = top - m
    BY <1>1, <2>3, <2>4
  <2>6. down[m - 1] = At(top - (m - 1))
    BY <2>2, <2>5 DEF F
  <2>7. down[m] = Parent[At(top - (m - 1))]
    BY <1>6, <2>4, <2>5, <2>6
  <2>8. Parent[At(top - (m - 1))] = At(top - m)
    BY <2>5, ParentIsBelow
  <2> QED
    BY <2>3, <2>7, <2>8
<1>8. Chain = [h \in 1..top |-> At(h)]
  <2>1. ASSUME NEW h \in 1..top PROVE down[top - h] = At(h)
    <3>1. top - h \in 0..(top - 1) /\ top - (top - h) = h
      BY <1>1
    <3> QED
      BY <1>7, <3>1
  <2> QED
    BY <1>2, <2>1
<1>9. ToSet(Chain) = db.canonical
  <2>1. ToSet(Chain) = {At(h) : h \in 1..top}
    BY <1>8 DEF ToSet
  <2>2. \A h \in 1..top : At(h) \in db.canonical
    BY AtIs
  <2>3. \A b \in db.canonical : Height[b] \in 1..top /\ b = At(Height[b])
    BY <1>1, AtIs
  <2> HIDE DEF top
  <2> QED
    BY <2>1, <2>2, <2>3
<1> QED
  BY <1>8, <1>9

(* Of the rows of the chain one is highest. *)
LEMMA HighestIs ==
  ASSUME IInv, NEW rows, \A r \in rows : r[1] \in db.canonical, rows # {}
  PROVE  Highest(rows) # {} /\ Highest(rows) \subseteq rows
<1> DEFINE top == GetChainTipHeight(db)
           F == {k \in Nat : \E r \in rows : k = top - Height[r[1]]}
<1>1. top \in Nat /\ \A r \in rows : Height[r[1]] \in 1..top
  BY TopIs
<1>2. \A r \in rows : top - Height[r[1]] \in F
  BY <1>1
<1>3. F \in SUBSET Nat /\ F # {}
  BY <1>2
<1> HIDE DEF F
<1>4. PICK m \in F : \A n \in F : m <= n
  BY <1>3, SmallestNumber
<1>5. PICK r \in rows : m = top - Height[r[1]]
  BY <1>4 DEF F
<1>6. ASSUME NEW s \in rows PROVE Height[s[1]] <= Height[r[1]]
  <2>1. top - Height[r[1]] <= top - Height[s[1]]
    BY <1>2, <1>4, <1>5
  <2> QED
    BY <1>1, <2>1
<1>7. r \in Highest(rows)
  BY <1>6 DEF Highest
<1> QED
  BY <1>7 DEF Highest

LEMMA CallsFindTheContract == IInv => CallsUseTheChainsContract
<1> SUFFICES ASSUME IInv, NEW r \in Mined, TxData[TxAt(r)].type = "call",
                    {s \in TxRows(ToSet(Chain)) : Deploys(TxAt(s), TxData[TxAt(r)].target)} # {}
             PROVE  /\ IsServed(TxAt(r))
                    /\ GetSmartContract(TxData[TxAt(r)].target)
                         \subseteq {s \in TxRows(ToSet(Chain)) : Deploys(TxAt(s), TxData[TxAt(r)].target)}
  BY DEF CallsUseTheChainsContract
<1> DEFINE c == TxData[TxAt(r)].target
           deployed == {s \in TxRows(ToSet(Chain)) : Deploys(TxAt(s), c)}
           canonical == {s \in ContractRows(c) : s[1] \in db.live["smart_contracts"]}
<1>1. ToSet(Chain) = db.canonical /\ db.live["smart_contracts"] = db.canonical
      /\ db.canonical \subseteq db.known
  BY ChainIs, LiveIsCanonical DEF EntityTables
<1>2. \A s : s \in TxRows(db.canonical) <=> s \in TxRows(db.known) /\ s[1] \in db.canonical
  BY <1>1 DEF TxRows
<1>3. canonical = deployed
  BY <1>1, <1>2 DEF ContractRows
<1>4. \A s \in deployed : s[1] \in db.canonical
  BY <1>1, <1>2
<1> HIDE DEF canonical, deployed, c
<1>5. Highest(deployed) # {} /\ Highest(deployed) \subseteq deployed
  BY <1>4, HighestIs DEF deployed, c
<1>6. GetSmartContract(c) = Highest(deployed)
  <2>1. GetSmartContract(c) = Highest(IF canonical # {} THEN canonical ELSE ContractRows(c))
    BY DEF GetSmartContract, canonical
  <2>2. canonical # {}
    BY <1>3 DEF deployed, c
  <2> QED
    BY <1>3, <2>1, <2>2
<1> QED
  BY <1>5, <1>6 DEF IsServed, c, deployed

LEMMA AddressesAreFound == IInv => TouchedAddressIsFound
<1> SUFFICES ASSUME IInv, NEW b \in db.known, NEW a \in Standard, a \in AddressUpdates(b)
             PROVE  SearchPrincipal(a)
  BY DEF TouchedAddressIsFound
<1>1. b \in Blocks /\ a \notin Contracts
  BY LiveIsCanonical, LedgerAssumption
<1>2. CASE \E t \in TxsOf[b] : TxData[t].sender = a \/ TxData[t].target = a
  <2>1. PICK t \in TxsOf[b] : TxData[t].sender = a \/ TxData[t].target = a
    BY <1>2
  <2>2. PICK i \in DOMAIN Order[b] : Order[b][i] = t
    BY <1>1, LedgerAssumption DEF ToSet
  <2>3. <<b, i>> \in TxRows(db.known) /\ TxAt(<<b, i>>) = t
    BY <2>2 DEF TxRows, TxAt
  <2> QED
    BY <1>1, <2>1, <2>3 DEF SearchPrincipal
<1>3. CASE \E m \in Transfers(b) : m.from = a \/ m.to = a
  <2>1. PICK n \in DOMAIN Messages[b] :
          Messages[b][n].kind # "log" /\ (Messages[b][n].from = a \/ Messages[b][n].to = a)
    BY <1>3 DEF Transfers, ToSet
  <2>2. Messages[b][n].kind \in {"stx", "ft", "nft"}
    <3>1. Messages[b] \in Seq(Message)
      BY <1>1, LedgerAssumption
    <3>2. Messages[b][n] \in Message
      BY <3>1
    <3> QED
      BY <2>1, <3>2 DEF Message
  <2>3. <<b, n>> \in EventRows(Messages[b][n].kind, db.known) /\ Msg(<<b, n>>) = Messages[b][n]
    BY DEF EventRows, Msg
  <2> QED
    BY <1>1, <2>1, <2>2, <2>3 DEF SearchPrincipal
<1> QED
  BY <1>2, <1>3 DEF AddressUpdates

-----------------------------------------------------------------------------
(***************************************************************************)
(* Who is told of a block.                                                 *)
(***************************************************************************)

SumAmountIn(img, rows) == MapThenSumSet(LAMBDA r : img.copies[r[1]] * Msg(r).amount, rows)

SumFeesIn(img, rows) == MapThenSumSet(LAMBDA r : img.copies[r[1]] * TxData[TxAt(r)].fee, rows)

Amounts(img, rows) == [r \in rows |-> img.copies[r[1]] * Msg(r).amount]

Fees(img, rows) == [r \in rows |-> img.copies[r[1]] * TxData[TxAt(r)].fee]

LEMMA SumsOfRows ==
  ASSUME NEW img, NEW rows
  PROVE  /\ SumAmountIn(img, rows) = SumOver(Amounts(img, rows), rows)
         /\ SumFeesIn(img, rows) = SumOver(Fees(img, rows), rows)
<1>0. \A s \in SUBSET rows : s # {} => Chosen(s) \in rows
  BY DEF Chosen
<1>1. SumAmountIn(img, rows) = FoldOf(Amounts(img, rows), rows)[rows]
  <2> DEFINE P(h) == h = [s \in SUBSET rows |->
                IF s = {} THEN 0
                ELSE img.copies[Chosen(s)[1]] * Msg(Chosen(s)).amount + h[s \ {Chosen(s)}]]
  <2>1. SumAmountIn(img, rows) = (CHOOSE h : P(h))[rows]
    BY DEF SumAmountIn, MapThenSumSet, MapThenFoldSet, Chosen
  <2>2. \A h : P(h) <=> IsFold(h, Amounts(img, rows), rows)
    BY <1>0 DEF IsFold, Amounts
  <2> HIDE DEF P
  <2>3. (CHOOSE h : P(h)) = FoldOf(Amounts(img, rows), rows)
    BY <2>2 DEF FoldOf
  <2> QED
    BY <2>1, <2>3
<1>2. SumFeesIn(img, rows) = FoldOf(Fees(img, rows), rows)[rows]
  <2> DEFINE P(h) == h = [s \in SUBSET rows |->
                IF s = {} THEN 0
                ELSE img.copies[Chosen(s)[1]] * TxData[TxAt(Chosen(s))].fee + h[s \ {Chosen(s)}]]
  <2>1. SumFeesIn(img, rows) = (CHOOSE h : P(h))[rows]
    BY DEF SumFeesIn, MapThenSumSet, MapThenFoldSet, Chosen
  <2>2. \A h : P(h) <=> IsFold(h, Fees(img, rows), rows)
    BY <1>0 DEF IsFold, Fees
  <2> HIDE DEF P
  <2>3. (CHOOSE h : P(h)) = FoldOf(Fees(img, rows), rows)
    BY <2>2 DEF FoldOf
  <2> QED
    BY <2>1, <2>3
<1> QED
  BY <1>1, <1>2, SumIsFold

(* Sums are the same in two images in which the rows are. *)
LEMMA SumsAgree ==
  ASSUME NEW old, NEW new, NEW rows, \A r \in rows : old.copies[r[1]] = new.copies[r[1]]
  PROVE  SumAmountIn(old, rows) = SumAmountIn(new, rows) /\ SumFeesIn(old, rows) = SumFeesIn(new, rows)
<1>1. Amounts(old, rows) = Amounts(new, rows) /\ Fees(old, rows) = Fees(new, rows)
  BY DEF Amounts, Fees
<1> QED
  BY <1>1, SumsOfRows

(* A block b is added to the chain, and a is not among those told of it. *)
GrowsWithout(b, a) ==
  IInv /\ IInv' /\ db'.canonical = db.canonical \cup {b} /\ a \notin AddressUpdates(b)

LEMMA ChainRows ==
  ASSUME NEW b, NEW a, GrowsWithout(b, a)
  PROVE  /\ \A T \in EntityTables : /\ db.live[T] = db.canonical
                                    /\ db'.live[T] = db.canonical \cup {b}
         /\ db.canonical \subseteq Blocks /\ b \in Blocks
         /\ \A c \in db.canonical : db.copies[c] = 1 /\ db'.copies[c] = 1
BY DEF GrowsWithout, IInv, Sound, RowsAgree, TypeOK, Image

(* The rows about a are those there were, with their copies. *)
LEMMA RowsBeside ==
  ASSUME NEW b, NEW a, GrowsWithout(b, a)
  PROVE  /\ \A kind \in {"stx", "ft", "nft"} : \A r :
              Msg(r).from = a \/ Msg(r).to = a => (r \in Happened(kind)' <=> r \in Happened(kind))
         /\ \A r : TxConcerns(TxAt(r), a) => (r \in Mined' <=> r \in Mined)
         /\ \A kind \in {"stx", "ft", "nft"} : \A r \in Happened(kind) : db.copies[r[1]] = db'.copies[r[1]]
         /\ \A r \in Mined : db.copies[r[1]] = db'.copies[r[1]]
<1>1. ASSUME NEW kind \in {"stx", "ft", "nft"}
      PROVE  /\ Happened(kind) = EventRows(kind, db.canonical)
             /\ Happened(kind)' = EventRows(kind, db.canonical \cup {b})
  <2>1. TableOf(kind) \in EntityTables
    BY DEF TableOf, EntityTables
  <2> QED
    BY <2>1, ChainRows DEF Happened
<1>2. Mined = TxRows(db.canonical) /\ Mined' = TxRows(db.canonical \cup {b})
  BY ChainRows DEF Mined, EntityTables
<1>3. ASSUME NEW kind \in {"stx", "ft", "nft"}, NEW r, Msg(r).from = a \/ Msg(r).to = a
      PROVE  r \in EventRows(kind, db.canonical \cup {b}) <=> r \in EventRows(kind, db.canonical)
  <2>1. r \notin {<<b, n>> : n \in {m \in DOMAIN Messages[b] : Messages[b][m].kind = kind}}
    <3> SUFFICES ASSUME NEW n \in DOMAIN Messages[b], Messages[b][n].kind = kind, r = <<b, n>>
                 PROVE  FALSE
      OBVIOUS
    <3>1. Msg(r) = Messages[b][n] /\ Messages[b][n] \in Transfers(b)
      BY DEF Msg, Transfers, ToSet
    <3> QED
      BY <1>3, <3>1 DEF AddressUpdates, GrowsWithout
  <2> QED
    BY <2>1 DEF EventRows
<1>4. ASSUME NEW r, TxConcerns(TxAt(r), a)
      PROVE  r \in TxRows(db.canonical \cup {b}) <=> r \in TxRows(db.canonical)
  <2>1. r \notin {<<b, i>> : i \in DOMAIN Order[b]}
    <3> SUFFICES ASSUME NEW i \in DOMAIN Order[b], r = <<b, i>> PROVE FALSE
      OBVIOUS
    <3>1. TxAt(r) = Order[b][i] /\ Order[b][i] \in TxsOf[b]
      BY ChainRows, LedgerAssumption DEF TxAt, ToSet
    <3> QED
      BY <1>4, <3>1 DEF AddressUpdates, GrowsWithout, TxConcerns
  <2> QED
    BY <2>1 DEF TxRows
<1>5. ASSUME NEW kind \in {"stx", "ft", "nft"}, NEW r \in EventRows(kind, db.canonical)
      PROVE  db.copies[r[1]] = db'.copies[r[1]]
  BY ChainRows DEF EventRows
<1>6. ASSUME NEW r \in TxRows(db.canonical) PROVE db.copies[r[1]] = db'.copies[r[1]]
  BY ChainRows DEF TxRows
<1> QED
  BY <1>1, <1>2, <1>3, <1>4, <1>5, <1>6

LEMMA StxBalanceStays ==
  ASSUME NEW b, NEW a, GrowsWithout(b, a)
  PROVE  GetStxBalance(a)' = GetStxBalance(a)
<1> DEFINE from == {r \in Happened("stx") : Msg(r).from = a}
           to == {r \in Happened("stx") : Msg(r).to = a}
           sentTxs == {r \in Mined : TxData[TxAt(r)].sender = a}
<1>1. from' = from /\ to' = to
  BY RowsBeside DEF Msg
<1>2. sentTxs' = sentTxs
  BY RowsBeside DEF TxConcerns, TxAt
<1>3. /\ SumAmountIn(db, from) = SumAmountIn(db', from) /\ SumAmountIn(db, to) = SumAmountIn(db', to)
      /\ SumFeesIn(db, sentTxs) = SumFeesIn(db', sentTxs)
  BY RowsBeside, SumsAgree
<1>4. /\ SumAmount(from) = SumAmountIn(db, from) /\ SumAmount(to) = SumAmountIn(db, to)
      /\ SumFees(a) = SumFeesIn(db, sentTxs)
  BY DEF SumAmount, SumFees, SumAmountIn, SumFeesIn, MapThenSumSet, MapThenFoldSet
<1>5. /\ SumAmount(from)' = SumAmountIn(db', from') /\ SumAmount(to)' = SumAmountIn(db', to')
      /\ SumFees(a)' = SumFeesIn(db', sentTxs')
  BY DEF SumAmount, SumFees, SumAmountIn, SumFeesIn, MapThenSumSet, MapThenFoldSet, Msg, TxAt
<1>6. /\ GetStxBalance(a) = [balance |-> SumAmount(to) - SumAmount(from) - SumFees(a),
                             totalSent |-> SumAmount(from), totalReceived |-> SumAmount(to)]
      /\ GetStxBalance(a)' = [balance |-> SumAmount(to)' - SumAmount(from)' - SumFees(a)',
                              totalSent |-> SumAmount(from)', totalReceived |-> SumAmount(to)']
  BY DEF GetStxBalance
<1> HIDE DEF from, to, sentTxs
<1> QED
  BY <1>1, <1>2, <1>3, <1>4, <1>5, <1>6

LEMMA AssetsStay ==
  ASSUME NEW b, NEW a, GrowsWithout(b, a), NEW kind \in {"stx", "ft", "nft"}
  PROVE  AssetsOf(kind, a)' = AssetsOf(kind, a)
<1>1. {x \in Happened(kind) : Msg(x).from = a \/ Msg(x).to = a}'
        = {x \in Happened(kind) : Msg(x).from = a \/ Msg(x).to = a}
  BY RowsBeside DEF Msg
<1> QED
  BY <1>1 DEF AssetsOf, Msg

LEMMA TokenBalancesStay ==
  ASSUME NEW b, NEW a, GrowsWithout(b, a)
  PROVE  GetFungibleTokenBalances(a)' = GetFungibleTokenBalances(a)
<1> DEFINE to(g) == {r \in {x \in Happened("ft") : Msg(x).asset = g} : Msg(r).to = a}
           from(g) == {r \in {x \in Happened("ft") : Msg(x).asset = g} : Msg(r).from = a}
<1>1. \A g : to(g)' = to(g) /\ from(g)' = from(g)
  BY RowsBeside DEF Msg
<1>2. \A g : SumAmountIn(db, to(g)) = SumAmountIn(db', to(g)) /\ SumAmountIn(db, from(g)) = SumAmountIn(db', from(g))
  BY RowsBeside, SumsAgree
<1>3. /\ GetFungibleTokenBalances(a)
           = [g \in AssetsOf("ft", a) |-> SumAmountIn(db, to(g)) - SumAmountIn(db, from(g))]
      /\ GetFungibleTokenBalances(a)'
           = [g \in AssetsOf("ft", a)' |-> SumAmountIn(db', to(g)') - SumAmountIn(db', from(g)')]
  BY DEF GetFungibleTokenBalances, SumAmount, SumAmountIn, MapThenSumSet, MapThenFoldSet, Msg
<1>4. AssetsOf("ft", a)' = AssetsOf("ft", a)
  BY AssetsStay
<1> HIDE DEF to, from
<1> QED
  BY <1>1, <1>2, <1>3, <1>4

LEMMA TokenCountsStay ==
  ASSUME NEW b, NEW a, GrowsWithout(b, a)
  PROVE  GetNonFungibleTokenCounts(a)' = GetNonFungibleTokenCounts(a)
<1> DEFINE to(g) == {r \in {x \in Happened("nft") : Msg(x).asset = g} : Msg(r).to = a}
           from(g) == {r \in {x \in Happened("nft") : Msg(x).asset = g} : Msg(r).from = a}
<1>1. \A g : to(g)' = to(g) /\ from(g)' = from(g)
  BY RowsBeside DEF Msg
<1>2. /\ GetNonFungibleTokenCounts(a)
           = [g \in AssetsOf("nft", a) |-> Cardinality(to(g)) - Cardinality(from(g))]
      /\ GetNonFungibleTokenCounts(a)'
           = [g \in AssetsOf("nft", a)' |-> Cardinality(to(g)') - Cardinality(from(g)')]
  BY DEF GetNonFungibleTokenCounts, Msg
<1>3. AssetsOf("nft", a)' = AssetsOf("nft", a)
  BY AssetsStay
<1> HIDE DEF to, from
<1> QED
  BY <1>1, <1>2, <1>3

LEMMA RowsOfStay ==
  ASSUME NEW b, NEW a, GrowsWithout(b, a)
  PROVE  AddressTxRows(a)' = AddressTxRows(a) /\ AddressEventRows(a)' = AddressEventRows(a)
<1>1. AddressTxRows(a)' = AddressTxRows(a)
  BY RowsBeside DEF AddressTxRows, TxConcerns, TxAt
<1>2. AddressEventRows(a)' = AddressEventRows(a)
  <2>1. \A r : r \in AddressEventRows(a) <=>
          /\ \E kind \in {"stx", "ft", "nft"} : r \in Happened(kind)
          /\ Msg(r).from = a \/ Msg(r).to = a
    BY DEF AddressEventRows
  <2>2. \A r : r \in AddressEventRows(a)' <=>
          /\ \E kind \in {"stx", "ft", "nft"} : r \in Happened(kind)'
          /\ Msg(r).from = a \/ Msg(r).to = a
    BY DEF AddressEventRows, Msg
  <2>3. \A r : r \in AddressEventRows(a)' <=> r \in AddressEventRows(a)
    BY <2>1, <2>2, RowsBeside
  <2> QED
    BY <2>3 DEF AddressEventRows
<1> QED
  BY <1>1, <1>2

LEMMA GrowthTells == IInv /\ IInv' => TellsWhoChanged
<1> SUFFICES ASSUME IInv, IInv', txn.pc = "store", db'.canonical = db.canonical \cup {txn.block},
                    NEW a \in Addresses, a \notin AddressUpdates(txn.block)
             PROVE  Account(a)' = Account(a)
  BY DEF TellsWhoChanged
<1>1. GrowsWithout(txn.block, a)
  BY DEF GrowsWithout
<1> QED
  BY <1>1, StxBalanceStays, TokenBalancesStay, TokenCountsStay, RowsOfStay DEF Account

-----------------------------------------------------------------------------
(***************************************************************************)
(* Sequences put one after the other.                                      *)
(***************************************************************************)

(* Where the first n sequences of ss are in s, start[i] before the i-th. *)
Places(s, ss, start, n) ==
  /\ \A i \in 1..n : /\ start[i] \in Nat /\ start[i] + Len(ss[i]) <= Len(s)
                     /\ \A k \in 1..Len(ss[i]) : s[start[i] + k] = ss[i][k]
  /\ \A i, j \in 1..n : i < j => start[i] + Len(ss[i]) <= start[j]
  /\ \A p \in 1..Len(s) : \E i \in 1..n : \E k \in 1..Len(ss[i]) : p = start[i] + k

(* One sequence more. *)
LEMMA PlacesGrow ==
  ASSUME NEW S, NEW n \in Nat, NEW ss, \A i \in 1..(n + 1) : ss[i] \in Seq(S),
         NEW start, NEW s \in Seq(S), Places(s, ss, start, n), start[n + 1] = Len(s)
  PROVE  s \o ss[n + 1] \in Seq(S) /\ Places(s \o ss[n + 1], ss, start, n + 1)
<1> DEFINE t == ss[n + 1]
           u == s \o t
<1>1. /\ t \in Seq(S) /\ u \in Seq(S) /\ Len(u) = Len(s) + Len(t)
      /\ Len(s) \in Nat /\ Len(t) \in Nat
      /\ \A p \in 1..Len(u) : u[p] = IF p <= Len(s) THEN s[p] ELSE t[p - Len(s)]
  BY ConcatProperties
<1>2. \A i \in 1..(n + 1) : Len(ss[i]) \in Nat
  OBVIOUS
<1> HIDE DEF u, t
<1>3. ASSUME NEW i \in 1..(n + 1)
      PROVE  /\ start[i] \in Nat /\ start[i] + Len(ss[i]) <= Len(u)
             /\ \A k \in 1..Len(ss[i]) : u[start[i] + k] = ss[i][k]
  <2>1. CASE i = n + 1
    <3>1. start[i] = Len(s) /\ ss[i] = t
      BY <2>1 DEF t
    <3>2. ASSUME NEW k \in 1..Len(t) PROVE u[Len(s) + k] = t[k]
      <4>1. /\ Len(s) + k \in 1..Len(u) /\ ~(Len(s) + k <= Len(s)) /\ (Len(s) + k) - Len(s) = k
        BY <1>1, <3>2
      <4> DEFINE p == Len(s) + k
      <4>2. p \in 1..Len(u) /\ ~(p <= Len(s)) /\ p - Len(s) = k
        BY <4>1
      <4> HIDE DEF p
      <4>3. u[p] = t[p - Len(s)]
        BY <1>1, <4>2
      <4> QED
        BY <4>2, <4>3 DEF p
    <3> QED
      BY <1>1, <3>1, <3>2
  <2>2. CASE i # n + 1
    <3>1. i \in 1..n
      BY <2>2
    <3>2. /\ start[i] \in Nat /\ start[i] + Len(ss[i]) <= Len(s)
          /\ \A k \in 1..Len(ss[i]) : s[start[i] + k] = ss[i][k]
      BY <3>1 DEF Places
    <3>3. ASSUME NEW k \in 1..Len(ss[i]) PROVE u[start[i] + k] = ss[i][k]
      <4>1. start[i] + k \in 1..Len(u) /\ start[i] + k <= Len(s)
        <5> DEFINE l == Len(ss[i])
        <5>1. l \in Nat /\ k \in 1..l /\ start[i] \in Nat /\ start[i] + l <= Len(s)
          BY <1>2, <3>2
        <5> HIDE DEF l
        <5>2. Len(s) \in Nat /\ Len(u) \in Nat /\ Len(s) <= Len(u)
          BY <1>1
        <5>3. start[i] + k \in Nat /\ 1 <= start[i] + k /\ start[i] + k <= Len(s)
          BY <5>1, <5>2
        <5> HIDE DEF u
        <5> QED
          BY <5>2, <5>3
      <4> QED
        BY <1>1, <3>2, <4>1
    <3> QED
      BY <1>1, <1>2, <3>2, <3>3
  <2> QED
    BY <2>1, <2>2
<1>4. ASSUME NEW i \in 1..(n + 1), NEW j \in 1..(n + 1), i < j
      PROVE  start[i] + Len(ss[i]) <= start[j]
  <2>1. i \in 1..n
    BY <1>4
  <2>2. CASE j = n + 1
    BY <2>1, <2>2 DEF Places
  <2>3. CASE j # n + 1
    <3>1. j \in 1..n
      BY <2>3
    <3> QED
      BY <1>4, <2>1, <3>1 DEF Places
  <2> QED
    BY <2>2, <2>3
<1>5. ASSUME NEW p \in 1..Len(u)
      PROVE  \E i \in 1..(n + 1) : \E k \in 1..Len(ss[i]) : p = start[i] + k
  <2>1. CASE p <= Len(s)
    <3>1. p \in 1..Len(s)
      BY <1>1, <2>1
    <3>2. PICK i \in 1..n : \E k \in 1..Len(ss[i]) : p = start[i] + k
      BY <3>1 DEF Places
    <3>3. i \in 1..(n + 1)
      OBVIOUS
    <3> QED
      BY <3>2, <3>3
  <2>2. CASE p > Len(s)
    <3>1. p - Len(s) \in 1..Len(t) /\ p = start[n + 1] + (p - Len(s)) /\ n + 1 \in 1..(n + 1)
      BY <1>1, <2>2
    <3> QED
      BY <3>1 DEF t
  <2> QED
    BY <1>1, <2>1, <2>2
<1>6. Places(u, ss, start, n + 1)
  BY <1>3, <1>4, <1>5 DEF Places
<1> QED
  BY <1>1, <1>6 DEF u, t

LEMMA FlattenPlaces ==
  ASSUME NEW S, NEW ss \in Seq(Seq(S))
  PROVE  /\ FlattenSeq(ss) \in Seq(S)
         /\ \E start : Places(FlattenSeq(ss), ss, start, Len(ss))
<1> DEFINE N == Len(ss)
           f == FlatOf(ss)
           start == [i \in 1..N |-> IF i = 1 THEN 0 ELSE Len(f[i - 1])]
<1>1. N \in Nat /\ \A i \in 1..N : ss[i] \in Seq(S)
  OBVIOUS
<1>2. \A i \in 1..N : f[i] = IF i = 1 THEN ss[i] ELSE f[i - 1] \o ss[i]
  <2>1. Flattens(f, ss, N)
    BY <1>1, FlatExists DEF FlatOf
  <2> HIDE DEF f, N
  <2> QED
    BY <2>1 DEF Flattens
<1>3. CASE N = 0
  <2>1. FlattenSeq(ss) = ss /\ ss = <<>>
    BY <1>3, FlattenIs, EmptySeq
  <2>2. Places(<<>>, ss, start, 0)
    BY DEF Places
  <2>3. <<>> \in Seq(S)
    OBVIOUS
  <2> HIDE DEF start
  <2> QED
    BY <1>3, <2>1, <2>2, <2>3
<1>4. CASE N # 0
  <2> DEFINE F == {n \in Nat : n \in 1..N /\ ~(f[n] \in Seq(S) /\ Places(f[n], ss, start, n))}
  <2>1. F = {}
    <3> SUFFICES ASSUME F # {} PROVE FALSE
      OBVIOUS
    <3>1. PICK n \in F : \A m \in F : n <= m
      BY SmallestNumber
    <3>2. n \in Nat /\ n \in 1..N /\ ~(f[n] \in Seq(S) /\ Places(f[n], ss, start, n))
      BY <3>1
    <3>3. CASE n = 1
      <4>1. Places(<<>>, ss, start, 0)
        BY DEF Places
      <4>2. start[1] = 0 /\ 1 \in 1..N /\ \A i \in 1..(0 + 1) : ss[i] \in Seq(S)
        BY <1>1, <1>4
      <4> HIDE DEF start, F
      <4>3. <<>> \in Seq(S) /\ Len(<<>>) = 0 /\ 0 + 1 = 1
        OBVIOUS
      <4>4. <<>> \o ss[1] \in Seq(S) /\ Places(<<>> \o ss[1], ss, start, 0 + 1)
        BY <4>1, <4>2, <4>3, PlacesGrow
      <4>5. f[1] = ss[1] /\ <<>> \o ss[1] = ss[1]
        BY <1>1, <1>2, <4>2
      <4> QED
        BY <3>2, <3>3, <4>3, <4>4, <4>5
    <3>4. CASE n # 1
      <4>1. n - 1 \in Nat /\ n - 1 \in 1..N /\ ~(n <= n - 1) /\ (n - 1) + 1 = n
            /\ \A i \in 1..((n - 1) + 1) : ss[i] \in Seq(S)
        BY <1>1, <3>2, <3>4
      <4>2. f[n - 1] \in Seq(S) /\ Places(f[n - 1], ss, start, n - 1)
        BY <3>1, <4>1
      <4>3. start[(n - 1) + 1] = Len(f[n - 1])
        BY <3>2, <3>4, <4>1
      <4>4. f[n] = f[n - 1] \o ss[n]
        BY <1>2, <3>2, <3>4
      <4> HIDE DEF start, f, F, N
      <4>5. /\ f[n - 1] \o ss[(n - 1) + 1] \in Seq(S)
            /\ Places(f[n - 1] \o ss[(n - 1) + 1], ss, start, (n - 1) + 1)
        BY <4>1, <4>2, <4>3, PlacesGrow
      <4> QED
        BY <3>2, <4>1, <4>4, <4>5
    <3> QED
      BY <3>3, <3>4
  <2>2. N \in Nat /\ N \in 1..N
    BY <1>1, <1>4
  <2>3. f[N] \in Seq(S) /\ Places(f[N], ss, start, N)
    BY <2>1, <2>2
  <2>4. FlattenSeq(ss) = f[N]
    BY <1>4, FlattenIs
  <2> HIDE DEF f, start
  <2> QED
    BY <2>3, <2>4
<1> QED
  BY <1>3, <1>4

-----------------------------------------------------------------------------
(***************************************************************************)
(* Balances: the rows of the tables and what happened along the chain are  *)
(* two views of the same things.                                           *)
(***************************************************************************)

(* The rows that the canonical blocks have of what c says of each block. *)
RowsOf(c) == UNION {{<<b, n>> : n \in DOMAIN c[b]} : b \in db.canonical}

(* place names where a row of c is in list. *)
Finds(place, c, list) ==
  /\ place = [r \in RowsOf(c) |-> place[r]]
  /\ \A r \in RowsOf(c) : place[r] \in DOMAIN list /\ list[place[r]] = c[r[1]][r[2]]
  /\ \A r, s \in RowsOf(c) : place[r] = place[s] => r = s
  /\ \A p \in DOMAIN list : \E r \in RowsOf(c) : place[r] = p

LEMMA RowIs ==
  ASSUME IInv, NEW S, NEW c \in [Blocks -> Seq(S)], NEW r \in RowsOf(c)
  PROVE  /\ r = <<r[1], r[2]>> /\ r[1] \in db.canonical /\ r[1] \in Blocks
         /\ c[r[1]] \in Seq(S) /\ r[2] \in 1..Len(c[r[1]]) /\ r[2] \in Nat \ {0}
         /\ Height[r[1]] \in 1..GetChainTipHeight(db) /\ At(Height[r[1]]) = r[1]
<1>1. PICK b \in db.canonical : \E n \in DOMAIN c[b] : r = <<b, n>>
  BY DEF RowsOf
<1>2. PICK n \in DOMAIN c[b] : r = <<b, n>>
  BY <1>1
<1>3. b \in Blocks /\ c[b] \in Seq(S)
  BY LiveIsCanonical
<1>4. n \in 1..Len(c[b]) /\ n \in Nat \ {0}
  BY <1>2, <1>3
<1>5. Height[b] \in 1..GetChainTipHeight(db)
  BY TopIs
<1>6. At(Height[b]) = b
  BY <1>5, AtIs
<1> QED
  BY <1>2, <1>3, <1>4, <1>5, <1>6

LEMMA RowsHavePlaces ==
  ASSUME IInv, NEW S, NEW c \in [Blocks -> Seq(S)],
         NEW list, list = FlattenSeq([h \in DOMAIN Chain |-> c[Chain[h]]])
  PROVE  /\ list \in Seq(S)
         /\ \E place : Finds(place, c, list)
<1> DEFINE top == GetChainTipHeight(db)
           ss == [h \in DOMAIN Chain |-> c[Chain[h]]]
<1>1. top \in Nat /\ Chain = [h \in 1..top |-> At(h)]
  BY TopIs, ChainIs
<1>2. \A h \in 1..top : At(h) \in db.canonical /\ At(h) \in Blocks /\ Height[At(h)] = h /\ c[At(h)] \in Seq(S)
  BY AtIs, LiveIsCanonical
<1> HIDE DEF top
<1>3. DOMAIN Chain = 1..top /\ \A h \in 1..top : Chain[h] = At(h)
  BY <1>1
<1>4. ss = [h \in 1..top |-> c[At(h)]]
  BY <1>3
<1>5. ss \in Seq(Seq(S)) /\ Len(ss) = top /\ \A h \in 1..top : ss[h] = c[At(h)]
  BY <1>1, <1>2, <1>4
<1> HIDE DEF ss
<1>6. list \in Seq(S) /\ \E start : Places(list, ss, start, top)
  <2>1. list = FlattenSeq(ss)
    BY DEF ss
  <2> QED
    BY <1>5, <2>1, FlattenPlaces
<1>7. PICK start : Places(list, ss, start, top)
  BY <1>6
<1> DEFINE place == [r \in RowsOf(c) |-> start[Height[r[1]]] + r[2]]
<1>8. ASSUME NEW r \in RowsOf(c)
      PROVE  /\ Height[r[1]] \in 1..top /\ At(Height[r[1]]) = r[1] /\ r = <<r[1], r[2]>>
             /\ ss[Height[r[1]]] = c[r[1]] /\ r[2] \in 1..Len(c[r[1]]) /\ r[2] \in Nat \ {0}
             /\ Len(c[r[1]]) \in Nat
             /\ start[Height[r[1]]] \in Nat /\ start[Height[r[1]]] + Len(c[r[1]]) <= Len(list)
             /\ list[start[Height[r[1]]] + r[2]] = c[r[1]][r[2]]
  <2>1. /\ r = <<r[1], r[2]>> /\ c[r[1]] \in Seq(S) /\ r[2] \in 1..Len(c[r[1]]) /\ r[2] \in Nat \ {0}
        /\ Height[r[1]] \in 1..top /\ At(Height[r[1]]) = r[1]
    BY RowIs DEF top
  <2>2. ss[Height[r[1]]] = c[r[1]] /\ Len(c[r[1]]) \in Nat
    BY <1>5, <2>1
  <2>3. /\ start[Height[r[1]]] \in Nat /\ start[Height[r[1]]] + Len(ss[Height[r[1]]]) <= Len(list)
        /\ \A k \in 1..Len(ss[Height[r[1]]]) : list[start[Height[r[1]]] + k] = ss[Height[r[1]]][k]
    BY <1>7, <2>1 DEF Places
  <2> QED
    BY <2>1, <2>2, <2>3
<1>9. ASSUME NEW r \in RowsOf(c)
      PROVE  place[r] \in DOMAIN list /\ list[place[r]] = c[r[1]][r[2]]
  <2> DEFINE l == Len(c[r[1]])
             o == start[Height[r[1]]]
             n == r[2]
  <2>1. /\ n \in 1..l /\ l \in Nat /\ o \in Nat /\ o + l <= Len(list) /\ list[o + n] = c[r[1]][n]
        /\ place[r] = o + n
    BY <1>8
  <2>2. Len(list) \in Nat /\ DOMAIN list = 1..Len(list)
    BY <1>6
  <2> HIDE DEF l, o, n, place
  <2>3. o + n \in 1..Len(list)
    BY <2>1, <2>2
  <2> QED
    BY <2>1, <2>2, <2>3 DEF n
<1>10. ASSUME NEW r \in RowsOf(c), NEW s \in RowsOf(c), Height[r[1]] < Height[s[1]]
       PROVE  place[r] < place[s]
  <2> DEFINE l == Len(c[r[1]])
             o == start[Height[r[1]]]
             q == start[Height[s[1]]]
             n == r[2]
             m == s[2]
  <2>1. o + Len(ss[Height[r[1]]]) <= q
    <3>1. Height[r[1]] \in 1..top /\ Height[s[1]] \in 1..top
      BY <1>8
    <3> QED
      BY <1>7, <1>10, <3>1 DEF Places
  <2>2. /\ n \in 1..l /\ l \in Nat /\ o \in Nat /\ q \in Nat /\ m \in Nat \ {0} /\ o + l <= q
        /\ place[r] = o + n /\ place[s] = q + m
    BY <1>8, <2>1
  <2> HIDE DEF l, o, n, m, q, place
  <2> QED
    BY <2>2
<1>11. ASSUME NEW r \in RowsOf(c), NEW s \in RowsOf(c), place[r] = place[s]
       PROVE  r = s
  <2>1. /\ Height[r[1]] \in Nat /\ Height[s[1]] \in Nat /\ place[r] \in Int /\ place[s] \in Int
    <3>1. Height[r[1]] \in 1..top /\ Height[s[1]] \in 1..top
      BY <1>8
    <3> HIDE DEF place
    <3>2. place[r] \in 1..Len(list) /\ place[s] \in 1..Len(list)
      <4>1. DOMAIN list = 1..Len(list) /\ Len(list) \in Nat
        BY <1>6
      <4> QED
        BY <1>9, <4>1
    <3> QED
      BY <1>1, <3>1, <3>2
  <2> HIDE DEF place
  <2>2. Height[r[1]] = Height[s[1]]
    BY <1>10, <1>11, <2>1
  <2>3. r[1] = s[1] /\ r = <<r[1], r[2]>> /\ s = <<s[1], s[2]>>
    BY <1>8, <2>2
  <2>4. start[Height[r[1]]] + r[2] = start[Height[r[1]]] + s[2]
    BY <1>11, <2>2 DEF place
  <2>5. r[2] = s[2]
    <3>1. r[2] \in Nat /\ s[2] \in Nat /\ start[Height[r[1]]] \in Nat
      BY <1>8
    <3> QED
      BY <2>4, <3>1
  <2> QED
    BY <2>3, <2>5
<1>12. ASSUME NEW p \in DOMAIN list
       PROVE  \E r \in RowsOf(c) : place[r] = p
  <2>1. p \in 1..Len(list)
    BY <1>6
  <2>2. PICK i \in 1..top : \E k \in 1..Len(ss[i]) : p = start[i] + k
    BY <1>7, <2>1 DEF Places
  <2>3. PICK k \in 1..Len(ss[i]) : p = start[i] + k
    BY <2>2
  <2>4. k \in DOMAIN c[At(i)] /\ At(i) \in db.canonical /\ Height[At(i)] = i
    BY <1>2, <1>5, <2>3
  <2>5. <<At(i), k>> \in RowsOf(c)
    BY <2>4 DEF RowsOf
  <2>6. place[<<At(i), k>>] = start[i] + k
    BY <2>4, <2>5
  <2> QED
    BY <2>3, <2>5, <2>6
<1>13. Finds(place, c, list)
  <2>1. place = [r \in RowsOf(c) |-> place[r]]
    OBVIOUS
  <2> HIDE DEF place
  <2> QED
    BY <1>9, <1>11, <1>12, <2>1 DEF Finds
<1> QED
  BY <1>6, <1>13

(* What is counted over rows is counted over the places of the rows. *)
LEMMA CountsAgree ==
  ASSUME NEW S, NEW c, NEW list \in Seq(S), NEW place, Finds(place, c, list),
         NEW rows \in SUBSET RowsOf(c)
  PROVE  /\ IsFiniteSet(RowsOf(c)) /\ IsFiniteSet(rows)
         /\ \A ps : ps = {place[r] : r \in rows} => Cardinality(rows) = Cardinality(ps)
<1>1. IsFiniteSet(DOMAIN list)
  <2>1. DOMAIN list = 1..Len(list) /\ Len(list) \in Nat
    OBVIOUS
  <2> QED
    BY <2>1, FS_Interval
<1>2. place \in Injection(RowsOf(c), DOMAIN list)
  <2>1. place \in [RowsOf(c) -> DOMAIN list]
    <3>1. place = [r \in DOMAIN place |-> place[r]]
      BY DEF Finds
    <3> QED
      BY <3>1 DEF Finds
  <2>2. IsInjective(place)
    BY DEF Finds, IsInjective
  <2> QED
    BY <2>1, <2>2 DEF Injection
<1>3. IsFiniteSet(RowsOf(c)) /\ IsFiniteSet(rows)
  BY <1>1, <1>2, FS_Injection, FS_Subset
<1> DEFINE f == [r \in rows |-> place[r]]
           img == {place[r] : r \in rows}
<1>4. f \in Bijection(rows, img)
  <2>1. \A r, s \in rows : place[r] = place[s] => r = s
    BY DEF Finds
  <2> QED
    BY <2>1 DEF Bijection, Injection, Surjection, IsInjective
<1> HIDE DEF f, img
<1>5. Cardinality(rows) = Cardinality(img)
  BY <1>3, <1>4, FS_Bijection DEF ExistsBijection
<1> QED
  BY <1>3, <1>5 DEF img

(* A set of rows and the set of their places. *)
LEMMA PlacesAre ==
  ASSUME NEW c, NEW list, NEW place, Finds(place, c, list),
         NEW rows \in SUBSET RowsOf(c), NEW ps \in SUBSET DOMAIN list,
         \A r \in RowsOf(c) : r \in rows <=> place[r] \in ps
  PROVE  {place[r] : r \in rows} = ps
<1>1. ASSUME NEW p \in ps PROVE \E r \in rows : place[r] = p
  <2>1. PICK r \in RowsOf(c) : place[r] = p
    BY DEF Finds
  <2> QED
    BY <2>1
<1> QED
  BY <1>1

LEMMA EventRowsAre ==
  ASSUME IInv
  PROVE  /\ \A kind \in {"stx", "ft", "nft", "log"} :
              Happened(kind) = {r \in RowsOf(Messages) : Msg(r).kind = kind}
         /\ \A r \in RowsOf(Messages) : Msg(r) \in Message
<1>1. ASSUME NEW kind \in {"stx", "ft", "nft", "log"}
      PROVE  Happened(kind) = {r \in RowsOf(Messages) : Msg(r).kind = kind}
  <2>1. TableOf(kind) \in EntityTables
    BY DEF TableOf, EntityTables
  <2>2. Happened(kind) = EventRows(kind, db.canonical)
    BY <2>1, LiveIsCanonical DEF Happened
  <2>3. ASSUME NEW r \in EventRows(kind, db.canonical)
        PROVE  r \in RowsOf(Messages) /\ Msg(r).kind = kind
    <3>1. PICK b \in db.canonical :
            \E n \in {m \in DOMAIN Messages[b] : Messages[b][m].kind = kind} : r = <<b, n>>
      BY DEF EventRows
    <3> QED
      BY <3>1 DEF RowsOf, Msg
  <2>4. ASSUME NEW r \in RowsOf(Messages), Msg(r).kind = kind
        PROVE  r \in EventRows(kind, db.canonical)
    <3>1. PICK b \in db.canonical : \E n \in DOMAIN Messages[b] : r = <<b, n>>
      BY DEF RowsOf
    <3> QED
      BY <2>4, <3>1 DEF EventRows, Msg
  <2> QED
    BY <2>2, <2>3, <2>4
<1>2. ASSUME NEW r \in RowsOf(Messages)
      PROVE  Msg(r) \in Message
  <2>1. Messages \in [Blocks -> Seq(Message)]
    BY LedgerAssumption
  <2>2. Messages[r[1]] \in Seq(Message) /\ r[2] \in 1..Len(Messages[r[1]])
    BY <2>1, RowIs
  <2> QED
    BY <2>2 DEF Msg
<1> QED
  BY <1>1, <1>2

(* The sums of the queries and of the replay, as sums of one kind. *)
SumMovesAt(moves, ps) == MapThenSumSet(LAMBDA i : moves[i].amount, ps)

SumFeesAt(txs, ps) == MapThenSumSet(LAMBDA i : TxData[txs[i]].fee, ps)

LEMMA SumsOfMoves ==
  ASSUME NEW list, NEW ps
  PROVE  /\ SumMovesAt(list, ps) = SumOver([i \in ps |-> list[i].amount], ps)
         /\ SumFeesAt(list, ps) = SumOver([i \in ps |-> TxData[list[i]].fee], ps)
<1>0. \A s \in SUBSET ps : s # {} => Chosen(s) \in ps
  BY DEF Chosen
<1>1. SumMovesAt(list, ps) = SumOver([i \in ps |-> list[i].amount], ps)
  <2> DEFINE w == [i \in ps |-> list[i].amount]
             P(h) == h = [s \in SUBSET ps |->
                IF s = {} THEN 0 ELSE list[Chosen(s)].amount + h[s \ {Chosen(s)}]]
  <2>1. SumMovesAt(list, ps) = (CHOOSE h : P(h))[ps]
    BY DEF SumMovesAt, MapThenSumSet, MapThenFoldSet, Chosen
  <2>2. \A h : P(h) <=> IsFold(h, w, ps)
    BY <1>0 DEF IsFold
  <2> HIDE DEF P, w
  <2>3. (CHOOSE h : P(h)) = FoldOf(w, ps)
    BY <2>2 DEF FoldOf
  <2>4. SumMovesAt(list, ps) = SumOver(w, ps)
    BY <2>1, <2>3, SumIsFold
  <2> QED
    BY <2>4 DEF w
<1>2. SumFeesAt(list, ps) = SumOver([i \in ps |-> TxData[list[i]].fee], ps)
  <2> DEFINE w == [i \in ps |-> TxData[list[i]].fee]
             P(h) == h = [s \in SUBSET ps |->
                IF s = {} THEN 0 ELSE TxData[list[Chosen(s)]].fee + h[s \ {Chosen(s)}]]
  <2>1. SumFeesAt(list, ps) = (CHOOSE h : P(h))[ps]
    BY DEF SumFeesAt, MapThenSumSet, MapThenFoldSet, Chosen
  <2>2. \A h : P(h) <=> IsFold(h, w, ps)
    BY <1>0 DEF IsFold
  <2> HIDE DEF P, w
  <2>3. (CHOOSE h : P(h)) = FoldOf(w, ps)
    BY <2>2 DEF FoldOf
  <2>4. SumFeesAt(list, ps) = SumOver(w, ps)
    BY <2>1, <2>3, SumIsFold
  <2> QED
    BY <2>4 DEF w
<1> QED
  BY <1>1, <1>2

(* A sum over rows is the sum over their places. *)
LEMMA RowSumIsMoveSum ==
  ASSUME NEW c, NEW list, NEW place, Finds(place, c, list),
         NEW rows \in SUBSET RowsOf(c), IsFiniteSet(rows),
         NEW w, NEW v, \A r \in rows : w[r] \in Nat /\ v[place[r]] = w[r]
  PROVE  SumOver(w, rows) = SumOver(v, {place[r] : r \in rows})
<1> DEFINE f == [r \in rows |-> place[r]]
<1>1. DOMAIN f = rows /\ \A r \in rows : f[r] = place[r]
  OBVIOUS
<1>2. \A r, s \in rows : place[r] = place[s] => r = s
  BY DEF Finds
<1> HIDE DEF f
<1>3. {f[r] : r \in rows} = {place[r] : r \in rows}
  BY <1>1
<1>4. SumOver(w, rows) = SumOver(v, {f[r] : r \in rows})
  <2>1. rows \in SUBSET DOMAIN f /\ IsFiniteSet(DOMAIN f)
    BY <1>1
  <2>2. /\ \A r, s \in DOMAIN f : f[r] = f[s] => r = s
        /\ \A r \in DOMAIN f : w[r] \in Nat /\ v[f[r]] = w[r]
    BY <1>1, <1>2
  <2> QED
    BY <2>1, <2>2, SumOfImage
<1> QED
  BY <1>3, <1>4

LEMMA AmountsAgree ==
  ASSUME IInv, NEW place, Finds(place, Messages, Moves), Moves \in Seq(Message),
         NEW rows \in SUBSET RowsOf(Messages)
  PROVE  SumAmountIn(db, rows) = SumMovesAt(Moves, {place[r] : r \in rows})
<1> DEFINE ps == {place[r] : r \in rows}
           v == [i \in ps |-> Moves[i].amount]
           w == Amounts(db, rows)
<1>1. IsFiniteSet(rows)
  BY CountsAgree
<1>2. ASSUME NEW r \in rows
      PROVE  w[r] \in Nat /\ v[place[r]] = w[r]
  <2>1. r \in RowsOf(Messages) /\ Moves[place[r]] = Msg(r) /\ place[r] \in ps
    BY DEF Finds, Msg
  <2>2. Msg(r).amount \in Nat
    BY <2>1, EventRowsAre DEF Message
  <2>3. db.copies[r[1]] = 1
    <3>1. Messages \in [Blocks -> Seq(Message)]
      BY LedgerAssumption
    <3>2. r[1] \in db.canonical
      BY <2>1, <3>1, RowIs
    <3> QED
      BY <3>2, LiveIsCanonical
  <2>4. w[r] = Msg(r).amount
    BY <2>2, <2>3 DEF Amounts
  <2> QED
    BY <2>1, <2>2, <2>4
<1> HIDE DEF ps, v, w
<1>3. SumOver(w, rows) = SumOver(v, ps)
  BY <1>1, <1>2, RowSumIsMoveSum DEF ps
<1>4. SumAmountIn(db, rows) = SumOver(w, rows)
  BY SumsOfRows DEF w
<1>5. SumMovesAt(Moves, ps) = SumOver(v, ps)
  BY SumsOfMoves DEF v
<1> QED
  BY <1>3, <1>4, <1>5 DEF ps

LEMMA FeesAgree ==
  ASSUME IInv, NEW place, Finds(place, Order, ChainTxs), ChainTxs \in Seq(Txs),
         NEW rows \in SUBSET RowsOf(Order)
  PROVE  SumFeesIn(db, rows) = SumFeesAt(ChainTxs, {place[r] : r \in rows})
<1> DEFINE ps == {place[r] : r \in rows}
           v == [i \in ps |-> TxData[ChainTxs[i]].fee]
           w == Fees(db, rows)
<1>1. IsFiniteSet(rows)
  BY CountsAgree
<1>2. ASSUME NEW r \in rows
      PROVE  w[r] \in Nat /\ v[place[r]] = w[r]
  <2>1. r \in RowsOf(Order) /\ ChainTxs[place[r]] = TxAt(r) /\ place[r] \in ps
    BY DEF Finds, TxAt
  <2>2. Order \in [Blocks -> Seq(Txs)]
    BY LedgerAssumption
  <2>3. Order[r[1]] \in Seq(Txs) /\ r[2] \in 1..Len(Order[r[1]]) /\ r[1] \in db.canonical
    BY <2>1, <2>2, RowIs
  <2>4. TxAt(r) \in Txs
    BY <2>3 DEF TxAt
  <2>5. TxData[TxAt(r)].fee \in Nat /\ db.copies[r[1]] = 1
    BY <2>3, <2>4, LedgerAssumption, LiveIsCanonical
  <2>6. w[r] = TxData[TxAt(r)].fee
    BY <2>5 DEF Fees
  <2> QED
    BY <2>1, <2>5, <2>6
<1> HIDE DEF ps, v, w
<1>3. SumOver(w, rows) = SumOver(v, ps)
  BY <1>1, <1>2, RowSumIsMoveSum DEF ps
<1>4. SumFeesIn(db, rows) = SumOver(w, rows)
  BY SumsOfRows DEF w
<1>5. SumFeesAt(ChainTxs, ps) = SumOver(v, ps)
  BY SumsOfMoves DEF v
<1> QED
  BY <1>3, <1>4, <1>5 DEF ps

LEMMA Replays ==
  ASSUME IInv
  PROVE  /\ Moves \in Seq(Message) /\ \E place : Finds(place, Messages, Moves)
         /\ ChainTxs \in Seq(Txs) /\ \E place : Finds(place, Order, ChainTxs)
<1>1. Messages \in [Blocks -> Seq(Message)] /\ Order \in [Blocks -> Seq(Txs)]
  BY LedgerAssumption
<1>2. /\ Moves = FlattenSeq([h \in DOMAIN Chain |-> Messages[Chain[h]]])
      /\ ChainTxs = FlattenSeq([h \in DOMAIN Chain |-> Order[Chain[h]]])
  BY DEF Moves, MovesOf, ChainTxs
<1> QED
  BY <1>1, <1>2, RowsHavePlaces

(* The moves to a, or from a, of an asset. *)
To(moves, kind, g, a) == {i \in DOMAIN moves : moves[i].kind = kind /\ moves[i].asset = g /\ moves[i].to = a}

From(moves, kind, g, a) ==
  {i \in DOMAIN moves : moves[i].kind = kind /\ moves[i].asset = g /\ moves[i].from = a}

LEMMA GainedIs ==
  \A moves, kind, g, a :
    Gained(moves, kind, g, a)
      = SumMovesAt(moves, To(moves, kind, g, a)) - SumMovesAt(moves, From(moves, kind, g, a))
  BY DEF Gained, SumMoves, SumMovesAt, To, From

(* Rows of one asset that went to a, or from a, and their places. *)
LEMMA RowsOfAsset ==
  ASSUME IInv, NEW place, Finds(place, Messages, Moves),
         NEW kind \in {"stx", "ft", "nft"}, NEW g, NEW a
  PROVE  LET rows == {r \in Happened(kind) : Msg(r).asset = g}
             to   == {r \in rows : Msg(r).to = a}
             from == {r \in rows : Msg(r).from = a}
         IN  /\ to \in SUBSET RowsOf(Messages) /\ from \in SUBSET RowsOf(Messages)
             /\ {place[r] : r \in to} = To(Moves, kind, g, a)
             /\ {place[r] : r \in from} = From(Moves, kind, g, a)
<1> DEFINE rows == {r \in Happened(kind) : Msg(r).asset = g}
           to   == {r \in rows : Msg(r).to = a}
           from == {r \in rows : Msg(r).from = a}
<1>1. Happened(kind) = {r \in RowsOf(Messages) : Msg(r).kind = kind}
  BY EventRowsAre
<1>2. to \in SUBSET RowsOf(Messages) /\ from \in SUBSET RowsOf(Messages)
  BY <1>1
<1>3. \A r \in RowsOf(Messages) : place[r] \in DOMAIN Moves /\ Moves[place[r]] = Msg(r)
  BY DEF Finds, Msg
<1>4. /\ \A r \in RowsOf(Messages) : r \in to <=> place[r] \in To(Moves, kind, g, a)
      /\ \A r \in RowsOf(Messages) : r \in from <=> place[r] \in From(Moves, kind, g, a)
  BY <1>1, <1>3 DEF To, From
<1>5. To(Moves, kind, g, a) \in SUBSET DOMAIN Moves /\ From(Moves, kind, g, a) \in SUBSET DOMAIN Moves
  BY DEF To, From
<1> HIDE DEF to, from
<1>6. {place[r] : r \in to} = To(Moves, kind, g, a)
  BY <1>2, <1>4, <1>5, PlacesAre
<1>7. {place[r] : r \in from} = From(Moves, kind, g, a)
  BY <1>2, <1>4, <1>5, PlacesAre
<1> QED
  BY <1>2, <1>6, <1>7 DEF to, from

(* The balance of stx: what came, less what went, less the fees. *)
LEMMA StxIsReplayed ==
  ASSUME IInv, NEW a
  PROVE  GetStxBalance(a).balance = Gained(Moves, "stx", "stx", a) - FeesOf(ChainTxs, a)
<1> DEFINE to == {r \in Happened("stx") : Msg(r).to = a}
           from == {r \in Happened("stx") : Msg(r).from = a}
           paid == {r \in Mined : TxData[TxAt(r)].sender = a}
           ps == {i \in DOMAIN ChainTxs : TxData[ChainTxs[i]].sender = a}
<1>1. PICK place : Finds(place, Messages, Moves)
  BY Replays
<1>2. PICK spot : Finds(spot, Order, ChainTxs)
  BY Replays
<1>3. Moves \in Seq(Message) /\ ChainTxs \in Seq(Txs)
  BY Replays
<1>4. \A r \in Happened("stx") : Msg(r).asset = "stx"
  <2> SUFFICES ASSUME NEW r \in Happened("stx") PROVE Msg(r).asset = "stx"
    OBVIOUS
  <2>1. r[1] \in Blocks /\ r[2] \in DOMAIN Messages[r[1]] /\ Msg(r).kind = "stx"
    BY HappenedIs
  <2> QED
    BY <2>1, LedgerAssumption DEF Msg
<1>5. /\ to = {r \in {x \in Happened("stx") : Msg(x).asset = "stx"} : Msg(r).to = a}
      /\ from = {r \in {x \in Happened("stx") : Msg(x).asset = "stx"} : Msg(r).from = a}
  BY <1>4
<1>6. /\ to \in SUBSET RowsOf(Messages) /\ from \in SUBSET RowsOf(Messages)
      /\ {place[r] : r \in to} = To(Moves, "stx", "stx", a)
      /\ {place[r] : r \in from} = From(Moves, "stx", "stx", a)
  BY <1>1, <1>5, RowsOfAsset
<1>7. paid \in SUBSET RowsOf(Order) /\ {spot[r] : r \in paid} = ps
  <2>1. Mined = RowsOf(Order)
    BY MinedIs DEF TxRows, RowsOf
  <2>2. \A r \in RowsOf(Order) : spot[r] \in DOMAIN ChainTxs /\ ChainTxs[spot[r]] = TxAt(r)
    BY <1>2 DEF Finds, TxAt
  <2>3. \A r \in RowsOf(Order) : r \in paid <=> spot[r] \in ps
    BY <2>1, <2>2
  <2>4. paid \in SUBSET RowsOf(Order) /\ ps \in SUBSET DOMAIN ChainTxs
    BY <2>1
  <2> HIDE DEF paid, ps
  <2> QED
    BY <1>2, <2>3, <2>4, PlacesAre
<1>8. /\ SumAmount(to) = SumAmountIn(db, to) /\ SumAmount(from) = SumAmountIn(db, from)
      /\ SumFees(a) = SumFeesIn(db, paid)
  BY DEF SumAmount, SumFees, SumAmountIn, SumFeesIn
<1>9. FeesOf(ChainTxs, a) = SumFeesAt(ChainTxs, ps)
  BY DEF FeesOf, SumFeesAt
<1>10. GetStxBalance(a).balance = SumAmount(to) - SumAmount(from) - SumFees(a)
  BY DEF GetStxBalance
<1> HIDE DEF to, from, paid, ps
<1>11. /\ SumAmountIn(db, to) = SumMovesAt(Moves, To(Moves, "stx", "stx", a))
       /\ SumAmountIn(db, from) = SumMovesAt(Moves, From(Moves, "stx", "stx", a))
  BY <1>1, <1>3, <1>6, AmountsAgree
<1>12. SumFeesIn(db, paid) = SumFeesAt(ChainTxs, ps)
  BY <1>2, <1>3, <1>7, FeesAgree
<1> QED
  BY <1>8, <1>9, <1>10, <1>11, <1>12, GainedIs

(* The balance of a fungible token. *)
LEMMA TokensAreReplayed ==
  ASSUME IInv, NEW a, NEW g \in DOMAIN GetFungibleTokenBalances(a)
  PROVE  GetFungibleTokenBalances(a)[g] = Gained(Moves, "ft", g, a)
<1> DEFINE rows == {r \in Happened("ft") : Msg(r).asset = g}
           to == {r \in rows : Msg(r).to = a}
           from == {r \in rows : Msg(r).from = a}
<1>1. PICK place : Finds(place, Messages, Moves)
  BY Replays
<1>2. Moves \in Seq(Message)
  BY Replays
<1>3. /\ to \in SUBSET RowsOf(Messages) /\ from \in SUBSET RowsOf(Messages)
      /\ {place[r] : r \in to} = To(Moves, "ft", g, a)
      /\ {place[r] : r \in from} = From(Moves, "ft", g, a)
  BY <1>1, RowsOfAsset
<1>4. SumAmount(to) = SumAmountIn(db, to) /\ SumAmount(from) = SumAmountIn(db, from)
  BY DEF SumAmount, SumAmountIn
<1>5. GetFungibleTokenBalances(a)[g] = SumAmount(to) - SumAmount(from)
  BY DEF GetFungibleTokenBalances
<1> HIDE DEF rows, to, from
<1>6. /\ SumAmountIn(db, to) = SumMovesAt(Moves, To(Moves, "ft", g, a))
      /\ SumAmountIn(db, from) = SumMovesAt(Moves, From(Moves, "ft", g, a))
  BY <1>1, <1>2, <1>3, AmountsAgree
<1> QED
  BY <1>4, <1>5, <1>6, GainedIs

-----------------------------------------------------------------------------
(***************************************************************************)
(* Tokens: each move that takes a token from an address answers one that   *)
(* brought it there, and the moves left over are of the tokens it owns.    *)
(***************************************************************************)

LEMMA LastPlace ==
  ASSUME NEW n \in Nat, NEW ps \in SUBSET (1..n), ps # {}
  PROVE  Max(ps) \in ps /\ \A p \in ps : p <= Max(ps)
<1> DEFINE F == {k \in Nat : n - k \in ps}
<1>1. PICK p : p \in ps
  OBVIOUS
<1>2. n - p \in F
  <2>1. p \in 1..n /\ n - p \in Nat /\ n - (n - p) = p
    BY <1>1
  <2> QED
    BY <1>1, <2>1
<1>3. PICK m \in F : \A k \in F : m <= k
  BY <1>2, SmallestNumber
<1>4. n - m \in ps /\ m \in Nat
  BY <1>3
<1>5. ASSUME NEW q \in ps PROVE n - q \in F
  <2>1. q \in 1..n /\ n - q \in Nat /\ n - (n - q) = q
    OBVIOUS
  <2> QED
    BY <2>1
<1> HIDE DEF F
<1>6. \A q \in ps : n - m >= q
  <2> TAKE q \in ps
  <2>1. m <= n - q /\ q \in 1..n
    BY <1>3, <1>5
  <2> QED
    BY <1>4, <2>1
<1>7. \E x \in ps : \A y \in ps : x >= y
  BY <1>4, <1>6
<1>8. Max(ps) \in ps /\ \A y \in ps : Max(ps) >= y
  BY <1>7 DEF Max
<1>9. ASSUME NEW q \in ps PROVE q <= Max(ps)
  <2>1. Max(ps) >= q /\ q \in 1..n /\ Max(ps) \in 1..n
    BY <1>8
  <2> QED
    BY <2>1
<1> QED
  BY <1>8, <1>9

(* The move of the token before move i. *)
Earlier(moves, i) == {j \in MovesOfToken(moves, moves[i].asset, moves[i].token) : j < i}

Previous(moves, i) == Max(Earlier(moves, i))

(* The last move of its token. *)
IsLast(moves, i) == \A j \in MovesOfToken(moves, moves[i].asset, moves[i].token) : j <= i

FollowsOwners(moves) == \A i \in DOMAIN moves : moves[i].kind = "nft" => GoesFromOwner(moves, i)

LEMMA PreviousIs ==
  ASSUME NEW moves \in Seq(Message), NEW i \in DOMAIN moves, Earlier(moves, i) # {}
  PROVE  LET p == Previous(moves, i)
         IN  /\ p \in DOMAIN moves /\ p \in Nat /\ i \in Nat /\ p < i /\ moves[p].kind = "nft"
             /\ moves[p].asset = moves[i].asset /\ moves[p].token = moves[i].token
             /\ \A j \in DOMAIN moves :
                  /\ moves[j].kind = "nft" /\ j < i
                  /\ moves[j].asset = moves[i].asset /\ moves[j].token = moves[i].token
                  => j <= p
<1>1. DOMAIN moves = 1..Len(moves) /\ Len(moves) \in Nat
  OBVIOUS
<1>2. Earlier(moves, i) \in SUBSET (1..Len(moves))
  BY <1>1 DEF Earlier, MovesOfToken
<1>3. Previous(moves, i) \in Earlier(moves, i) /\ \A j \in Earlier(moves, i) : j <= Previous(moves, i)
  BY <1>1, <1>2, LastPlace DEF Previous
<1> HIDE DEF Previous
<1>4. ASSUME NEW j \in DOMAIN moves, moves[j].kind = "nft", j < i,
             moves[j].asset = moves[i].asset, moves[j].token = moves[i].token
      PROVE  j <= Previous(moves, i)
  <2>1. j \in Earlier(moves, i)
    BY <1>4 DEF Earlier, MovesOfToken
  <2> QED
    BY <1>3, <2>1
<1> QED
  BY <1>1, <1>3, <1>4 DEF Earlier, MovesOfToken

(* A move from a is the next after one to a, of the same token. *)
LEMMA PreviousWasTo ==
  ASSUME NEW moves \in Seq(Message), FollowsOwners(moves), NEW g, NEW a \in Addresses,
         NEW i \in From(moves, "nft", g, a)
  PROVE  /\ Earlier(moves, i) # {}
         /\ Previous(moves, i) \in To(moves, "nft", g, a)
         /\ ~IsLast(moves, Previous(moves, i))
<1>1. i \in DOMAIN moves /\ moves[i].kind = "nft" /\ moves[i].asset = g /\ moves[i].from = a
  BY DEF From
<1>2. moves[i].from = IF Earlier(moves, i) = {} THEN Nobody ELSE moves[Previous(moves, i)].to
  BY <1>1 DEF FollowsOwners, GoesFromOwner, Earlier, Previous
<1>3. Earlier(moves, i) # {} /\ moves[Previous(moves, i)].to = a
  BY <1>1, <1>2, LedgerAssumption
<1> DEFINE p == Previous(moves, i)
<1>4. /\ p \in DOMAIN moves /\ p \in Nat /\ i \in Nat /\ p < i /\ moves[p].kind = "nft"
      /\ moves[p].asset = moves[i].asset /\ moves[p].token = moves[i].token
  BY <1>1, <1>3, PreviousIs
<1> HIDE DEF p
<1>5. i \in MovesOfToken(moves, moves[p].asset, moves[p].token)
  BY <1>1, <1>4 DEF MovesOfToken
<1>6. ~IsLast(moves, p)
  BY <1>4, <1>5 DEF IsLast
<1> QED
  BY <1>1, <1>3, <1>4, <1>6 DEF To, p

(* And a move to a that is not the last of its token is followed by one from a. *)
LEMMA NextIsFrom ==
  ASSUME NEW moves \in Seq(Message), FollowsOwners(moves), NEW g, NEW a,
         NEW p \in To(moves, "nft", g, a), ~IsLast(moves, p)
  PROVE  \E i \in From(moves, "nft", g, a) : Previous(moves, i) = p
<1>1. p \in DOMAIN moves /\ moves[p].kind = "nft" /\ moves[p].asset = g /\ moves[p].to = a
  BY DEF To
<1>2. DOMAIN moves = 1..Len(moves) /\ Len(moves) \in Nat
  OBVIOUS
<1> DEFINE F == {j \in Nat : j \in MovesOfToken(moves, g, moves[p].token) /\ j > p}
<1>3. F # {}
  <2>1. PICK j \in MovesOfToken(moves, moves[p].asset, moves[p].token) : ~(j <= p)
    BY DEF IsLast
  <2>2. j \in 1..Len(moves) /\ p \in 1..Len(moves)
    BY <1>1, <1>2, <2>1 DEF MovesOfToken
  <2>3. j \in Nat /\ j > p
    BY <1>2, <2>1, <2>2
  <2> QED
    BY <1>1, <2>1, <2>3
<1>4. PICK i \in F : \A j \in F : i <= j
  BY <1>3, SmallestNumber
<1>5. /\ i \in Nat /\ i > p /\ i \in DOMAIN moves /\ moves[i].kind = "nft" /\ moves[i].asset = g
      /\ moves[i].token = moves[p].token /\ p \in Nat
  BY <1>1, <1>2, <1>4 DEF MovesOfToken
<1>6. p \in Earlier(moves, i)
  BY <1>1, <1>5 DEF Earlier, MovesOfToken
<1> DEFINE q == Previous(moves, i)
<1>7. /\ q \in DOMAIN moves /\ q \in Nat /\ q < i /\ moves[q].kind = "nft"
      /\ moves[q].asset = g /\ moves[q].token = moves[p].token /\ p <= q
  BY <1>1, <1>5, <1>6, PreviousIs
<1> HIDE DEF q
<1>8. q = p
  <2>1. ~(q > p)
    <3> SUFFICES ASSUME q > p PROVE FALSE
      OBVIOUS
    <3>1. q \in F
      BY <1>7 DEF MovesOfToken
    <3>2. i <= q
      BY <1>4, <3>1
    <3> QED
      BY <1>5, <1>7, <3>2
  <2> QED
    BY <1>5, <1>7, <2>1
<1>9. moves[i].from = moves[Previous(moves, i)].to
  BY <1>5, <1>6 DEF FollowsOwners, GoesFromOwner, Earlier, Previous
<1>10. i \in From(moves, "nft", g, a)
  BY <1>1, <1>5, <1>8, <1>9 DEF From, q
<1> QED
  BY <1>8, <1>10 DEF q

(* The last moves to a are of the tokens it owns, one of each. *)
LEMMA LastMovesAreOwned ==
  ASSUME NEW moves \in Seq(Message), NEW g, NEW a
  PROVE  LET last == {p \in To(moves, "nft", g, a) : IsLast(moves, p)}
         IN  /\ \A p, q \in last : moves[p].token = moves[q].token => p = q
             /\ Owned(moves, g, a) = {moves[p].token : p \in last}
<1> DEFINE last == {p \in To(moves, "nft", g, a) : IsLast(moves, p)}
           of(v) == MovesOfToken(moves, g, v)
<1>1. DOMAIN moves = 1..Len(moves) /\ Len(moves) \in Nat
  OBVIOUS
<1>2. ASSUME NEW p \in last
      PROVE  /\ p \in DOMAIN moves /\ moves[p].asset = g /\ moves[p].kind = "nft" /\ moves[p].to = a
             /\ p \in Nat /\ p \in of(moves[p].token) /\ \A j \in of(moves[p].token) : j <= p
  BY <1>1, <1>2 DEF To, IsLast, MovesOfToken
<1>3. \A p, q \in last : moves[p].token = moves[q].token => p = q
  <2> SUFFICES ASSUME NEW p \in last, NEW q \in last, moves[p].token = moves[q].token PROVE p = q
    OBVIOUS
  <2>1. p <= q /\ q <= p /\ p \in Nat /\ q \in Nat
    BY <1>2
  <2> QED
    BY <2>1
<1>4. ASSUME NEW v, of(v) # {}
      PROVE  Max(of(v)) \in of(v) /\ \A p \in of(v) : p <= Max(of(v))
  <2>1. of(v) \in SUBSET (1..Len(moves))
    BY <1>1 DEF MovesOfToken
  <2> HIDE DEF of
  <2> QED
    BY <1>1, <1>4, <2>1, LastPlace
<1>5. \A v : v \in {m.token : m \in {x \in ToSet(moves) : x.kind = "nft" /\ x.asset = g}} <=> of(v) # {}
  BY DEF ToSet, MovesOfToken
<1>6. ASSUME NEW p \in last PROVE moves[p].token \in Owned(moves, g, a)
  <2> DEFINE v == moves[p].token
  <2>1. /\ p \in of(v) /\ p \in Nat /\ moves[p].to = a /\ \A j \in of(v) : j <= p
    BY <1>2
  <2>2. Max(of(v)) \in of(v) /\ p <= Max(of(v))
    BY <1>4, <2>1
  <2>3. Max(of(v)) \in Nat
    BY <1>1, <2>2 DEF MovesOfToken
  <2>4. Max(of(v)) = p
    <3> HIDE DEF of
    <3> QED
      BY <2>1, <2>2, <2>3
  <2>5. v \in {m.token : m \in {x \in ToSet(moves) : x.kind = "nft" /\ x.asset = g}}
    BY <1>5, <2>1
  <2> QED
    BY <2>1, <2>4, <2>5 DEF Owned
<1>7. ASSUME NEW v \in Owned(moves, g, a) PROVE \E p \in last : moves[p].token = v
  <2>1. of(v) # {} /\ moves[Max(of(v))].to = a
    BY <1>5 DEF Owned
  <2>2. Max(of(v)) \in of(v) /\ \A j \in of(v) : j <= Max(of(v))
    BY <1>4, <2>1
  <2> DEFINE p == Max(of(v))
  <2>3. p \in of(v) /\ moves[p].to = a /\ \A j \in of(v) : j <= p
    BY <2>1, <2>2
  <2> HIDE DEF p
  <2>4. p \in last /\ moves[p].token = v
    BY <2>3 DEF To, IsLast, MovesOfToken
  <2> QED
    BY <2>4
<1> HIDE DEF last, of
<1>8. Owned(moves, g, a) = {moves[p].token : p \in last}
  BY <1>6, <1>7
<1> QED
  BY <1>3, <1>8 DEF last

(* What came, less what went, is what is owned. *)
LEMMA OwnedAreCounted ==
  ASSUME NEW moves \in Seq(Message), FollowsOwners(moves), NEW g, NEW a \in Addresses
  PROVE  Cardinality(To(moves, "nft", g, a)) - Cardinality(From(moves, "nft", g, a))
           = Cardinality(Owned(moves, g, a))
<1> DEFINE to == To(moves, "nft", g, a)
           from == From(moves, "nft", g, a)
           last == {p \in to : IsLast(moves, p)}
           left == {p \in to : ~IsLast(moves, p)}
           prev == [i \in from |-> Previous(moves, i)]
           tok == [p \in last |-> moves[p].token]
<1>1. IsFiniteSet(DOMAIN moves)
  <2>1. DOMAIN moves = 1..Len(moves) /\ Len(moves) \in Nat
    OBVIOUS
  <2> QED
    BY <2>1, FS_Interval
<1>2. /\ to \in SUBSET DOMAIN moves /\ from \in SUBSET DOMAIN moves
      /\ last \in SUBSET to /\ left \in SUBSET to /\ left \cap last = {} /\ left \cup last = to
  BY DEF To, From
<1>3. IsFiniteSet(to) /\ IsFiniteSet(from) /\ IsFiniteSet(last) /\ IsFiniteSet(left)
  <2> HIDE DEF to, from, last, left
  <2>1. IsFiniteSet(to) /\ IsFiniteSet(from)
    BY <1>1, <1>2, FS_Subset
  <2> QED
    BY <1>2, <2>1, FS_Subset
<1>4. prev \in Bijection(from, left)
  <2>1. \A i \in from : prev[i] \in left
    BY PreviousWasTo
  <2>2. \A p \in left : \E i \in from : prev[i] = p
    <3> TAKE p \in left
    <3>1. p \in To(moves, "nft", g, a) /\ ~IsLast(moves, p)
      OBVIOUS
    <3>2. PICK i \in From(moves, "nft", g, a) : Previous(moves, i) = p
      BY <3>1, NextIsFrom
    <3> QED
      BY <3>2
  <2>3. ASSUME NEW i \in from, NEW j \in from, i < j
        PROVE  Previous(moves, i) # Previous(moves, j)
    <3> SUFFICES ASSUME Previous(moves, i) = Previous(moves, j) PROVE FALSE
      OBVIOUS
    <3>1. Earlier(moves, i) # {} /\ Earlier(moves, j) # {}
      BY PreviousWasTo
    <3>2. i \in DOMAIN moves /\ j \in DOMAIN moves /\ moves[i].kind = "nft"
      BY DEF From
    <3> DEFINE p == Previous(moves, i)
               q == Previous(moves, j)
    <3>3. /\ p \in Nat /\ i \in Nat /\ p < i /\ moves[p].token = moves[i].token
          /\ moves[p].asset = moves[i].asset
      BY <3>1, <3>2, PreviousIs
    <3>4. /\ q \in Nat /\ moves[q].token = moves[j].token /\ moves[q].asset = moves[j].asset
          /\ moves[i].asset = moves[j].asset /\ moves[i].token = moves[j].token => i <= q
      BY <2>3, <3>1, <3>2, PreviousIs
    <3>5. p = q
      OBVIOUS
    <3> HIDE DEF p, q
    <3>6. i <= q
      BY <3>3, <3>4, <3>5
    <3> QED
      BY <3>3, <3>4, <3>5, <3>6
  <2>4. \A i, j \in from : prev[i] = prev[j] => i = j
    <3> SUFFICES ASSUME NEW i \in from, NEW j \in from, Previous(moves, i) = Previous(moves, j)
                 PROVE  i = j
      OBVIOUS
    <3>1. i \in Nat /\ j \in Nat
      BY <1>2
    <3>2. ~(i < j) /\ ~(j < i)
      BY <2>3
    <3> HIDE DEF from
    <3> QED
      BY <3>1, <3>2
  <2>5. prev \in [from -> left] /\ DOMAIN prev = from
    BY <2>1
  <2> HIDE DEF prev, left, from
  <2> QED
    BY <2>2, <2>4, <2>5 DEF Bijection, Injection, Surjection, IsInjective
<1>5. tok \in Bijection(last, Owned(moves, g, a))
  <2>1. /\ \A p, q \in last : moves[p].token = moves[q].token => p = q
        /\ Owned(moves, g, a) = {moves[p].token : p \in last}
    BY LastMovesAreOwned
  <2>2. /\ tok \in [last -> Owned(moves, g, a)] /\ DOMAIN tok = last
        /\ \A p \in last : tok[p] = moves[p].token
    BY <2>1
  <2> HIDE DEF tok, last
  <2> QED
    BY <2>1, <2>2 DEF Bijection, Injection, Surjection, IsInjective
<1> HIDE DEF to, from, last, left, prev, tok
<1>6. Cardinality(left) = Cardinality(from) /\ Cardinality(Owned(moves, g, a)) = Cardinality(last)
  BY <1>3, <1>4, <1>5, FS_Bijection DEF ExistsBijection
<1>7. Cardinality(to) = Cardinality(left) + Cardinality(last)
  <2>1. Cardinality(left \cap last) = 0
    BY <1>2, FS_EmptySet
  <2>2. /\ Cardinality(left \cup last) = Cardinality(left) + Cardinality(last) - Cardinality(left \cap last)
        /\ Cardinality(left) \in Nat /\ Cardinality(last) \in Nat
    BY <1>3, FS_Union, FS_CardinalityType
  <2>3. Cardinality(to) = Cardinality(left) + Cardinality(last) - Cardinality(left \cap last)
    BY <1>2, <2>2
  <2> QED
    BY <2>1, <2>2, <2>3
<1>8. Cardinality(left) \in Nat /\ Cardinality(last) \in Nat
  BY <1>3, FS_CardinalityType
<1>9. Cardinality(to) - Cardinality(from) = Cardinality(Owned(moves, g, a))
  BY <1>6, <1>7, <1>8
<1> QED
  BY <1>9 DEF to, from

(* The chain is one of the lines of the assumption. *)
LEMMA ChainFollowsOwners ==
  ASSUME IInv
  PROVE  FollowsOwners(Moves)
<1>1. CASE TipRows(db) = {}
  <2>1. Chain = <<>>
    BY <1>1 DEF Chain
  <2> DEFINE none == [h \in DOMAIN Chain |-> Messages[Chain[h]]]
  <2>2. DOMAIN none = 1..0 /\ none \in Seq(Seq(Message))
    BY <2>1
  <2>3. Len(none) = 0
    <3> HIDE DEF none
    <3> QED
      BY <2>2
  <2>4. Moves = none
    BY <2>3, FlattenIs DEF Moves, MovesOf
  <2> HIDE DEF none
  <2> QED
    BY <2>2, <2>4 DEF FollowsOwners
<1>2. CASE TipRows(db) # {}
  <2> DEFINE tip == CHOOSE b \in TipRows(db) : TRUE
             top == GetChainTipHeight(db)
  <2>1. tip \in Blocks
    BY <1>2, LiveIsCanonical DEF TipRows
  <2>2. Chain = LineTo(tip)
    BY <1>2 DEF Chain
  <2>3. \A h \in DOMAIN Chain : Height[Chain[h]] = h
    <3>1. Chain = [h \in 1..top |-> At(h)] /\ \A h \in 1..top : Height[At(h)] = h
      BY ChainIs, AtIs
    <3> HIDE DEF top
    <3> QED
      BY <3>1
  <2> HIDE DEF tip
  <2> QED
    BY <2>1, <2>2, <2>3, TokenAssumption DEF FollowsOwners, Moves
<1> QED
  BY <1>1, <1>2

LEMMA CountsAreReplayed ==
  ASSUME IInv, NEW a \in Addresses, NEW g \in DOMAIN GetNonFungibleTokenCounts(a)
  PROVE  GetNonFungibleTokenCounts(a)[g] = Cardinality(Owned(Moves, g, a))
<1> DEFINE rows == {r \in Happened("nft") : Msg(r).asset = g}
           to == {r \in rows : Msg(r).to = a}
           from == {r \in rows : Msg(r).from = a}
<1>1. PICK place : Finds(place, Messages, Moves)
  BY Replays
<1>2. Moves \in Seq(Message) /\ FollowsOwners(Moves)
  BY Replays, ChainFollowsOwners
<1>3. /\ to \in SUBSET RowsOf(Messages) /\ from \in SUBSET RowsOf(Messages)
      /\ {place[r] : r \in to} = To(Moves, "nft", g, a)
      /\ {place[r] : r \in from} = From(Moves, "nft", g, a)
  BY <1>1, RowsOfAsset
<1>4. GetNonFungibleTokenCounts(a)[g] = Cardinality(to) - Cardinality(from)
  BY DEF GetNonFungibleTokenCounts
<1> HIDE DEF rows, to, from
<1>5. /\ Cardinality(to) = Cardinality(To(Moves, "nft", g, a))
      /\ Cardinality(from) = Cardinality(From(Moves, "nft", g, a))
  <2>1. \A ps : ps = {place[r] : r \in to} => Cardinality(to) = Cardinality(ps)
    BY <1>1, <1>2, <1>3, CountsAgree
  <2>2. \A ps : ps = {place[r] : r \in from} => Cardinality(from) = Cardinality(ps)
    BY <1>1, <1>2, <1>3, CountsAgree
  <2> QED
    BY <1>3, <2>1, <2>2
<1> QED
  BY <1>2, <1>4, <1>5, OwnedAreCounted

LEMMA ReplayAgrees == IInv => BalancesAreReplayed
<1> SUFFICES ASSUME IInv, NEW a \in Addresses
             PROVE  /\ GetStxBalance(a).balance = Gained(Moves, "stx", "stx", a) - FeesOf(ChainTxs, a)
                    /\ \A g \in DOMAIN GetFungibleTokenBalances(a) :
                         GetFungibleTokenBalances(a)[g] = Gained(Moves, "ft", g, a)
                    /\ \A g \in DOMAIN GetNonFungibleTokenCounts(a) :
                         GetNonFungibleTokenCounts(a)[g] = Cardinality(Owned(Moves, g, a))
  BY DEF BalancesAreReplayed
<1> QED
  BY StxIsReplayed, TokensAreReplayed, CountsAreReplayed

-----------------------------------------------------------------------------
(***************************************************************************)
(* Sequences in order, and what is left of them.                           *)
(***************************************************************************)

(* R holds between each item and those after it. *)
Ordered(s, R) == \A i, j \in 1..Len(s) : i < j => <<s[i], s[j]>> \in R

(* Each of some sequences is in order, and each before the next. *)
AllOrdered(ss, R) ==
  /\ \A i \in 1..Len(ss) : Ordered(ss[i], R)
  /\ \A i, j \in 1..Len(ss) : i < j =>
       \A k \in 1..Len(ss[i]) : \A l \in 1..Len(ss[j]) : <<ss[i][k], ss[j][l]>> \in R

(* Then so are all of them, one after the other. *)
LEMMA FlattenOrdered ==
  ASSUME NEW S, NEW ss \in Seq(Seq(S)), NEW R, AllOrdered(ss, R)
  PROVE  /\ FlattenSeq(ss) \in Seq(S) /\ Ordered(FlattenSeq(ss), R)
         /\ \A x : x \in ToSet(FlattenSeq(ss)) <=> \E i \in 1..Len(ss) : \E k \in 1..Len(ss[i]) : x = ss[i][k]
<1> DEFINE s == FlattenSeq(ss)
           n == Len(ss)
<1>1. s \in Seq(S)
  BY FlattenPlaces
<1>2. PICK start : Places(s, ss, start, n)
  BY FlattenPlaces
<1>3. Len(s) \in Nat /\ DOMAIN s = 1..Len(s) /\ n \in Nat
  BY <1>1
<1>4. \A i \in 1..n : Len(ss[i]) \in Nat
  <2>1. \A i \in 1..n : ss[i] \in Seq(S)
    BY ElementOfSeq
  <2> QED
    BY <2>1
<1> HIDE DEF s, n
<1>5. \A i \in 1..n : /\ start[i] \in Nat /\ start[i] + Len(ss[i]) <= Len(s)
                      /\ \A k \in 1..Len(ss[i]) : s[start[i] + k] = ss[i][k]
  BY <1>2 DEF Places
<1>6. \A i, j \in 1..n : i < j => start[i] + Len(ss[i]) <= start[j]
  BY <1>2 DEF Places
<1>7. \A p \in 1..Len(s) : \E i \in 1..n : \E k \in 1..Len(ss[i]) : p = start[i] + k
  BY <1>2 DEF Places
<1>8. Ordered(s, R)
  <2> SUFFICES ASSUME NEW p \in 1..Len(s), NEW q \in 1..Len(s), p < q
               PROVE  <<s[p], s[q]>> \in R
    BY DEF Ordered
  <2>1. PICK i \in 1..n : \E k \in 1..Len(ss[i]) : p = start[i] + k
    BY <1>7
  <2>2. PICK k \in 1..Len(ss[i]) : p = start[i] + k
    BY <2>1
  <2>3. PICK j \in 1..n : \E l \in 1..Len(ss[j]) : q = start[j] + l
    BY <1>7
  <2>4. PICK l \in 1..Len(ss[j]) : q = start[j] + l
    BY <2>3
  <2>5. s[p] = ss[i][k] /\ s[q] = ss[j][l]
    BY <1>5, <2>2, <2>4
  <2>6. ~(j < i)
    <3> SUFFICES ASSUME j < i PROVE FALSE
      OBVIOUS
    <3>1. start[j] + Len(ss[j]) <= start[i]
      BY <1>6
    <3> DEFINE a == start[i]
               c == start[j]
               lj == Len(ss[j])
    <3>2. a \in Nat /\ c \in Nat /\ lj \in Nat /\ k \in Nat \ {0} /\ l \in 1..lj
      <4>1. Len(ss[i]) \in Nat
        BY <1>4
      <4> QED
        BY <1>4, <1>5, <4>1
    <3>3. p = a + k /\ q = c + l /\ c + lj <= a
      BY <2>2, <2>4, <3>1
    <3> HIDE DEF a, c, lj
    <3> QED
      BY <3>2, <3>3
  <2>7. CASE i < j
    BY <2>5, <2>7 DEF AllOrdered, n
  <2>8. CASE i = j
    <3>1. start[i] \in Nat /\ Len(ss[i]) \in Nat
      BY <1>4, <1>5
    <3>2. k < l
      BY <2>2, <2>4, <2>8, <3>1
    <3>3. Ordered(ss[i], R)
      BY DEF AllOrdered, n
    <3> QED
      BY <2>5, <2>8, <3>2, <3>3 DEF Ordered
  <2> QED
    BY <1>3, <2>6, <2>7, <2>8
<1>9. ASSUME NEW x, NEW i \in 1..n, NEW k \in 1..Len(ss[i]), x = ss[i][k]
      PROVE  x \in ToSet(s)
  <2>1. start[i] + k \in 1..Len(s)
    BY <1>3, <1>4, <1>5
  <2>2. s[start[i] + k] = x
    BY <1>5, <1>9
  <2> QED
    BY <1>3, <2>1, <2>2 DEF ToSet
<1>10. ASSUME NEW x \in ToSet(s)
       PROVE  \E i \in 1..n : \E k \in 1..Len(ss[i]) : x = ss[i][k]
  <2>1. PICK p \in 1..Len(s) : x = s[p]
    BY <1>3 DEF ToSet
  <2>2. PICK i \in 1..n : \E k \in 1..Len(ss[i]) : p = start[i] + k
    BY <1>7
  <2> QED
    BY <1>5, <2>1, <2>2
<1> QED
  BY <1>1, <1>8, <1>9, <1>10 DEF s, n

(* What is kept of a sequence stays in its order. *)
LEMMA ThoseOrdered ==
  ASSUME NEW S, NEW s \in Seq(S), NEW R, Ordered(s, R), NEW kept
  PROVE  /\ Those(s, kept) \in Seq(S) /\ Ordered(Those(s, kept), R)
         /\ ToSet(Those(s, kept)) = ToSet(s) \cap kept
<1> DEFINE ss == [i \in DOMAIN s |-> IF s[i] \in kept THEN <<s[i]>> ELSE <<>>]
           n == Len(s)
<1>1. n \in Nat /\ DOMAIN s = 1..n /\ \A i \in 1..n : s[i] \in S
  BY ElementOfSeq
<1>2. ss \in Seq(Seq(S)) /\ Len(ss) = n
  <2>1. \A i \in 1..n : (IF s[i] \in kept THEN <<s[i]>> ELSE <<>>) \in Seq(S)
    BY <1>1
  <2> QED
    BY <1>1, <2>1
<1>3. \A i \in 1..n : ss[i] = IF s[i] \in kept THEN <<s[i]>> ELSE <<>>
  BY <1>1
<1> HIDE DEF ss, n
<1>4. \A i \in 1..n : \A k \in 1..Len(ss[i]) : k = 1 /\ ss[i][k] = s[i] /\ s[i] \in kept
  <2> SUFFICES ASSUME NEW i \in 1..n, NEW k \in 1..Len(ss[i])
               PROVE  k = 1 /\ ss[i][k] = s[i] /\ s[i] \in kept
    OBVIOUS
  <2>1. CASE s[i] \in kept
    <3>1. ss[i] = <<s[i]>>
      BY <1>3, <2>1
    <3> QED
      BY <2>1, <3>1
  <2>2. CASE s[i] \notin kept
    <3>1. ss[i] = <<>>
      BY <1>3, <2>2
    <3> QED
      BY <3>1
  <2> QED
    BY <2>1, <2>2
<1>5. AllOrdered(ss, R)
  <2>1. ASSUME NEW i \in 1..n PROVE Ordered(ss[i], R)
    BY <1>4 DEF Ordered
  <2>2. ASSUME NEW i \in 1..n, NEW j \in 1..n, i < j, NEW k \in 1..Len(ss[i]), NEW l \in 1..Len(ss[j])
        PROVE  <<ss[i][k], ss[j][l]>> \in R
    <3>1. ss[i][k] = s[i] /\ ss[j][l] = s[j]
      BY <1>4
    <3>2. <<s[i], s[j]>> \in R
      BY <2>2 DEF Ordered, n
    <3> QED
      BY <3>1, <3>2
  <2> QED
    BY <1>2, <2>1, <2>2 DEF AllOrdered
<1>6. Those(s, kept) = FlattenSeq(ss)
  BY DEF Those, ss
<1>7. /\ FlattenSeq(ss) \in Seq(S) /\ Ordered(FlattenSeq(ss), R)
      /\ \A x : x \in ToSet(FlattenSeq(ss)) <=> \E i \in 1..n : \E k \in 1..Len(ss[i]) : x = ss[i][k]
  <2>1. ss \in Seq(Seq(S))
    BY <1>2
  <2>2. /\ FlattenSeq(ss) \in Seq(S) /\ Ordered(FlattenSeq(ss), R)
        /\ \A x : x \in ToSet(FlattenSeq(ss)) <=> \E i \in 1..Len(ss) : \E k \in 1..Len(ss[i]) : x = ss[i][k]
    BY <1>5, <2>1, FlattenOrdered
  <2> QED
    BY <1>2, <2>2
<1>8. ASSUME NEW x \in ToSet(FlattenSeq(ss)) PROVE x \in ToSet(s) \cap kept
  <2>1. PICK i \in 1..n : \E k \in 1..Len(ss[i]) : x = ss[i][k]
    BY <1>7
  <2>2. x = s[i] /\ s[i] \in kept
    BY <1>4, <2>1
  <2>3. s[i] \in ToSet(s)
    BY <1>1 DEF ToSet
  <2> QED
    BY <2>2, <2>3
<1>9. ASSUME NEW x \in ToSet(s) \cap kept PROVE x \in ToSet(FlattenSeq(ss))
  <2>1. PICK i \in 1..n : x = s[i]
    BY <1>1 DEF ToSet
  <2>2. ss[i] = <<x>>
    BY <1>3, <2>1
  <2>3. 1 \in 1..Len(ss[i]) /\ ss[i][1] = x
    BY <2>2
  <2> QED
    BY <1>7, <2>3
<1> QED
  BY <1>6, <1>7, <1>8, <1>9

(* A sequence turned round. *)
LEMMA ReverseIs ==
  ASSUME NEW S, NEW s \in Seq(S)
  PROVE  /\ Reverse(s) \in Seq(S) /\ Len(Reverse(s)) = Len(s) /\ ToSet(Reverse(s)) = ToSet(s)
         /\ \A i \in 1..Len(s) : Reverse(s)[i] = s[Len(s) - i + 1] /\ Len(s) - i + 1 \in 1..Len(s)
         /\ Reverse(Reverse(s)) = s
<1> DEFINE n == Len(s)
           r == Reverse(s)
<1>1. n \in Nat /\ DOMAIN s = 1..n /\ s \in [1..n -> S]
  BY LenProperties
<1>2. \A i \in 1..n : n - i + 1 \in 1..n /\ n - (n - i + 1) + 1 = i
  BY <1>1
<1>3. r = [i \in 1..n |-> s[n - i + 1]]
  BY DEF Reverse
<1> HIDE DEF n, r
<1>4. r \in [1..n -> S] /\ \A i \in 1..n : r[i] = s[n - i + 1]
  BY <1>1, <1>2, <1>3
<1>5. r \in Seq(S) /\ Len(r) = n /\ DOMAIN r = 1..n
  BY <1>1, <1>4
<1>6. ToSet(r) = ToSet(s)
  <2>1. \A x \in ToSet(r) : x \in ToSet(s)
    BY <1>1, <1>2, <1>4, <1>5 DEF ToSet
  <2>2. ASSUME NEW x \in ToSet(s) PROVE x \in ToSet(r)
    <3>1. PICK i \in 1..n : x = s[i]
      BY <1>1 DEF ToSet
    <3>2. r[n - i + 1] = s[i] /\ n - i + 1 \in 1..n
      BY <1>2, <1>4
    <3> QED
      BY <1>5, <3>1, <3>2 DEF ToSet
  <2> QED
    BY <2>1, <2>2
<1>7. Reverse(r) = s
  <2>1. Reverse(r) = [i \in 1..n |-> r[n - i + 1]]
    BY <1>5 DEF Reverse
  <2>2. \A i \in 1..n : r[n - i + 1] = s[i]
    BY <1>2, <1>4
  <2> QED
    BY <1>1, <2>1, <2>2
<1> QED
  BY <1>2, <1>4, <1>5, <1>6, <1>7 DEF n, r

-----------------------------------------------------------------------------
(***************************************************************************)
(* A list is the one sequence of its rows in the order of their keys.      *)
(***************************************************************************)

(* The pairs of rows that a list with these keys shows in this order. *)
Shown(rows, key) == {p \in rows \X rows : After(key[p[1]], key[p[2]])}

(* A list has all its rows, in the order of their keys; *)
LEMMA SortedShows ==
  ASSUME NEW rows, IsFiniteSet(rows), NEW key, Orders(rows, key)
  PROVE  /\ Sorted(rows, key) \in Seq(rows) /\ ToSet(Sorted(rows, key)) = rows
         /\ Ordered(Sorted(rows, key), Shown(rows, key))
<1> DEFINE list == Sorted(rows, key)
           n == Cardinality(rows)
<1>1. /\ list \in Seq(rows) /\ Len(list) = n /\ n \in Nat /\ DOMAIN list = 1..n
      /\ \A r \in rows : list[Rank(rows, key, r) + 1] = r
      /\ \A k \in 1..n : \E r \in rows : Rank(rows, key, r) = k - 1
  BY SortedIs, FS_CardinalityType
<1> HIDE DEF list, n
<1>2. \A k \in 1..n : list[k] \in rows /\ Rank(rows, key, list[k]) = k - 1
  <2> TAKE k \in 1..n
  <2>1. PICK r \in rows : Rank(rows, key, r) = k - 1
    BY <1>1
  <2>2. list[k] = r
    <3>1. list[Rank(rows, key, r) + 1] = r
      BY <1>1
    <3>2. Rank(rows, key, r) + 1 = k
      BY <1>1, <2>1
    <3> QED
      BY <3>1, <3>2
  <2> QED
    BY <2>1, <2>2
<1>3. ToSet(list) = rows
  <2>1. ASSUME NEW r \in rows PROVE r \in ToSet(list)
    <3>1. Rank(rows, key, r) + 1 \in 1..n
      BY <1>1, RankType DEF n
    <3> QED
      BY <1>1, <3>1 DEF ToSet
  <2>2. \A r \in ToSet(list) : r \in rows
    BY <1>1, <1>2 DEF ToSet
  <2> QED
    BY <2>1, <2>2
<1>4. ASSUME NEW i \in 1..n, NEW j \in 1..n, i < j
      PROVE  After(key[list[i]], key[list[j]])
  <2>1. list[i] \in rows /\ list[j] \in rows /\ Rank(rows, key, list[i]) = i - 1 /\ Rank(rows, key, list[j]) = j - 1
    BY <1>2
  <2>2. list[i] # list[j]
    BY <1>4, <2>1
  <2>3. CASE After(key[list[j]], key[list[i]])
    <3>1. Rank(rows, key, list[j]) < Rank(rows, key, list[i])
      BY <2>1, <2>3, RanksDiffer
    <3> QED
      BY <1>4, <2>1, <3>1
  <2> QED
    BY <2>1, <2>2, <2>3 DEF Orders
<1>5. Ordered(list, Shown(rows, key))
  BY <1>1, <1>2, <1>4 DEF Ordered, Shown
<1> QED
  BY <1>1, <1>3, <1>5 DEF list

(* A sequence of the rows in the order of their keys is the list of them. *)
LEMMA ShownIsSorted ==
  ASSUME NEW rows, IsFiniteSet(rows), NEW key, Orders(rows, key),
         NEW s \in Seq(rows), ToSet(s) = rows, Ordered(s, Shown(rows, key))
  PROVE  s = Sorted(rows, key)
<1> DEFINE n == Len(s)
<1>1. n \in Nat /\ DOMAIN s = 1..n /\ s \in [1..n -> rows] /\ \A i \in 1..n : s[i] \in rows
  BY LenProperties, ElementOfSeq
<1>2. \A i, j \in 1..n : i < j => After(key[s[i]], key[s[j]])
  BY DEF Ordered, Shown
<1> HIDE DEF n
<1>3. \A i, j \in 1..n : s[i] = s[j] => i = j
  <2> SUFFICES ASSUME NEW i \in 1..n, NEW j \in 1..n, s[i] = s[j], i < j PROVE FALSE
    BY <1>1
  <2> QED
    BY <1>1, <1>2 DEF Orders
<1>4. \A r \in rows : \E i \in 1..n : r = s[i]
  BY <1>1 DEF ToSet
<1>5. Cardinality(rows) = n
  <2>1. s \in Bijection(1..n, rows)
    BY <1>1, <1>3, <1>4 DEF Bijection, Injection, Surjection, IsInjective
  <2>2. IsFiniteSet(1..n) /\ Cardinality(1..n) = n
    BY <1>1, FS_Interval
  <2> QED
    BY <2>1, <2>2, FS_Bijection DEF ExistsBijection
<1>6. ASSUME NEW i \in 1..n PROVE Rank(rows, key, s[i]) = i - 1
  <2> DEFINE f == [j \in 1..(i - 1) |-> s[j]]
             B == Before(rows, key, s[i])
  <2>1. \A j \in 1..(i - 1) : j \in 1..n /\ j < i
    BY <1>1
  <2>2. \A j \in 1..(i - 1) : f[j] \in B
    BY <1>1, <1>2, <2>1 DEF Before
  <2>3. ASSUME NEW r \in B PROVE \E j \in 1..(i - 1) : r = s[j]
    <3>1. r \in rows /\ After(key[r], key[s[i]])
      BY DEF Before
    <3>2. PICK j \in 1..n : r = s[j]
      BY <1>4, <3>1
    <3>3. j # i
      BY <1>1, <3>1, <3>2 DEF Orders
    <3>4. ~(i < j)
      <4> SUFFICES ASSUME i < j PROVE FALSE
        OBVIOUS
      <4>1. After(key[s[i]], key[s[j]])
        BY <1>2
      <4> QED
        BY <1>1, <3>1, <3>2, <4>1 DEF Orders
    <3>5. j \in 1..(i - 1)
      BY <1>1, <3>3, <3>4
    <3> QED
      BY <3>2, <3>5
  <2>4. \A j, k \in 1..(i - 1) : f[j] = f[k] => j = k
    BY <1>3, <2>1
  <2>5. DOMAIN f = 1..(i - 1) /\ f \in [1..(i - 1) -> B] /\ \A j \in 1..(i - 1) : f[j] = s[j]
    BY <2>2
  <2> HIDE DEF f, B
  <2>6. f \in Bijection(1..(i - 1), B)
    BY <2>3, <2>4, <2>5 DEF Bijection, Injection, Surjection, IsInjective
  <2>7. IsFiniteSet(1..(i - 1)) /\ Cardinality(1..(i - 1)) = i - 1
    <3>1. i - 1 \in Int /\ 1 \in Int /\ i - 1 >= 0
      BY <1>1
    <3>2. IsFiniteSet(1..(i - 1)) /\ Cardinality(1..(i - 1)) = IF 1 > i - 1 THEN 0 ELSE (i - 1) - 1 + 1
      BY <3>1, FS_Interval
    <3> QED
      BY <3>1, <3>2
  <2>8. Cardinality(B) = i - 1
    BY <2>6, <2>7, FS_Bijection DEF ExistsBijection
  <2> QED
    BY <2>8 DEF Rank, B
<1> DEFINE list == Sorted(rows, key)
<1>7. /\ list \in Seq(rows) /\ Len(list) = n
      /\ \A r \in rows : list[Rank(rows, key, r) + 1] = r
  BY <1>5, SortedIs
<1> HIDE DEF list
<1>8. \A i \in 1..n : list[i] = s[i]
  <2> TAKE i \in 1..n
  <2>1. list[Rank(rows, key, s[i]) + 1] = s[i]
    BY <1>1, <1>7
  <2>2. Rank(rows, key, s[i]) + 1 = i
    BY <1>1, <1>6
  <2> QED
    BY <2>1, <2>2
<1>9. list \in [1..n -> rows]
  BY <1>7, LenProperties
<1> QED
  BY <1>1, <1>8, <1>9 DEF list

(* What is kept of a list is the list of what is kept. *)
LEMMA ThoseSorted ==
  ASSUME NEW rows, IsFiniteSet(rows), NEW key, Orders(rows, key),
         NEW s \in Seq(rows), ToSet(s) = rows, Ordered(s, Shown(rows, key)),
         NEW kept \in SUBSET rows, NEW keys, \A r \in kept : keys[r] = key[r]
  PROVE  Those(s, kept) = Sorted(kept, keys)
<1> DEFINE t == Those(s, kept)
<1>1. t \in Seq(rows) /\ Ordered(t, Shown(rows, key)) /\ ToSet(t) = kept
  <2> DEFINE R == Shown(rows, key)
  <2>1. Ordered(s, R)
    OBVIOUS
  <2> HIDE DEF R
  <2>2. t \in Seq(rows) /\ Ordered(t, R) /\ ToSet(t) = ToSet(s) \cap kept
    BY <2>1, ThoseOrdered
  <2> QED
    BY <2>2 DEF R
<1> HIDE DEF t
<1>2. IsFiniteSet(kept) /\ Orders(kept, keys)
  BY FS_Subset DEF Orders
<1>3. Len(t) \in Nat /\ DOMAIN t = 1..Len(t) /\ \A i \in 1..Len(t) : t[i] \in kept
  BY <1>1 DEF ToSet
<1>4. t \in Seq(kept)
  BY <1>1, <1>3
<1>5. Ordered(t, Shown(kept, keys))
  <2> SUFFICES ASSUME NEW i \in 1..Len(t), NEW j \in 1..Len(t), i < j
               PROVE  <<t[i], t[j]>> \in Shown(kept, keys)
    BY DEF Ordered
  <2>1. t[i] \in kept /\ t[j] \in kept /\ <<t[i], t[j]>> \in Shown(rows, key)
    BY <1>1, <1>3 DEF Ordered
  <2> QED
    BY <2>1 DEF Shown
<1> QED
  BY <1>1, <1>2, <1>4, <1>5, ShownIsSorted DEF t

-----------------------------------------------------------------------------
(***************************************************************************)
(* The pages of a list, put together.                                      *)
(***************************************************************************)

(* The pages of a list are sequences of its rows, the first long enough is all. *)
LEMMA PageIs ==
  ASSUME NEW S, NEW list \in Seq(S), NEW limit \in Nat, NEW offset \in Nat
  PROVE  /\ Page(list, limit, offset) \in Seq(S)
         /\ offset >= Len(list) => Page(list, limit, offset) = <<>>
         /\ limit >= Len(list) => Page(list, limit, 0) = list
         /\ limit > 0 /\ Page(list, limit, 0) = <<>> => list = <<>>
         /\ Page(list, 0, 0) = <<>>
<1> DEFINE n == Len(list)
           end == Least(n, offset + limit)
<1>1. n \in Nat /\ \A i \in 1..n : list[i] \in S
  BY ElementOfSeq
<1>2. Page(list, limit, offset) = SubSeq(list, offset + 1, end)
  BY DEF Page
<1>3. Page(list, limit, 0) = SubSeq(list, 1, Least(n, limit)) /\ Page(list, 0, 0) = SubSeq(list, 1, Least(n, 0))
  <2>1. 0 + 1 = 1 /\ 0 + limit = limit /\ 0 + 0 = 0
    OBVIOUS
  <2> QED
    BY <2>1, Zenon DEF Page
<1> HIDE DEF n
<1>4. end \in Nat /\ end <= n /\ end <= offset + limit
  BY <1>1 DEF Least
<1> HIDE DEF end
<1>5. Page(list, limit, offset) \in Seq(S)
  <2>1. \A i \in (offset + 1)..end : list[i] \in S
    BY <1>1, <1>4
  <2>2. offset + 1 \in Int /\ end \in Int
    BY <1>4
  <2> QED
    BY <1>2, <2>1, <2>2, SubSeqProperties
<1>6. offset >= n => Page(list, limit, offset) = <<>>
  BY <1>1, <1>2, <1>4, SubSeqEmpty
<1>7. limit >= n => Page(list, limit, 0) = list
  <2>1. limit >= n => Least(n, limit) = n
    BY <1>1 DEF Least
  <2>2. SubSeq(list, 1, n) = list
    BY SubSeqFull DEF n
  <2> QED
    BY <1>3, <2>1, <2>2
<1>8. ASSUME limit > 0, Page(list, limit, 0) = <<>> PROVE list = <<>>
  <2> DEFINE m == Least(n, limit)
  <2>1. m \in Nat /\ m <= n /\ (n # 0 => m # 0)
    BY <1>1, <1>8 DEF Least
  <2> HIDE DEF m
  <2>2. Len(SubSeq(list, 1, m)) = IF 1 <= m THEN m - 1 + 1 ELSE 0
    <3>1. \A i \in 1..m : list[i] \in S
      BY <1>1, <2>1
    <3>2. 1 \in Int /\ m \in Int
      BY <2>1
    <3> QED
      BY <3>1, <3>2, SubSeqProperties
  <2>3. SubSeq(list, 1, m) = <<>>
    BY <1>3, <1>8 DEF m
  <2>4. m = 0
    <3>1. Len(<<>>) = 0
      OBVIOUS
    <3>2. (IF 1 <= m THEN m - 1 + 1 ELSE 0) = 0
      BY <2>2, <2>3, <3>1
    <3> QED
      BY <2>1, <3>2
  <2>5. n = 0
    BY <1>1, <2>1, <2>4
  <2> QED
    BY <2>5 DEF n
<1>9. Page(list, 0, 0) = <<>>
  <2>1. Least(n, 0) = 0
    BY <1>1 DEF Least
  <2> QED
    BY <1>3, <2>1, SubSeqEmpty
<1> QED
  BY <1>5, <1>6, <1>7, <1>8, <1>9 DEF n

(* A page and the next are one longer page. *)
LEMMA PageJoins ==
  ASSUME NEW S, NEW list \in Seq(S), NEW limit \in Nat, NEW m \in Nat
  PROVE  Page(list, m, 0) \o Page(list, limit, m) = Page(list, m + limit, 0)
<1> DEFINE n == Len(list)
<1>1. n \in Nat
  OBVIOUS
<1>2. CASE m >= n
  <2>1. Page(list, limit, m) = <<>> /\ Page(list, m, 0) = list /\ m + limit \in Nat /\ m + limit >= n
    <3>1. Page(list, limit, m) = <<>>
      BY <1>2, PageIs
    <3>2. Page(list, m, 0) = list
      <4>1. 0 \in Nat
        OBVIOUS
      <4> QED
        BY <1>2, <4>1, PageIs
    <3> QED
      BY <1>1, <1>2, <3>1, <3>2
  <2>2. Page(list, m + limit, 0) = list
    BY <2>1, PageIs
  <2>3. list \o <<>> = list
    BY ConcatEmptySeq
  <2> QED
    BY <2>1, <2>2, <2>3
<1>3. CASE m < n
  <2> DEFINE k == Least(n, m + limit)
  <2>1. /\ Page(list, m, 0) = SubSeq(list, 1, Least(n, m))
        /\ Page(list, limit, m) = SubSeq(list, m + 1, k)
        /\ Page(list, m + limit, 0) = SubSeq(list, 1, k)
    BY DEF Page
  <2> HIDE DEF n
  <2>2. Least(n, m) = m /\ k \in m..n /\ m \in 0..n /\ 1 \in 1..(n + 1)
    BY <1>1, <1>3 DEF Least
  <2> HIDE DEF k
  <2>3. SubSeq(list, 1, m) \o SubSeq(list, m + 1, k) = SubSeq(list, 1, k)
    <3>1. 1 \in 1..(Len(list) + 1) /\ m \in (1 - 1)..Len(list) /\ k \in m..Len(list)
      BY <2>2 DEF n
    <3> QED
      BY <3>1, ConcatAdjacentSubSeq
  <2> QED
    BY <2>1, <2>2, <2>3
<1> QED
  BY <1>1, <1>2, <1>3

(* The first n pages, and all of them, one after the other. *)
LEMMA PagesJoin ==
  ASSUME NEW S, NEW list \in Seq(S), NEW limit \in Nat, NEW n \in Nat
  PROVE  FlattenSeq([k \in 1..n |-> Page(list, limit, (k - 1) * limit)]) = Page(list, n * limit, 0)
<1> DEFINE pages(m) == [k \in 1..m |-> Page(list, limit, (k - 1) * limit)]
           F == {m \in Nat : FlattenSeq(pages(m)) # Page(list, m * limit, 0)}
<1>1. F \subseteq Nat
  OBVIOUS
<1> SUFFICES ASSUME F # {} PROVE FALSE
  BY DEF F
<1> HIDE DEF F
<1>2. PICK m \in F : \A k \in F : m <= k
  BY <1>1, SmallestNumber
<1>3. m \in Nat /\ FlattenSeq(pages(m)) # Page(list, m * limit, 0)
  BY <1>2 DEF F
<1>4. CASE m = 0
  <2>1. pages(m) = <<>>
    BY <1>4
  <2>2. m * limit = 0
    BY <1>4
  <2>3. Page(list, 0, 0) = <<>>
    BY PageIs
  <2> QED
    BY <1>3, <2>1, <2>2, <2>3, FlattenEmpty
<1>5. CASE m # 0
  <2> DEFINE j == m - 1
             last == Page(list, limit, j * limit)
  <2>1. j \in Nat /\ j + 1 = m /\ j < m
    BY <1>3, <1>5
  <2> HIDE DEF j
  <2>2. j \notin F
    BY <1>2, <1>3, <2>1
  <2>3. FlattenSeq(pages(j)) = Page(list, j * limit, 0)
    BY <2>1, <2>2 DEF F
  <2>4. j * limit \in Nat /\ j * limit + limit = m * limit
    <3>1. (j + 1) * limit = j * limit + limit
      BY <2>1
    <3> QED
      BY <2>1, <3>1
  <2>5. \A k \in 1..m : (k - 1) * limit \in Nat
    BY <1>3
  <2>6. \A k \in 1..m : Page(list, limit, (k - 1) * limit) \in Seq(S)
    BY <2>5, PageIs
  <2>7. pages(m) \in Seq(Seq(S)) /\ pages(j) \in Seq(Seq(S)) /\ last \in Seq(S) /\ Len(pages(j)) = j /\ Len(pages(m)) = m
    <3>1. \A k \in 1..j : k \in 1..m
      BY <1>3, <2>1
    <3>2. \A k \in 1..j : Page(list, limit, (k - 1) * limit) \in Seq(S)
      BY <2>6, <3>1
    <3>3. pages(m) \in Seq(Seq(S)) /\ Len(pages(m)) = m
      BY <1>3, <2>6
    <3>4. pages(j) \in Seq(Seq(S)) /\ Len(pages(j)) = j
      BY <2>1, <3>2
    <3> QED
      BY <2>4, <3>3, <3>4, PageIs
  <2>8. \A k \in 1..j : pages(j)[k] = pages(m)[k]
    BY <1>3, <2>1
  <2>9. pages(m)[m] = last
    <3>1. m \in 1..m /\ m - 1 = j
      BY <1>3, <1>5, <2>1
    <3> QED
      BY <3>1
  <2> DEFINE pm == pages(m)
             pj == pages(j)
  <2>10. pm = pj \o <<last>>
    <3> HIDE DEF last
    <3>1. /\ pm \in Seq(Seq(S)) /\ pj \in Seq(Seq(S)) /\ Len(pj) = j /\ Len(pm) = m
          /\ pm[m] = last /\ \A k \in 1..j : pj[k] = pm[k]
      BY <2>7, <2>8, <2>9
    <3> HIDE DEF pm, pj
    <3>2. <<last>> \in Seq(Seq(S)) /\ Len(<<last>>) = 1 /\ <<last>>[1] = last
      BY <2>7
    <3>3. /\ pj \o <<last>> \in Seq(Seq(S)) /\ Len(pj \o <<last>>) = j + 1
          /\ \A i \in 1..(j + 1) : (pj \o <<last>>)[i] = IF i <= j THEN pj[i] ELSE <<last>>[i - j]
      <4> HIDE DEF j
      <4> QED
        BY <3>1, <3>2, ConcatProperties
    <3>4. \A i \in 1..m : pm[i] = (pj \o <<last>>)[i]
      <4> TAKE i \in 1..m
      <4>1. CASE i <= j
        BY <2>1, <3>1, <3>3, <4>1
      <4>2. CASE i = m
        BY <2>1, <3>1, <3>2, <3>3, <4>2
      <4>3. i <= j \/ i = m
        BY <1>3, <2>1
      <4> QED
        BY <4>1, <4>2, <4>3
    <3> QED
      BY <2>1, <3>1, <3>3, <3>4, SeqEqual
  <2> HIDE DEF pm, pj, last
  <2>11. FlattenSeq(pm) = FlattenSeq(pj) \o last
    <3>1. <<last>> \in Seq(Seq(S)) /\ pj \in Seq(Seq(S)) /\ last \in Seq(S)
      BY <2>7 DEF pj
    <3>2. FlattenSeq(pj \o <<last>>) = FlattenSeq(pj) \o FlattenSeq(<<last>>)
      BY <3>1, FlattenConcat
    <3>3. FlattenSeq(<<last>>) = last
      BY <3>1, FlattenOne
    <3> QED
      BY <2>10, <3>2, <3>3
  <2>12. Page(list, j * limit, 0) \o last = Page(list, m * limit, 0)
    BY <2>4, PageJoins DEF last
  <2> QED
    BY <1>3, <2>3, <2>11, <2>12 DEF pm, pj
<1> QED
  BY <1>4, <1>5

(* Enough pages are the list, *)
LEMMA PagesRead ==
  ASSUME NEW S, NEW list \in Seq(S), NEW limit \in Nat, NEW n \in Nat, n * limit >= Len(list)
  PROVE  FlattenSeq([k \in 1..n |-> Page(list, limit, (k - 1) * limit)]) = list
<1>1. n * limit \in Nat /\ 0 \in Nat
  OBVIOUS
<1>2. Page(list, n * limit, 0) = list
  BY <1>1, PageIs
<1> QED
  BY <1>2, PagesJoin

(* and those that the total asks for are enough. *)
LEMMA PagesWalked ==
  ASSUME NEW S, NEW list \in Seq(S), NEW limit \in Nat \ {0}
  PROVE  Page(list, limit, 0)
           \o FlattenSeq([k \in 1..((Len(list) - 1) \div limit) |-> Page(list, limit, k * limit)]) = list
<1> DEFINE first == Page(list, limit, 0)
           m == (Len(list) - 1) \div limit
           more == [k \in 1..m |-> Page(list, limit, k * limit)]
<1>1. Len(list) \in Nat /\ first \in Seq(S) /\ limit \in Nat
  <2>1. 0 \in Nat /\ limit \in Nat
    OBVIOUS
  <2>2. Page(list, limit, 0) \in Seq(S)
    BY <2>1, PageIs
  <2>3. Len(list) \in Nat
    OBVIOUS
  <2> QED
    BY <2>1, <2>2, <2>3
<1>2. CASE Len(list) = 0
  <2>1. m < 0
    <3>1. limit \in Int /\ limit > 0
      OBVIOUS
    <3>2. \A d \in Int : d > 0 => (0 - 1) \div d < 0
      OBVIOUS
    <3>3. Len(list) - 1 = 0 - 1
      BY <1>2
    <3>4. (0 - 1) \div limit < 0
      BY <3>1, <3>2
    <3> QED
      BY <3>3, <3>4, Zenon
  <2>2. m \in Int
    OBVIOUS
  <2> HIDE DEF m
  <2>3. 1..m = {}
    BY <2>1, <2>2
  <2>4. more = <<>>
    BY <2>3
  <2>5. first = list
    <3>1. 0 \in Nat /\ limit >= Len(list)
      BY <1>1, <1>2
    <3> QED
      BY <1>1, <3>1, PageIs
  <2> HIDE DEF more, first
  <2>6. FlattenSeq(more) = <<>>
    BY <2>4, FlattenEmpty
  <2>7. list \o <<>> = list
    BY ConcatEmptySeq
  <2> QED
    BY <2>5, <2>6, <2>7 DEF more, m, first
<1>3. CASE Len(list) # 0
  <2> DEFINE t == Len(list) - 1
  <2>1. t \in Nat
    BY <1>1, <1>3
  <2>2. m \in Nat /\ t % limit \in 0..(limit - 1) /\ t = m * limit + (t % limit)
    BY <2>1, DivMod
  <2>3. (m + 1) * limit >= Len(list)
    <3> DEFINE q == m * limit
               r == t % limit
    <3>1. (m + 1) * limit = q + limit /\ q \in Nat
      BY <2>2
    <3>2. t = q + r /\ r \in 0..(limit - 1)
      BY <2>2
    <3> HIDE DEF q, r, m
    <3> QED
      BY <1>1, <3>1, <3>2
  <2> HIDE DEF m, t
  <2> DEFINE all == [k \in 1..(m + 1) |-> Page(list, limit, (k - 1) * limit)]
  <2>4. \A k \in 1..m : k * limit \in Nat /\ (k + 1) - 1 = k /\ k + 1 \in 1..(m + 1)
    BY <2>2
  <2>5. \A k \in 1..m : Page(list, limit, k * limit) \in Seq(S)
    BY <2>4, PageIs
  <2>6. more \in Seq(Seq(S)) /\ Len(more) = m
    BY <2>2, <2>5
  <2>7. \A k \in 1..(m + 1) : (k - 1) * limit \in Nat
    BY <2>2
  <2>8. \A k \in 1..(m + 1) : Page(list, limit, (k - 1) * limit) \in Seq(S)
    BY <2>7, PageIs
  <2>9. all \in Seq(Seq(S)) /\ Len(all) = m + 1
    BY <2>2, <2>8
  <2>10. all[1] = first
    <3>1. 1 \in 1..(m + 1) /\ (1 - 1) * limit = 0
      BY <2>2
    <3> QED
      BY <3>1
  <2>11. \A k \in 1..m : all[k + 1] = more[k]
    BY <2>4
  <2>12. FlattenSeq(all) = list
    <3>1. m + 1 \in Nat
      BY <2>2
    <3> QED
      BY <2>3, <3>1, PagesRead
  <2> HIDE DEF all, more, first
  <2>13. <<first>> \o more = all
    <3>1. /\ first \in Seq(S) /\ more \in Seq(Seq(S)) /\ all \in Seq(Seq(S)) /\ Len(all) = Len(more) + 1
          /\ all[1] = first /\ \A k \in 1..Len(more) : all[k + 1] = more[k]
      BY <1>1, <2>2, <2>6, <2>9, <2>10, <2>11
    <3> QED
      BY <3>1, Prefixed
  <2>14. FlattenSeq(<<first>> \o more) = first \o FlattenSeq(more)
    BY <1>1, <2>6, FlattenCons
  <2> QED
    BY <2>12, <2>13, <2>14 DEF more, m, first
<1> QED
  BY <1>2, <1>3

-----------------------------------------------------------------------------
(***************************************************************************)
(* The lists of transactions and of blocks, page by page.                  *)
(***************************************************************************)

(* The list of some of the chain's transactions is what is left of the list of
   all. *)
LEMMA TxsOfTheChain ==
  ASSUME IInv, NEW kept \in SUBSET Mined
  PROVE  /\ TxRows(ToSet(Chain)) = Mined
         /\ Those(TxsNewestFirst(Mined), kept) = TxsNewestFirst(kept)
         /\ TxsNewestFirst(kept) \in Seq(kept)
         /\ Len(TxsNewestFirst(kept)) = Cardinality(kept)
<1> DEFINE key == [r \in Mined |-> TxKey(r)]
           keys == [r \in kept |-> TxKey(r)]
<1>1. TxRows(ToSet(Chain)) = Mined
  BY ChainIs, MinedIs
<1>2. IsFiniteSet(Mined) /\ Orders(Mined, key) /\ IsFiniteSet(kept) /\ Orders(kept, keys)
  BY TxKeysOrder
<1>3. \A r \in kept : keys[r] = key[r]
  OBVIOUS
<1>4. TxsNewestFirst(Mined) = Sorted(Mined, key) /\ TxsNewestFirst(kept) = Sorted(kept, keys)
  BY DEF TxsNewestFirst
<1> HIDE DEF key, keys
<1>5. /\ Sorted(Mined, key) \in Seq(Mined) /\ ToSet(Sorted(Mined, key)) = Mined
      /\ Ordered(Sorted(Mined, key), Shown(Mined, key))
  BY <1>2, SortedShows
<1> DEFINE s == Sorted(Mined, key)
<1>6. s \in Seq(Mined) /\ ToSet(s) = Mined /\ Ordered(s, Shown(Mined, key))
  BY <1>5
<1> HIDE DEF s
<1>7. Those(s, kept) = Sorted(kept, keys)
  BY <1>2, <1>3, <1>6, ThoseSorted
<1>8. Sorted(kept, keys) \in Seq(kept) /\ Len(Sorted(kept, keys)) = Cardinality(kept)
  BY <1>2, SortedIs
<1> QED
  BY <1>1, <1>4, <1>7, <1>8 DEF s

(* The order of keys of one number. *)
LEMMA AfterOne ==
  ASSUME NEW a \in Nat, NEW c \in Nat
  PROVE  After(<<a>>, <<c>>) <=> a > c
<1> DEFINE k == <<a>>
           l == <<c>>
<1>1. DOMAIN k = 1..1 /\ k[1] = a /\ l[1] = c
  OBVIOUS
<1> HIDE DEF k, l
<1>2. After(k, l) <=> a > c
  BY <1>1 DEF After
<1> QED
  BY <1>2 DEF k, l

(* The blocks are listed from the tip of the chain down. *)
LEMMA BlocksAreTheChain ==
  ASSUME IInv
  PROVE  LET list == Sorted(db.canonical, [b \in db.canonical |-> <<Height[b]>>])
         IN  list \in Seq(db.canonical) /\ list = Reverse(Chain) /\ Len(list) = Cardinality(db.canonical)
<1> DEFINE key == [b \in db.canonical |-> <<Height[b]>>]
           n == GetChainTipHeight(db)
           s == Reverse(Chain)
<1>1. db.canonical \subseteq Blocks /\ IsFiniteSet(db.canonical)
  BY LiveIsCanonical, ChainIsFinite
<1>2. \A b \in db.canonical : Height[b] \in Nat /\ key[b] = <<Height[b]>>
  BY <1>1, ChainAssumption
<1> HIDE DEF key
<1>3. \A b, c \in db.canonical : After(key[b], key[c]) <=> Height[b] > Height[c]
  BY <1>2, AfterOne
<1>4. \A b, c \in db.canonical : Height[b] = Height[c] => b = c
  BY DEF IInv, Sound, OnePerHeight
<1>5. Orders(db.canonical, key)
  BY <1>2, <1>3, <1>4 DEF Orders
<1>6. n \in Nat /\ \A h \in 1..n : At(h) \in db.canonical /\ Height[At(h)] = h
  BY TopIs, AtIs
<1>7. Chain = [h \in 1..n |-> At(h)] /\ ToSet(Chain) = db.canonical
  BY ChainIs
<1> HIDE DEF n
<1>8. Chain \in Seq(db.canonical) /\ Len(Chain) = n /\ \A h \in 1..n : Chain[h] = At(h)
  BY <1>6, <1>7
<1>9. /\ s \in Seq(db.canonical) /\ Len(s) = n /\ ToSet(s) = db.canonical
      /\ \A i \in 1..n : s[i] = Chain[n - i + 1] /\ n - i + 1 \in 1..n
  <2>1. /\ Reverse(Chain) \in Seq(db.canonical) /\ Len(Reverse(Chain)) = Len(Chain)
        /\ ToSet(Reverse(Chain)) = ToSet(Chain)
        /\ \A i \in 1..Len(Chain) : /\ Reverse(Chain)[i] = Chain[Len(Chain) - i + 1]
                                    /\ Len(Chain) - i + 1 \in 1..Len(Chain)
    BY <1>8, ReverseIs
  <2> QED
    BY <1>7, <1>8, <2>1
<1> HIDE DEF s
<1>10. \A i \in 1..n : s[i] \in db.canonical /\ Height[s[i]] = n - i + 1
  BY <1>6, <1>8, <1>9
<1>11. \A i, j \in 1..n : i < j => Height[s[i]] > Height[s[j]]
  BY <1>6, <1>10
<1>12. Ordered(s, Shown(db.canonical, key))
  BY <1>3, <1>9, <1>10, <1>11 DEF Ordered, Shown
<1>13. s = Sorted(db.canonical, key)
  BY <1>1, <1>5, <1>9, <1>12, ShownIsSorted
<1>14. Len(Sorted(db.canonical, key)) = Cardinality(db.canonical)
  BY <1>1, <1>5, SortedIs
<1> QED
  BY <1>9, <1>13, <1>14 DEF key, s

(* The pages that the total asks for, of the transactions of some types, *)
LEMMA TxPages ==
  ASSUME IInv, NEW limit \in Nat \ {0}, NEW types
  PROVE  Walk(GetTxList(types, limit, 0), LAMBDA o : GetTxList(types, limit, o), limit)
           = Those(TxsNewestFirst(Mined), {r \in Mined : types = {} \/ TxData[TxAt(r)].type \in types})
<1> DEFINE rows == {r \in Mined : types = {} \/ TxData[TxAt(r)].type \in types}
           list == TxsNewestFirst(rows)
<1>1. \A o : GetTxList(types, limit, o).results = Page(list, limit, o)
             /\ GetTxList(types, limit, o).total = Cardinality(rows)
  BY DEF GetTxList
<1>2. rows \in SUBSET Mined
  OBVIOUS
<1> HIDE DEF rows
<1>3. Those(TxsNewestFirst(Mined), rows) = list /\ list \in Seq(rows) /\ Len(list) = Cardinality(rows)
  BY <1>2, TxsOfTheChain
<1> HIDE DEF list
<1>4. Page(list, limit, 0)
        \o FlattenSeq([k \in 1..((Len(list) - 1) \div limit) |-> Page(list, limit, k * limit)]) = list
  BY <1>3, PagesWalked
<1>5. Walk(GetTxList(types, limit, 0), LAMBDA o : GetTxList(types, limit, o), limit)
        = Page(list, limit, 0)
            \o FlattenSeq([k \in 1..((Len(list) - 1) \div limit) |-> Page(list, limit, k * limit)])
  BY <1>1, <1>3 DEF Walk
<1> QED
  BY <1>3, <1>4, <1>5 DEF rows

(* of the blocks *)
LEMMA BlockPages ==
  ASSUME IInv, NEW limit \in Nat \ {0}
  PROVE  Walk(GetBlocks(limit, 0), LAMBDA o : GetBlocks(limit, o), limit) = Reverse(Chain)
<1> DEFINE list == Sorted(db.canonical, [b \in db.canonical |-> <<Height[b]>>])
<1>1. list \in Seq(db.canonical) /\ list = Reverse(Chain) /\ Len(list) = Cardinality(db.canonical)
  BY BlocksAreTheChain
<1>2. \A o : GetBlocks(limit, o).results = Page(list, limit, o)
             /\ GetBlocks(limit, o).total = Cardinality(db.canonical)
  BY DEF GetBlocks
<1> HIDE DEF list
<1>3. Page(list, limit, 0)
        \o FlattenSeq([k \in 1..((Len(list) - 1) \div limit) |-> Page(list, limit, k * limit)]) = list
  BY <1>1, PagesWalked
<1>4. Walk(GetBlocks(limit, 0), LAMBDA o : GetBlocks(limit, o), limit)
        = Page(list, limit, 0)
            \o FlattenSeq([k \in 1..((Len(list) - 1) \div limit) |-> Page(list, limit, k * limit)])
  BY <1>1, <1>2 DEF Walk
<1> QED
  BY <1>1, <1>3, <1>4

(* and of the transactions of an address. *)
LEMMA AddressTxPages ==
  ASSUME IInv, NEW limit \in Nat \ {0}, NEW a
  PROVE  Walk(GetAddressTxs(a, limit, 0), LAMBDA o : GetAddressTxs(a, limit, o), limit)
           = Those(TxsNewestFirst(Mined), AddressTxRows(a))
<1> DEFINE rows == AddressTxRows(a)
           list == TxsNewestFirst(rows)
<1>1. /\ \A o : GetAddressTxs(a, limit, o).results = Page(list, limit, o)
      /\ GetAddressTxs(a, limit, 0).total = IF Page(list, limit, 0) = <<>> THEN 0 ELSE Cardinality(rows)
  BY DEF GetAddressTxs
<1>2. rows \in SUBSET Mined
  BY DEF AddressTxRows
<1> HIDE DEF rows
<1>3. Those(TxsNewestFirst(Mined), rows) = list /\ list \in Seq(rows) /\ Len(list) = Cardinality(rows)
  BY <1>2, TxsOfTheChain
<1> HIDE DEF list
<1>4. GetAddressTxs(a, limit, 0).total = Len(list)
  <2>1. Page(list, limit, 0) = <<>> => list = <<>>
    BY <1>3, PageIs
  <2> QED
    BY <1>1, <1>3, <2>1
<1>5. Page(list, limit, 0)
        \o FlattenSeq([k \in 1..((Len(list) - 1) \div limit) |-> Page(list, limit, k * limit)]) = list
  BY <1>3, PagesWalked
<1>6. Walk(GetAddressTxs(a, limit, 0), LAMBDA o : GetAddressTxs(a, limit, o), limit)
        = Page(list, limit, 0)
            \o FlattenSeq([k \in 1..((Len(list) - 1) \div limit) |-> Page(list, limit, k * limit)])
  BY <1>1, <1>4 DEF Walk
<1> QED
  BY <1>3, <1>5, <1>6 DEF rows

(* The three lists that have a total. *)
LEMMA PagesAreTheList ==
  ASSUME IInv, NEW limit \in Nat \ {0}
  PROVE  PagesMakeTheList(limit)
<1> DEFINE newest == TxsNewestFirst(Mined)
<1>1. TxRows(ToSet(Chain)) = Mined
  BY ChainIs, MinedIs
<1>2. \A types : Walk(GetTxList(types, limit, 0), LAMBDA o : GetTxList(types, limit, o), limit)
                  = Those(newest, {r \in Mined : types = {} \/ TxData[TxAt(r)].type \in types})
  BY TxPages
<1>3. \A a : Walk(GetAddressTxs(a, limit, 0), LAMBDA o : GetAddressTxs(a, limit, o), limit)
              = Those(newest, {r \in Mined : TxConcerns(TxAt(r), a)})
  BY AddressTxPages DEF AddressTxRows
<1>4. Walk(GetBlocks(limit, 0), LAMBDA o : GetBlocks(limit, o), limit) = Reverse(Chain)
  BY BlockPages
<1> QED
  BY <1>1, <1>2, <1>3, <1>4, Zenon DEF PagesMakeTheList

-----------------------------------------------------------------------------
(***************************************************************************)
(* The events of a transaction.                                            *)
(***************************************************************************)

(* The index of an event is a number. *)
LEMMA EventIndexType ==
  ASSUME NEW r, r[2] \in Nat \ {0}
  PROVE  EventIndex(r) \in Nat
<1> DEFINE M == {m \in 1..(r[2] - 1) : Messages[r[1]][m].tx = Msg(r).tx}
<1>1. IsFiniteSet(1..(r[2] - 1))
  BY FS_Interval
<1>2. M \in SUBSET (1..(r[2] - 1))
  OBVIOUS
<1> HIDE DEF M
<1>3. Cardinality(M) \in Nat
  BY <1>1, <1>2, FS_Subset, FS_CardinalityType
<1> QED
  BY <1>3 DEF EventIndex, M

(* The event rows of a block, as its messages, *)
BlockRows(b) == {<<b, n>> : n \in DOMAIN Messages[b]}

(* one before the other. *)
Sent(b) == {p \in BlockRows(b) \X BlockRows(b) : p[1][2] < p[2][2]}

(* An event row of a block and its message. *)
LEMMA BlockRowIs ==
  ASSUME NEW b \in Blocks, NEW r \in BlockRows(b)
  PROVE  /\ r = <<b, r[2]>> /\ r[1] = b /\ r[2] \in DOMAIN Messages[b] /\ r[2] \in Nat \ {0}
         /\ Msg(r) = Messages[b][r[2]] /\ Msg(r) \in Message /\ Msg(r).tx \in TxsOf[b]
<1>1. PICK n \in DOMAIN Messages[b] : r = <<b, n>>
  BY DEF BlockRows
<1>2. Messages[b] \in Seq(Message) /\ Messages[b][n].tx \in TxsOf[b]
  BY <1>1, LedgerAssumption
<1>3. n \in Nat \ {0} /\ Messages[b][n] \in Message
  BY <1>1, <1>2
<1> QED
  BY <1>1, <1>2, <1>3 DEF Msg

(* The events of a transaction are its rows in the order of the messages. *)
LEMMA EventsOfIs ==
  ASSUME NEW b \in Blocks, NEW t
  PROVE  /\ EventsOf(b, t) \in Seq(BlockRows(b)) /\ Ordered(EventsOf(b, t), Sent(b))
         /\ ToSet(EventsOf(b, t)) = {r \in BlockRows(b) : Msg(r).tx = t}
<1> DEFINE all == [n \in DOMAIN Messages[b] |-> <<b, n>>]
           R == Sent(b)
           kept == {r \in ToSet(all) : Msg(r).tx = t}
<1>1. Messages[b] \in Seq(Message)
  BY LedgerAssumption
<1> DEFINE n == Len(Messages[b])
<1>2. n \in Nat /\ DOMAIN Messages[b] = 1..n
  BY <1>1
<1>3. all \in Seq(BlockRows(b)) /\ Len(all) = n /\ \A i \in 1..n : all[i] = <<b, i>> /\ all[i] \in BlockRows(b)
  <2>1. \A i \in 1..n : <<b, i>> \in BlockRows(b)
    BY <1>2 DEF BlockRows
  <2> QED
    BY <1>2, <2>1
<1>4. EventsOf(b, t) = Those(all, kept)
  BY DEF EventsOf
<1> HIDE DEF all, n
<1>5. ToSet(all) = BlockRows(b)
  BY <1>2, <1>3 DEF ToSet, BlockRows
<1>6. Ordered(all, R)
  <2> SUFFICES ASSUME NEW i \in 1..n, NEW j \in 1..n, i < j PROVE <<all[i], all[j]>> \in R
    BY <1>3 DEF Ordered
  <2>1. all[i] = <<b, i>> /\ all[j] = <<b, j>> /\ all[i] \in BlockRows(b) /\ all[j] \in BlockRows(b)
    BY <1>3
  <2>2. all[i][2] = i /\ all[j][2] = j
    BY <2>1
  <2> QED
    BY <2>1, <2>2 DEF Sent
<1>7. kept = {r \in BlockRows(b) : Msg(r).tx = t}
  BY <1>5
<1> HIDE DEF R, kept
<1>8. Those(all, kept) \in Seq(BlockRows(b)) /\ Ordered(Those(all, kept), R) /\ ToSet(Those(all, kept)) = ToSet(all) \cap kept
  BY <1>3, <1>6, ThoseOrdered
<1> QED
  BY <1>4, <1>5, <1>7, <1>8 DEF R

(* Turned round, a sequence has the opposite order. *)
LEMMA ReverseOrdered ==
  ASSUME NEW S, NEW s \in Seq(S), NEW R, Ordered(s, R),
         NEW Q, \A x, y \in S : <<x, y>> \in R => <<y, x>> \in Q
  PROVE  Ordered(Reverse(s), Q)
<1> DEFINE n == Len(s)
           r == Reverse(s)
<1>1. n \in Nat /\ \A i \in 1..n : s[i] \in S
  BY ElementOfSeq
<1>2. Len(r) = n /\ \A i \in 1..n : r[i] = s[n - i + 1] /\ n - i + 1 \in 1..n
  BY ReverseIs
<1>3. \A i, j \in 1..n : i < j => <<s[i], s[j]>> \in R
  BY DEF Ordered
<1> HIDE DEF n, r
<1>4. ASSUME NEW i \in 1..n, NEW j \in 1..n, i < j PROVE <<r[i], r[j]>> \in Q
  <2> DEFINE k == n - i + 1
             l == n - j + 1
  <2>1. k \in 1..n /\ l \in 1..n /\ l < k /\ r[i] = s[k] /\ r[j] = s[l]
    BY <1>1, <1>2, <1>4
  <2> HIDE DEF k, l
  <2>2. <<s[l], s[k]>> \in R /\ s[l] \in S /\ s[k] \in S
    BY <1>1, <1>3, <2>1
  <2> QED
    BY <2>1, <2>2
<1> QED
  BY <1>2, <1>4 DEF Ordered, r

(* What orders the items of a sequence may be told otherwise. *)
LEMMA OrderedToo ==
  ASSUME NEW S, NEW s \in Seq(S), NEW R, Ordered(s, R), NEW kept, ToSet(s) = kept,
         NEW Q, \A x, y \in kept : <<x, y>> \in R => <<x, y>> \in Q
  PROVE  Ordered(s, Q)
<1>1. Len(s) \in Nat /\ DOMAIN s = 1..Len(s)
  OBVIOUS
<1>2. \A i \in 1..Len(s) : s[i] \in kept
  BY <1>1 DEF ToSet
<1> QED
  BY <1>2 DEF Ordered

(* Sorted by their index and turned round, the rows of a transaction are its
   events as they were sent: the later has the greater index. *)
LEMMA TxEventsAre ==
  ASSUME IInv, NEW b \in db.known, NEW t \in TxsOf[b]
  PROVE  GetTxEvents(t, b) = EventsOf(b, t)
<1> DEFINE rows == {r \in BlockRows(b) : Msg(r).tx = t}
           key == [r \in rows |-> <<EventIndex(r)>>]
           s == EventsOf(b, t)
<1>1. b \in Blocks /\ {b} \cap db.known = {b}
  BY LiveIsCanonical
<1>2. /\ s \in Seq(BlockRows(b)) /\ Ordered(s, Sent(b)) /\ ToSet(s) = rows
  BY <1>1, EventsOfIs
<1>3. GetTxEvents(t, b) = Reverse(Sorted(rows, key))
  <2> DEFINE read == {r \in UNION {EventRows(kind, {b} \cap db.known) : kind \in {"stx", "ft", "nft", "log"}} :
                        Msg(r).tx = t}
  <2>1. ASSUME NEW r \in read PROVE r \in rows
    <3>1. PICK kind \in {"stx", "ft", "nft", "log"} : r \in EventRows(kind, {b})
      BY <1>1
    <3> QED
      BY <3>1 DEF EventRows, BlockRows
  <2>2. ASSUME NEW r \in rows PROVE r \in read
    <3>1. r = <<b, r[2]>> /\ r[2] \in DOMAIN Messages[b] /\ Msg(r) = Messages[b][r[2]] /\ Msg(r) \in Message
      BY <1>1, BlockRowIs
    <3>2. Messages[b][r[2]].kind \in {"stx", "ft", "nft", "log"}
      BY <3>1 DEF Message
    <3>3. r \in EventRows(Messages[b][r[2]].kind, {b})
      BY <3>1 DEF EventRows
    <3> QED
      BY <1>1, <3>2, <3>3
  <2>3. read = rows
    BY <2>1, <2>2
  <2> HIDE DEF read, rows
  <2>4. GetTxEvents(t, b) = Reverse(Sorted(read, [r \in read |-> <<EventIndex(r)>>]))
    BY Zenon DEF GetTxEvents, read
  <2> QED
    BY <2>3, <2>4
<1>4. \A r \in rows : /\ r = <<b, r[2]>> /\ r[2] \in Nat \ {0} /\ Messages[b][r[2]].tx = t
                      /\ EventIndex(r) \in Nat /\ key[r] = <<EventIndex(r)>>
  <2> TAKE r \in rows
  <2>1. r = <<b, r[2]>> /\ r[2] \in Nat \ {0} /\ Messages[b][r[2]].tx = t
    BY <1>1, BlockRowIs
  <2> QED
    BY <2>1, EventIndexType
<1>5. \A p, q \in rows : p[2] < q[2] => EventIndex(p) < EventIndex(q)
  <2> SUFFICES ASSUME NEW p \in rows, NEW q \in rows, p[2] < q[2] PROVE EventIndex(p) < EventIndex(q)
    OBVIOUS
  <2> DEFINE m == p[2]
             n == q[2]
  <2>1. m \in Nat \ {0} /\ n \in Nat \ {0} /\ m < n /\ Messages[b][m].tx = Messages[b][n].tx
    BY <1>4
  <2>2. p = <<b, m>> /\ q = <<b, n>>
    BY <1>4
  <2> HIDE DEF m, n
  <2> QED
    BY <2>1, <2>2, EventIndexGrows
<1>6. \A p, q \in rows : After(key[p], key[q]) <=> EventIndex(p) > EventIndex(q)
  BY <1>4, AfterOne
<1>7. \A p, q \in rows : EventIndex(p) = EventIndex(q) => p = q
  <2> SUFFICES ASSUME NEW p \in rows, NEW q \in rows, EventIndex(p) = EventIndex(q) PROVE p = q
    OBVIOUS
  <2>1. p = <<b, p[2]>> /\ q = <<b, q[2]>> /\ p[2] \in Nat /\ q[2] \in Nat /\ EventIndex(p) \in Nat
    BY <1>4
  <2>2. ~(p[2] < q[2]) /\ ~(q[2] < p[2])
    BY <1>5, <2>1
  <2>3. p[2] = q[2]
    BY <2>1, <2>2
  <2> QED
    BY <2>1, <2>3
<1>8. IsFiniteSet(rows)
  <2> DEFINE f == [n \in DOMAIN Messages[b] |-> <<b, n>>]
  <2>1. Messages[b] \in Seq(Message)
    BY <1>1, LedgerAssumption
  <2>2. DOMAIN f = 1..Len(Messages[b]) /\ Len(Messages[b]) \in Nat
    BY <2>1
  <2>3. IsFiniteSet(DOMAIN f)
    BY <2>2, FS_Interval
  <2>4. BlockRows(b) = {f[n] : n \in DOMAIN f}
    BY DEF BlockRows
  <2> HIDE DEF f
  <2>5. IsFiniteSet(BlockRows(b))
    BY <2>3, <2>4, ImageFinite
  <2> QED
    BY <2>5, FS_Subset
<1> HIDE DEF rows, key, s
<1>9. Orders(rows, key)
  <2>1. \A p \in rows : EventIndex(p) \in Nat
    BY <1>4
  <2> QED
    BY <1>6, <1>7, <2>1 DEF Orders
<1>10. s \in Seq(rows)
  <2>1. Len(s) \in Nat /\ DOMAIN s = 1..Len(s)
    BY <1>2
  <2>2. \A i \in 1..Len(s) : s[i] \in rows
    BY <1>2, <2>1 DEF ToSet
  <2> QED
    BY <1>2, <2>1, <2>2
<1>11. Reverse(s) \in Seq(rows) /\ ToSet(Reverse(s)) = rows /\ Reverse(Reverse(s)) = s
  BY <1>2, <1>10, ReverseIs
<1>12. Ordered(Reverse(s), Shown(rows, key))
  <2> DEFINE R == Sent(b)
             Q == Shown(rows, key)
  <2>1. \A x, y \in rows : <<x, y>> \in R => <<y, x>> \in Q
    <3>1. \A x, y \in rows : <<x, y>> \in R => x[2] < y[2]
      BY DEF Sent
    <3>2. \A x, y \in rows : After(key[y], key[x]) => <<y, x>> \in Q
      BY DEF Shown
    <3>3. \A x, y \in rows : x[2] < y[2] => After(key[y], key[x])
      BY <1>4, <1>5, <1>6
    <3> QED
      BY <3>1, <3>2, <3>3
  <2>2. Ordered(s, R)
    BY <1>2
  <2> HIDE DEF R, Q
  <2>3. Ordered(Reverse(s), Q)
    BY <1>10, <2>1, <2>2, ReverseOrdered
  <2> QED
    BY <2>3 DEF Q
<1>13. Reverse(s) = Sorted(rows, key)
  BY <1>8, <1>9, <1>11, <1>12, ShownIsSorted
<1> QED
  BY <1>3, <1>11, <1>13 DEF s

(* Of every stored block, canonical or not. *)
LEMMA TxEventsAreInOrder == IInv => TxEventsInOrder
  BY TxEventsAre DEF TxEventsInOrder

-----------------------------------------------------------------------------
(***************************************************************************)
(* The lists of events, page by page.                                      *)
(***************************************************************************)

(* The order of keys of three numbers. *)
LEMMA AfterTriple ==
  ASSUME NEW a \in Nat, NEW b \in Nat, NEW c \in Nat, NEW d \in Nat, NEW e \in Nat, NEW f \in Nat
  PROVE  After(<<a, b, c>>, <<d, e, f>>)
           <=> a > d \/ (a = d /\ b > e) \/ (a = d /\ b = e /\ c > f)
<1> DEFINE k == <<a, b, c>>
           l == <<d, e, f>>
<1>1. DOMAIN k = 1..3 /\ k[1] = a /\ k[2] = b /\ k[3] = c /\ l[1] = d /\ l[2] = e /\ l[3] = f
  OBVIOUS
<1> HIDE DEF k, l
<1>2. ASSUME After(k, l) PROVE a > d \/ (a = d /\ b > e) \/ (a = d /\ b = e /\ c > f)
  <2>1. PICK i \in 1..3 : k[i] > l[i] /\ \A j \in 1..(i - 1) : k[j] = l[j]
    BY <1>1, <1>2 DEF After
  <2>2. CASE i = 1
    BY <1>1, <2>1, <2>2
  <2>3. CASE i = 2
    BY <1>1, <2>1, <2>3
  <2>4. CASE i = 3
    <3>1. 1 \in 1..(i - 1) /\ 2 \in 1..(i - 1)
      BY <2>4
    <3> QED
      BY <1>1, <2>1, <2>4, <3>1
  <2> QED
    BY <2>1, <2>2, <2>3, <2>4
<1>3. ASSUME a > d PROVE After(k, l)
  BY <1>1, <1>3 DEF After
<1>4. ASSUME a = d, b > e PROVE After(k, l)
  <2>1. 2 \in DOMAIN k /\ k[2] > l[2] /\ \A j \in 1..(2 - 1) : k[j] = l[j]
    BY <1>1, <1>4
  <2> QED
    BY <2>1 DEF After
<1>5. ASSUME a = d, b = e, c > f PROVE After(k, l)
  <2>1. \A j \in 1..(3 - 1) : j = 1 \/ j = 2
    OBVIOUS
  <2>2. 3 \in DOMAIN k /\ k[3] > l[3] /\ \A j \in 1..(3 - 1) : k[j] = l[j]
    BY <1>1, <1>5, <2>1
  <2> QED
    BY <2>2 DEF After
<1> QED
  BY <1>2, <1>3, <1>4, <1>5 DEF k, l

(* No transaction is in a block twice. *)
LEMMA TxPlaces ==
  ASSUME NEW b \in Blocks
  PROVE  /\ Order[b] \in Seq(Txs)
         /\ \A i \in DOMAIN Order[b] : Order[b][i] \in TxsOf[b] /\ TxIndex(b, Order[b][i]) = i
<1> DEFINE o == Order[b]
           n == Len(o)
<1>1. o \in Seq(Txs) /\ ToSet(o) = TxsOf[b] /\ n = Cardinality(TxsOf[b])
  BY LedgerAssumption
<1>2. n \in Nat /\ DOMAIN o = 1..n /\ o \in [1..n -> Txs]
  BY <1>1, LenProperties
<1> HIDE DEF o, n
<1>3. o \in Surjection(1..n, TxsOf[b])
  <2>1. \A i \in 1..n : o[i] \in TxsOf[b]
    BY <1>1, <1>2 DEF ToSet
  <2>2. \A t \in TxsOf[b] : \E i \in 1..n : o[i] = t
    BY <1>1, <1>2 DEF ToSet
  <2> QED
    BY <1>2, <2>1, <2>2 DEF Surjection
<1>4. IsFiniteSet(1..n) /\ Cardinality(1..n) = n
  BY <1>2, FS_Interval
<1>5. o \in Injection(1..n, TxsOf[b])
  BY <1>1, <1>3, <1>4, FS_Surjection
<1>6. ASSUME NEW i \in 1..n PROVE o[i] \in TxsOf[b] /\ TxIndex(b, o[i]) = i
  <2>1. o[i] \in TxsOf[b]
    BY <1>3 DEF Surjection
  <2>2. TxIndex(b, o[i]) \in 1..n /\ o[TxIndex(b, o[i])] = o[i]
    BY <1>2, <2>1, TxIndexIs DEF o
  <2> QED
    BY <1>5, <2>1, <2>2 DEF Injection, IsInjective
<1> QED
  BY <1>1, <1>2, <1>6 DEF o

(* The pairs of event rows of the chain in the order in which they happened. *)
Rising(rows, key) == {p \in rows \X rows : After(key[p[2]], key[p[1]])}

EventKeys == [r \in RowsOf(Messages) |-> EventKey(r)]

(* An event row of the chain, and the parts of its key. *)
LEMMA ChainRowIs ==
  ASSUME IInv, NEW r \in RowsOf(Messages)
  PROVE  /\ r = <<r[1], r[2]>> /\ r[1] \in db.canonical /\ r[1] \in Blocks /\ r[2] \in Nat \ {0}
         /\ r[2] \in DOMAIN Messages[r[1]] /\ r \in BlockRows(r[1])
         /\ Msg(r) = Messages[r[1]][r[2]] /\ Msg(r) \in Message /\ Msg(r).tx \in TxsOf[r[1]]
         /\ Height[r[1]] \in Nat /\ TxIndex(r[1], Msg(r).tx) \in Nat /\ EventIndex(r) \in Nat
<1>1. PICK b \in db.canonical : \E n \in DOMAIN Messages[b] : r = <<b, n>>
  BY DEF RowsOf
<1>2. PICK n \in DOMAIN Messages[b] : r = <<b, n>>
  BY <1>1
<1>3. b \in Blocks /\ r \in BlockRows(b) /\ r[1] = b /\ r[2] = n
  BY <1>2, LiveIsCanonical DEF BlockRows
<1>4. /\ r[2] \in DOMAIN Messages[b] /\ r[2] \in Nat \ {0}
      /\ Msg(r) = Messages[b][r[2]] /\ Msg(r) \in Message /\ Msg(r).tx \in TxsOf[b]
  BY <1>3, BlockRowIs
<1>5. Height[b] \in Nat /\ EventIndex(r) \in Nat
  BY <1>3, <1>4, ChainAssumption, EventIndexType
<1>6. TxIndex(b, Msg(r).tx) \in Nat
  <2>1. TxIndex(b, Msg(r).tx) \in DOMAIN Order[b]
    BY <1>3, <1>4, TxIndexIs
  <2>2. Order[b] \in Seq(Txs)
    BY <1>3, LedgerAssumption
  <2> QED
    BY <2>1, <2>2
<1> QED
  BY <1>2, <1>3, <1>4, <1>5, <1>6

(* Which of two event rows a list shows first: by block, transaction, event. *)
LEMMA EventsAreAfter ==
  ASSUME IInv, NEW r \in RowsOf(Messages), NEW s \in RowsOf(Messages)
  PROVE  After(EventKeys[r], EventKeys[s]) <=>
           \/ Height[r[1]] > Height[s[1]]
           \/ /\ Height[r[1]] = Height[s[1]]
              /\ TxIndex(r[1], Msg(r).tx) > TxIndex(s[1], Msg(s).tx)
           \/ /\ Height[r[1]] = Height[s[1]]
              /\ TxIndex(r[1], Msg(r).tx) = TxIndex(s[1], Msg(s).tx)
              /\ EventIndex(r) > EventIndex(s)
<1>1. /\ Height[r[1]] \in Nat /\ TxIndex(r[1], Msg(r).tx) \in Nat /\ EventIndex(r) \in Nat
      /\ Height[s[1]] \in Nat /\ TxIndex(s[1], Msg(s).tx) \in Nat /\ EventIndex(s) \in Nat
  BY ChainRowIs
<1>2. /\ EventKeys[r] = <<Height[r[1]], TxIndex(r[1], Msg(r).tx), EventIndex(r)>>
      /\ EventKeys[s] = <<Height[s[1]], TxIndex(s[1], Msg(s).tx), EventIndex(s)>>
  BY DEF EventKeys, EventKey
<1> QED
  BY <1>1, <1>2, AfterTriple

(* The keys order the event rows of the chain, of which there are finitely many. *)
LEMMA ChainEventsOrder ==
  ASSUME IInv
  PROVE  IsFiniteSet(RowsOf(Messages)) /\ Orders(RowsOf(Messages), EventKeys)
<1> DEFINE rows == RowsOf(Messages)
           key == EventKeys
           h == [r \in rows |-> Height[r[1]]]
           x == [r \in rows |-> TxIndex(r[1], Msg(r).tx)]
           e == [r \in rows |-> EventIndex(r)]
<1>1. IsFiniteSet(rows)
  <2>1. PICK place : Finds(place, Messages, Moves)
    BY Replays
  <2>2. Moves \in Seq(Message)
    BY Replays
  <2> QED
    BY <2>1, <2>2, CountsAgree
<1>2. \A r \in rows : h[r] \in Nat /\ x[r] \in Nat /\ e[r] \in Nat
  BY ChainRowIs
<1>3. \A r, s \in rows : After(key[r], key[s]) <=>
        \/ h[r] > h[s] \/ (h[r] = h[s] /\ x[r] > x[s]) \/ (h[r] = h[s] /\ x[r] = x[s] /\ e[r] > e[s])
  BY EventsAreAfter
<1>4. ASSUME NEW r \in rows, NEW s \in rows, h[r] = h[s], x[r] = x[s], e[r] = e[s]
      PROVE  r = s
  <2>1. EventKey(r) = EventKey(s)
    BY <1>4 DEF EventKey
  <2>2. Msg(r) \in Message /\ Msg(s) \in Message
    BY ChainRowIs
  <2>3. Msg(r).kind \in {"stx", "ft", "nft", "log"} /\ Msg(s).kind \in {"stx", "ft", "nft", "log"}
    BY <2>2 DEF Message
  <2>4. r \in Happened(Msg(r).kind) /\ s \in Happened(Msg(s).kind)
    BY <2>3, EventRowsAre
  <2> QED
    BY <2>1, <2>3, <2>4, EventKeysDiffer
<1> HIDE DEF rows, key, h, x, e
<1>5. \A r \in rows : ~After(key[r], key[r])
  BY <1>2, <1>3
<1>6. \A r, s \in rows : r # s => After(key[r], key[s]) \/ After(key[s], key[r])
  BY <1>2, <1>3, <1>4
<1>7. \A r, s, t \in rows : After(key[r], key[s]) /\ After(key[s], key[t]) => After(key[r], key[t])
  BY <1>2, <1>3
<1> QED
  BY <1>1, <1>5, <1>6, <1>7 DEF Orders, rows, key

ChainOrder == Rising(RowsOf(Messages), EventKeys)

(* The event rows of a block of the chain are rows of the chain. *)
LEMMA OfBlock ==
  ASSUME IInv, NEW b \in db.canonical
  PROVE  b \in Blocks /\ BlockRows(b) \subseteq RowsOf(Messages)
  BY LiveIsCanonical DEF BlockRows, RowsOf

(* The events of a transaction, of a block and of the chain are in this order. *)
LEMMA TxEventsRise ==
  ASSUME IInv, NEW b \in db.canonical, NEW t
  PROVE  /\ EventsOf(b, t) \in Seq(RowsOf(Messages)) /\ Ordered(EventsOf(b, t), ChainOrder)
         /\ ToSet(EventsOf(b, t)) = {r \in BlockRows(b) : Msg(r).tx = t}
<1> DEFINE s == EventsOf(b, t)
           kept == {r \in BlockRows(b) : Msg(r).tx = t}
<1>1. b \in Blocks /\ BlockRows(b) \subseteq RowsOf(Messages)
  BY OfBlock
<1>2. s \in Seq(BlockRows(b)) /\ Ordered(s, Sent(b)) /\ ToSet(s) = kept
  BY <1>1, EventsOfIs
<1>3. ASSUME NEW r \in kept, NEW q \in kept, <<r, q>> \in Sent(b) PROVE <<r, q>> \in ChainOrder
  <2> DEFINE m == r[2]
             n == q[2]
  <2>1. /\ r = <<b, m>> /\ q = <<b, n>> /\ r[1] = b /\ q[1] = b /\ m \in Nat \ {0} /\ n \in Nat \ {0}
        /\ Msg(r).tx = t /\ Msg(q).tx = t /\ Messages[b][m].tx = t /\ Messages[b][n].tx = t
    BY <1>1, BlockRowIs
  <2>2. m < n
    BY <1>3 DEF Sent
  <2> HIDE DEF m, n
  <2>3. EventIndex(r) < EventIndex(q)
    <3>1. EventIndex(<<b, m>>) < EventIndex(<<b, n>>)
      BY <2>1, <2>2, EventIndexGrows
    <3> QED
      BY <2>1, <3>1
  <2>4. r \in RowsOf(Messages) /\ q \in RowsOf(Messages)
    BY <1>1
  <2>5. EventIndex(r) \in Nat /\ EventIndex(q) \in Nat
    BY <2>4, ChainRowIs
  <2>6. After(EventKeys[q], EventKeys[r])
    BY <2>1, <2>3, <2>4, <2>5, EventsAreAfter
  <2> QED
    BY <2>4, <2>6 DEF ChainOrder, Rising
<1> HIDE DEF s, kept
<1>4. Ordered(s, ChainOrder)
  BY <1>2, <1>3, OrderedToo
<1>5. s \in Seq(RowsOf(Messages))
  BY <1>1, <1>2
<1> QED
  BY <1>2, <1>4, <1>5 DEF s, kept

(* A block has its events transaction by transaction, *)
LEMMA BlockEventsRise ==
  ASSUME IInv, NEW b \in db.canonical
  PROVE  /\ BlockEvents(b) \in Seq(RowsOf(Messages)) /\ Ordered(BlockEvents(b), ChainOrder)
         /\ ToSet(BlockEvents(b)) = BlockRows(b)
<1> DEFINE rows == RowsOf(Messages)
           n == Len(Order[b])
           ss == [i \in DOMAIN Order[b] |-> EventsOf(b, Order[b][i])]
<1>1. b \in Blocks /\ BlockRows(b) \subseteq rows
  BY OfBlock
<1>2. Order[b] \in Seq(Txs) /\ n \in Nat /\ DOMAIN Order[b] = 1..n
  BY <1>1, TxPlaces
<1>3. \A i \in 1..n : TxIndex(b, Order[b][i]) = i
  BY <1>1, <1>2, TxPlaces
<1>4. ASSUME NEW i \in 1..n
      PROVE  /\ ss[i] \in Seq(rows) /\ Ordered(ss[i], ChainOrder)
             /\ ToSet(ss[i]) = {r \in BlockRows(b) : Msg(r).tx = Order[b][i]}
  <2>1. ss[i] = EventsOf(b, Order[b][i])
    BY <1>2
  <2> HIDE DEF ss
  <2> QED
    BY <2>1, TxEventsRise
<1>5. ss \in Seq(Seq(rows)) /\ Len(ss) = n
  <2>1. ss \in [1..n -> Seq(rows)]
    BY <1>2, <1>4
  <2> QED
    BY <1>2, <2>1
<1>6. BlockEvents(b) = FlattenSeq(ss)
  BY DEF BlockEvents
<1> HIDE DEF ss, n, rows
<1>7. ASSUME NEW i \in 1..n, NEW k \in 1..Len(ss[i])
      PROVE  /\ ss[i][k] \in BlockRows(b) /\ ss[i][k] \in rows
             /\ Msg(ss[i][k]).tx = Order[b][i] /\ ss[i][k][1] = b
  <2> DEFINE s == ss[i]
             kept == {r \in BlockRows(b) : Msg(r).tx = Order[b][i]}
  <2>1. s \in Seq(rows) /\ ToSet(s) = kept
    BY <1>4
  <2> HIDE DEF s
  <2>2. Len(s) \in Nat /\ DOMAIN s = 1..Len(s)
    BY <2>1
  <2>3. k \in 1..Len(s)
    BY DEF s
  <2>4. s[k] \in kept
    BY <2>1, <2>2, <2>3 DEF ToSet
  <2>5. s[k][1] = b
    BY <1>1, <2>4, BlockRowIs
  <2> QED
    BY <1>1, <2>4, <2>5 DEF s
<1>8. ASSUME NEW i \in 1..n, NEW j \in 1..n, i < j, NEW k \in 1..Len(ss[i]), NEW l \in 1..Len(ss[j])
      PROVE  <<ss[i][k], ss[j][l]>> \in ChainOrder
  <2> DEFINE r == ss[i][k]
             q == ss[j][l]
  <2>1. /\ r \in rows /\ q \in rows /\ r[1] = b /\ q[1] = b
        /\ Msg(r).tx = Order[b][i] /\ Msg(q).tx = Order[b][j]
    BY <1>7
  <2> HIDE DEF r, q
  <2>2. TxIndex(r[1], Msg(r).tx) = i /\ TxIndex(q[1], Msg(q).tx) = j /\ Height[r[1]] = Height[q[1]]
    BY <1>3, <2>1
  <2>3. i \in Nat /\ j \in Nat
    BY <1>2
  <2>4. After(EventKeys[q], EventKeys[r])
    BY <1>8, <2>1, <2>2, <2>3, EventsAreAfter DEF rows
  <2> QED
    BY <2>1, <2>4 DEF ChainOrder, Rising, r, q, rows
<1>9. AllOrdered(ss, ChainOrder)
  <2>1. \A i \in 1..n : Ordered(ss[i], ChainOrder)
    BY <1>4
  <2>2. \A i, j \in 1..n : i < j =>
          \A k \in 1..Len(ss[i]) : \A l \in 1..Len(ss[j]) : <<ss[i][k], ss[j][l]>> \in ChainOrder
    BY <1>8
  <2> QED
    BY <1>5, <2>1, <2>2 DEF AllOrdered
<1>10. /\ FlattenSeq(ss) \in Seq(rows) /\ Ordered(FlattenSeq(ss), ChainOrder)
       /\ \A x : x \in ToSet(FlattenSeq(ss)) <=> \E i \in 1..n : \E k \in 1..Len(ss[i]) : x = ss[i][k]
  <2>1. /\ FlattenSeq(ss) \in Seq(rows) /\ Ordered(FlattenSeq(ss), ChainOrder)
        /\ \A x : x \in ToSet(FlattenSeq(ss)) <=> \E i \in 1..Len(ss) : \E k \in 1..Len(ss[i]) : x = ss[i][k]
    BY <1>5, <1>9, FlattenOrdered
  <2> QED
    BY <1>5, <2>1
<1>11. ASSUME NEW r \in BlockRows(b) PROVE r \in ToSet(FlattenSeq(ss))
  <2> DEFINE i == TxIndex(b, Msg(r).tx)
  <2>1. i \in 1..n /\ Order[b][i] = Msg(r).tx
    BY <1>1, <1>2, BlockRowIs, TxIndexIs
  <2> HIDE DEF i
  <2> DEFINE s == ss[i]
  <2>2. s \in Seq(rows) /\ r \in ToSet(s)
    BY <1>4, <2>1
  <2> HIDE DEF s
  <2>3. PICK k \in 1..Len(s) : r = s[k]
    BY <2>2 DEF ToSet
  <2> QED
    BY <1>10, <2>1, <2>3 DEF s
<1>12. ASSUME NEW r \in ToSet(FlattenSeq(ss)) PROVE r \in BlockRows(b)
  BY <1>7, <1>10
<1> QED
  BY <1>6, <1>10, <1>11, <1>12 DEF rows

(* the chain block by block. *)
LEMMA ChainEventsRise ==
  ASSUME IInv
  PROVE  /\ ChainEvents \in Seq(RowsOf(Messages)) /\ Ordered(ChainEvents, ChainOrder)
         /\ ToSet(ChainEvents) = RowsOf(Messages)
<1> DEFINE rows == RowsOf(Messages)
           n == GetChainTipHeight(db)
           ss == [h \in DOMAIN Chain |-> BlockEvents(Chain[h])]
<1>1. Chain = [h \in 1..n |-> At(h)] /\ n \in Nat
  BY ChainIs, TopIs
<1>2. \A h \in 1..n : At(h) \in db.canonical /\ Height[At(h)] = h
  BY AtIs
<1> HIDE DEF n
<1>3. DOMAIN Chain = 1..n /\ \A h \in 1..n : Chain[h] = At(h)
  BY <1>1
<1>4. ASSUME NEW h \in 1..n
      PROVE  ss[h] \in Seq(rows) /\ Ordered(ss[h], ChainOrder) /\ ToSet(ss[h]) = BlockRows(At(h))
  <2>1. ss[h] = BlockEvents(At(h))
    BY <1>3
  <2> HIDE DEF ss
  <2> QED
    BY <1>2, <2>1, BlockEventsRise
<1>5. ss \in Seq(Seq(rows)) /\ Len(ss) = n
  <2>1. ss \in [1..n -> Seq(rows)]
    BY <1>3, <1>4
  <2> QED
    BY <1>1, <2>1
<1>6. ChainEvents = FlattenSeq(ss)
  BY DEF ChainEvents
<1> HIDE DEF ss, rows
<1>7. ASSUME NEW h \in 1..n, NEW k \in 1..Len(ss[h])
      PROVE  ss[h][k] \in rows /\ Height[ss[h][k][1]] = h
  <2> DEFINE s == ss[h]
  <2>1. s \in Seq(rows) /\ ToSet(s) = BlockRows(At(h))
    BY <1>4
  <2>2. k \in 1..Len(s)
    OBVIOUS
  <2> HIDE DEF s
  <2>3. s[k] \in rows /\ s[k] \in BlockRows(At(h))
    <3>1. Len(s) \in Nat /\ DOMAIN s = 1..Len(s)
      BY <2>1
    <3>2. s[k] \in ToSet(s)
      BY <2>2, <3>1 DEF ToSet
    <3> QED
      BY <2>1, <2>2, <3>2, ElementOfSeq
  <2>4. s[k][1] = At(h)
    BY <1>2, <2>3, OfBlock, BlockRowIs
  <2> QED
    BY <1>2, <2>3, <2>4 DEF s
<1>8. ASSUME NEW i \in 1..n, NEW j \in 1..n, i < j, NEW k \in 1..Len(ss[i]), NEW l \in 1..Len(ss[j])
      PROVE  <<ss[i][k], ss[j][l]>> \in ChainOrder
  <2> DEFINE r == ss[i][k]
             q == ss[j][l]
  <2>1. r \in rows /\ q \in rows /\ Height[r[1]] = i /\ Height[q[1]] = j
    BY <1>7
  <2> HIDE DEF r, q
  <2>2. After(EventKeys[q], EventKeys[r])
    BY <1>1, <1>8, <2>1, EventsAreAfter DEF rows
  <2> QED
    BY <2>1, <2>2 DEF ChainOrder, Rising, r, q, rows
<1>9. AllOrdered(ss, ChainOrder)
  <2>1. \A i \in 1..n : Ordered(ss[i], ChainOrder)
    BY <1>4
  <2>2. \A i, j \in 1..n : i < j =>
          \A k \in 1..Len(ss[i]) : \A l \in 1..Len(ss[j]) : <<ss[i][k], ss[j][l]>> \in ChainOrder
    BY <1>8
  <2> QED
    BY <1>5, <2>1, <2>2 DEF AllOrdered
<1>10. /\ FlattenSeq(ss) \in Seq(rows) /\ Ordered(FlattenSeq(ss), ChainOrder)
       /\ \A x : x \in ToSet(FlattenSeq(ss)) <=> \E i \in 1..n : \E k \in 1..Len(ss[i]) : x = ss[i][k]
  <2>1. /\ FlattenSeq(ss) \in Seq(rows) /\ Ordered(FlattenSeq(ss), ChainOrder)
        /\ \A x : x \in ToSet(FlattenSeq(ss)) <=> \E i \in 1..Len(ss) : \E k \in 1..Len(ss[i]) : x = ss[i][k]
    BY <1>5, <1>9, FlattenOrdered
  <2> QED
    BY <1>5, <2>1
<1>11. ASSUME NEW r \in rows PROVE r \in ToSet(FlattenSeq(ss))
  <2> DEFINE h == Height[r[1]]
  <2>1. h \in 1..n /\ At(h) = r[1]
    <3>1. Messages \in [Blocks -> Seq(Message)]
      BY LedgerAssumption
    <3> QED
      BY <3>1, RowIs DEF rows, n
  <2>2. r \in BlockRows(At(h))
    BY <2>1, ChainRowIs DEF rows
  <2> HIDE DEF h
  <2> DEFINE s == ss[h]
  <2>3. s \in Seq(rows) /\ r \in ToSet(s)
    BY <1>4, <2>1, <2>2
  <2> HIDE DEF s
  <2>4. PICK k \in 1..Len(s) : r = s[k]
    BY <2>3 DEF ToSet
  <2> QED
    BY <1>10, <2>1, <2>4 DEF s
<1>12. ASSUME NEW r \in ToSet(FlattenSeq(ss)) PROVE r \in rows
  BY <1>7, <1>10
<1> QED
  BY <1>6, <1>10, <1>11, <1>12 DEF rows

(* From the newest down, and of the rows that are kept. *)
LEMMA EventsOfTheChain ==
  ASSUME IInv, NEW kept \in SUBSET RowsOf(Messages)
  PROVE  /\ Reverse(ChainEvents) \in Seq(RowsOf(Messages))
         /\ ToSet(Reverse(ChainEvents)) = RowsOf(Messages)
         /\ Those(Reverse(ChainEvents), kept) = EventsNewestFirst(kept)
         /\ EventsNewestFirst(kept) \in Seq(kept)
         /\ Len(EventsNewestFirst(kept)) <= Len(Reverse(ChainEvents))
<1> DEFINE rows == RowsOf(Messages)
           key == EventKeys
           keys == [r \in kept |-> EventKey(r)]
           c == ChainEvents
           s == Reverse(c)
<1>1. c \in Seq(rows) /\ Ordered(c, ChainOrder) /\ ToSet(c) = rows
  BY ChainEventsRise
<1>2. IsFiniteSet(rows) /\ Orders(rows, key)
  BY ChainEventsOrder
<1>3. \A r \in kept : keys[r] = key[r]
  BY DEF EventKeys
<1>4. EventsNewestFirst(kept) = Sorted(kept, keys)
  BY DEF EventsNewestFirst
<1>5. \A x, y \in rows : <<x, y>> \in ChainOrder => <<y, x>> \in Shown(rows, key)
  BY DEF ChainOrder, Rising, Shown
<1> HIDE DEF rows, key, keys, c
<1>6. s \in Seq(rows) /\ ToSet(s) = rows
  BY <1>1, ReverseIs
<1>7. Ordered(s, Shown(rows, key))
  <2> DEFINE Q == Shown(rows, key)
  <2>1. \A x, y \in rows : <<x, y>> \in ChainOrder => <<y, x>> \in Q
    BY <1>5
  <2> HIDE DEF Q
  <2>2. Ordered(Reverse(c), Q)
    BY <1>1, <2>1, ReverseOrdered
  <2> QED
    BY <2>2 DEF Q
<1> HIDE DEF s
<1>8. kept \in SUBSET rows
  BY DEF rows
<1>9. Those(s, kept) = Sorted(kept, keys)
  BY <1>2, <1>3, <1>6, <1>7, <1>8, ThoseSorted
<1>10. IsFiniteSet(kept) /\ Orders(kept, keys) /\ Cardinality(kept) <= Cardinality(rows)
  BY <1>2, <1>3, <1>8, FS_Subset DEF Orders
<1>11. Sorted(kept, keys) \in Seq(kept) /\ Len(Sorted(kept, keys)) = Cardinality(kept)
  BY <1>10, SortedIs
<1>12. Len(s) = Cardinality(rows)
  <2>1. s = Sorted(rows, key)
    BY <1>2, <1>6, <1>7, ShownIsSorted
  <2> QED
    BY <1>2, <2>1, SortedIs
<1> QED
  BY <1>4, <1>6, <1>9, <1>10, <1>11, <1>12 DEF s, c, rows

(* More pages than rows are enough, whatever the limit. *)
LEMMA EnoughPages ==
  ASSUME NEW limit \in Nat \ {0}, NEW m \in Nat, NEW n \in Nat, m <= n
  PROVE  n + 1 \in Nat /\ (n + 1) * limit >= m
<1>1. (n + 1) * 1 <= (n + 1) * limit
  BY Times
<1>2. (n + 1) * 1 = n + 1 /\ (n + 1) * limit \in Nat
  OBVIOUS
<1> DEFINE p == (n + 1) * limit
<1>3. n + 1 <= p /\ p \in Nat
  BY <1>1, <1>2
<1> HIDE DEF p
<1>4. p >= m
  BY <1>3
<1> QED
  BY <1>4 DEF p

(* The pages of a list of events, to a client that goes on long enough. *)
LEMMA EventPages ==
  ASSUME IInv, NEW limit \in Nat \ {0}, NEW kept \in SUBSET RowsOf(Messages)
  PROVE  FlattenSeq([k \in 1..(Len(Reverse(ChainEvents)) + 1) |->
                       Page(EventsNewestFirst(kept), limit, (k - 1) * limit)])
           = Those(Reverse(ChainEvents), kept)
<1> DEFINE newest == Reverse(ChainEvents)
           list == EventsNewestFirst(kept)
           n == Len(newest)
<1>1. newest \in Seq(RowsOf(Messages)) /\ Those(newest, kept) = list /\ list \in Seq(kept) /\ Len(list) <= n
  BY EventsOfTheChain
<1>2. n \in Nat /\ Len(list) \in Nat
  BY <1>1
<1> HIDE DEF newest, list, n
<1>3. n + 1 \in Nat /\ (n + 1) * limit >= Len(list)
  BY <1>1, <1>2, EnoughPages
<1>4. FlattenSeq([k \in 1..(n + 1) |-> Page(list, limit, (k - 1) * limit)]) = list
  BY <1>1, <1>3, PagesRead
<1> QED
  BY <1>1, <1>4 DEF newest, list, n

(* The rows of the three tables, or of the one, are those of the chain. *)
LEMMA EventPagesAreTheList ==
  ASSUME IInv, NEW limit \in Nat \ {0}
  PROVE  EventPagesMakeTheList(limit)
<1> DEFINE newest == Reverse(ChainEvents)
           rows == RowsOf(Messages)
           OfAddress(a) == {r \in rows : Msg(r).kind # "log" /\ (Msg(r).from = a \/ Msg(r).to = a)}
           OfContract(c) == {r \in rows : Msg(r).kind = "log" /\ Msg(r).asset = c}
<1>1. ToSet(newest) = rows
  BY EventsOfTheChain
<1>2. \A kind \in {"stx", "ft", "nft", "log"} : Happened(kind) = {r \in rows : Msg(r).kind = kind}
  BY EventRowsAre
<1>3. \A r \in rows : Msg(r).kind \in {"stx", "ft", "nft", "log"}
  BY EventRowsAre DEF Message
<1> HIDE DEF newest, rows
<1>4. ASSUME NEW a PROVE AddressEventRows(a) = OfAddress(a)
  <2>1. \A r : r \in UNION {Happened(kind) : kind \in {"stx", "ft", "nft"}} <=> r \in rows /\ Msg(r).kind # "log"
    BY <1>2, <1>3
  <2> QED
    BY <2>1 DEF AddressEventRows
<1>5. ASSUME NEW c PROVE LogRows(c) = OfContract(c)
  BY <1>2 DEF LogRows
<1>6. \A a, c : OfAddress(a) \in SUBSET rows /\ OfContract(c) \in SUBSET rows
  OBVIOUS
<1> HIDE DEF OfAddress, OfContract
<1>7. ASSUME NEW a
      PROVE  Pages(LAMBDA o : GetAddressAssetEvents(a, limit, o).results, limit, Len(newest) + 1)
               = Those(newest, OfAddress(a))
  <2>1. \A o : GetAddressAssetEvents(a, limit, o).results = Page(EventsNewestFirst(OfAddress(a)), limit, o)
    BY <1>4 DEF GetAddressAssetEvents
  <2>2. Pages(LAMBDA o : GetAddressAssetEvents(a, limit, o).results, limit, Len(newest) + 1)
          = FlattenSeq([k \in 1..(Len(newest) + 1) |->
                          Page(EventsNewestFirst(OfAddress(a)), limit, (k - 1) * limit)])
    BY <2>1 DEF Pages
  <2>3. OfAddress(a) \in SUBSET rows
    BY <1>6
  <2> QED
    BY <2>2, <2>3, EventPages DEF newest, rows
<1>8. ASSUME NEW c
      PROVE  Pages(LAMBDA o : GetSmartContractEvents(c, limit, o), limit, Len(newest) + 1)
               = Those(newest, OfContract(c))
  <2>1. \A o : GetSmartContractEvents(c, limit, o) = Page(EventsNewestFirst(OfContract(c)), limit, o)
    BY <1>5 DEF GetSmartContractEvents
  <2>2. Pages(LAMBDA o : GetSmartContractEvents(c, limit, o), limit, Len(newest) + 1)
          = FlattenSeq([k \in 1..(Len(newest) + 1) |->
                          Page(EventsNewestFirst(OfContract(c)), limit, (k - 1) * limit)])
    BY <2>1 DEF Pages
  <2>3. OfContract(c) \in SUBSET rows
    BY <1>6
  <2> QED
    BY <2>2, <2>3, EventPages DEF newest, rows
<1>9. ASSUME NEW a
      PROVE  Pages(LAMBDA o : GetAddressAssetEvents(a, limit, o).results, limit, Len(newest) + 1)
               = Those(newest, {r \in ToSet(newest) : Msg(r).kind # "log" /\ (Msg(r).from = a \/ Msg(r).to = a)})
  <2>1. OfAddress(a) = {r \in ToSet(newest) : Msg(r).kind # "log" /\ (Msg(r).from = a \/ Msg(r).to = a)}
    BY <1>1 DEF OfAddress
  <2> QED
    BY <1>7, <2>1, Zenon
<1>10. ASSUME NEW c
       PROVE  Pages(LAMBDA o : GetSmartContractEvents(c, limit, o), limit, Len(newest) + 1)
                = Those(newest, {r \in ToSet(newest) : Msg(r).kind = "log" /\ Msg(r).asset = c})
  <2>1. OfContract(c) = {r \in ToSet(newest) : Msg(r).kind = "log" /\ Msg(r).asset = c}
    BY <1>1 DEF OfContract
  <2> QED
    BY <1>8, <2>1, Zenon
<1> QED
  BY <1>9, <1>10, Zenon DEF EventPagesMakeTheList, newest

-----------------------------------------------------------------------------
(***************************************************************************)
(* What a client that walks, or looks up, or listens, can rely on.         *)
(***************************************************************************)

LEMMA WalkInvariance == WalkSpec => [](IInv /\ WalkInv)
<1>1. WalkInit => IInv /\ WalkInv
  BY InitIInv DEF WalkInit, NoWalk, WalkInv, WalkType, AddressWalk
<1> QED
  BY <1>1, WalkStep, IInvStep, WalkIsStoreStep, PTL DEF WalkSpec

(* A client that pages through the transactions of a principal until the total
   misses none that was there when it began and stayed, whatever is committed
   between its pages: new rows come in front and only push the others back. *)
THEOREM AddressPagesMissNothing == WalkSpec => []AddressWalkMissesNothing
<1>1. WalkInv => AddressWalkMissesNothing
  BY DEF WalkInv, AddressWalk, AddressWalkMissesNothing, MissesNothing
<1> QED
  BY <1>1, WalkInvariance, PTL

(* In every state of the store, with clients or none (BalancesHold is about none), after whatever reorganisations, the balances that
   the queries add up are those of a replay of the events along the chain of parent
   hashes, stx less the fees, and the count of tokens that of the tokens whose last
   owner it is. *)
THEOREM BalancesAreOfTheChain ==
  WalkSpec => [](BalancesAreReplayed /\ BalancesHold)
<1>1. IInv => BalancesAreReplayed /\ BalancesHold
  BY ReplayAgrees DEF BalancesHold
<1> QED
  BY <1>1, WalkInvariance, PTL

(* No two rows of a list have one key, though three tables are merged by event
   indexes; a mined call is shown with the contract of the chain of parent
   hashes; and search finds each standard address of a stored block. *)
THEOREM ListsAndLookups == WalkSpec => [](LookupsAgree /\ LookupsHold)
<1>1. IInv => LookupsAgree /\ LookupsHold
  BY OrderIsTotal, CallsFindTheContract, AddressesAreFound DEF LookupsAgree, LookupsHold
<1> QED
  BY <1>1, WalkInvariance, PTL

(* When the chain grows by a block, whatever the block is, an address that is
   not told of it reads the balances and the lists it read before. *)
THEOREM GrowthIsAnnounced ==
  WalkSpec => [][TellsWhoChanged]_vars /\ ChangesAreAnnounced
<1>1. IInv /\ IInv' => [TellsWhoChanged]_vars /\ [AtRest => TellsWhoChanged]_vars
  BY GrowthTells
<1> QED
  BY <1>1, WalkInvariance, PTL DEF ChangesAreAnnounced

(* The pages of the transactions, of the blocks, of an address and of a contract,
   put together, are the lists, newest first, and the events of a transaction come
   back as they were sent, in every state of the tables; *)
THEOREM PagesAreTheLists == WalkSpec => [](ListsAgree /\ ListsHold)
<1>1. ASSUME IInv PROVE ListsAgree /\ ListsHold
  <2>1. \A limit \in 1..2 : limit \in Nat \ {0}
    OBVIOUS
  <2> QED
    BY <1>1, <2>1, PagesAreTheList, EventPagesAreTheList, TxEventsAreInOrder DEF ListsAgree, ListsHold
<1> QED
  BY <1>1, WalkInvariance, PTL

(* and so are they whatever limit the client asks with. *)
THEOREM AnyLimitMakesTheLists ==
  WalkSpec => [](\A limit \in Nat \ {0} : PagesMakeTheList(limit) /\ EventPagesMakeTheList(limit))
<1>1. IInv => \A limit \in Nat \ {0} : PagesMakeTheList(limit) /\ EventPagesMakeTheList(limit)
  BY PagesAreTheList, EventPagesAreTheList
<1> QED
  BY <1>1, WalkInvariance, PTL

=============================================================================
