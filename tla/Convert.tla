------------------------------ MODULE Convert ------------------------------
(***************************************************************************)
(* The forms a transaction takes between its announcement and an answer:   *)
(* what is decoded (Wire) becomes a row of mempool_txs, and a row of txs   *)
(* with event rows once it is mined (event-server.ts, reader.ts,           *)
(* datastore/common.ts, postgres-store.ts), and each row is read and       *)
(* answered by code of its own (controllers/db-controller.ts).             *)
(*                                                                         *)
(* One transaction at a time, in one block: what several blocks do to it   *)
(* is ChainStore's and ReadApi's.  A value is a sequence of numbers, as in *)
(* Wire; the empty one stands for the empty string.  The arguments of a    *)
(* call are what is stored of them: their count, and what follows it.      *)
(*                                                                         *)
(* The lookup of a call needs the interface of the contract that it calls, *)
(* which other transactions deploy: `contract` is what the store finds.    *)
(***************************************************************************)
EXTENDS Integers, Sequences

CONSTANTS
  Txs,       \* transactions: typeId, auth (address and fee of each signer), mode, payload
  Results,   \* what the node says of a mined one: status and raw_result
  EventLists, \* the events that a block may hold for it
  Contracts  \* what may be found of the contract it calls: functions, the count of arguments of each

VARIABLES
  tx,        \* the transaction announced
  said,      \* what the node said of it and its events, if it was mined
  pool,      \* its row in mempool_txs
  mined,     \* its row in txs
  events,    \* its event rows
  refused,   \* its block was answered 500
  contract,  \* what getSmartContract finds of the contract it calls
  answer     \* the last answer, of these rows

vars == <<tx, said, pool, mined, events, refused, contract, answer>>

(* No value has two numbers below zero. *)
Null == <<-1, -1>>
NoRow == [type_id |-> -1]
NoAnswer == [path |-> "none"]
Failed(asked) == [path |-> "failed", asked |-> asked]
NoContract == [found |-> FALSE]
NotSaid == [result |-> [status |-> "none", raw_result |-> Null], events |-> <<>>]

Types == <<"token_transfer", "smart_contract", "contract_call", "poison_microblock", "coinbase">>

TypeString(id) == Types[id + 1]

ColumnsOf(id) ==
  CASE id = 0 -> {"recipient", "amount", "memo"}
    [] id = 1 -> {"contract_id", "source_code"}
    [] id = 2 -> {"call_contract_id", "function_name", "function_args"}
    [] id = 3 -> {"header_1", "header_2"}
    [] id = 4 -> {"coinbase_payload"}

Columns == UNION {ColumnsOf(id) : id \in 0 .. 4}

-----------------------------------------------------------------------------
(* What is announced becomes rows. *)
Sender(t) == t.auth[1].address

Sponsor(t) == IF Len(t.auth) = 2 THEN t.auth[2].address ELSE Null

Principal(r) == IF "contractName" \in DOMAIN r THEN r.address \o r.contractName ELSE r.address

(* extractTransactionPayload. *)
Extract(t) ==
  LET p == t.payload IN
  CASE t.typeId = 0 -> [recipient |-> Principal(p.recipient), amount |-> p.amount, memo |-> p.memo]
    [] t.typeId = 1 -> [contract_id |-> Sender(t) \o p.name, source_code |-> p.codeBody]
    [] t.typeId = 2 -> [call_contract_id |-> p.address \o p.contractName,
                        function_name |-> p.functionName,
                        function_args |-> IF p.args = <<>> THEN Null ELSE p.args]
    [] t.typeId = 3 -> [header_1 |-> p.header1, header_2 |-> p.header2]
    [] t.typeId = 4 -> [coinbase_payload |-> p.payload]

(* A column that is undefined is NULL. *)
Inserted(data) == [c \in Columns |-> IF c \in DOMAIN data THEN data[c] ELSE Null]

(* The CHECK constraints: not all the columns of the type are NULL. *)
Valid(row) == \E c \in ColumnsOf(row.type_id) : row.data[c] # Null

StatusCode(status) ==
  CASE status = "success" -> 1
    [] status = "abort_by_response" -> -1
    [] status = "abort_by_post_condition" -> -2

(* createDbMempoolTxFromCoreMsg and the INSERT of updateMempoolTx. *)
MempoolRow(t) ==
  [type_id |-> t.typeId, status |-> 0, fee_rate |-> t.auth[1].fee, sender |-> Sender(t),
   sponsored |-> Len(t.auth) = 2, sponsor |-> Sponsor(t), mode |-> t.mode,
   data |-> Inserted(Extract(t))]

TxFee_Last(t) == t.auth[Len(t.auth)].fee

TxFee(t) == t.auth[1].fee

(* createDbTxFromCoreMsg and the INSERT of updateTx. *)
TxRow(t, result) ==
  [type_id |-> t.typeId, status |-> StatusCode(result.status), fee_rate |-> TxFee(t), sender |-> Sender(t),
   sponsored |-> Len(t.auth) = 2, sponsor |-> Sponsor(t), mode |-> t.mode,
   data |-> Inserted(Extract(t)), canonical |-> TRUE, raw_result |-> result.raw_result]

Ends(e) ==
  CASE e.type \in {"stx_transfer", "ft_transfer", "nft_transfer"} -> {"sender", "recipient"}
    [] e.type \in {"stx_mint", "ft_mint", "nft_mint"} -> {"recipient"}
    [] e.type = "stx_burn" -> {"sender"}
    [] e.type = "contract_event" -> {}

(* What the interfaces of an event and of a mined transaction have room for. *)
EventTypes ==
  {"stx_transfer", "ft_transfer", "nft_transfer", "stx_mint", "ft_mint", "nft_mint", "stx_burn", "contract_event"}

IsEvent(e) ==
  /\ e.type \in EventTypes
  /\ \A end \in {"sender", "recipient"} : end \in DOMAIN e <=> end \in Ends(e)
  /\ "sender" \in Ends(e) => e.sender \in Seq(Nat)
  /\ "recipient" \in Ends(e) => e.recipient \in Seq(Nat)

IsResult(r) == r.status \in {"success", "abort_by_response", "abort_by_post_condition"}

AssetEvent(e) ==
  CASE Ends(e) = {"sender", "recipient"} -> 1
    [] Ends(e) = {"recipient"} -> 2
    [] Ends(e) = {"sender"} -> 3
    [] OTHER -> 0

EventType(e) ==
  CASE e.type = "contract_event" -> 1
    [] e.type \in {"stx_transfer", "stx_mint", "stx_burn"} -> 2
    [] e.type \in {"ft_transfer", "ft_mint"} -> 3
    [] e.type \in {"nft_transfer", "nft_mint"} -> 4

EventRow(e) ==
  [event_type |-> EventType(e), asset_event_type |-> AssetEvent(e),
   sender |-> IF "sender" \in Ends(e) THEN e.sender ELSE Null,
   recipient |-> IF "recipient" \in Ends(e) THEN e.recipient ELSE Null,
   value |-> e.value]

-----------------------------------------------------------------------------
(* Rows become answers. *)
Nullish_Falsy(v) == v \in {Null, <<>>, <<0>>}

Nullish(v) == v = Null

(* parseTxQueryResult and parseMempoolTxQueryResult: the columns of the type. *)
Parsed(row) == [c \in ColumnsOf(row.type_id) |-> row.data[c]]

StatusString(code) ==
  CASE code = 0 -> "pending" [] code = 1 -> "success"
    [] code = -1 -> "abort_by_response" [] code = -2 -> "abort_by_post_condition"

Unwrapped(id) == ColumnsOf(id) \ {"function_args"}

Present(data, fields) == [c \in {f \in fields : data[f] # Null} |-> data[c]]

(* What parseDbMempoolTx and getTxFromDataStore answer alike. *)
Common(row) ==
  [tx_type |-> TypeString(row.type_id), tx_status |-> StatusString(row.status),
   fee_rate |-> row.fee_rate, sender_address |-> row.sender, sponsored |-> row.sponsored,
   sponsor_address |-> row.sponsor, post_condition_mode |-> row.mode]

ListUnwrapped(id) == Unwrapped(id)

(* parseDbMempoolTx: a call is listed without its arguments. *)
Listed(row) ==
  LET data == Parsed(row) IN
  IF \E c \in ListUnwrapped(row.type_id) : Nullish(data[c]) THEN Failed("list")
  ELSE [path |-> "list", common |-> Common(row), data |-> Present(data, Unwrapped(row.type_id))]

OrEmpty(v) == IF v = Null THEN <<>> ELSE v

(* parseDbEvent. *)
ServedEvent(row) ==
  LET names == <<"smart_contract_log", "stx_asset", "fungible_token_asset", "non_fungible_token_asset">>
      event == [event_type |-> names[row.event_type], value |-> row.value]
  IN  IF row.event_type = 1 THEN event
      ELSE [event_type |-> event.event_type, value |-> event.value,
            asset_event_type |-> <<"transfer", "mint", "burn">>[row.asset_event_type],
            sender |-> OrEmpty(row.sender), recipient |-> OrEmpty(row.recipient)]

CanHaveEvents(id) == id \in {0, 1, 2}

NotMined == [canonical |-> FALSE, tx_result |-> Null]

(* A call names a function of the contract that is found, with at most the
   arguments that it has.  An abi that is null, of a deploy that was aborted, has
   no function. *)
Answerable(name, args) ==
  /\ contract.found
  /\ name \in DOMAIN contract.functions
  /\ args # Null => Head(args) <= contract.functions[name]

(* getTxFromDataStore. *)
Served(row, rows) ==
  LET data == Parsed(row) IN
  IF \/ \E c \in Unwrapped(row.type_id) : Nullish(data[c])
     \/ row.type_id = 2 /\ ~Answerable(data.function_name, data.function_args)
     \/ ~CanHaveEvents(row.type_id) /\ rows # <<>>
  THEN Failed("tx")
  ELSE [path |-> "tx", common |-> Common(row), data |-> Present(data, ColumnsOf(row.type_id)),
        block |-> IF row.status = 0 THEN NotMined
                  ELSE [canonical |-> row.canonical, tx_result |-> row.raw_result],
        events |-> IF CanHaveEvents(row.type_id) THEN [k \in DOMAIN rows |-> ServedEvent(rows[k])] ELSE <<>>]

Answer == IF pool # NoRow THEN Served(pool, <<>>) ELSE Served(mined, events)

-----------------------------------------------------------------------------
NoRows ==
  /\ said = NotSaid /\ pool = NoRow /\ mined = NoRow
  /\ events = <<>> /\ refused = FALSE /\ contract = NoContract /\ answer = NoAnswer

Init == tx \in Txs /\ NoRows

(* POST /new_mempool_tx: also of a transaction that a reorganisation gave back. *)
AnnounceTx ==
  /\ mined # NoRow => ~mined.canonical
  /\ pool' = IF pool = NoRow /\ Valid(MempoolRow(tx)) THEN MempoolRow(tx) ELSE pool
  /\ answer' = NoAnswer
  /\ UNCHANGED <<tx, said, mined, events, refused, contract>>

(* parseMessageTransactions knows four of the five types. *)
Understood(t) == t.typeId \in {0, 1, 2, 4}

(* POST /new_block with the transaction in it. *)
AnnounceBlock ==
  /\ mined = NoRow
  /\ IF ~Understood(tx) THEN refused' = TRUE /\ UNCHANGED <<said, pool, mined, events>>
     ELSE \E result \in Results, list \in EventLists :
            /\ CanHaveEvents(tx.typeId) \/ list = <<>>
            /\ said' = [result |-> result, events |-> list]
            /\ mined' = TxRow(tx, result)
            /\ events' = [k \in DOMAIN list |-> EventRow(list[k])]
            /\ pool' = NoRow
            /\ UNCHANGED refused
  /\ answer' = NoAnswer
  /\ UNCHANGED <<tx, contract>>

(* A reorganisation orphans or restores the block. *)
Reorganise ==
  /\ mined # NoRow
  /\ mined' = [mined EXCEPT !.canonical = ~@]
  /\ pool' = IF mined'.canonical THEN NoRow ELSE pool
  /\ answer' = NoAnswer
  /\ UNCHANGED <<tx, said, events, refused, contract>>

(* A block, or a reorganisation, changes which deploy of the contract is found.
   The row of a deploy is never deleted: one is found from the first on. *)
StoreContract ==
  /\ tx.typeId = 2
  /\ \E functions \in Contracts : contract' = [found |-> TRUE, functions |-> functions]
  /\ answer' = NoAnswer
  /\ UNCHANGED <<tx, said, pool, mined, events, refused>>

(* GET /tx/:tx_id. *)
GetTx ==
  /\ pool # NoRow \/ mined # NoRow
  /\ answer' = Answer
  /\ UNCHANGED <<tx, said, pool, mined, events, refused, contract>>

(* GET /tx/mempool. *)
GetMempool ==
  /\ pool # NoRow
  /\ answer' = Listed(pool)
  /\ UNCHANGED <<tx, said, pool, mined, events, refused, contract>>

Next == AnnounceTx \/ AnnounceBlock \/ Reorganise \/ StoreContract \/ GetTx \/ GetMempool

Spec == Init /\ [][Next]_vars

-----------------------------------------------------------------------------
(* What the transaction and its events say, as they are documented. *)
SaidOfPayload(t, d) ==
  LET p == t.payload IN
  CASE t.typeId = 0 -> d.recipient = Principal(p.recipient) /\ d.amount = p.amount /\ d.memo = p.memo
    [] t.typeId = 1 -> d.contract_id = Sender(t) \o p.name /\ d.source_code = p.codeBody
    [] t.typeId = 2 -> /\ d.call_contract_id = p.address \o p.contractName
                       /\ d.function_name = p.functionName
                       /\ ("function_args" \in DOMAIN d) => d.function_args = p.args
    [] t.typeId = 3 -> d.header_1 = p.header1 /\ d.header_2 = p.header2
    [] t.typeId = 4 -> d.coinbase_payload = p.payload

SaidOfEvent(e, a) ==
  /\ a.value = e.value
  /\ e.type # "contract_event" =>
       /\ a.sender = IF "sender" \in DOMAIN e THEN e.sender ELSE <<>>
       /\ a.recipient = IF "recipient" \in DOMAIN e THEN e.recipient ELSE <<>>

(* The one call that the lookup cannot answer: the contract was not found, or
   not with this function, or not with so many arguments. *)
Unanswerable(t) ==
  t.typeId = 2 /\ ~Answerable(t.payload.functionName, IF t.payload.args = <<>> THEN Null ELSE t.payload.args)

(* No row that was stored, empty and zero values included, makes an answer throw
   but a call whose contract cannot be matched with it, and that only when it is
   looked up, not in the list.  What is answered is what the node said: the
   status, the fee and the addresses, the values of its type, the result, and the
   two ends of every event.  db-controller.ts:237-506, common.ts:324-436. *)
AnsweredAsAnnounced ==
  answer # NoAnswer =>
    \/ answer = Failed("tx") /\ Unanswerable(tx)
    \/ /\ answer.path \in {"list", "tx"}
       /\ answer.common.tx_type = TypeString(tx.typeId)
       /\ answer.common.tx_status = IF pool # NoRow THEN "pending" ELSE said.result.status
       /\ answer.common.sender_address = Sender(tx)
       /\ answer.common.sponsor_address = Sponsor(tx)
       /\ SaidOfPayload(tx, answer.data)
       /\ answer.path = "tx" =>
            /\ tx.typeId = 2 /\ tx.payload.args # <<>> => "function_args" \in DOMAIN answer.data
            /\ pool = NoRow => /\ answer.block.tx_result = said.result.raw_result
                               /\ Len(answer.events) = Len(said.events)
            /\ \A k \in DOMAIN answer.events : SaidOfEvent(said.events[k], answer.events[k])

(* Being mined changes nothing that was answered of a pending transaction but
   its status, nor whether it is answered: the row of txs, made from the block by
   code of its own, takes over from the row of the mempool.  common.ts:387-436,
   postgres-store.ts:865-1031. *)
MiningOnlyAdds ==
  [][pool # NoRow /\ pool' = NoRow =>
       LET before == Served(pool, <<>>)  after == Served(mined', events') IN
       \/ before = Failed("tx") /\ after = Failed("tx")
       \/ /\ before.path = "tx" /\ after.path = "tx"
          /\ before.data = after.data
          /\ [before.common EXCEPT !.tx_status = after.common.tx_status] = after.common]_vars

=============================================================================
