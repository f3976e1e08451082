------------------------------ MODULE Pipeline ------------------------------
(***************************************************************************)
(* A transaction from the bytes that the node announces to what the API    *)
(* answers of it: Wire reads the bytes, Convert makes rows of what is read *)
(* and answers of the rows, and Wire reads the slices that a row keeps as  *)
(* bytes once more for the answer.                                         *)
(*                                                                         *)
(* A behaviour is that of one transaction, as a reader is made for each.   *)
(* The bytes of a block are the bytes of the mempool message and are read  *)
(* by the same code, so they are not read a second time here.              *)
(***************************************************************************)
EXTENDS Wire

CONSTANTS
  Results,    \* what the node says of a mined transaction
  EventLists, \* the events that a block may hold for it
  Contracts   \* the functions that may be found of the contract that is called

VARIABLES
  said,     \* what the node said of tx and its events, if it was mined
  pool,     \* its row in mempool_txs
  mined,    \* its row in txs
  events,   \* its event rows
  refused,  \* its block was answered 500
  contract, \* what is found of the contract it calls
  reply     \* the last answer made from these rows

rows == <<said, pool, mined, events, refused, contract, reply>>

(* What has been decoded of the transaction t, as Convert takes it: a number is a
   sequence of one, the amount as it was read, and the arguments are what is stored
   of them, their count in front. *)
DecodedPayload(p) ==
  CASE p.typeId = 0 -> [recipient |-> p.recipient, amount |-> <<Signed(p.amount)>>, memo |-> p.memo]
    [] p.typeId = 2 -> [address |-> p.address, contractName |-> p.contractName,
                        functionName |-> p.functionName,
                        args |-> IF p.args = <<>> THEN <<>> ELSE <<Len(p.args)>> \o FlattenSeq(p.args)]
    [] OTHER -> p

Decoded(t) ==
  [typeId  |-> t.payload.typeId,
   auth    |-> [k \in DOMAIN t.auth |-> [address |-> <<t.auth[k].signer>>, fee |-> <<t.auth[k].fee>>]],
   mode    |-> <<t.mode>>,
   payload |-> DecodedPayload(t.payload)]

Rows == INSTANCE Convert WITH Txs <- {Decoded(t) : t \in Txs}, tx <- Decoded(tx), answer <- reply

ASSUME ResultsAssumption == \A r \in Results : Rows!IsResult(r)

ASSUME ContractsAssumption == \A functions \in Contracts : \A name \in DOMAIN functions : functions[name] \in Nat

ASSUME EventsAssumption ==
  \A list \in EventLists :
    /\ Len(list) \in Nat /\ DOMAIN list = 1 .. Len(list)
    /\ \A k \in DOMAIN list : Rows!IsEvent(list[k])

PipeInit == WireInit /\ Rows!NoRows

(* The reader changes no row. *)
ReadOn ==
  /\ \/ ReadUInt8Enum \/ ReadNumber \/ ReadBuffer \/ ReadString \/ ReadCount
     \/ ReadClarityValue \/ ReadClarityValueArray
     \/ GetTx \/ SerializePostConditions \/ SerializeArgs
  /\ UNCHANGED rows

(* What is read is stored: a transaction of the mempool, or, as it is never in
   the mempool, the coinbase of a block. *)
StoreRows ==
  /\ Store
  /\ IF tx.payload.typeId = 4 THEN Rows!AnnounceBlock ELSE Rows!AnnounceTx

(* What happens to the rows once the transaction has been asked for. *)
UseRows ==
  /\ stage = "answered"
  /\ UNCHANGED wireVars
  /\ \/ tx.payload.typeId # 4 /\ Rows!AnnounceTx
     \/ Rows!AnnounceBlock
     \/ Rows!Reorganise
     \/ Rows!StoreContract
     \/ Rows!GetTx
     \/ Rows!GetMempool

PipeNext == ReadOn \/ StoreRows \/ UseRows

PipeSpec == PipeInit /\ [][PipeNext]_<<wireVars, rows>>

-----------------------------------------------------------------------------
(* Whatever was announced, and whatever blocks and reorganisations made of its
   rows and of the contract it calls since, the answers say what the node said, and
   only the lookup of a call whose contract has not its function fails.  See
   Convert. *)
AnsweredAsAnnounced == Rows!AnsweredAsAnnounced

(* Being mined takes nothing from what was answered of it.  See Convert. *)
MiningOnlyAdds == Rows!MiningOnlyAdds

=============================================================================
