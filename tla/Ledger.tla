------------------------------- MODULE Ledger -------------------------------
(***************************************************************************)
(* What the read side of PgDataStore computes from the tables: events of a *)
(* transaction, balances, the lists and their pages, contracts, principal  *)
(* search, and the addresses an update is announced to.  Each is an        *)
(* operator on the committed image of ChainStore, one query's view of it   *)
(* (ReadApi has the requests of several queries).  The contents of the     *)
(* blocks are constants: the event messages as the node sends them, from   *)
(* which handleClientMessage (event-server.ts) makes rows.                 *)
(***************************************************************************)
EXTENDS ChainStore, SequencesExt

CONSTANTS
  Standard,     \* the standard addresses
  Contracts,    \* the contract principals
  Nobody,       \* the sender of a mint, the recipient of a burn
  Order,        \* Order[b]: the transactions of b in the order of tx_index
  TxData,       \* TxData[t]: sender and fee, type and target of t
  Messages,     \* Messages[b]: the event messages of b
  Announced     \* bound: the transactions announced to the mempool

Addresses == Standard \cup Contracts

(* The asset of a contract event is the contract. *)
Message ==
  [tx : Txs, kind : {"stx", "ft", "nft", "log"}, from : Addresses \cup {Nobody},
   to : Addresses \cup {Nobody}, asset : STRING, amount : Nat, token : STRING]

ASSUME LedgerAssumption ==
  /\ Standard \cap Contracts = {} /\ Nobody \notin Addresses
  /\ Order \in [Blocks -> Seq(Txs)]
  /\ Messages \in [Blocks -> Seq(Message)]
  /\ \A b \in Blocks : ToSet(Order[b]) = TxsOf[b] /\ Len(Order[b]) = Cardinality(TxsOf[b])
  /\ \A b \in Blocks : \A n \in DOMAIN Messages[b] :
       /\ Messages[b][n].tx \in TxsOf[b]
       /\ Messages[b][n].kind = "stx" => Messages[b][n].asset = "stx"
  /\ \A t \in Txs : TxData[t].type \in {"transfer", "call", "deploy"} /\ TxData[t].fee \in Nat

-----------------------------------------------------------------------------
(***************************************************************************)
(* Rows.  An event row is <<b, n>>, message n of block b, and a transaction *)
(* row <<b, i>>, transaction i of b.                                       *)
(***************************************************************************)

TableOf(kind) ==
  CASE kind = "stx" -> "stx_events" [] kind = "ft"  -> "ft_events"
    [] kind = "nft" -> "nft_events" [] kind = "log" -> "contract_logs"

Msg(r) == Messages[r[1]][r[2]]

TxAt(r) == Order[r[1]][r[2]]

TxRows(blocks) == UNION {{<<b, i>> : i \in DOMAIN Order[b]} : b \in blocks}

EventRows(kind, blocks) ==
  UNION {{<<b, n>> : n \in {m \in DOMAIN Messages[b] : Messages[b][m].kind = kind}} : b \in blocks}

(* The rows with canonical = true. *)
Mined == TxRows(db.live["txs"])

Happened(kind) == EventRows(kind, db.live[TableOf(kind)])

TxIndex(b, t) == CHOOSE i \in DOMAIN Order[b] : Order[b][i] = t

EventIndex_PerKind(r) ==
  Cardinality({m \in 1..(r[2] - 1) : /\ Messages[r[1]][m].tx = Msg(r).tx
                                     /\ Messages[r[1]][m].kind = Msg(r).kind})

(* The events of the transaction, of all four kinds, that came before. *)
EventIndex(r) ==
  Cardinality({m \in 1..(r[2] - 1) : Messages[r[1]][m].tx = Msg(r).tx})

-----------------------------------------------------------------------------
(***************************************************************************)
(* Balances.                                                               *)
(***************************************************************************)

(* sum(amount); an INSERT repeated would count twice. *)
SumAmount(rows) == MapThenSumSet(LAMBDA r : db.copies[r[1]] * Msg(r).amount, rows)

SumFees_OfStored(a) ==
  MapThenSumSet(LAMBDA r : db.copies[r[1]] * TxData[TxAt(r)].fee,
                {r \in TxRows(db.known) : TxData[TxAt(r)].sender = a})

(* sum(fee_rate) of the transactions sent by a, sponsored or not. *)
SumFees(a) ==
  MapThenSumSet(LAMBDA r : db.copies[r[1]] * TxData[TxAt(r)].fee,
                {r \in Mined : TxData[TxAt(r)].sender = a})

GetStxBalance(a) ==
  LET rows     == Happened("stx")
      sent     == SumAmount({r \in rows : Msg(r).from = a})
      received == SumAmount({r \in rows : Msg(r).to = a})
  IN  [balance |-> received - sent - SumFees(a), totalSent |-> sent, totalReceived |-> received]

AssetsOf(kind, a) ==
  {Msg(r).asset : r \in {x \in Happened(kind) : Msg(x).from = a \/ Msg(x).to = a}}

GetFungibleTokenBalances(a) ==
  [g \in AssetsOf("ft", a) |->
     LET rows == {r \in Happened("ft") : Msg(r).asset = g}
     IN  SumAmount({r \in rows : Msg(r).to = a}) - SumAmount({r \in rows : Msg(r).from = a})]

GetNonFungibleTokenCounts(a) ==
  [g \in AssetsOf("nft", a) |->
     LET rows == {r \in Happened("nft") : Msg(r).asset = g}
     IN  Cardinality({r \in rows : Msg(r).to = a}) - Cardinality({r \in rows : Msg(r).from = a})]

-----------------------------------------------------------------------------
(***************************************************************************)
(* Lists.  ORDER BY ... DESC.                                              *)
(***************************************************************************)

TxKey(r) == <<Height[r[1]], r[2]>>

EventKey_IndexFirst(r) == <<Height[r[1]], EventIndex(r), TxIndex(r[1], Msg(r).tx)>>

EventKey(r) == <<Height[r[1]], TxIndex(r[1], Msg(r).tx), EventIndex(r)>>

(* The sequences of numbers k, l of one length, k after l. *)
After(k, l) == \E i \in DOMAIN k : k[i] > l[i] /\ \A j \in 1..(i - 1) : k[j] = l[j]

(* The rows that a list with these keys shows before r. *)
Before(rows, key, r) == {s \in rows : After(key[s], key[r])}

(* The keys of two rows differ in every list (ListsHaveOneOrder). *)
Sorted(rows, key) ==
  LET placed == {<<Cardinality(Before(rows, key, r)), r>> : r \in rows}
  IN  [k \in 1..Cardinality(rows) |-> (CHOOSE p \in placed : p[1] = k - 1)[2]]

TxsNewestFirst(rows) == Sorted(rows, [r \in rows |-> TxKey(r)])

EventsNewestFirst(rows) == Sorted(rows, [r \in rows |-> EventKey(r)])

Least(m, n) == IF m < n THEN m ELSE n

(* LIMIT limit OFFSET offset. *)
Page(list, limit, offset) == SubSeq(list, offset + 1, Least(Len(list), offset + limit))

(* types: the filter of the query string, none when it is empty. *)
GetTxList(types, limit, offset) ==
  LET rows == {r \in Mined : types = {} \/ TxData[TxAt(r)].type \in types}
  IN  [results |-> Page(TxsNewestFirst(rows), limit, offset), total |-> Cardinality(rows)]

GetBlocks(limit, offset) ==
  [results |-> Page(Sorted(db.canonical, [b \in db.canonical |-> <<Height[b]>>]), limit, offset),
   total   |-> Cardinality(db.canonical)]

(* sender, recipient of the transfer, contract called or deployed. *)
TxConcerns(t, a) == a \in {TxData[t].sender, TxData[t].target}

AddressTxRows(a) == {r \in Mined : TxConcerns(TxAt(r), a)}

(* The total comes with the rows: a page without rows answers 0. *)
GetAddressTxs(a, limit, offset) ==
  LET results == Page(TxsNewestFirst(AddressTxRows(a)), limit, offset)
  IN  [results |-> results,
       total   |-> IF results = <<>> THEN 0 ELSE Cardinality(AddressTxRows(a))]

AddressEventRows(a) ==
  {r \in UNION {Happened(kind) : kind \in {"stx", "ft", "nft"}} : Msg(r).from = a \/ Msg(r).to = a}

GetAddressAssetEvents(a, limit, offset) ==
  [results |-> Page(EventsNewestFirst(AddressEventRows(a)), limit, offset), total |-> 0]

LogRows(c) == {r \in Happened("log") : Msg(r).asset = c}

GetSmartContractEvents(c, limit, offset) ==
  Page(EventsNewestFirst(LogRows(c)), limit, offset)

(* The four tables, then a sort by event_index. *)
GetTxEvents(t, b) ==
  LET rows == {r \in UNION {EventRows(kind, {b} \cap db.known) : kind \in {"stx", "ft", "nft", "log"}} :
                 Msg(r).tx = t}
  IN  Reverse(Sorted(rows, [r \in rows |-> <<EventIndex(r)>>]))

-----------------------------------------------------------------------------
(***************************************************************************)
(* Contracts, search and announcements.                                    *)
(***************************************************************************)

Deploys(t, c) == TxData[t].type = "deploy" /\ TxData[t].target = c

ContractRows(c) == {r \in TxRows(db.known) : Deploys(TxAt(r), c)}

Highest(rows) == {r \in rows : \A s \in rows : Height[s[1]] <= Height[r[1]]}

GetSmartContract_Highest(c) == Highest(ContractRows(c))

(* The rows that ORDER BY canonical DESC, block_height DESC LIMIT 1 may pick. *)
GetSmartContract(c) ==
  LET canonical == {r \in ContractRows(c) : r[1] \in db.live["smart_contracts"]}
  IN  Highest(IF canonical # {} THEN canonical ELSE ContractRows(c))

(* getTxFromDataStore finds the contract of a call, or throws. *)
IsServed(t) == TxData[t].type = "call" => GetSmartContract(TxData[t].target) # {}

(* searchPrincipal finds p: no query asks for the canonical flag. *)
SearchPrincipal(p) ==
  IF p \in Contracts
  THEN \E t \in db.mempool \cup {TxAt(r) : r \in TxRows(db.known)} : Deploys(t, p)
  ELSE \/ \E r \in TxRows(db.known) : TxData[TxAt(r)].sender = p \/ TxData[TxAt(r)].target = p
       \/ \E kind \in {"stx", "ft", "nft"} : \E r \in EventRows(kind, db.known) :
            Msg(r).from = p \/ Msg(r).to = p

Transfers(b) == {m \in ToSet(Messages[b]) : m.kind # "log"}

AddressUpdates_NoTargets(b) ==
  {TxData[t].sender : t \in TxsOf[b]}
    \cup {m.from : m \in Transfers(b)} \cup {m.to : m \in Transfers(b)}

(* The addresses that emitAddressTxUpdates announces an update of b to (Nobody
   is not one). *)
AddressUpdates(b) ==
  {TxData[t].sender : t \in TxsOf[b]} \cup {TxData[t].target : t \in TxsOf[b]}
    \cup {m.from : m \in Transfers(b)} \cup {m.to : m \in Transfers(b)}

-----------------------------------------------------------------------------
(***************************************************************************)
(* The reference: the chain from its tip down, by parent hash alone, and   *)
(* what happens along it.                                                  *)
(***************************************************************************)

LineTo(b) ==
  LET down[i \in 0..Height[b]] == IF i = 0 THEN b ELSE Parent[down[i - 1]]
  IN  [h \in 1..Height[b] |-> down[Height[b] - h]]

Chain == IF TipRows(db) = {} THEN <<>> ELSE LineTo(CHOOSE b \in TipRows(db) : TRUE)

MovesOf(line) == FlattenSeq([h \in DOMAIN line |-> Messages[line[h]]])

Moves == MovesOf(Chain)

ChainTxs == FlattenSeq([h \in DOMAIN Chain |-> Order[Chain[h]]])

(* The items of s that are kept, in the order of s. *)
Those(s, kept) == FlattenSeq([i \in DOMAIN s |-> IF s[i] \in kept THEN <<s[i]>> ELSE <<>>])

(* The event rows of transaction t in block b, in the order of the messages. *)
EventsOf(b, t) ==
  LET all == [n \in DOMAIN Messages[b] |-> <<b, n>>]
  IN  Those(all, {r \in ToSet(all) : Msg(r).tx = t})

BlockEvents(b) == FlattenSeq([i \in DOMAIN Order[b] |-> EventsOf(b, Order[b][i])])

ChainEvents == FlattenSeq([h \in DOMAIN Chain |-> BlockEvents(Chain[h])])

SumMoves(moves, Which(_)) ==
  MapThenSumSet(LAMBDA i : moves[i].amount, {i \in DOMAIN moves : Which(moves[i])})

Gained(moves, kind, g, a) ==
  SumMoves(moves, LAMBDA m : m.kind = kind /\ m.asset = g /\ m.to = a)
    - SumMoves(moves, LAMBDA m : m.kind = kind /\ m.asset = g /\ m.from = a)

FeesOf(txs, a) ==
  MapThenSumSet(LAMBDA i : TxData[txs[i]].fee, {i \in DOMAIN txs : TxData[txs[i]].sender = a})

MovesOfToken(moves, g, v) ==
  {i \in DOMAIN moves : moves[i].kind = "nft" /\ moves[i].asset = g /\ moves[i].token = v}

(* The tokens of asset g whose last move went to a. *)
Owned(moves, g, a) ==
  LET tokens == {m.token : m \in {x \in ToSet(moves) : x.kind = "nft" /\ x.asset = g}}
  IN  {v \in tokens : moves[Max(MovesOfToken(moves, g, v))].to = a}

(* A token goes from the owner it has. *)
GoesFromOwner(moves, i) ==
  LET earlier == {j \in MovesOfToken(moves, moves[i].asset, moves[i].token) : j < i}
  IN  moves[i].from = IF earlier = {} THEN Nobody ELSE moves[Max(earlier)].to

(* The node has executed the blocks: along each line of them, from the first,
   only the owner of a token gives it away, and who has none gets a new one. *)
ASSUME TokenAssumption ==
  \A b \in Blocks :
    LET line  == LineTo(b)
        moves == MovesOf(line)
    IN  (\A h \in DOMAIN line : Height[line[h]] = h)
          => \A i \in DOMAIN moves : moves[i].kind = "nft" => GoesFromOwner(moves, i)

(* A client reads the first page, then goes on by the limit until the total. *)
Walk(First, More(_), limit) ==
  First.results \o FlattenSeq([k \in 1..((First.total - 1) \div limit) |-> More(k * limit).results])

(* A client that goes on for n pages, whatever the total says. *)
Pages(More(_), limit, n) == FlattenSeq([k \in 1..n |-> More((k - 1) * limit)])

-----------------------------------------------------------------------------
(* The steps of the block store are those of the tables: whatever is queried
   here, nothing but a commit changes it. *)
LedgerNext == Next /\ db'.mempool \subseteq Announced

-----------------------------------------------------------------------------
(***************************************************************************)
(* Properties.                                                             *)
(***************************************************************************)

(* The balances are those of a replay of the events along the chain of parent
   hashes, in every state that forks, reorganisations and repeated deliveries
   lead to, and a count of tokens is that of the tokens whose last owner is the
   address.  postgres-store.ts getStxBalance, getFungibleTokenBalances,
   getNonFungibleTokenCounts. *)
BalancesAreReplayed ==
  LET moves == Moves
      txs   == ChainTxs
  IN  \A a \in Addresses :
        /\ GetStxBalance(a).balance
             = Gained(moves, "stx", "stx", a) - FeesOf(txs, a)
        /\ LET balances == GetFungibleTokenBalances(a)
           IN  \A g \in DOMAIN balances : balances[g] = Gained(moves, "ft", g, a)
        /\ LET counts == GetNonFungibleTokenCounts(a)
           IN  \A g \in DOMAIN counts : counts[g] = Cardinality(Owned(moves, g, a))

(* The order of every list is total, so a row is on one page of it and no
   other: event indexes are counted over the kinds because three tables are
   merged by them.  postgres-store.ts:1151, 1479, 1602, event-server.ts:117. *)
ListsHaveOneOrder ==
  /\ \A r, s \in Mined : TxKey(r) = TxKey(s) => r = s
  /\ \A b, c \in db.canonical : Height[b] = Height[c] => b = c
  /\ \A a \in Addresses : \A r, s \in AddressEventRows(a) : EventKey(r) = EventKey(s) => r = s
  /\ \A c \in Contracts : \A r, s \in LogRows(c) : EventKey(r) = EventKey(s) => r = s

(* A client that goes through a list page by page, as the documentation says,
   sees the chain's transactions, or those of an address, or the blocks, newest
   first, each once.  pagination.ts, tx.ts:34, block.ts:21, address.ts:96. *)
PagesMakeTheList(limit) ==
  LET rows   == TxRows(ToSet(Chain))
      newest == TxsNewestFirst(rows)
  IN
  /\ \A types \in {{}, {"transfer"}, {"call", "deploy"}} :
       Walk(GetTxList(types, limit, 0), LAMBDA o : GetTxList(types, limit, o), limit)
         = Those(newest, {r \in rows : types = {} \/ TxData[TxAt(r)].type \in types})
  /\ Walk(GetBlocks(limit, 0), LAMBDA o : GetBlocks(limit, o), limit) = Reverse(Chain)
  /\ \A a \in Addresses :
       Walk(GetAddressTxs(a, limit, 0), LAMBDA o : GetAddressTxs(a, limit, o), limit)
         = Those(newest, {r \in rows : TxConcerns(TxAt(r), a)})

(* The same of the lists of events, of an address and of a contract, whose pages
   are made from three tables or one: they are those of the chain, newest first,
   to a client that goes on until a page is short, since no total comes with
   them.  postgres-store.ts:1461-1505, 1552-1652. *)
EventPagesMakeTheList(limit) ==
  LET newest == Reverse(ChainEvents)
      rows   == ToSet(newest)
  IN
  /\ \A a \in Addresses :
       Pages(LAMBDA o : GetAddressAssetEvents(a, limit, o).results, limit, Len(newest) + 1)
         = Those(newest, {r \in rows : Msg(r).kind # "log" /\ (Msg(r).from = a \/ Msg(r).to = a)})
  /\ \A c \in Contracts :
       Pages(LAMBDA o : GetSmartContractEvents(c, limit, o), limit, Len(newest) + 1)
         = Those(newest, {r \in rows : Msg(r).kind = "log" /\ Msg(r).asset = c})

(* The events of a transaction come back in the order in which the node sent
   them, though they are read from four tables.  postgres-store.ts:1166-1317. *)
TxEventsInOrder ==
  \A b \in db.known : \A t \in TxsOf[b] : GetTxEvents(t, b) = EventsOf(b, t)

(* A call mined on the chain is shown with the signature of the contract that
   this chain deployed, not with that of another fork that deployed a contract
   of the same name.  db-controller.ts:432-440, postgres-store.ts:1438-1443. *)
CallsUseTheChainsContract ==
  \A r \in Mined : TxData[TxAt(r)].type = "call" =>
    LET c        == TxData[TxAt(r)].target
        deployed == {s \in TxRows(ToSet(Chain)) : Deploys(TxAt(s), c)}
    IN  deployed # {} => IsServed(TxAt(r)) /\ GetSmartContract(c) \subseteq deployed

(* Every standard address that a stored block touches is found by search, be
   the block canonical or not.  postgres-store.ts:1885-1936. *)
TouchedAddressIsFound ==
  \A b \in db.known : \A a \in AddressUpdates(b) \cap Standard : SearchPrincipal(a)

(* All there is to be read of an address. *)
Account(a) ==
  <<GetStxBalance(a), GetFungibleTokenBalances(a), GetNonFungibleTokenCounts(a),
    AddressTxRows(a), AddressEventRows(a)>>

(* When the chain grows by one block, every address of which something reads
   differently afterwards is told.  postgres-store.ts emitAddressTxUpdates. *)
TellsWhoChanged ==
  (txn.pc = "store" /\ db'.canonical = db.canonical \cup {txn.block}) =>
    \A a \in Addresses : Account(a)' # Account(a) => a \in AddressUpdates(txn.block)

(* In every state of the tables, on whichever fork the chain now is: the lists
   have one order, a call is shown with the contract of its chain, and search
   finds an address.  postgres-store.ts:1438-1443, 1885-1936. *)
LookupsAgree == ListsHaveOneOrder /\ CallsUseTheChainsContract /\ TouchedAddressIsFound

(* And the pages of the lists are the lists of that chain, and the events of a
   transaction are all there and in order.  postgres-store.ts:1166-1317, 1461-1505,
   1552-1775. *)
ListsAgree ==
  /\ \A limit \in 1..2 : PagesMakeTheList(limit) /\ EventPagesMakeTheList(limit)
  /\ TxEventsInOrder

=============================================================================
