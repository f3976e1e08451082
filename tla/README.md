# The Stacks blockchain API: a TLA+ model

The API server listens to a Stacks core node, stores its blocks and mempool
transactions in Postgres, and serves them over REST and WebSocket.  The
modules here model what it stores, in which order, what it answers, what it
tells its listeners, and the clients and services around it whose steps
interleave with its own.

## 1. The system

| component | source | state | operations | interacts with |
|---|---|---|---|---|
| Event server | `src/event-stream/event-server.ts`, `reader.ts` | a promise queue, the running handler | `/new_block`, `/new_mempool_tx` | posts by the core node; calls the store |
| Block store, write side | `src/datastore/postgres-store.ts` | tables `blocks`, `txs`, `mempool_txs`, five event and contract tables | `update`, `updateMempoolTx` | emits `blockUpdate`, `txUpdate`, `addressUpdate` |
| Block store, read side | same, and `src/api/controllers/db-controller.ts` | none: several queries per request | `getTxFromDataStore`, `searchHash`, `getBlockFromDataStore`, balances, lists | interleaves with commits of the write side |
| REST routes | `src/api/routes/*.ts` | none | one per endpoint | read side |
| Conversions | `reader.ts`, `datastore/common.ts`, `db-controller.ts`, `serializers/` | none | message to row, row to answer | event server, REST routes |
| Transaction decoding | `src/p2p/tx.ts`, `src/binary-reader.ts` | a read cursor | `readTransaction`, `readTransactionPostConditions` | event server; once more at every answer |
| WebSocket RPC | `src/api/routes/ws-rpc.ts` | three topic-to-clients maps, a promise queue of balance reads | `subscribe`, `unsubscribe`, close, notifications | listens to the store; reads balances |
| Client library | `client/src/ws/index.ts` | pending requests, event listeners | `subscribe...`, `unsubscribe` | the WebSocket RPC server |
| Faucets | `src/api/routes/faucets.ts` | table `faucet_requests`, one promise queue per currency | `POST /btc`, `POST /stx` | the bitcoin node, the core node |
| Bitcoin wallet | `src/btc-faucet.ts` | none: coins are found by a scan | `makeBtcFaucetPayment`, `getBtcBalance` | a bitcoin node that mines in between |
| In-memory store | `src/datastore/memory-store.ts` | maps by block hash and transaction id | the interface of the block store | development and tests |
| Start-up and monitors | `src/index.ts`, `src/api/init.ts`, `src/core-rpc/client.ts`, `docker-compose.yml` | where `init()` is, what is open | connect and retry loops, migrations, monitor | Postgres, core node, supervisor |
| Debug routes, info, Rosetta stubs, RPC proxy | `src/api/routes/debug.ts` and others | none | forwards and constants | core node |

What is hard: blocks arrive in any order the forks of the chain produce, more
than once, and with the process dying in between; a reorganisation flips flags
in seven tables block by block; mempool announcements race with mining; a
request makes several queries with commits between them; notifications are
prepared at one moment and sent at another; a payment and its record are two
steps; the coins of a payment are found by one call and spent by a later one; a
transaction is parsed, stored in slices and parsed again by other code.
`PROJECT.json` lists each such place under `hazards`, with its line and the
properties about it.

## 2. The modules

    ForkChoice      what the block store promises
       ^  implemented by (proved and checked)
    ChainStore  <------ ChainStoreProofs
       |
       +-- EventServer  <-- EventServerProofs    queue and handlers; its StoreSpec is ChainStore
       +-- WsRpc        <-- WsRpcProofs          subscriptions, notifications, balance jobs
       +-- ReadApi      <-- ReadSideProofs       requests of several queries
       +-- Ledger           <--+                 what one query computes
              +-- PageWalk  <--+                 a client that pages through a list

    Wire            from bytes to a decoded transaction, and the slices once more
       +-- Pipeline     <-- PipelineProofs       bytes -> rows -> answers
    Convert ---^                                 from what is decoded to rows and answers

    LastDelivered   what the in-memory store promises
       ^  implemented by (proved and checked)
    MemoryStore <------ MemoryStoreProofs

    Faucet      <--+--- FaucetProofs
    BtcWallet   <--+
    WsClient    <------ WsRpcProofs              the other end of the socket
    Startup     <------ EventServerProofs

    LibraryLemmas   sums, numbers and flattened sequences, for the proofs of reads, faucets and Pipeline

EventServer instantiates ChainStore, the modules under it extend it; Pipeline
extends Wire and instantiates Convert.  A module `MCX` gives the constants of
`X` small values and `X.cfg` names the specification and the properties of its
run.  An operator called `Op_Fault` is a faulty variant of `Op`: put in the
place of `Op`, it must make TLC find a property violated, which is how
the properties themselves are tested.

### The block store and those who use it

**ForkChoice** is the promise: a set of known blocks and a set of canonical
ones, and one action that accepts a new block whose parent is known one below
it, or that starts a chain.  When the block is higher than everything known, the
canonical blocks become the path from height 1 to it, whatever was canonical at
those heights; any other block leaves the canonical chain alone.  A block
delivered again is a stutter.

**ChainStore** is the block transaction of `PgDataStore.update`.

| state | code |
|---|---|
| `db` (`known`, `canonical`, `live`, `copies`, `mempool`) | the committed rows of `blocks`, their `canonical` flag, the flag of their rows in each of the six entity tables, how often those rows were inserted, `mempool_txs` |
| `txn` | the local variables of `update` and `restoreOrphanedChain`, and the uncommitted image of the tables |
| `emitted` | the last event of the `EventEmitter` |

| action | code |
|---|---|
| `BeginUpdate` | BEGIN, `getChainTipHeight`, the parent check of `handleReorg` |
| `RestoreOrphanedChain` | one call of `restoreOrphanedChain`, up to its recursive call |
| `CommitUpdate` | the canonical decision, pruning, every INSERT, COMMIT |
| `EmitUpdate` | `blockUpdate`, `txUpdate`, `addressUpdate` |
| `Fail` | a query that rejects, a throw, or the death of the process, anywhere |
| `UpdateMempoolTx` | `updateMempoolTx` |

Amounts, hashes and the other columns are abstracted away: a block is an
identity with a height, a parent and a set of transactions.  The queries of one
call of `restoreOrphanedChain` are one step, because nobody else sees the
open transaction and a failure between any two of them rolls back all of them.

**EventServer** has the messages, the promise queue and one job for each
running handler.  It instantiates ChainStore with the transaction of the
running job as `txn`, and uses its operators for what a job does.  `Post` is a
request of the core node (first or repeated), `Start` the queue, `Refuse`,
`Begin`, `Restore`, `Commit`, `Emit`, `Insert` and `FinishBatch` the handlers,
`QueryFails` and `Crash` the faults.  In ChainStore there is one transaction at
a time by construction; here it is because `Concurrency` is 1, and the mutant
that sets it to 2 violates the refinement.

**ReadApi** adds a request that looks into several tables one after another.
`Lookup` gives the tables in the order of the code, `Query` is one
`pool.query`.  `known` and `mined` are history.  The routes that call
`getTxFromDataStore` (by id, the list, the event stream) and
`getBlockFromDataStore` start it differently.

**WsRpc** adds the WebSocket server.  The `Set` of subscribers of a topic is an
object that outlives its place in the map, because a balance job holds on to
it: `current[p]` is the reference in the map, `members[s]` the contents.  A
balance is the pair of sets of blocks that its two queries count, so that
two balances are equal only when they count the same rows.  `owed` (who was
subscribed at the event and stayed), `wants` and `told` are history variables, and so
is `unheard`: the topics that changed while no news of it was sent or queued.  A topic
enters it in two ways, by a balance job whose query fails (`ReadFails`; the code logs
and goes on) and by what a commit moves and no event tells of (`Unannounced`).

**Ledger** has no state of its own.  It gives the blocks contents (the messages
the node sends) and says what each query of the read side computes from an
image: balances and fees, token counts, the lists with their orders and pages,
events of a transaction, contracts, principal search, and the addresses that
`update` announces.  Each is compared with a definition that never looks at a
flag: it walks from the highest block down by parent hashes and replays the
messages in order.  A list (`Sorted`) puts each row at the place that the number of
rows before it gives; that this is a list at all, no two rows having one key, is
part of what is checked and proved (`ListsHaveOneOrder`).

**PageWalk** adds a client that goes through such a list by limit and offset
with commits between its requests, and between the two queries of one request.
A client changes no table, and where none has begun a commit leaves `NoWalk` alone; so the
tables reach each of their states, those behind reorganisations like the others, with no
client about.  The properties of the tables alone (`BalancesHold`, `LookupsHold`, `ListsHold`,
`ChangesAreAnnounced`) are looked at there, once for each state of the tables instead of once
for each place of a client; the theorems have them in every state (`BalancesAreReplayed`,
`LookupsAgree`, `ListsAgree`, `TellsWhoChanged`).

### From bytes to answers

**Wire** is the reader: `todo` is the continuation (the reads still to be made),
and every enum byte that is read decides what is put in front of it.  A buffer
is a sequence of cells that keeps the order of widths: one cell for a u8, two
for a u16 and so on, in base `Digit`, so that numbers are put together from
digits and wrap where the code's do.  An amount of STX is any u64 and is read as the code reads it,
signed (`Signed`).  `Store` keeps the slice of post conditions and the
slice of arguments; `GetTx` reads both again, with the other code that does so.
A byte no enum knows throws.

**Convert** is what happens to the decoded record: `Extract` (the columns of
each type), rows of `mempool_txs` and `txs`, event rows, the CHECK constraint of
the type columns, and the two ways of answering, the lookup by id and the
mempool list, each with its own treatment of null.  The lookup of a call needs the interface
of the contract, which other transactions deploy: `contract` is what `getSmartContract`
finds, `StoreContract` changes it, and `Answerable` is what the lookup throws for otherwise.

**Pipeline** puts them together for one transaction: decoded by Wire, stored by
Convert, mined, reorganised and answered, in every order.

### The other processes

**WsClient** is the client library with one socket.  A *turn* hands over up to
`FramesPerTurn` frames, one at a time (`HandleFrame`: `Notify` or `Settle`), and the
application may call from any callback between two of them.  What awaits an answer
continues when the turn is over (`EndTurn`): a subscription is "granted" before and "on"
after, when its listener is installed.  The server is the set of topics that WsRpc has
for this socket.  `owed` and `heard` are history: the events of a topic since its
subscription was accepted, and those its callback was given.

**Faucet** has the two promise queues, the clock, the table of requests and the
payments.  `Then` gives the order of the calls of a job, which differs
between the currencies.  The network node is external: a payment is accepted or not.

**BtcWallet** is what one such payment does with the bitcoin node: the scan that
only one caller can have at a time, the polling of the others, `getrawmempool`,
the choice of coins, the broadcast, whose answer may be lost, and blocks at any
point.  Coin choice is any sufficient subset: which one `coinselect` takes
is outside this repository.

**MemoryStore** is the in-memory store; `update` is one action, as it awaits
nothing that is not resolved.  **LastDelivered** is its promise: a new block
that builds on the chain shown makes the canonical blocks the path to it.

**Startup** is the process from its first connection attempt to its monitor,
against a database that stops and starts and a node that may be down or hang,
with the restart of `docker-compose.yml` after a failure of `init()`.  A database that
stops when `init()` is done drops the idle clients of the pool; the error that this emits is
caught by the logger (`helpers.ts:115`) and the process goes on.

## 3. The runs

| run | shows | distinct states |
|---|---|---|
| `ChainStore` | The block transaction keeps one canonical chain, every table in step with it and the mempool pruned, whatever the order and repetition of blocks, reorganisations and failures between any two calls; it implements ForkChoice. Checks `IInv`, `OneCanonicalChain`, `EntitiesFollowBlocks`, `RowsInsertedOnce`, `MinedLeavesMempool`, `OnlyMinedLeavesMempool`, `RedeliveryChangesNothing`, `ForkChoiceSpec`, `UpdateTerminates`. | 20,741 |
| `ChainStore_MinedNotPending` | A transaction announced to the mempool after the block that mined it is pending although it is mined, and stays so while no reorganisation orphans and restores its block. Checks `MinedNotPending`. | violated, as expected |
| `EventServer` | The event server's promise queue serialises the handlers, so that it implements ChainStore; what it answers 200 survives every failure; and once faults cease every storable message is answered 200. Checks `ServerInv`, `StoreSpec`, `EveryMessageAnswered`. | 46,096 |
| `WsRpc` | Subscriptions, closed sockets and the Sets kept by balance jobs stay consistent in every interleaving with the block store, its failures and its announcements, while a fork overtakes the chain; what a subscriber was last told holds when nothing is under way, but for a balance whose last read failed and for what a reorganisation moved without an event. Checks `SubscriptionInv`, `KeptSetIsFresh`, `ToldIsCurrent`. | 1,558,575 |
| `Faucet` | The queues keep lookups and inserts of one currency apart, so the rows of an address never exceed the limit in any window, and STX pays nothing that is not on record, whatever fails. Checks `IInv`, `RecordedWithinLimit`, `StxPaidIsRecorded`. | 1,605,031 |
| `ReadApi` | Requests of several queries, interleaved with every commit of the block store: what is stored when they begin is found (a search misses only what is mined between its queries), and no answer mixes two moments. Checks `FoundIfKnown`, `ReadInv`. | 21,586 |
| `PageWalk` | In every state of the tables, those behind reorganisations in both directions included, the sums, lists, pages, contracts and searches agree with a replay of the chain from its tip by parent hashes, and everyone whose account a block changes is told; and a client that pages through the transactions of an address while blocks are committed, a reorganisation among them, misses none that was there when it began and stayed. Checks `BalancesHold`, `LookupsHold`, `ListsHold`, `AddressWalkMissesNothing`, `ChangesAreAnnounced`. | 451,178 |
| `Pipeline` | Transactions of every payload, signing scheme, post condition and principal, with counts and amounts at zero and at the largest value, from their bytes through mempool row, mined row and reorganisation to both answers, while the contract they call is not there, is deployed or is another: what is answered is what was announced, but for the sign of an STX amount and the lookup of a call that its contract does not have. Checks `DecodedAsSent`, `AnsweredAsSent`, `AnsweredAsAnnounced`, `MiningOnlyAdds`. | 46,563 |
| `MemoryStore` | While the node only builds on the chain shown, and delivers blocks again, the in-memory store implements LastDelivered: one canonical block a height, every event flagged like its block, and its transactions and contracts agree with it. Checks `MemoryInv`, `TxsFollowBlocks`, `LastDeliveredSpec`. | 599 |
| `Startup` | Start-up against a database that stops and starts between any two steps and a node that may hang, with the process restarted when it exits: the servers open on a migrated schema, no probe client is left, all is ready in the end, and the monitor goes on. Checks `IInv`, `ServesAtLast`. | 558 |
| `WsClient` | Two subscriptions to one topic, one with a topic of its own and one that is refused, two frames a turn, calls from callbacks and a connection that may close: requests and answers stay paired, a callback hears only what is owed to it, once and in order, and misses of it only what shares the turn of its answer, and the server tells nobody who does not listen. Checks `ClientInv`, `NoIdleSubscription`, `RequestsSettle`. | 149,317 |
| `BtcWallet` | Payments and balance requests share one scan of the bitcoin node while blocks are mined: a payment is never refused because of an earlier payment of the faucet, change comes back, and every job ends. Checks `RefusedOnlyAfterBlock`, `WalletInv`, `EveryJobEnds`. | 523,104 |

### Bounds

* **`ChainStore`**: nine blocks: two forks that overtake each other, a
  reorganisation two blocks deep followed by one back, a second root, and a block
  whose parent does not have the height below it.  They arrive in every order, any
  number of times.  Deeper reorganisations only repeat the recursive call, and
  the proofs cover every tree.  Of two transactions, `t` is mined on both
  forks at different heights, which is what distinguishes pruning by a new
  block from pruning by a restored one.
* **`EventServer`**: `MaxQueue` = 1 waiting message.  Together with the running one
  this gives every order and repetition, since any message may be posted next.
* **`ReadApi`**: one request in flight; requests change nothing.  Three blocks are
  enough for a transaction to be pending, mined, orphaned, and mined again while
  it is still in an orphaned block.
* **`WsRpc`**: two sockets, one address, one transaction, and a block beside a fork of two that
  overtakes it.  The fork is about the address, and its first block mines the transaction; when
  that block is restored no event tells of it.  `MaxJobs` = 1: a block is
  announced while no job waits, though one may be between its queries.  Three identities of Sets,
  for two topics and a job that keeps one; only where the waiting job and the one between its
  queries both hold a Set that has left the map, and the other topic has one too, has a new
  subscription to wait for a fourth.  The proofs have any number.
* **`PageWalk`**: six blocks on two forks that overtake each other in turn, with a
  contract deployed on each by a transaction of its own, a token that moves on
  both, mints, burns and a contract as recipient.  Pages of one row, so that every boundary falls
  between any two rows.  Only `e` is announced to the mempool: the mempool
  matters here only to the search.
* **`Pipeline`**: every payload type, hash mode, auth type, principal and post
  condition, amounts at 0 and at the largest u64, empty lists and lists of several
  elements, an unknown enum byte early and one late; three results and four event
  lists, with mints and transfers of each asset and the burn of stx (the node sends no other);
  a contract that is not there, has the function, has it with fewer arguments, or has not.
* **`MemoryStore`**: three forks, one of which leaves another later, three transactions in
  another order on each, every kind of event.
* **`Startup`**: three outages: one while the process waits, one between its loop and
  its servers, one when it is ready.
* **`WsClient`**: four subscriptions (one topic written in two ways, another topic, one name
  that is refused), four requests, two events, two frames a turn: an answer and an event
  share a turn, and a subscription to a topic ends while another to it begins.
* **`Faucet`**: a limit of two in a window of one tick (both ends included), four ticks:
  room for two disjoint windows and one that overlaps both; `MaxPaid` = 4.
* **`BtcWallet`**: two payments, a balance request, three coins of which one is a
  young reward and one is too small alone, four blocks: enough for the change of
  the first payment to become spendable for the second.

Deadlock is checked except in the runs whose system may stop: in `Pipeline`
when a transaction is refused (its behaviour ends), in `WsClient`
when the socket has closed and the bound on requests is reached, and in
`BtcWallet` when all jobs have ended and the height bound is reached.

### Fairness

* `ChainStore!FairSpec`: weak fairness of the three steps the process takes by
  itself in an open transaction.  Nothing says that blocks arrive.
* `EventServer!FairSpec`: weak fairness of `Start` and of the work of running jobs
  (p-queue and the event loop run what is ready, and Postgres answers or fails);
  strong fairness of `Post` of a message until it is answered 200: the core
  node posts again what was not answered 200.  That is a fact about the core
  node, outside this repository.  `EveryMessageAnswered` is claimed only
  of behaviours in which faults cease, and only for messages that decode and
  whose ancestors decode.
* `WsClient!ClientFairSpec`: the server answers what it has received, and the event loop
  hands over what has arrived and ends its turns.  Nothing says that a socket stays open or closes.
* `BtcWallet!WalletFairSpec`: queue, event loop and bitcoin node do what is ready for each
  job.  A job waits for another's scan, and scans may follow one another; since the jobs
  are finitely many, weak fairness is enough.
* `Startup!FairStart`: the process goes on, timers run off, a node that does not hang
  answers or refuses, the supervisor restarts, and the database comes back (the run
  bounds how often it stops; without such a bound nothing could be promised).

`MemoryStore` is checked under `FollowSpec`, where the node only announces
blocks that build on the chain shown; `MemoryInv` is proved under `Spec`,
where it may jump between forks.  The other modules state safety only.

## 4. The proofs

Each proof module extends the module or modules it is about.  Nothing is assumed but
the named assumptions on the constants: their types, where stated that two sets of
identities are disjoint, in MemoryStore that the node mines no transaction twice in one
chain (`OncePerChain`: its nonce is used up), in Ledger that the events of a block are of
its transactions, that fees are natural numbers, and that the node has executed the blocks it
sends, so that along each line of blocks a token goes only from its owner
(`TokenAssumption`), in BtcWallet that coins and payments are finitely many, and in Wire and
Pipeline that what the node sends has the shape its interfaces give it (below).

`LibraryLemmas` is about `MapThenSumSet` and `FlattenSeq`, which are defined by recursive
functions: that a sum adds up whatever the order (`SumUnfolds`, `SumAdds`, `SumOfUnion`,
`SumOfEqual`), and over a renaming too (`SumOfImage`), and that sequences of sequences are
flattened from the left as from the right (`FlattenCons`, `FlattenConcat`), each in its place
(`FlatPlaces`), is proved with the smallest set or number for which it would fail.

`ChainStoreProofs`, for every set of blocks, heights, parents and transactions
(nothing is assumed about the tree, not even that parents are lower): the type
invariant, all the safety and action properties of the `ChainStore` run, and that every
step of `Spec` is a step of ForkChoice or leaves its variables alone.  The
properties are not inductive: in the middle of a reorganisation the image of
the open transaction is not one linked chain.  `IInv` says what it is: the
image is sound but for the links (`Sound`: flags only on stored blocks, parents
known, at most one canonical block at a height, no height without one, rows in
step), the restored blocks hang from the cursor (`LinkedDownTo`), below the
cursor nothing has changed, the cursor is stored and orphaned, and what was
pruned is what was mined.  `StoreInv` says the same of the image about to be
committed, which is linked again, and equal to `db` unless the block is higher
than the tip.  The argument: lemmas about each operator on images (`RestoreBlock`
keeps `Sound` and moves the hanging end down by one; `StoreBlock` keeps `Sound` and
`Linked`); then one step per action; then each property from `IInv`; the refinement
from `IInv` and the lemma that a restored chain is the set of ancestors that
ForkChoice makes canonical.  `StepLosesNothing` is what the others build on: no
block is ever forgotten, and a transaction leaves the mempool only into a
canonical block.

`EventServerProofs` composes: with one job at a time (`OneJob`) the handlers, their
failures and the crashes are one client of the store, so every behaviour of the
event server is a behaviour of ChainStore (`ImplementsChainStore`).  The invariant and
`StepLosesNothing` of ChainStoreProofs carry over through that refinement, and give that what
was answered 200 is never lost (`ServerInvariance`): before the answer, a transaction of a
batch is durable or still to be inserted, and a job that emits has stored its block (`JobInv`).

`ReadSideProofs`, first about ReadApi: a row never goes without another one taking its
place (`RowsStay`, from `StepLosesNothing`).  `FlightInv` follows a request from table to
table: past the mempool what was known is in a block, and a search that did not find it in
`txs` has not seen it mined all the time.  One lemma for each outcome of a query
(`FoundKeeps`, `MissedKeeps`, `BlockQueryKeeps`, `BlockTxsKeeps`) and one for what
the store does beside it (`WatchKeeps`).  Concluded are both properties of that run.

Then about Ledger and PageWalk, for every content of the blocks, of any number of events:

* *Lists.*  In a finite set of rows whose keys are ordered and differ, `Rank`, the number of
  rows before a row, is a bijection to the places of the list (`RankType`, `RanksDiffer`,
  `SortedIs`), and a page shows the rows of its places (`PageShows`).  The rows are finitely
  many because the chain has one block at a height and a top (`ChainIsFinite`).
* *`AddressPagesMissNothing`.*  The invariant `AddressWalk`: as long as nothing has left the
  list, what the client has not seen of the list it began with is still there and not before
  its offset.  A page keeps it as it shows the places up to the next offset; an empty
  page, whose total is 0, means that nothing is left; and a commit keeps it because a
  list that only becomes more moves its rows back, never forward (`RanksGrow`).
* *`ListsAndLookups`.*  Event keys differ because indexes of one transaction grow from
  message to message, of whatever kind (`EventIndexGrows`, `EventKeysDiffer`).  The chain of
  parent hashes is the canonical blocks in order (`ChainIs`: the recursion down from the
  tip has a solution, and two solutions cannot differ at a smallest place), so the
  contract with a canonical row is the one this chain deployed.  Search finds what a
  stored block touches since none of its queries asks for a flag.
* *`BalancesAreOfTheChain`.*  The replay is over the messages of the chain, put one after the
  other; the queries are over rows of the canonical blocks, from several tables.  Each message has its
  place in the whole (`PlacesGrow`, `FlattenPlaces`), and so has each row: `place` is a
  bijection between the rows of a query and the moves of the replay that its condition
  selects (`RowsHavePlaces`, `EventRowsAre`).  Sums over rows are therefore sums over moves
  (`RowSumIsMoveSum`), which gives the stx balance with its fees (`StxIsReplayed`) and the tokens of
  each asset (`TokensAreReplayed`).  Token counts are what came less what went, while the
  replay asks who had each token last: each move from an address is the next after one to
  it, of the same token (`PreviousWasTo`, `NextIsFrom`, from `TokenAssumption`), so those left
  over are the last moves of the tokens it owns (`OwnedAreCounted`).
* *`GrowthIsAnnounced`.*  When a block joins the chain, the rows about an address outside
  its announcement are those there were (`RowsBeside`), with one copy each, so the sums over
  them are equal (`SumsAgree`: the fold that a sum is defined by is chosen by its
  equation, and the equations are the same), and with them balances, counts and lists.
* *`PagesAreTheLists`.*  A list is made by ranks, its reference by going along the chain, and
  there is one sequence of the rows in the order of their keys (`ShownIsSorted`).  So it is enough
  that the reference is in that order: the blocks by their height, the events
  by block, transaction and event (`TxEventsRise`, `BlockEventsRise`, `ChainEventsRise`), where the index over
  all four kinds is what keeps rows of different tables apart; and what is left
  of a sequence in order is in order (`ThoseOrdered`, `ThoseSorted`).  A page and the next
  are one longer page (`PageJoins`, `PagesJoin`), and those up to the total reach the end
  (`PagesWalked`, `PagesRead`).  The run has limits of one and two, `AnyLimitMakesTheLists` every one.

`WsRpcProofs` is about identities (`SetsInv`): a Set belongs to one topic, in the
map and in the jobs that kept it; one that has left the map is empty and nobody
adds to it again; and the close listeners of a socket cover all it is subscribed
to.  Concluded are `SubscriptionInv` and `KeptSetIsFresh`, for every set of sockets and
topics and any number of waiting jobs.  What subscribers were told (`ToldInv`) is
current or on its way, unless it is `unheard`: a balance that was told is the balance, or the store still has the event
to emit (`Announced`), or a job for it waits or has begun to read (`BeingRead`), and
then the sum it has read is the balance or again announced; a transaction told as
pending is in the mempool or its block is about to be announced.  A commit changes a
balance only through the block it delivers or through those it moves, and the latter
are what `Unannounced` names, so `ToldStaysCurrent` concludes the property for every tree of
blocks, reorganisations, failures and failed reads included.

The second part of `WsRpcProofs` is WsClient, for every set of subscriptions, several of them of one topic too, and any
number of frames a turn.  `ClientInv` is not inductive; `ClientIInv` adds what the order on the
socket gives: requests on their way are of different calls that wait (`RequestsInv`),
answers of calls whose request is not on its way any more (`AnswersInv`), a
subscription waits for one call at most (`CallsInv`), the events on their way are in order and after
all that was heard (`OrderInv`), what comes after the answer to a subscription is
owed to it (`OwedInv`), and each topic at the server is of one who has it, will have it, or is about to
give it up (`ServerInv`).  From these, each call is settled by its own answer
(`EachHasOneAnswer`), and once nothing is under way the server tells nobody in vain
(`NobodyIsToldInVain`).  `MissedInv` follows a subscription that is alone on its topic: until its
answer is handed over all that is owed comes behind it, then each frame of the turn may lose
one event, and the first to come is the next that is owed (`FirstIsNext`), so that fewer
than `FramesPerTurn` are missed, and none later (`AnswersArePaired`).

`FaucetProofs`, for every limit, window and set of addresses and with any
bound on the clock and the payments: what is recorded within the limit is not
inductive, as whether a row may be added was decided at the lookup.  The
invariant adds that the rows are in the order of their times (`Ordered`), that a
job before its check still sees the rows that are there, that a job past its
check still has the room it found (`GoodJob`, `Room`), and that an STX job that has
recorded and not paid counts as paid (`Ledger`).  `RoomFound` is the arithmetic of
the check: when fewer than `Limit` rows are in the window, the `Limit`th from the
end is outside.

Its second part is BtcWallet, for every set of coins, payments and balance requests.
The invariant `CoinsInv`: one payment runs at a time; the transactions in the mempool spend
different coins, all of the chain; what a job knows of the chain was so at the tip it
read, and still is unless a block came; the coins it is about to send cover it
and nobody spends them.  Then the faucet's coins, the change under way and what was
paid are together what there was at the start (`WalletKeepsItsCoins`), and a refusal means a block in
between or a reward too young (`RefusalNeedsBlock`).

`MemoryStoreProofs`, for every tree of blocks and every content of theirs: one
canonical block a height and every event flagged like its block, however the node
jumps between forks; and, while it follows the chain shown, the implementation of
LastDelivered, from the invariant that the canonical blocks are the path to one of them, and
that the rows of transactions and contracts carry the flag of their block (`TxsAgree`).
The last needs `OncePerChain`: a row is overwritten by the block delivered last, and
would otherwise lose the flag of another block on the same chain.

`PipelineProofs`, for every base of digits, every set of transactions, results and lists of
events.  `TxsAssumption` is the interfaces of `p2p/tx.ts`: each count and number
has its width, amounts of stx all of theirs, a Clarity value is as long as it says, and the type of a payload
and the hash modes may be ones the reader does not know (`Known`).  `ResultsAssumption` and `EventsAssumption`
are the types of `core-node-message.ts`, and `ContractsAssumption` says that a function has a number of
arguments.  Names, bodies and lists have any length.

* *The reader.*  It has no schema: what it reads next is decided by the bytes it meets, and a
  wrong byte anywhere shifts all that follow.  So "the cursor is right" is not inductive, and
  neither is anything said of `out` alone.  The invariant pairs the reads that are still to be made with
  what is left of the buffer: there are runs of fields, one for each read, that the reads
  fit (`Fits`, `AllFit`), whose bytes put together are what is ahead of the
  cursor, and whose values, behind those read already, are the values of all that was sent
  (`Reads`).  That a read fits its run is said without recursion: an enum fits the layout
  of a principal, a condition or a payload, and for each byte the reads of its
  case fit the fields behind it (`KeySplits` to `PayloadSplits`, one for each enum).
  Each kind of read then has a lemma that it takes the first field of its run and leaves
  runs for the reads it brings (`EnumStep` to `ArgsStep`, together `ReadIs`).  Numbers
  need the arithmetic of digits (`NumberIsWritten`; an STX amount changes its sign only, `Value`), the arguments that the ends of Clarity
  values can be found one after the other (`ClarityRead`).
* *The slices.*  `Decoding` adds where the mode, the conditions and the payload are among the reads
  (`PlacesKept`): the copy of the post conditions begins at the mode and ends where the type
  of the payload is read, and that is between the two fields (`PayloadRead`).  The slices are read
  again by the same reads, so the invariant of the reader carries over to the stages
  `conditions` and `args`.  `WireInv` has one disjunct for each stage, and one lemma for what each
  leads to (`FromDecode`, `FromStored`, `FromConditions`, `FromArgs`).  Concluded are
  `DecodedAsSent` and `AnsweredAsSent`, and that only a transaction that is not `Known` throws.
* *The rows.*  `RowsInv`: a row in a table is made of the transaction (`MadeOf`), whatever its flag.
  Each column of it then parses as what was put in (`RowParsed`), nothing that an answer insists on is
  null (`ServedIs`, `ListedIs`; a call may still be `Unanswerable`, whatever its row), and what is shown
  says what was announced (`ShownSays`).  Concluded are `AnsweredAsAnnounced` and `MiningOnlyAdds`.

`WireInv` says of the runs only that there are some, so TLC cannot evaluate it over all
sequences; the `Pipeline` run checks the four properties that follow from it.

The last part of `EventServerProofs` is Startup, for every number of outages and tries: the
place of `init()` tells which servers are open, what is migrated and which clients are held, and
a refused connection never ends the process in its loop.

Only model-checked is liveness (`UpdateTerminates`, `EveryMessageAnswered`, `ServesAtLast`,
`RequestsSettle`, `EveryJobEnds`), which the prover does not do.  Every invariant, action
property and refinement of the passing runs is concluded by a theorem.

What a recursive definition computes for every input is beyond the induction theorems of the
prover's library.  Where it is a sum, a number, a flattened list or the chain of parents, a
smallest counterexample takes the place of induction, as above.

## 5. What the code does that its reader may not expect

`ChainStore_MinedNotPending` is a run of its own: a transaction announced after the
block that mined it is pending, and neither its block delivered again nor any later one
takes it out of the mempool; only a reorganisation that orphans and restores its block does.
The following came up while modelling
and are part of the models (or, where it is said, left out of them); no property above denies them.

* A canonical block delivered again is announced to the listeners as not canonical
  (`postgres-store.ts:311-357`: the flag is that of the height comparison, not of the row).
* A reorganisation tells nobody: subscribers hear of the delivered block only
  (`postgres-store.ts:357`).  `ToldIsCurrent` therefore exempts the balances of addresses in the
  blocks that were moved, and the transactions that left the mempool with them, until their next news.
* A balance read that fails is logged and not tried again (`ws-rpc.ts:280`): the subscriber
  keeps the balance it was told before, until the next event of the address.  `ToldIsCurrent`
  exempts this too.
* A transaction whose block is orphaned is not put back into the mempool
  (`postgres-store.ts:565`): it is neither pending nor canonical.
* A block with a poison-microblock transaction is refused on every delivery
  (`reader.ts:117`), and with it all its descendants.
* `searchHash` looks into `txs` before `mempool_txs` (`postgres-store.ts:1781`) and misses a
  transaction mined in between, the exception stated in `FoundIfKnown`; of several rows
  it answers any one (`:1782`, LIMIT 1 without an order).
* `getTxList` counts before it reads the page (`postgres-store.ts:1122`): a walk through all
  transactions may stop early.  `getAddressTxs` has both from one query, and
  `AddressWalkMissesNothing` is about that one.
* The mempool list is ordered by the receipt time alone (`postgres-store.ts:1080`), which a whole
  batch shares.
* The total of an address's asset events is always 0 (`postgres-store.ts:1650`).
* A call whose contract is not stored, has not the function or takes fewer arguments makes its lookup
  throw (`db-controller.ts:433-458`), so also one pending before its contract is mined; the
  mempool list shows it.  `AnsweredAsAnnounced` says that nothing else throws.
* The fee of a sponsored transaction is taken from its sender (`postgres-store.ts:1535`).
* The amount of an STX transfer or post condition is a u64 in the interface (`p2p/tx.ts:194`, `:229`)
  and read as a signed number (`:376`, `:495`), so one of 2^63 and more is stored and answered as a
  negative one.  `DecodedAsSent` and `AnsweredAsSent` state it as their exception.
* The names of two condition codes are exchanged in the answer (`post-conditions.ts:118`).
* BTC is paid before it is recorded (`faucets.ts:42`), so a failure in between is not counted
  against the limit; STX is recorded first.
* The client library installs its listener after the answer to subscribe
  (`client/src/ws/index.ts:117`), so a notification in the same packet is lost (`OnlyItsTurnIsMissed` says that
  no other is); and
  two subscriptions to one topic share one of the server, which the first unsubscribe
  ends (`:124`).
* The in-memory store restores nothing: a block on a fork it has orphaned is shown on top of
  orphaned ancestors (`memory-store.ts:84`).
* The wait of the core node's monitor is not limited by its timeout when a node
  accepts and never answers (`core-rpc/client.ts:62`).

## 6. Not modelled

* REST parameters and the refusal of malformed ones; the JSON-RPC envelope: pure checks that
  change no state.
* The statements of the migrations: `node-pg-migrate` runs them.  What they create is the image
  of ChainStore, and when they run is in Startup.
* Clarity values beyond their size, `contract-abi.ts` (names of types, for display), c32
  addresses: their library is outside, and nothing decides by them.
  `p2p/messages.ts` and `block-header.ts` are used by no server code.
* The mempool and the faucet requests of the in-memory store, a Map and an array that only grow and that
  `update` does not read, and its lists and lookups: single passes over its Maps.
* Two server processes on one database: the code has no support for it, and its queues
  assume one process.
* The limits of Postgres and of a statement: a failed query is `Fail`, whatever its reason.
* Debug routes, info, Rosetta stubs, the RPC proxy and the generated client: constants,
  forwards, and code without state.

## 7. Plan

Done, in the order of importance: the block store with its proofs, the event server, requests, the
WebSocket server, the faucets, what queries compute, the way from bytes to answers, the
in-memory store, start-up, the client library, the wallet; and the proofs of
those that a refinement or an inductive invariant carries.  What is left:

1. The reads of the in-memory store, compared with those of Ledger.
2. A second node process that restarts with an older chain, which re-announces
   blocks at lower heights to both stores.
