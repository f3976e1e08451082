------------------------------ MODULE PageWalk ------------------------------
(***************************************************************************)
(* A client that goes through a list page by page, with limit and offset,  *)
(* while blocks are committed (routes/tx.ts, address.ts, getTxList and     *)
(* getAddressTxs of postgres-store.ts).  getTxList counts the list by one  *)
(* query and reads the page by another; getAddressTxs has the count with   *)
(* the rows of one.                                                        *)
(***************************************************************************)
EXTENDS Ledger

CONSTANTS
  Owner,  \* the principal whose transactions are listed
  Limit   \* the limit of every page

ASSUME PageWalkAssumption == Owner \in Addresses /\ Limit \in Nat \ {0}

VARIABLE walk  \* of: "txs", or "address" for the transactions of Owner; pc; and see Begin

NoWalk ==
  [of |-> "txs", pc |-> "done", offset |-> 0, total |-> 0,
   list |-> {}, seen |-> {}, grew |-> TRUE]

List(of) == IF of = "address" THEN AddressTxRows(Owner) ELSE Mined

CountsWithRows_Never(of) == FALSE

(* The total is a window count over the rows of the page query. *)
CountsWithRows(of) == of = "address"

FirstQuery(of) == IF CountsWithRows(of) THEN "page" ELSE "total"

WalkInit == Init /\ walk = NoWalk

(* list is what the list held when the client began, seen what it was shown,
   and grew tells that no transaction has left the list before the client ended. *)
Begin ==
  /\ walk.pc = "done"
  /\ \E of \in {"txs", "address"} :
       walk' = [NoWalk EXCEPT !.of = of, !.pc = FirstQuery(of), !.list = List(of)]
  /\ UNCHANGED vars

QueryTotal ==
  /\ walk.pc = "total"
  /\ walk' = [walk EXCEPT !.total = Cardinality(List(walk.of)), !.pc = "page"]
  /\ UNCHANGED vars

(* The client stops where the total says that the list ends; without a row
   there is no count with it. *)
QueryPage ==
  /\ walk.pc = "page"
  /\ LET page  == Page(TxsNewestFirst(List(walk.of)), Limit, walk.offset)
         total == IF ~CountsWithRows(walk.of) THEN walk.total
                  ELSE IF page = <<>> THEN 0 ELSE Cardinality(List(walk.of))
         seen  == walk.seen \cup {page[k] : k \in DOMAIN page}
         next  == walk.offset + Limit
     IN  walk' = IF next >= total
                 THEN [walk EXCEPT !.pc = "done", !.total = total, !.seen = seen]
                 ELSE [walk EXCEPT !.pc = FirstQuery(walk.of), !.total = total,
                                   !.seen = seen, !.offset = next]
  /\ UNCHANGED vars

(* Where no client is on its way, a commit is nothing to a walk. *)
Commit ==
  /\ LedgerNext
  /\ walk' = IF walk.pc = "done" THEN walk
             ELSE [walk EXCEPT !.grew =
               @ /\ \A of \in {"txs", "address"} : walk.of = of => List(of) \subseteq List(of)']

WalkNext == Begin \/ QueryTotal \/ QueryPage \/ Commit

WalkSpec == WalkInit /\ [][WalkNext]_<<vars, walk>>

-----------------------------------------------------------------------------
(***************************************************************************)
(* Properties.                                                             *)
(***************************************************************************)

(* No client has begun.  A client changes no table and a commit leaves NoWalk
   alone, so the tables are in every state they can be in, on either fork and
   however often the chain was reorganised, with no client about.  What is said
   of the tables alone is looked at there, once for each state of them.  *)
AtRest == walk = NoWalk

(* The sums that the queries add up are those of a replay of the chain of
   parent hashes, after any reorganisations.  postgres-store.ts:1507-1550, 1654-1739. *)
BalancesHold == AtRest => BalancesAreReplayed

(* The lists have one order, a call is shown with the contract of its chain,
   search finds an address, after any reorganisations.
   postgres-store.ts:1438-1443, 1885-1936. *)
LookupsHold == AtRest => LookupsAgree

(* The pages of the lists make the lists of the chain that is now the longest,
   and the events of a transaction are in order.
   postgres-store.ts:1166-1317, 1461-1505, 1552-1775. *)
ListsHold == AtRest => ListsAgree

(* At every commit by which the chain grows, also after forks, whoever reads
   something else is told.  postgres-store.ts:367-430. *)
ChangesAreAnnounced == [][AtRest => TellsWhoChanged]_vars

MissesNothing(of) ==
  walk.pc = "done" /\ walk.of = of /\ walk.grew => walk.list \subseteq walk.seen

(* While the transactions of a principal only become more, at the front of the
   list, a client that asks for pages until the total may be shown one twice,
   but misses none that was there when it began.  postgres-store.ts:1742-1775. *)
AddressWalkMissesNothing == MissesNothing("address")

=============================================================================
