------------------------------ MODULE MCPageWalk ----------------------------
(***************************************************************************)
(* a1 -- a2 -- a3 -- a4 and a1 -- c2 -- c3: the second fork may overtake   *)
(* the first and be overtaken again.  Both deploy a contract k, each by a  *)
(* transaction of its own, and mine the call x to it; the token n1 moves   *)
(* on both.  A client may begin while a1 is the chain and go on through    *)
(* a2, c2 or a reorganisation.                                             *)
(***************************************************************************)
EXTENDS PageWalk

MCBlocks == {"a1", "a2", "a3", "a4", "c2", "c3"}
MCTxs == {"m", "d", "e", "x", "p"}
MCHeight ==
  [b \in MCBlocks |-> CASE b = "a1" -> 1 [] b \in {"a2", "c2"} -> 2
                        [] b \in {"a3", "c3"} -> 3 [] b = "a4" -> 4]

MCParent ==
  [b \in MCBlocks |-> CASE b = "c3" -> "c2" [] b = "a3" -> "a2" [] b = "a4" -> "a3" [] OTHER -> "a1"]

MCOrder ==
  [b \in MCBlocks |->
     CASE b = "a1" -> <<"m">> [] b = "a2" -> <<"d", "x">> [] b = "a3" -> <<>> [] b = "a4" -> <<"p">>
       [] b = "c2" -> <<"e">> [] b = "c3" -> <<"x", "p">>]

MCTxsOf == [b \in MCBlocks |-> {MCOrder[b][i] : i \in DOMAIN MCOrder[b]}]

MCStandard == {"A", "B", "S"}
MCContracts == {"k"}

Tx(sender, fee, type, target) ==
  [sender |-> sender, fee |-> fee, type |-> type, target |-> target]

MCTxData ==
  [t \in MCTxs |->
     CASE t = "m" -> Tx("A", 1, "transfer", "A")
       [] t = "d" -> Tx("A", 1, "deploy", "k")
       [] t = "e" -> Tx("A", 2, "deploy", "k")
       [] t = "x" -> Tx("B", 1, "call", "k")
       [] t = "p" -> Tx("A", 1, "transfer", "B")]

Ev(tx, kind, from, to, asset, amount, token) ==
  [tx |-> tx, kind |-> kind, from |-> from, to |-> to, asset |-> asset,
   amount |-> amount, token |-> token]

Stx(tx, from, to, amount) == Ev(tx, "stx", from, to, "stx", amount, "none")
Ft(tx, from, to, amount) == Ev(tx, "ft", from, to, "gold", amount, "none")
Nft(tx, from, to, token) == Ev(tx, "nft", from, to, "cards", 0, token)
Log(tx) == Ev(tx, "log", "nobody", "nobody", "k", 0, "none")

MCMessages ==
  [b \in MCBlocks |->
     CASE b = "a1" -> <<Stx("m", "nobody", "A", 9), Ft("m", "nobody", "A", 5),
                        Nft("m", "nobody", "A", "n1")>>
       [] b = "a2" -> <<Log("d"), Nft("x", "A", "B", "n1"), Stx("x", "B", "k", 2),
                        Stx("d", "A", "nobody", 1), Log("x")>>
       [] b = "a3" -> <<>>
       [] b = "a4" -> <<Stx("p", "A", "B", 4)>>
       [] b = "c2" -> <<Nft("e", "nobody", "S", "n2"), Log("e"), Log("e")>>
       [] b = "c3" -> <<Ft("x", "A", "B", 3), Nft("x", "A", "S", "n1"), Log("x"),
                        Stx("p", "A", "B", 4)>>]

MCAnnounced == {"e"}

=============================================================================
