---------------------------- MODULE MCMemoryStore ----------------------------
(***************************************************************************)
(* Three forks, with transactions that are mined on all of them, in other  *)
(* orders and at other heights:                                            *)
(*                                                                         *)
(*      height 1     2      3      4                                       *)
(*             a1 -- a2 t - a3 u - a4 v                                    *)
(*              \       \ - d3 v - d4 u                                    *)
(*               \ - c2 u - c3 t - c4 v                                    *)
(***************************************************************************)
EXTENDS MemoryStore

MCBlocks == {"a1", "a2", "a3", "a4", "c2", "c3", "c4", "d3", "d4"}

MCTxs == {"t", "u", "v"}

MCHeight ==
  [b \in MCBlocks |->
     CASE b = "a1" -> 1
       [] b \in {"a2", "c2"} -> 2
       [] b \in {"a3", "c3", "d3"} -> 3
       [] OTHER -> 4]

MCParent ==
  [b \in MCBlocks |->
     CASE b = "a4" -> "a3"
       [] b = "c4" -> "c3"
       [] b = "d4" -> "d3"
       [] b = "c3" -> "c2"
       [] b \in {"a3", "d3"} -> "a2"
       [] OTHER -> "a1"]

MCTxsOf ==
  [b \in MCBlocks |->
     CASE b \in {"a2", "c3"} -> {"t"}
       [] b \in {"a3", "c2", "d4"} -> {"u"}
       [] b \in {"a4", "c4", "d3"} -> {"v"}
       [] OTHER -> {}]

MCKindsOf ==
  [t \in MCTxs |->
     CASE t = "t" -> <<"ft", "stx">>
       [] t = "u" -> <<"log", "nft">>
       [] OTHER -> <<>>]

MCDeploys == {"u"}

=============================================================================
