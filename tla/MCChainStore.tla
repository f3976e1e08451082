---------------------------- MODULE MCChainStore ----------------------------
(***************************************************************************)
(* A block tree for the block store, small enough to be delivered in every *)
(* order, with repetitions:                                                *)
(*                                                                         *)
(*      height 1     2     3     4                                         *)
(*             a1 -- a2 -- a3                                              *)
(*              \ -- c2 -- c3 -- c4                                        *)
(*             b1 -- b2                                                    *)
(*             s3: claims height 3, but its parent a1 has height 1         *)
(*                                                                         *)
(* Two forks that can overtake each other, a reorganisation two blocks     *)
(* deep, a second chain with a root of its own, and a block that must be   *)
(* refused.                                                                *)
(***************************************************************************)
EXTENDS ChainStore

MCBlocks == {"a1", "a2", "a3", "b1", "b2", "c2", "c3", "c4", "s3"}

MCTxs == {"t", "u"}

MCHeight ==
  [b \in MCBlocks |->
     CASE b \in {"a1", "b1"}       -> 1
       [] b \in {"a2", "b2", "c2"} -> 2
       [] b \in {"a3", "c3", "s3"} -> 3
       [] b = "c4"                 -> 4]

MCParent ==
  [b \in MCBlocks |->
     CASE b \in {"a1", "a2", "c2", "s3"} -> "a1"
       [] b \in {"b1", "b2"}             -> "b1"
       [] b = "a3"                       -> "a2"
       [] b = "c3"                       -> "c2"
       [] b = "c4"                       -> "c3"]

(* t is mined on both forks at different heights, u on the c fork and on b2. *)
MCTxsOf ==
  [b \in MCBlocks |->
     CASE b = "a2"         -> {"t"}
       [] b = "c3"         -> {"t"}
       [] b \in {"c2", "b2"} -> {"u"}
       [] OTHER            -> {}]

=============================================================================
