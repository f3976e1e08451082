--------------------------- MODULE MCEventServer ---------------------------
(***************************************************************************)
(* Two chains, the second of which overtakes the first; a block the parser *)
(* refuses, and its child, which therefore never finds its parent; a batch *)
(* of two transactions, both of which are mined, and one that is refused.  *)
(*                                                                         *)
(*      height 1     2                                                     *)
(*             a1                                                          *)
(*             b1 -- b2                                                    *)
(*             p1 -- q2      (p1 is refused)                               *)
(***************************************************************************)
EXTENDS EventServer

MCBlocks == {"a1", "b1", "b2", "p1", "q2"}

MCTxs == {"t", "u"}

MCHeight == [b \in MCBlocks |-> IF b \in {"b2", "q2"} THEN 2 ELSE 1]

MCParent == [b \in MCBlocks |-> CASE b = "b2" -> "b1" [] b = "q2" -> "p1" [] OTHER -> b]

MCTxsOf ==
  [b \in MCBlocks |-> CASE b \in {"a1", "b2"} -> {"t"} [] b = "b1" -> {"u"} [] OTHER -> {}]

MCBatches == {"m", "x"}

MCBatchTxs == [m \in MCBatches |-> IF m = "m" THEN <<"t", "u">> ELSE <<"u">>]

MCUndecodable == {"p1", "x"}

=============================================================================
