----------------------------- MODULE MCReadApi -----------------------------
(* a1, and b1 -- b2, which overtakes it; t is in a1 and b2, so it can be
   pending, mined, orphaned, and mined again while it is still in an orphaned
   block. *)
EXTENDS ReadApi

MCBlocks == {"a1", "b1", "b2"}
MCTxs == {"t"}
MCHeight == [b \in MCBlocks |-> IF b = "b2" THEN 2 ELSE 1]
MCParent == [b \in MCBlocks |-> IF b = "a1" THEN "a1" ELSE "b1"]
MCTxsOf == [b \in MCBlocks |-> IF b \in {"a1", "b2"} THEN {"t"} ELSE {}]

=============================================================================
