---------------------------- MODULE LastDelivered ----------------------------
(***************************************************************************)
(* What the in-memory store promises while its node announces only blocks  *)
(* that build on the chain it shows: the canonical blocks are the path to  *)
(* one block, and a new block makes them the path to itself, however many  *)
(* blocks that orphans.  ForkChoice, which PgDataStore implements, keeps   *)
(* the first chain of the greatest height instead.                         *)
(***************************************************************************)
EXTENDS Naturals

CONSTANTS Blocks, Height, Parent

VARIABLE canonical

(* C is the path from a block of height 1 to t. *)
IsPathTo(C, t) ==
  /\ t \in C
  /\ \A c \in C : Height[c] <= Height[t]
  /\ \A c, d \in C : Height[c] = Height[d] => c = d
  /\ \A c \in C : Height[c] > 1 => /\ Parent[c] \in C
                                   /\ Height[Parent[c]] = Height[c] - 1

Init == canonical = {}

Accept(b) ==
  /\ b \notin canonical
  /\ canonical' \in SUBSET (canonical \cup {b})
  /\ IsPathTo(canonical', b)

Next == \E b \in Blocks : Accept(b)

Spec == Init /\ [][Next]_canonical

=============================================================================
