----------------------------- MODULE ForkChoice -----------------------------
(***************************************************************************)
(* What the block store promises its readers, whatever the order in which  *)
(* blocks arrive and however often they arrive: the blocks it knows form a *)
(* tree, and exactly one path through that tree, from a block of height 1  *)
(* to the first-seen block of the greatest height, is marked canonical.    *)
(* A commit adds one block.  It moves the canonical path only when the new *)
(* block is higher than every block known so far, and then the path is the *)
(* one that ends in the new block.                                         *)
(***************************************************************************)
EXTENDS Naturals

CONSTANTS
  Blocks,   \* the blocks, one for each index_block_hash
  Height,   \* Height[b]: block_height of b
  Parent    \* Parent[b]: the block whose hash is b's parent_index_block_hash

VARIABLES
  known,      \* the blocks stored
  canonical   \* those of them that carry canonical = true

vars == <<known, canonical>>

(* b may be stored: it starts a chain, or its parent is known one below it. *)
Attaches(b) ==
  Height[b] > 1 => /\ Parent[b] \in known
                   /\ Height[Parent[b]] = Height[b] - 1

(* C is the path from a block of height 1 to t. *)
IsPathTo(C, t) ==
  /\ t \in C
  /\ \A c \in C : Height[c] <= Height[t]
  /\ \A c, d \in C : Height[c] = Height[d] => c = d
  /\ \A c \in C : Height[c] > 1 => /\ Parent[c] \in C
                                   /\ Height[Parent[c]] = Height[c] - 1

Init ==
  /\ known = {}
  /\ canonical = {}

Extends(b) == \A k \in known : Height[k] < Height[b]

Accept(b) ==
  /\ b \notin known
  /\ Attaches(b)
  /\ known' = known \cup {b}
  /\ \/ /\ Extends(b)
        /\ canonical' \in SUBSET known'
        /\ IsPathTo(canonical', b)
     \/ /\ ~Extends(b)
        /\ UNCHANGED canonical

Next == \E b \in Blocks : Accept(b)

Spec == Init /\ [][Next]_vars

=============================================================================
