------------------------------ MODULE MCFaucet ------------------------------
(* A limit of two payments in a window of one tick, its two ends
   included; time for two windows, and one that overlaps both. *)
EXTENDS Faucet

MCAddresses == {"A"}

=============================================================================
