----------------------------- MODULE MCStartup -----------------------------
(* Three outages: one while the process waits, one between its loop and its
   servers, one when it is ready. *)
EXTENDS Startup

MCNodeStates == {"down", "up", "hung"}
=============================================================================
