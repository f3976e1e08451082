----------------------------- MODULE MCWsClient -----------------------------
(***************************************************************************)
(* Four subscriptions: a transaction written in two ways, an address, and  *)
(* a name that is none.                                                    *)
(***************************************************************************)
EXTENDS WsClient

SharedSubs == {"s1", "s2", "s3", "s4"}
SharedName == [s \in SharedSubs |-> CASE s = "s1" -> "0xT" [] s = "s2" -> "t" [] s = "s3" -> "?" [] s = "s4" -> "a"]
SharedNormal == [n \in {"0xT", "t", "?", "a"} |->
                  CASE n = "?" -> Invalid [] n = "a" -> "a" [] OTHER -> "0xt"]
=============================================================================
