---------------------------- MODULE MCBtcWallet ----------------------------
(***************************************************************************)
(* Two coins that pay for a payment each, one of them a young reward, and  *)
(* a small one that helps out; room for blocks enough to make the change   *)
(* of a payment spendable again.                                           *)
(***************************************************************************)
EXTENDS BtcWallet

MCCoins == {<<"coin", 1>>, <<"coin", 2>>, <<"coin", 3>>}
MCWorth == [c \in MCCoins |-> IF c[2] = 3 THEN 3 ELSE 8]
MCMinedAt == [c \in MCCoins |-> IF c[2] = 2 THEN 2 ELSE 1]
MCCoinbase == {<<"coin", 2>>}

=============================================================================
