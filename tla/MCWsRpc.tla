------------------------------ MODULE MCWsRpc ------------------------------
(***************************************************************************)
(* Two sockets, one address and one transaction.  Both may subscribe to    *)
(* the address, one to the transaction too.  A block a1 lies beside a fork *)
(* c1 -- c2 whose blocks concern the address and which mines the           *)
(* transaction in c1.                                                      *)
(***************************************************************************)
EXTENDS WsRpc

MCClients == {"x", "y"}
MCAddresses == {"A"}
MCTopics == {BalanceTopic("A"), TxTopic("t")}
MCSetIds == {"s1", "s2", "s3"}

SharedAsks == {<<"x", BalanceTopic("A")>>, <<"y", BalanceTopic("A")>>, <<"y", TxTopic("t")>>}

ForkBlocks == {"a1", "c1", "c2"}
ForkHeight == [b \in ForkBlocks |-> IF b = "c2" THEN 2 ELSE 1]
ForkParent == [b \in ForkBlocks |-> IF b = "c2" THEN "c1" ELSE b]
ForkTxsOf == [b \in ForkBlocks |-> IF b = "c1" THEN {"t"} ELSE {}]
ForkAddressesOf == [b \in ForkBlocks |-> IF b = "a1" THEN {} ELSE {"A"}]

=============================================================================
