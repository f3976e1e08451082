------------------------------- MODULE MCPipeline -------------------------------
(* Transactions of every type, signed with one key, with several keys, or by a
   sponsor, with no post conditions, with one of each asset, or with three. *)
EXTENDS Pipeline

Single(mode, signer, nonce) == [hashMode |-> mode, signer |-> signer, nonce |-> nonce, fee |-> U64 - 1 - nonce, keys |-> <<>>]

Multi(mode, keys) == [Single(mode, 3, 1) EXCEPT !.keys = keys]

MCAuths == {
  <<Single(0, 3, 0)>>, <<Single(2, 3, U64 - 1), Single(0, 1, 2)>>,
  <<Multi(1, <<0, 2, 3>>), Single(2, 1, 0)>>, <<Multi(3, <<1>>)>>}

UnknownAuth == <<Single(5, 3, 0)>>

Account == <<26, 2>>

Origin == [typeId |-> 1]
Standard == [typeId |-> 2, address |-> Account]
Contract(typeId) == [typeId |-> typeId, address |-> Account, contractName |-> <<7, 8>>]

Asset == [address |-> Account, contractName |-> <<7>>, assetName |-> <<2, 17>>]

Stx(principal, code, amount) ==
  [assetInfoId |-> 0, principal |-> principal, code |-> code, amount |-> amount]

Ft(principal, code, amount) ==
  [assetInfoId |-> 1, principal |-> principal, code |-> code, amount |-> amount, asset |-> Asset]

Nft(principal, code, value) ==
  [assetInfoId |-> 2, principal |-> principal, code |-> code, asset |-> Asset, value |-> value]

MCConditions == {
  <<>>, <<Stx(Origin, 1, 0)>>, <<Stx(Standard, 3, U64 \div 2 - 1)>>, <<Stx(Contract(3), 2, U64 - 1)>>, <<Ft(Contract(3), 5, U64 - 1)>>,
  <<Nft(Standard, 17, <<2, 3, 1, 2, 3>>)>>, <<Nft(Contract(3), 16, <<3>>), Ft(Origin, 2, 1), Stx(Origin, 4, 5)>>}

Transfer(recipient, amount) == [typeId |-> 0, recipient |-> recipient, amount |-> amount, memo |-> <<6, 6>>]

MCPayloads == {
  Transfer([typeId |-> 5, address |-> Account], 0), Transfer(Contract(6), U64 \div 2 - 1),
  Transfer(Contract(6), U64 - 1),
  [typeId |-> 1, name |-> <<5>>, codeBody |-> <<>>], [typeId |-> 1, name |-> <<5>>, codeBody |-> <<1, 2, 3, 4>>],
  [typeId |-> 2, address |-> Account, contractName |-> <<5>>, functionName |-> <<4, 4>>, args |-> <<>>],
  [typeId |-> 2, address |-> Account, contractName |-> <<5>>, functionName |-> <<4, 4>>,
   args |-> << <<4>>, <<1, 9>>, <<2, 0>>, <<2, 2, 7, 7>> >>],
  [typeId |-> 3, header1 |-> <<1, 2, 3, 4>>, header2 |-> <<1, 2, 3, 5>>],
  [typeId |-> 4, payload |-> <<8, 8>>]}

Tx(auth, conditions, payload) ==
  [version |-> 128, auth |-> auth, mode |-> Len(auth), conditions |-> conditions, payload |-> payload]

MCUnknown == {Tx(UnknownAuth, <<>>, [typeId |-> 4, payload |-> <<8, 8>>]),
              Tx(<<Single(0, 3, 0)>>, <<>>, [typeId |-> 6])}

MCTxs == {Tx(a, c, p) : a \in MCAuths, c \in MCConditions, p \in MCPayloads} \cup MCUnknown

(* The contract that is called has its function with fewer arguments
   than the longer call, with as many, not at all, or is one whose deploy was aborted. *)
MCContracts == {[name \in {<<4, 4>>, <<4>>} |-> 1], [name \in {<<4, 4>>} |-> 4], [name \in {<<4>>} |-> 5], <<>>}

MCResults == {[status |-> s, raw_result |-> <<3>>] :
                s \in {"success", "abort_by_response", "abort_by_post_condition"}}

Transferred(type) == [type |-> type, sender |-> <<3>>, recipient |-> <<26>>, value |-> <<0>>]
Minted(type) == [type |-> type, recipient |-> <<26>>, value |-> <<5>>]
Burnt == [type |-> "stx_burn", sender |-> <<3>>, value |-> <<5>>]
Logged == [type |-> "contract_event", value |-> <<1>>]

MCEventLists ==
  {<<>>, <<Transferred("stx_transfer"), Minted("stx_mint"), Burnt>>,
   <<Logged, Transferred("ft_transfer"), Minted("ft_mint")>>,
   <<Minted("nft_mint"), Transferred("nft_transfer"), Logged>>}

=============================================================================
