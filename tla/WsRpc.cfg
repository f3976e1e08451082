SPECIFICATION WsSpec
CONSTANTS
  Blocks <- ForkBlocks
  Txs = {"t"}
  Height <- ForkHeight
  Parent <- ForkParent
  TxsOf <- ForkTxsOf
  Clients <- MCClients
  Addresses <- MCAddresses
  AddressesOf <- ForkAddressesOf
  Topics <- MCTopics
  Asks <- SharedAsks
  SetIds <- MCSetIds
  MaxJobs = 1
INVARIANTS
  SubscriptionInv
  KeptSetIsFresh
  ToldIsCurrent
