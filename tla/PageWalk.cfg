SPECIFICATION WalkSpec
CONSTANTS
  Blocks <- MCBlocks
  Txs <- MCTxs
  Height <- MCHeight
  Parent <- MCParent
  TxsOf <- MCTxsOf
  Standard <- MCStandard
  Contracts <- MCContracts
  Nobody = "nobody"
  Order <- MCOrder
  TxData <- MCTxData
  Messages <- MCMessages
  Announced <- MCAnnounced
  Owner = "A"
  Limit = 1
INVARIANTS
  BalancesHold
  LookupsHold
  ListsHold
  AddressWalkMissesNothing
PROPERTY
  ChangesAreAnnounced
