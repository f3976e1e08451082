SPECIFICATION FairSpec
CONSTANTS
  Blocks <- MCBlocks
  Txs <- MCTxs
  Height <- MCHeight
  Parent <- MCParent
  TxsOf <- MCTxsOf
INVARIANTS
  IInv
  OneCanonicalChain
  EntitiesFollowBlocks
  RowsInsertedOnce
PROPERTIES
  MinedLeavesMempool
  OnlyMinedLeavesMempool
  RedeliveryChangesNothing
  ForkChoiceSpec
  UpdateTerminates
