SPECIFICATION FollowSpec
CONSTANTS
  Blocks <- MCBlocks
  Txs <- MCTxs
  Height <- MCHeight
  Parent <- MCParent
  TxsOf <- MCTxsOf
  KindsOf <- MCKindsOf
  Deploys <- MCDeploys
INVARIANTS
  MemoryInv
  TxsFollowBlocks
PROPERTIES
  LastDeliveredSpec
