SPECIFICATION FairSpec
CONSTANTS
  Blocks <- MCBlocks
  Txs <- MCTxs
  Height <- MCHeight
  Parent <- MCParent
  TxsOf <- MCTxsOf
  Batches <- MCBatches
  BatchTxs <- MCBatchTxs
  Undecodable <- MCUndecodable
  MaxQueue = 1
INVARIANTS
  ServerInv
PROPERTIES
  StoreSpec
  EveryMessageAnswered
