SPECIFICATION Spec
CONSTANTS
  Blocks <- MCBlocks
  Txs <- MCTxs
  Height <- MCHeight
  Parent <- MCParent
  TxsOf <- MCTxsOf
INVARIANT MinedNotPending
