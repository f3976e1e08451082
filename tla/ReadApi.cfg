SPECIFICATION ReadSpec
CONSTANTS
  Blocks <- MCBlocks
  Txs <- MCTxs
  Height <- MCHeight
  Parent <- MCParent
  TxsOf <- MCTxsOf
INVARIANTS
  FoundIfKnown
  ReadInv
