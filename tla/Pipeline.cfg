SPECIFICATION PipeSpec
CONSTANTS
  Txs <- MCTxs
  Digit = 4
  Results <- MCResults
  EventLists <- MCEventLists
  Contracts <- MCContracts
INVARIANTS
  DecodedAsSent
  AnsweredAsSent
  AnsweredAsAnnounced
PROPERTY
  MiningOnlyAdds
CHECK_DEADLOCK FALSE
