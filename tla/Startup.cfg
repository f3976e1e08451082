SPECIFICATION FairStart
CONSTANTS
  MaxOutages = 3
  MaxTries = 2
  NodeStates <- MCNodeStates
INVARIANTS
  IInv
PROPERTIES
  ServesAtLast
