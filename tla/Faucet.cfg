SPECIFICATION Spec
CONSTANTS
  Addresses <- MCAddresses
  Limit = 2
  Window = 1
  MaxTime = 3
  MaxPaid = 4
INVARIANTS
  IInv
  RecordedWithinLimit
  StxPaidIsRecorded
