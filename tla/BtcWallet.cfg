SPECIFICATION WalletFairSpec
CONSTANTS
  Coins <- MCCoins
  Worth <- MCWorth
  MinedAt <- MCMinedAt
  Coinbase <- MCCoinbase
  Maturity = 4
  Payments = {p1, p2}
  Balances = {b1}
  Amount = 5
  InputFee = 1
  StartHeight = 3
  MaxHeight = 7
INVARIANTS
  RefusedOnlyAfterBlock
  WalletInv
PROPERTIES
  EveryJobEnds
CHECK_DEADLOCK FALSE
