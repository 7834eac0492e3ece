SPECIFICATION AmountsSpec
CHECK_DEADLOCK FALSE
CONSTANTS
  Bits = 13
  Unit = 100
  Rate = 10
  Digits = 5
  Scale = 3
  MinPrice = 110
  MaxPrice = 150
  Steps = 4
INVARIANTS BalancesAtScale
