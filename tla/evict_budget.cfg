SPECIFICATION FairSpec
CONSTANTS
  v1 = v1
  v2 = v2
  v3 = v3
  Video <- MCVideo
  Size <- MCSize
  High = 2
  Low = 1
  MaxPresses = 2
  MaxFaults = 1
CHECK_DEADLOCK FALSE
PROPERTY OverBudgetIsSwept
