SPECIFICATION Spec
CONSTANTS
  n1 = n1
  n2 = n2
  Nodes <- MCNodes
  Changing <- MCChanging
  Kinds <- MCKinds
  DriverRestartWindow = 1
  DefaultUpgradeStuckAfter = 1
  UpgradeStuckAfter = 0
  EventTTL = 2
  MaxChanges = 2
  MaxLost = 3
  MaxTime = 3
INVARIANTS
  IntendedIsQuiet
  BrokenIsSeen
  LostNodeIsSeen
  LessReadIsNotWorse
CHECK_DEADLOCK FALSE
