SPECIFICATION BundleSpec
CONSTANTS
  n1 = n1
  Nodes <- MCNodes
  Changing <- MCChanging
  Kinds <- MCKinds
  Asking = {"validator"}
  DriverRestartWindow = 1
  DefaultUpgradeStuckAfter = 1
  UpgradeStuckAfter = 0
  EventTTL = 2
  MaxLost = 0
  MaxChanges = 2
  MaxTime = 3
  MaxTrouble = 2
INVARIANTS
  GapIsReadAsGap
  TornKeepsAlarms
  BundleAgrees
CHECK_DEADLOCK FALSE
