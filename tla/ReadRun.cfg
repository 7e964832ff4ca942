SPECIFICATION Spec
CONSTANTS
  n1 = n1
  n2 = n2
  info_rule = info_rule
  gated_rule = gated_rule
  Nodes <- MCNodes
  Ghost = ghost
  Rules <- MCRules
  Severity <- MCSeverity
  Gated <- MCGated
  FailOn <- MCFailOn
  MaxFound = 1
  MaxChurn = 1
SYMMETRY MCSymmetry
INVARIANTS
  TypeOK
  CleanMeansSeen
  FailureIsExitError
  MissedIsSaid
  UsageIsCertain
  OneMoment
CHECK_DEADLOCK FALSE
