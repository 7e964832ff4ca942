SPECIFICATION Spec
CONSTANTS
  op = op
  drv1 = drv1
  drv2 = drv2
  n1 = n1
  n2 = n2
  Scenarios <- MCScenarios
  N = 4
  Pods <- MCPods
  OperatorPods <- TheOperator
  DriverPods <- TheDrivers
  NodeOf <- MCNodeOf
  WantedNode = n1
  MaxFaults = 1
INVARIANTS
  TypeOK
  GapIsSaid
  CompleteHasEvidence
  OneListPerBundle
  RefusedExecIsReported
PROPERTIES
  GatherRunSpec
