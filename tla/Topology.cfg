SPECIFICATION Spec
CONSTANTS
  TierNumber <- MCTierNumber
  Nodes <- MCNodes
  Sliced <- MCSliced
  GPUs <- MCGPUs
  Pods = {1, 2}
  SpecOf <- MCSpecOf
  Jobs <- MCJobs
  Place <- MCPlace
  Wearings <- MCWearings
  Narrower <- MCNarrower
  Topologies <- MCTopologies
  Flavors <- MCFlavors
  MaxChanges = 2
INVARIANTS
  FitIsExact
  SmallestIsNarrowest
  ExitTells
