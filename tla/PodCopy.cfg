SPECIFICATION Spec
CONSTANTS
  NPods = 3
  Size = 3
  SilentExec <- First
  SilentCopy <- Second
INVARIANTS
  TypeOK
  SettledIsWhole
PROPERTIES
  EveryPodSettled
