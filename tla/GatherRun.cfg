SPECIFICATION Spec
CONSTANTS
  N = 2
  yaml = yaml
  podlog = podlog
  marker = marker
  report = report
  LogFile = LogFile
  ErrLogFile = ErrLogFile
  Files <- MCFiles
  Markers <- MCMarkers
  Copied <- MCCopied
  Guarded <- MCGuarded
  Stuck <- MCStuck
INVARIANTS
  TypeOK
  NothingUnfinishedIndexed
  CompleteMeansComplete
  PartialMeansEvidence
  ArtifactsAccounted
  DigestsMatch
  RedactedOrGone
  EveryCollectorAnswered
