CONSTANTS
  Candidates <- MCCandidates
  NdkRoots <- MCNdkRoots
  Requests <- MCRequests
  MaxRuns = 2
  MaxMinute = 1
SPECIFICATION Spec
CHECK_DEADLOCK FALSE
INVARIANTS
  PrimaryHasNoDebugArtifacts
  Zip2Partitions
