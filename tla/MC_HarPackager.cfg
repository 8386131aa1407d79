CONSTANTS
  BuildType = "profile"
  MaxGen = 2
  MaxRuns = 3
  FsFailures = TRUE
SPECIFICATION Spec
CHECK_DEADLOCK FALSE
PROPERTY
  HarReplacedWhole
