CONSTANTS
  h1 = h1
  Unset = Unset
  Homes = {h1}
  HomePath <- MCHomePath
  Versions <- MCVersions
  BuildTypes <- MCBuildTypes
  NameChoices <- MCNameChoices
  NdkChoices <- MCNdkChoices
  MaxGen = 2
  MaxRuns = 2
  ToolFailures = TRUE
  FailCodes <- MCFailCodes
  ConfigTimeouts = TRUE
  CleanFailures = TRUE
SPECIFICATION Spec
PROPERTY
  SuccessMeansBuilt
  MatrixRefined
CHECK_DEADLOCK FALSE
