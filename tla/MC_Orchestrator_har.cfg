CONSTANTS
  h1 = h1
  Unset = Unset
  Homes = {h1}
  HomePath <- MCHomePath
  Versions <- MCVersions
  BuildTypes <- MCBuildTypes
  NameChoices <- MCNameChoices
  NdkChoices <- MCNdkChoices
  MaxGen = 2
  MaxRuns = 2
  ToolFailures = FALSE
  FailCodes <- MCFailCodes
  ConfigTimeouts = FALSE
  CleanFailures = FALSE
SPECIFICATION Spec
PROPERTY
  HarHoldsBuiltLibrary
CHECK_DEADLOCK FALSE
