CONSTANTS
  h1 = h1
  Unset = Unset
  Homes = {h1}
  HomePath <- MCHomePath
  Versions <- MCVersions
  BuildTypes <- MCBuildTypes
  NameChoices <- MCNameChoices
  NdkChoices <- MCNdkChoices
  MaxGen = 2
  MaxRuns = 2
  ToolFailures = FALSE
  FailCodes <- MCFailCodes
  ConfigTimeouts = TRUE
  CleanFailures = FALSE
SPECIFICATION Spec
PROPERTY
  ConfigureNonFatal
CHECK_DEADLOCK FALSE
