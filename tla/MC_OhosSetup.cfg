CONSTANTS
  r1 = r1
  r2 = r2
  f1 = f1
  f2 = f2
  f3 = f3
  f5 = f5
  Repos = {r1, r2}
  Files = {f1, f2, f3, f5}
  RepoOf <- MCRepoOf
  Tracked <- MCTracked
  Config <- MCConfig
  EditTag <- MCEditTag
  UseStash = TRUE
  MaxRuns = 2
  StashOutcomes = {"ok", "addFailed", "stashFailed"}
  CmdTimeouts = TRUE
SPECIFICATION Spec
INVARIANTS
  TypeOK
  NoLostEdits
PROPERTIES
  RunConvergence
  NoSilentSkip
  RunRefined
CHECK_DEADLOCK FALSE
