SPECIFICATION Spec
CONSTANTS
  Specs <- MixedSpecs
  UserEnvs <- NoUserEnv
  MaxRuns = 2
INVARIANTS SmokeApart
CHECK_DEADLOCK FALSE
