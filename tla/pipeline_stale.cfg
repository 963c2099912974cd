SPECIFICATION Spec
CONSTANTS
  Specs <- CachedSpecs
  UserEnvs <- NoUserEnv
  MaxRuns = 2
INVARIANTS HandoffFresh
CHECK_DEADLOCK FALSE
