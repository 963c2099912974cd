SPECIFICATION Spec
CONSTANTS
  N = 2
  MaxShuffles = 3
  Perm <- Shuffles
  Tokens <- Glyphs
  Data <- Dataset
  Completions <- Texts
  SMOKES <- SmokeRows
  SKIP <- Walls
  PREFLIGHT_IMAGES <- Untested
  KnownState <- ImageStates
  Torches <- SomeTorches
  Devices <- SomeDevices
  NoCluster = NoCluster
  MaxSweeps = 2
  MaxFaults = 2
INVARIANTS StreamTypeOK ReplaysSame EpochOnce TaskTypeOK ScoresAgree ObedienceCounts
INVARIANTS SweepTypeOK PassEarned GateRespected NoDeadTraining SerialLaunches
PROPERTIES AllDown
CHECK_DEADLOCK FALSE
