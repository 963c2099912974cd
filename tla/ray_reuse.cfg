SPECIFICATION FairSpec
CONSTANTS
  h = h
  w1 = w1
  w2 = w2
  eth0 = eth0
  docker0 = docker0
  NoEnv = NoEnv
  Head = h
  Nodes <- TwoNodes
  Env <- TwoEnvs
  EnvMaps <- AnyTwo
  ReuseFlags = {FALSE, TRUE}
  MaxJobs = 3
  MaxTries = 2
  Faults = {"ray_dies", "raylet_dies", "cancel"}
INVARIANTS MarkerHonest ReuseKeepsEnv MarkerInv
PROPERTIES BootEnds
CHECK_DEADLOCK FALSE
