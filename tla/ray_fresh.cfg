SPECIFICATION Spec
CONSTANTS
  h = h
  w1 = w1
  w2 = w2
  eth0 = eth0
  docker0 = docker0
  NoEnv = NoEnv
  Head = h
  Nodes <- ThreeNodes
  Env <- TwoEnvs
  EnvMaps <- UniformThree
  ReuseFlags = {FALSE}
  MaxJobs = 2
  MaxTries = 2
  Faults = {"ray_dies", "raylet_dies", "cancel", "killed_in_start"}
INVARIANTS TypeOK IInv NoStaleEnv MembersPrepared
CHECK_DEADLOCK FALSE
