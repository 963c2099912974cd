SPECIFICATION Spec
CONSTANTS
  h = h
  w1 = w1
  w2 = w2
  eth0 = eth0
  docker0 = docker0
  NoEnv = NoEnv
  Head = h
  Nodes <- TwoNodes
  Env <- TwoEnvs
  EnvMaps <- UniformTwo
  ReuseFlags = {FALSE, TRUE}
  MaxJobs = 2
  MaxTries = 3
  Faults = {"ray_dies"}
PROPERTIES ReuseMeansJoined
CHECK_DEADLOCK FALSE
