SPECIFICATION Spec
CONSTANTS
  h = h
  w1 = w1
  w2 = w2
  eth0 = eth0
  docker0 = docker0
  NoEnv = NoEnv
  Head = h
  Nodes <- TwoNodes
  Env <- TwoEnvs
  EnvMaps <- UniformTwo
  ReuseFlags = {FALSE}
  MaxJobs = 1
  MaxTries = 3
  Faults = {}
PROPERTIES AlarmOnOldRay
CHECK_DEADLOCK FALSE
