SPECIFICATION Spec
CONSTANTS
  h = h
  w1 = w1
  w2 = w2
  HeadNode = h
  Nodes <- TwoNodes
  Configs <- SlimeConfigs
  SharedFS = FALSE
  MaxJobs = 1
INVARIANTS RayReaches
CHECK_DEADLOCK FALSE
