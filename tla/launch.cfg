SPECIFICATION FairSpec
CONSTANTS
  h = h
  w1 = w1
  w2 = w2
  HeadNode = h
  Nodes <- ThreeNodes
  Configs <- GridConfigs
  SharedFS = TRUE
  MaxJobs = 2
INVARIANTS TypeOK ResolvedWorld SeedWhole ExportComplete
PROPERTIES JobEnds RayJobEnds
CHECK_DEADLOCK FALSE
