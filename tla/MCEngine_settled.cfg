SPECIFICATION FairSpec
CONSTANTS
  NoNode = NoNode
  Flows <- LinearFlows
  MaxIterations = 20
  MaxSteps = 100
  DefaultMaxLoop = 10
  MaxExecs = 2
  MaxResumes = 1
  MaxItems = 2
  Crashes = TRUE
PROPERTIES RequestSettles RequestEnds
CHECK_DEADLOCK FALSE
