SPECIFICATION Spec
CONSTANTS
  NoNode = NoNode
  Flows <- BesideHumanFlow
  MaxIterations = 20
  MaxSteps = 100
  DefaultMaxLoop = 10
  MaxExecs = 1
  MaxResumes = 1
  MaxItems = 2
  Crashes = FALSE
INVARIANT OnlyItsRouteStops
CHECK_DEADLOCK FALSE
