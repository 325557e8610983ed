SPECIFICATION AuditSpec
CONSTANTS
  NoNode = NoNode
  Flows <- WellFormedFlows
  MaxIterations = 12
  MaxSteps = 12
  DefaultMaxLoop = 10
  MaxExecs = 2
  MaxResumes = 2
  MaxItems = 2
  Crashes = TRUE
INVARIANTS TypeOK StateMatchesData HumanGate FreshInputs NoStarvedJoin LoopBodyBounded StepBudget
PROPERTIES FailedAnswerCanBeRetried LifecycleSpec SomeBranchExecutes OneBranchOnly
CHECK_DEADLOCK FALSE
