CONSTANTS
  StepNames <- GateNames
  Configs <- TwoConfigs
  Floor <- Canonical
  ParallelSafe <- SafeNames
  Resource <- GitUsers
  PoolSize = 2
SPECIFICATION Spec
INVARIANTS ResourceMutex ExclusiveRunsAlone ResultsInOrder FloorHolds
PROPERTY ImplementsGateChain
