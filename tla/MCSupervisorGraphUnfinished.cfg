SPECIFICATION Spec
CONSTANTS
  None = None
  business = business
  knowledge = knowledge
  Workers <- BothWorkers
  Plans <- SmallPlans
  MaxTasks = 3
  MaxDecisions = 2
  MaxParallel = 2
  MaxResumes = 2
INVARIANT
  UnfinishedContinued
CHECK_DEADLOCK FALSE
