SPECIFICATION FairSpec
CONSTANTS
  None = None
  business = business
  knowledge = knowledge
  Workers <- BothWorkers
  Plans <- SmallPlans
  MaxTasks = 3
  MaxDecisions = 2
  MaxParallel = 2
  MaxResumes = 2
INVARIANTS
  TypeOK
  StartedAfterDependencies
  NoOrphanedWorker
  ResultsAreStored
  ReferencesCommitted
  OnlyRefusalsLost
PROPERTIES
  CompletedNotRerun
  GraphReturns
CHECK_DEADLOCK FALSE
