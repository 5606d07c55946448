SPECIFICATION Spec
CONSTANTS
  root = root
  c1 = c1
  c2 = c2
  t1 = t1
  t2 = t2
  e1 = e1
  e2 = e2
  e3 = e3
  s1 = s1
  RootId = root
  ChildIds <- MCChildren
  TaskIds <- MCTasks
  EvidenceIds <- MCEvidence
  Signatures = {s1}
  RootLimits <- MCRootLimits
  WorkerLimits <- MCWorkerLimits
  Restores <- MCRestores
  MaxUnits = 2
  MaxClock = 3
INVARIANTS
  NoOverbooking
  SpentStaysSpent
  EvidenceGrantHonoured
  RepeatedCallsBounded
\* The tree is passive: when every child is closed and time is up nothing moves.
CHECK_DEADLOCK FALSE
