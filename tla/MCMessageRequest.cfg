SPECIFICATION StageSpec
CONSTANTS
  p1 = p1
  p2 = p2
  Requests = {r1, r2}
  Handlers = {h1, h2}
  Processes = {p1}
  ProcessOf <- OneProcess
  Roots = {i1, i2}
  Plans = {a, direct}
  DirectPlans = {direct}
  MaxResumes = 1
  MaxAttempts = 2
  MaxCrashes = 1
  Calls = {c1, c2, c3}
  CallProcesses = {p1, p2}
  CallProcessOf <- OneRemote
  remote = c3
  PoolSize = 2
  MaxCalls = 3
  MaxCallCrashes = 1
INVARIANTS
  ThreadMatchesLedger
PROPERTIES
  RunningRootSettles
  CallReturns
CHECK_DEADLOCK FALSE
