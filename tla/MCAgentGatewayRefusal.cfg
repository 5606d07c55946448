SPECIFICATION Spec
SYMMETRY SameProcess
CONSTANTS
  r1 = r1
  r2 = r2
  r3 = r3
  h1 = h1
  h2 = h2
  p1 = p1
  p2 = p2
  i1 = i1
  i2 = i2
  a = a
  b = b
  direct = direct
  Requests = {r1, r2}
  Handlers = {h1, h2}
  Processes = {p1}
  ProcessOf <- OneProcess
  Roots = {i1, i2}
  Plans = {a, direct}
  DirectPlans = {direct}
  MaxResumes = 1
  MaxAttempts = 3
  MaxCrashes = 1
INVARIANTS
  IdleRootSettled
CHECK_DEADLOCK FALSE
