SPECIFICATION StageSpec
CONSTANTS
  Calls = {c1, c2}
  MaxVersion = 2
  Identities = {bge, other}
  MaxStarts = 3
  MaxFaults = 1
  Requests = {r1, r2}
  Handlers = {h1, h2}
  Processes = {p1, p2}
  Roots = {i1, i2}
  Plans = {a, direct}
  DirectPlans = {direct}
  MaxResumes = 1
  MaxAttempts = 4
  MaxCrashes = 1
SYMMETRY AnyOne
INVARIANTS
  ActiveServed
  OneWorker
  SettledWhenQuiet
  ObjectsMatchRows
PROPERTIES
  ImplementsActiveIndex
  EndedStaysEnded
CHECK_DEADLOCK FALSE
