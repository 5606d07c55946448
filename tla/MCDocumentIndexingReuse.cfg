SPECIFICATION Spec
CONSTANTS
  c1 = c1
  c2 = c2
  bge = bge
  other = other
  Calls = {c1, c2}
  MaxVersion = 2
  Identities = {bge, other}
  MaxStarts = 3
  MaxFaults = 0
SYMMETRY AnyCall
CHECK_DEADLOCK FALSE
PROPERTY
  ReturnedIsActive
