SPECIFICATION Spec
CONSTANTS
  c1 = c1
  c2 = c2
  a = a
  b = b
  n1 = n1
  n2 = n2
  Cluster = {c1, c2}
  Name = {a, b}
  Node = {n1, n2}
  Inputs <- MCInputs
INVARIANT AutoAlwaysCoLocated
CHECK_DEADLOCK FALSE
