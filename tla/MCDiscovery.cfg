SPECIFICATION FairSpec
CONSTANTS
  c1 = c1
  c2 = c2
  c3 = c3
  a = a
  b = b
  m = m
  p = p
  q = q
  n1 = n1
  n2 = n2
  None = None
  Cluster = {c1, c2, c3}
  Name = {a, b, m, p, q}
  Node = {n1, n2}
  Inputs <- MCInputs
INVARIANTS
  TypeOK
  NoReentry
  AllLoaded
  EnabledExist
  BoundByModule
  AutoWanted
  ReadyToPlace
PROPERTIES
  AutoOnce
  Shrinks
  Settles
CHECK_DEADLOCK FALSE
