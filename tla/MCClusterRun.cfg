SPECIFICATION FairSpec
CONSTANTS
  a = a
  b = b
  c = c
  n1 = n1
  n2 = n2
  Service = {a, b, c}
  Node = {n1, n2}
  Inputs <- MCInputs
INVARIANTS
  TypeOK
  PluginsFirst
  LocalDepsFirst
  NoDeadlock
PROPERTIES
  Isolation
  InOrder
  Served
CHECK_DEADLOCK FALSE
