SPECIFICATION Spec
CONSTANTS
  n1 = n1
  n2 = n2
  n3 = n3
  foreign = foreign
  rack = rack
  zone = zone
  w1 = w1
  w2 = w2
  None = None
  Undefined = Undefined
  Crash = Crash
  Node = {n1, n2, n3}
  Id = {n1, n2, n3, foreign}
  Tag = {rack, zone}
  Word = {w1, w2}
  Depth <- MCDepth
  Inputs <- MCInputs
INVARIANTS
  TypeOK
  UnionOfMeanings
  HandedOver
  DefaultSettlesOnlyOpen
  AcceptedResolves
CHECK_DEADLOCK FALSE
