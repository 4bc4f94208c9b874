SPECIFICATION Spec
CONSTANTS
  k1 = k1
  k2 = k2
  Client = {c1, c2}
  Key = {k1, k2}
  Value = {v1, v2}
  NoValue = NoValue
  Arguments <- MCArguments
  Missing = Missing
  Broken = Broken
  Unknown = Unknown
INVARIANT TypeOK
PROPERTIES
  Promise
  MixedByOverlap
