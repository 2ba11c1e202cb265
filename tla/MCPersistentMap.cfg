SPECIFICATION FairSpec
CONSTANTS
  Node = {n1, n2, n3, n4}
  Key = {k1, k2}
  Val = {v1, v2}
  Absent = Absent
  NoNode = NoNode
  NoKey = NoKey
  NoMap = NoMap
INVARIANTS
  VersionsPersist
  RerootAssumptions
PROPERTIES
  ImplementsVersionedMap
  CallsReturn
