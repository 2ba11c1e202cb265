SPECIFICATION FairSpec
CONSTANTS
  e1 = e1
  e2 = e2
  e3 = e3
  e4 = e4
  Node = {n1, n2, n3}
  Elem <- MCElem
  Out = Out
  NoNode = NoNode
  NoElem = NoElem
  NoForest = NoForest
  InitialForests <- MCInitialForests
INVARIANTS
  VersionsPersist
  LookupsSucceed
  ClassListIsClass
  HeightsAreLogarithmic
PROPERTIES
  ImplementsVersionedPartition
  CallsReturn
