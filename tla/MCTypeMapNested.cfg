SPECIFICATION Spec
CONSTANTS
  Null = Null
  Offered <- NestedOffered
  Asked <- Nested
INVARIANT FoundIsGiven
