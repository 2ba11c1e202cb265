SPECIFICATION GraphSpec
CONSTANTS
  ConcIds <- Ids
  Named = {list}
INVARIANT FindsPresent
