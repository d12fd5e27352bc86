SPECIFICATION FairSpec
CONSTANTS
  Threads = {"a", "b"}
  MaxSize = 2
  Limit = 3
  Shared = 3
  Free = 5
  Retained = 1
  Revisions = 2
  Worlds <- Surroundings
INVARIANTS BooksHold OwnWritesAreNotForeign
PROPERTIES CloseReturns
CHECK_DEADLOCK FALSE
