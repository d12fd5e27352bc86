SPECIFICATION FairSpec
CONSTANTS
  Sessions = {1}
  Clients = {1}
  MaxOffers = 2
INVARIANTS RepliesStayPaired
PROPERTIES DisarmedIsRevoked NothingIsLeftBehind
CHECK_DEADLOCK FALSE
