SPECIFICATION Spec
CONSTANTS
  Start <- Two
  Images = {1, 2, 3}
  MaxId = 9
  HistoryLimit = 2
  Failures = 1
  Sessions <- Busy
INVARIANT DeletionIsExplained
PROPERTIES ScenesStayWhole AppliesWhatWasReviewed NoMainImageIsLost
CHECK_DEADLOCK FALSE
