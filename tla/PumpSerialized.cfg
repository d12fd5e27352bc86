SPECIFICATION FairSpec
CONSTANTS
  MaxWakeRetry = 2
  r1 = r1
  Runs = {r1}
  Targets = {0, 1}
  FastReruns = FALSE
  Timeout = 2
  ResultWait = 3
  MaxTime = 4
  MaxEpochs = 3
  MaxRequests = 2
INVARIANTS RepliesAreCurrent
PROPERTIES DeliveryIsCurrent ImplementsRequestSlot UnclaimedIsResolved
CHECK_DEADLOCK FALSE
