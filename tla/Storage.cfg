SPECIFICATION FairSpec
CONSTANTS
  Requests = 2
  Callers = {c1}
  c1 = c1
  Images = 2
  PlainHttp = {1}
  Faults = TRUE
INVARIANTS FilesAccounted
PROPERTIES NoCommitAfterCancel SavedIsCertain RetirementSettles
CHECK_DEADLOCK FALSE
