SPECIFICATION FairSpec
CONSTANTS
  N = 2
  MaxReads = 1
  MaxOutputs = 2
INVARIANTS FileTellsSends
PROPERTIES SendsInOrder NobodyHangs
CHECK_DEADLOCK FALSE
