SPECIFICATION Spec
CONSTANTS
  Lines = {1, 2}
  SceneOf <- Two
  Names = {1, 2}
  Contents = {1, 2}
  MaxSuffix = 3
  Tries = 2
  Gone = Gone
  Partial = Partial
  NoPath = NoPath
  StartProjects <- Projects
  StartForks <- Trees
  StartFiles <- Disks
  Users <- Work
PROPERTY AppendKeepsTheFork
CHECK_DEADLOCK FALSE
