SPECIFICATION Spec
CONSTANTS
  Lines <- Order
  Separators = {"scene"}
  Workbenches = {}
  MaxNodes = 2
  MaxTokens = 6
  StartTexts <- Texts
  StartLibrary <- Saved
  StartGroups <- Sets
  GlobalLibrary <- Shared
  Merged = TRUE
  Names = {"K"}
  News = {"z"}
  Bodies <- Entered
  Typed <- Lined
  BatchEdits <- Batch
  Scopes <- Ranges
  StartLineGroups <- Grouped
  LastPreview = 0
  MaxEdits = 2
CHECK_DEADLOCK FALSE
PROPERTIES PreviewTellsTheChange OnlyTargetsChange SwapKeepsTheOthers NothingSaidIsLost
