SPECIFICATION Spec
CONSTANTS
  LastCursor = 3
  Data <- MCData
  CursorPosition = "BEGIN_CURSOR"
  AutoCommit = TRUE
  Saves = {"no", "lazy", "force"}
  Resets = FALSE
  ShutdownSaves = FALSE
  ShardMoves = TRUE
  MaxCrashes = 1
INVARIANTS NoDataLoss FetchedIsKept
PROPERTIES ImplementsConsumption
