SPECIFICATION Spec
CONSTANTS
  LastCursor = 3
  Data <- MCData
  CursorPosition = "BEGIN_CURSOR"
  AutoCommit = TRUE
  Saves = {"lazy"}
  Resets = TRUE
  ShutdownSaves = FALSE
  ShardMoves = FALSE
  MaxCrashes = 0
PROPERTY FlushedIsProcessed
