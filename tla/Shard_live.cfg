SPECIFICATION FairSpec
CONSTANTS
  LastCursor = 3
  Data <- MCData
  CursorPosition = "BEGIN_CURSOR"
  AutoCommit = TRUE
  Saves = {"lazy", "force"}
  Resets = FALSE
  ShutdownSaves = FALSE
  ShardMoves = FALSE
  MaxCrashes = 1
PROPERTIES ShutdownSavesAll ShutdownCompletes DataIsProcessed SavedReachesService
