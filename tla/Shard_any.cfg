SPECIFICATION Spec
CONSTANTS
  LastCursor = 2
  Data <- MCDense
  CursorPosition = "END_CURSOR"
  AutoCommit = TRUE
  Saves = {"lazy", "force"}
  Resets = TRUE
  ShutdownSaves = TRUE
  ShardMoves = TRUE
  MaxCrashes = 1
INVARIANTS TypeOK ProcessingHasGroups
