CONSTANTS
  a = a
  b = b
  s1 = s1
  s2 = s2
  Nobody = Nobody
  Consumer = {a}
  Shard = {s1, s2}
  MaxMoves = 1
SPECIFICATION FairSpec
INVARIANTS TypeOK QuietAfterStop
PROPERTIES ReleasedWhenComplete HeldIsConsumed TakenIsReleased StopReturns
