CONSTANTS
  c1 = c1
  c2 = c2
  Caller <- Callers
  Flush = flush
  MaxEpoch = 2
  MaxTryTimes = 2
  FetchTries = 2
SPECIFICATION FairSpec
INVARIANTS
  TypeOK
  PairKept
PROPERTIES
  HandsOutCurrent
  CallsReturn
  TokenRecovers
  FlushEnds
