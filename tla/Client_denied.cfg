CONSTANTS
  c1 = c1
  c2 = c2
  Caller <- Callers
  Flush = flush
  MaxEpoch = 2
  MaxTryTimes = 3
  FetchTries = 2
SPECIFICATION Spec
PROPERTY
  RetriedWithNewToken
