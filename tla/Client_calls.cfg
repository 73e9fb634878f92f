CONSTANTS
  Entry <- AllEntries
  MaxTryTimes = 3
  MaxPolls = 2
SPECIFICATION FairSpec
INVARIANTS
  TypeOK
  NilMeansDone
  BodiesAreClosed
  UnknownFateIsNotRepeated
  UnauthorizedIsRetried
  WorkersSurvive
PROPERTY
  CallReturns
