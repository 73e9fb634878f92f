CONSTANTS
  c1 = c1
  c2 = c2
  c3 = c3
  k1 = k1
  k2 = k2
  Call = {c1, c2, c3}
  Key = {k1}
  NoBatch = NoBatch
  KeyOf <- MCOneKey
  LogCount <- MCOne
  LogSize <- MCTwo
  GroupSize <- MCTwo
  MaxBatchSize = 4
  MaxBatchCount = 2
  GroupSizeLimit = 9
  TotalSizeLnBytes = 1
  MaxBlockSec = 1
  MaxIoWorkerCount = 2
  Retries = 1
SPECIFICATION Spec
SYMMETRY MCSymmetry
INVARIANTS TypeOK OnePlace AnsweredOnce AttemptsBounded NoFalseShortage WorkersBounded
PROPERTIES SealedAfterAccumulator QuietAfterSafeClose ImplementsDelivery
