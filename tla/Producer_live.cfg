CONSTANTS
  c1 = c1
  c2 = c2
  c3 = c3
  k1 = k1
  k2 = k2
  Call = {c1, c2}
  Key = {k1, k2}
  NoBatch = NoBatch
  KeyOf <- MCOneKey
  LogCount <- MCOne
  LogSize <- MCTwo
  GroupSize <- MCTwo
  MaxBatchSize = 2
  MaxBatchCount = 2
  GroupSizeLimit = 9
  TotalSizeLnBytes = 1
  MaxBlockSec <- MCForever
  MaxIoWorkerCount = 1
  Retries = 1
SPECIFICATION FairSpec
PROPERTIES AcceptedIsAnswered SpaceComesBack CloseEnds
