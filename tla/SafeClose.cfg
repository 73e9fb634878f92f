CONSTANTS
  c1 = c1
  c2 = c2
  c3 = c3
  k1 = k1
  k2 = k2
  Call = {c1}
  Key = {k1}
  NoBatch = NoBatch
  KeyOf <- MCOneKey
  LogCount <- MCOne
  LogSize <- MCOne
  GroupSize <- MCOne
  MaxBatchSize = 1
  MaxBatchCount = 1
  GroupSizeLimit = 9
  TotalSizeLnBytes = 1
  MaxBlockSec = 0
  MaxIoWorkerCount = 1
  Retries = 1
SPECIFICATION Spec
INVARIANT SafeCloseSendsAll
