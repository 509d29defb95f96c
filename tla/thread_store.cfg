SPECIFICATION ThreadSpec
CONSTANTS
  t1 = t1
  t2 = t2
  NoThread = NoThread
  NULL = NULL
  Threads = {t1, t2}
  KernelBuilds = {TRUE, FALSE}
  EarlyThreads = {t2}
  MayFail = TRUE
  Iterations = 2
INVARIANTS
  CreatedOnce
  ReturnsTheKey
  OneStorePerThread
  FaultIsExplained
  OnlyTablesLeak
PROPERTIES
  ExitCompletes
