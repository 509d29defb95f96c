SPECIFICATION Spec
CONSTANTS
  t1 = t1
  t2 = t2
  t3 = t3
  a1 = a1
  a2 = a2
  a3 = a3
  a4 = a4
  NULL = NULL
  Threads = {t1}
  Automata = {a1, a2, a3, a4}
  ts_length = 3
  hash <- CollidingHash
  StaticClasses = 2
  SysInit = {TRUE, FALSE}
  SunsetThreads = {t1}
PROPERTIES
  IsAMap
