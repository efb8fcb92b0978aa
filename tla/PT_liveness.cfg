SPECIFICATION LibraryFairSpec
CONSTANTS
  NoAddr = NoAddr
  NoThread = NoThread
  Thread = {t1, t2, t3}
  Addr = {m, c}
  Mutex = m
  Cond = c
  Value = {0, 1, 2}
  MaxDepth = 1
  Waiter = {t1}
  Pulser = {t3}
  MaxPulses = 1
  SEM_VALUE_MAX = 2
  UserAddr = {m}
  UserValue = {0, 1}
  Lock = {l1}
  MaxReads = 1
  MaxCalls = 3
CHECK_DEADLOCK FALSE
PROPERTIES
  MutexHandedOver
  SemDelivered
  WokenThreadsReturn
