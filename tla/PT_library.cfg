SPECIFICATION LibrarySpec
CONSTANTS
  NoAddr = NoAddr
  NoThread = NoThread
  Thread = {t1, t2, t3}
  Addr = {m, c}
  Mutex = m
  Cond = c
  Value = {0, 1, 2}
  MaxDepth = 2
  Waiter = {t1, t2}
  Pulser = {t3}
  MaxPulses = 2
  SEM_VALUE_MAX = 2
  UserAddr = {m}
  UserValue = {0, 1}
  Lock = {l1, l2}
  MaxReads = 1
  MaxCalls = 4
CHECK_DEADLOCK FALSE
INVARIANTS
  LibraryTypeOK
  MutualExclusion
  OwnerIsHolder
  MutexWakePending
  SemWakePending
  CountsExact
  WriterWakePending
  CountedWaitsSucceed
PROPERTIES
  PulseReleases
  ImplementsFutex
