SPECIFICATION Spec
CONSTANTS
  Threads = {t1, t2}
  Controllers = {c1}
  Regs = {r1}
  Trusted = Trusted
  Garbage = Garbage
  Null = Null
  None = None
SYMMETRY Symmetric
INVARIANTS
  HeldThreadsDoNotRun
  NoSanityCheckFails
  FaultCountExact
  ControllerTouchesLiveThreads
