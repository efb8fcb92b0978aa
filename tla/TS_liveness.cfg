SPECIFICATION FairSpec
CONSTANTS
  Threads = {t1}
  Controllers = {c1, c2}
  Regs = {r1}
  Trusted = Trusted
  Garbage = Garbage
  Null = Null
  None = None
INVARIANTS
  IInv
PROPERTIES
  SuspensionCompletes
  ResumedThreadLeavesHandler
  ResumeAllReleasesLock
