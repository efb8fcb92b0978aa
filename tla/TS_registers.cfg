SPECIFICATION Spec
CONSTANTS
  Threads = {t1}
  Controllers = {c1}
  Regs = {r1, r2}
  Trusted = Trusted
  Garbage = Garbage
  Null = Null
  None = None
INVARIANTS
  TypeOK
  SavedRegistersUsable
  ContextIntact
  NoLostWakeup
PROPERTIES
  ImplementsUntrustedControl
