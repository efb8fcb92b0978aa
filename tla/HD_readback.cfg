SPECIFICATION Spec
CONSTANTS
  Paths = {p1}
  Inodes = {n1}
  Descs = {d1}
  Ivs = {v1}
  MaxLen = 1
  Calls = {"read", "write", "pwrite", "seek"}
  Lossy = FALSE
  Text = Text
  None = None
CHECK_DEADLOCK FALSE
INVARIANT
  ReadReturnsWhatWasWritten
