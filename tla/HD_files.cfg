SPECIFICATION Spec
CONSTANTS
  Paths = {p1, p2}
  Inodes = {n1, n2}
  Descs = {d1}
  Ivs = {v1}
  MaxLen = 1
  Calls = {"write", "pwrite", "seek", "truncate", "unlink", "rename", "link", "append"}
  Lossy = TRUE
  Text = Text
  None = None
CHECK_DEADLOCK FALSE
SYMMETRY Symmetric
INVARIANTS
  DataIsTraced
  TraceInv
PROPERTIES
  ReadersOnlyTruncate
