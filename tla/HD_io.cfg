SPECIFICATION Spec
CONSTANTS
  Paths = {p1}
  Inodes = {n1}
  Descs = {d1}
  Ivs = {v1, v2}
  MaxLen = 3
  Calls = {"read", "write", "pread", "pwrite", "seek", "truncate"}
  Lossy = FALSE
  Text = Text
  None = None
CHECK_DEADLOCK FALSE
SYMMETRY Symmetric
INVARIANTS
  TypeOK
  ReadBackAfterWrite
