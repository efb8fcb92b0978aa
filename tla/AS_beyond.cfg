SPECIFICATION Spec
CONSTANTS
  NumPages = 5
  HeapStart = 1
  PageSize = 2
  FileSize = 2
  FilePages = {0}
  Hints = {2, 3}
  Limit = 4
  Lengths = {1, 2, 3}
  MaxEntries = 5
  Prots = {{"r"}, {"r", "w"}}
  Unmapped = Unmapped
CHECK_DEADLOCK FALSE
INVARIANT
  BeyondFileInaccessible
