SPECIFICATION ServicesSpec
CONSTANTS
  Threads = {t0, t1, t2}
  Main = t0
  Code = {c1, c2}
  Bundles = {1, 2}
  MaxGeneration = 2
  Halt = Halt
  Nowhere = Nowhere
  Nobody = Nobody
  Descs = {d1, d2}
  NumFds = 3
  BitsPerWord = 1
  Mappings = {p1}
  Calls = {"open", "dup", "dup2", "close", "use", "cond_wait", "mmap", "pair", "accept", "sendmsg", "recvmsg"}
  Null = Null
  NumPages = 5
  HeapStart = 1
  PageSize = 2
  FileSize = 2
  FilePages = {0}
  Hints = {2, 3}
  Limit = 4
  Lengths = {1, 2, 3}
  Prots = {{"r"}, {"r", "w"}}
  MaxEntries = 5
  Unmapped = Unmapped
SYMMETRY Symmetric
VIEW View
CHECK_DEADLOCK FALSE
INVARIANTS
  ServicesTypeOK
  RefsExact
  PlacesAreFree
  MapAgreesWithHost
  NoMixedCode
PROPERTIES
  LowestNumberFirst
  ImplementsPageMap
  RemovedRegionsEmpty
