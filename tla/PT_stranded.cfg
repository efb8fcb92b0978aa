SPECIFICATION FairSpec
CONSTANTS
  NoThread = NoThread
  Thread = {t1, t2, t3}
  Lock = {l1}
  MaxReads = 2
CHECK_DEADLOCK FALSE
PROPERTY
  ReadersMakeProgress
