\* The section in its middle, and any other before or after it.
CONSTANTS
  t1 = t1
  t2 = t2
  t3 = t3
  Threads <- MCThreads
  FILECLUSTERS = 2
  MAXSECTIONS = 2
SPECIFICATION FairSpec
INVARIANT NoCyclicWait
PROPERTY CallsReturn
\* All sections may be over.
CHECK_DEADLOCK FALSE
