CONSTANTS
  BUF = 3
  MAXNUM = 8
SPECIFICATION Spec
INVARIANT TypeOK
INVARIANT BufferNotShared
INVARIANT NobodyStuck
PROPERTY WriteIsBounded
PROPERTY ImplementsSink
PROPERTY WriteTerminates
