CONSTANTS
  RING = 5
  MAXNUM = 11
SPECIFICATION Spec
INVARIANT TypeOK
INVARIANT UsbSlotStable
INVARIANT NoSectorLost
INVARIANT NobodyStuck
PROPERTY ReadIsBounded
PROPERTY ImplementsStream
PROPERTY ReadTerminates
