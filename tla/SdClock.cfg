CONSTANTS
  OCR_TRIES = 2
  FILE_IO_TIMEOUT = 2
  FORMAT_TIMEOUT = 3
  PARTS = 2
  WRITES = 2
SPECIFICATION Spec
INVARIANT ClockFitsCard
