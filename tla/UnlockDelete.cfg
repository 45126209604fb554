CONSTANTS
  LOCKED = 2
  CARD = 4
  CHUNK = 2
  TIMEOUT = 2
  DIR = 1
  Commands <- UnlockCommands
  PoliteSense = TRUE
  TailInterrupted = FALSE
  NoCmd = NoCmd
SPECIFICATION USpec
PROPERTY DeletedBeforeUnlock
