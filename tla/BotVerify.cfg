CONSTANTS
  LOCKED = 2
  CARD = 5
  CHUNK = 1
  Commands <- VerifyCommands
  PoliteSense = TRUE
  TailInterrupted = FALSE
  NoCmd = NoCmd
SPECIFICATION Spec
PROPERTY OnlyWritesChangeTheCard
