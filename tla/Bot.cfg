CONSTANTS
  LOCKED = 2
  CARD = 5
  CHUNK = 1
  Commands <- BotCommands
  PoliteSense = TRUE
  TailInterrupted = FALSE
  NoCmd = NoCmd
SPECIFICATION Spec
INVARIANT TypeOK
INVARIANT IdleMeansNoCommand
INVARIANT NobodyStuck
PROPERTY ImplementsVolume
PROPERTY CommandIsBounded
PROPERTY CommandAnswered
