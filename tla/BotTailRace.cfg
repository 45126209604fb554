CONSTANTS
  LOCKED = 2
  CARD = 5
  CHUNK = 1
  Commands <- BotCommands
  PoliteSense = TRUE
  TailInterrupted = TRUE
  NoCmd = NoCmd
SPECIFICATION Spec
INVARIANT IdleMeansNoCommand
