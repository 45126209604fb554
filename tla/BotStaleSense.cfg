CONSTANTS
  LOCKED = 2
  CARD = 5
  CHUNK = 1
  Commands <- BotCommands
  PoliteSense = FALSE
  TailInterrupted = FALSE
  NoCmd = NoCmd
SPECIFICATION Spec
PROPERTY SenseIsOfPreviousCommand
