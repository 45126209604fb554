CONSTANTS
  Bytes = {"p", ":", "nl"}
  Zero = "nul"
  Terminators = {"nl", "nul"}
  PREFIX <- Prefix
  SECTOR = 4
  MAXPW = 2
  Lbas = {0, 7}
  ChunkSizes = {1, 2}
  MAXRUN = 8
SPECIFICATION Spec
INVARIANT TypeOK
INVARIANT ValuesScrubbed
INVARIANT PasswordCaptured
INVARIANT FileRecognised
