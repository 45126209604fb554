CONSTANTS
  Bytes = {"p", ":", "nl"}
  Zero = "nul"
  Terminators = {"nl", "nul"}
  PREFIX <- Prefix
  SECTOR = 3
  MAXPW = 2
  Lbas = {0, 1, 2}
  ChunkSizes = {1}
  MAXRUN = 6
  SECTORS = 3
SPECIFICATION CardSpec
PROPERTY FollowingValuesZeroed
