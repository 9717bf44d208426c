SPECIFICATION CommandsSpec
CHECK_DEADLOCK FALSE
CONSTANTS
  MaxFiles = 4
  BlockSize = 2
  MaxFileSize = 4
  Names = {"a", "b"}
  InvalidNames = {}
  PermInputs = {}
  Offsets = {}
  Lengths = {}
  MaxPosition = 3
  BUFFER_SIZE = 2
  CAT_SIZE = 2
  Lines = {1, 2}
  MaxContent = 3
  Used = {"mkdir", "cd", "rmdir", "rm"}
INVARIANT PathReachesRoot
VIEW CommandsView
