SPECIFICATION Spec
CONSTANTS
  MaxFiles = 4
  BlockSize = 2
  MaxFileSize = 4
  Names = {"a", "b", ".."}
  InvalidNames = {".."}
  PermInputs = {}
  Offsets = {}
  Lengths = {}
  MaxPosition = 0
INVARIANT NotFoundIsReal
