SPECIFICATION Spec
CONSTANTS
  MaxFiles = 3
  BlockSize = 2
  MaxFileSize = 4
  Names = {"a", "b", ".."}
  InvalidNames = {".."}
  PermInputs = {{"READ"}, {"WRITE"}}
  Offsets = {0, 1, 3}
  Lengths = {0, 1, 3}
  MaxPosition = 8
INVARIANT BytesInBuffer
