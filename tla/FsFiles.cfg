SPECIFICATION FilesSpec
CONSTANTS
  MaxFiles = 4
  BlockSize = 2
  MaxFileSize = 4
  Names = {"a", "b", ".."}
  InvalidNames <- MCInvalidNames
  PermInputs <- MCPermInputs
  Offsets = {1, 5}
  Lengths = {0, 3}
  MaxPosition = 5
  MaxFds = 5
  SeekBy <- MCSeekBy
INVARIANTS TreeIsWhole LookupsAreComplete DataStaysInside DescriptorsMatch
PROPERTY CreatedIsFound
