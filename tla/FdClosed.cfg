SPECIFICATION FdSpec
CONSTANTS
  MaxFiles = 3
  BlockSize = 2
  MaxFileSize = 4
  Names = {"a", "b"}
  InvalidNames = {}
  PermInputs = {}
  Offsets = {}
  Lengths = {3}
  MaxPosition = 3
  MaxFds = 5
  SeekBy = {}
INVARIANT DescriptorIsOpen
