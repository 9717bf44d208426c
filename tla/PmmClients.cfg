SPECIFICATION ClientSpec
CONSTANTS
  WordBits = 2
  PageSize = 2
  AddrSpace = 32
  Zones <- MCZones
  RangeInputs <- MCRangeInputs
  Counts <- MCCounts
  RegionInputs <- MCRegionInputs
  MaxRegions = 2
  MaxHolders = 2
INVARIANTS SingleHolder HeldIsMarked NothingIsLost StatsAgree
PROPERTY ReservedNotGranted
