SPECIFICATION PcLockSpec
CONSTANTS
  SingleProducers = {"s1"}
  MultiProducers = {"m1", "m2"}
  Consumers = {}
  Generations = 4
INVARIANT MutualExclusion
