SPECIFICATION KernelSpec
CONSTANTS
  s1 = s1
  m1 = m1
  m2 = m2
  c1 = c1
  SingleProducers = {s1}
  MultiProducers = {m1, m2}
  Consumers = {c1}
  Generations = 4
  MaxRegionPages = 6
  MaxPages = 5
  Elements = {"a", "b", "c"}
  SrpReaders = {"r"}
  MAX_PROCESSES = 2
  MAX_PROCESS_NAME = 3
  ProcessNames <- MCProcessNames
  NextPidLimit = 104
  PageFrames = {1, 2, 3}
  PAGE_ENTRIES = 2
  Physical = {0, 1}
  PageFlags = {2}
  WordBits = 3
  WordThreads = {"t", "u", "v"}
  Amounts = {1, 2}
  MaxHeld = 2
  KbTries = 2
  ResetTries = 3
  CpuidWords <- MCCpuidWords
  BootCr0 <- MCBootCr0
  BootCr4 = {}
  CounterBits = 4
  LoopsPerMs = 2
  LoopsPerSecond = 3
  MsPerSecond = 2
  SleepTimes <- MCSleepTimes
  Times <- MCTimes
  MaxReadings = 3
  Blocks = {1, 2, 3, 4, 5}
  MaxCpus = 2
  BaseIds = {0, 4}
  DbTypes = {0, 2, 3}
  DbOpens = {0, 2}
INVARIANTS
  FirstRunFound FirstFitFound AcceptedSawNoWrite CollectorIsExact ReadersSeeWhatStays
  ProcessesAreKept TranslationIsMapping WordsAgree LastResort PresentIsEnabled
  NothingLeaks TimesConvert
PROPERTY LoopsEnd
CHECK_DEADLOCK FALSE
