SPECIFICATION UserSpec
CONSTANTS
  MemSize = 5
  Chars = {1, 2}
  Delims <- MCDelims
  CharBits = 2
  StringBits = 5
  Width = 6
  PtrSize = 2
  HeapSize = 16
  Sizes = {0, 1, 3, 22, 61, 63}
  MaxBlocks = 2
  MaxExits = 2
  Bases = {2, 10, 16}
  Values = {1, 2, 3}
  MaxLen = 4
  INPUT_BUFFER_SIZE = 4
  TypedKeys = {0, 33, 36, 38, 42, 43}
  MaxTyped = 5
  FgetsSizes = {1, 3}
  Ints <- MCInts
  FractionDigits = 2
  Doubles <- MCDoubles
  Texts <- MCTexts
  Formats <- MCFormats
  BufferSizes = {0, 1, 2, 4}
  VGA_WIDTH = 2
  VGA_HEIGHT = 3
  VGA_TAB_WIDTH = 2
  Printable = {"x"}
  SHELL_MAX_INPUT_LENGTH = 5
  SHELL_HISTORY_SIZE = 1
  SHELL_MAX_ARGS = 2
  Letters = {"a", " "}
  Prompt <- MCPrompt
  Commands <- MCCommands
  HelpName <- MCHelp
  ExitName <- MCExit
  HistoryName <- MCHistory
  HelpPages = 2
  Outputs <- MCOutputs
  MaxLines = 2
  Keys = {"LShift", "RCtrl", "Caps"}
  MaxWire = 2
  MAX_LOGIN_ATTEMPTS = 3
  USERNAME_MAX_LEN = 4
  PASSWORD_MAX_LEN = 3
  USERNAME <- MCUsername
  PASSWORD <- MCPassword
  Typed = {"a", "b"}
  Resolutions = {0}
  CustomTimings <- MCCustomTimings
  Depths = {9, 16}
  AudioConfigs <- MCAudioConfigs
  TreeNodes = {2, 4, 6, 8, 10, 12, 14}
  TreeKey <- MCTreeKey
  QueueNodes = {1, 2, 3}
  QueueHeads = {4, 5}
  Cookies = {0, 3}
  SHA256_BLOCK_SIZE = 4
  LengthBytes = 1
  ByteBits = 8
  Pieces <- MCPieces
  MaxMessage = 9
  RC4STATE = 8
  RC4Keys <- MCRC4Keys
  BcKeys = {"1", "q", " ", "/"}
  BcLine = 5
  BcTokens = 3
  QuitLine <- MCQuitLine
  MaxBcKeys = 5
  ExprNumbers <- MCExprNumbers
  RandBits = 4
  RandA = 13
  RandC = 15
  Speeds = {50, 75}
  OtherSpeeds = {7}
  Durations <- MCDurations
  Codes <- MCCodes
  Patterns <- MCPatterns
  Subjects <- MCSubjects
  VisChars <- MCVisChars
  VisFlags <- MCVisFlags
  VisTexts <- MCVisTexts
INVARIANTS
  LibraryAgrees PiecesMakeTheWhole HeapKeepsBlocks TypedIsRead ContainersAgree ShellFollows
  KeysAreTracked LoginDecides DisplayAgrees
CONSTRAINT OneSetting
PROPERTY CallsChangeOnlyTheirs
CHECK_DEADLOCK FALSE
