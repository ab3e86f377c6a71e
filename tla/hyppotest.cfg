\* Every opcode, boundary arithmetic, DMA jobs, routines and directives.
CONSTANTS
  MAX_SYMBOLS = 5
  MAX_HYPPO_SYMBOLS = 1
  MAX_LOG_LENGTH = 14
  INFINITE_LOOP_THRESHOLD = 3
  Scripts <- MCScripts
  NoTarget = NoTarget
  test_target = "one"
  NoFile = NoFile
SPECIFICATION Spec
INVARIANT EmuTypeOK
INVARIANT CulpritIsShown
INVARIANT LabelIsNearest
PROPERTY ArithmeticIsExact
PROPERTY ListingNamesWhatRan
PROPERTY CallsReturnToCaller
PROPERTY DmaMovesTheBlock
PROPERTY FailuresAreReported
PROPERTY LettersAreShown
PROPERTY RamCheckIsExact
PROPERTY EveryRunEnds
\* A script ends.
CHECK_DEADLOCK FALSE
