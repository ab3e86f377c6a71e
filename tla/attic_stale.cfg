SPECIFICATION PathSpec
CONSTANTS
  Lines = {"L0", "L2"}
  NonRam = {}
  Bytes = {0}
  LastByte = 0
  Data = {0, 1}
  Rows <- MCRows
  Banks = {0}
  Cols = {"col0"}
  RowOf <- MCRowOf
  ColOf <- MCColOf
  BankOf <- MCBankOf
  AllBit <- MCAllBit
  NextLine <- MCLineAfter
  PrevLine <- MCLineAfter
  NoRow = "closed"
  FirstLine = "L0"
  FirstByte = 0
  FirstBank = 0
  FirstCol = "col0"
  Zero = 0
  RefreshInterval = 20
  TRCD = 3
  IdenticalClocks = FALSE
  NonRamValue = 0
  WriteLines = {"L0", "L2"}
  ReadLines = {"L0"}
  NextToggles = {FALSE}
  PrevToggles = {FALSE}
  NoAddress <- MCNoAddress
  ReadTimeout = 22
  CartTimeout = 2
  slow_cache_enable = TRUE
INVARIANTS DirectReadIsCurrent
