SPECIFICATION DataSpec
CONSTANTS
  Lines = {"L0", "L2"}
  NonRam = {"IO"}
  Bytes = {0, 1}
  Data = {0, 1}
  Rows <- MCRows
  Banks = {0, 1}
  Cols = {"col0", "col1"}
  RowOf <- PagedRowOf
  ColOf <- PagedColOf
  BankOf <- MCBankOf
  AllBit <- MCAllBit
  NextLine <- MCNextLine
  PrevLine <- MCPrevLine
  NoRow = "closed"
  FirstLine = "L0"
  FirstByte = 0
  FirstBank = 0
  FirstCol = "col0"
  Zero = 0
  RefreshInterval = 13
  TRCD = 3
  IdenticalClocks = FALSE
  NonRamValue = 0
  WriteLines = {"L0"}
  NextToggles = {FALSE, TRUE}
  PrevToggles = {FALSE}
INVARIANT AcceptedWritesReachMemory
INVARIANT FreshLineIsCurrent
