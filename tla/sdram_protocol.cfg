SPECIFICATION Spec
CONSTANTS
  Lines = {"L0", "L1", "L2", "IO"}
  NonRam = {"IO"}
  Bytes = {0}
  Data = {0}
  Rows <- MCRows
  Banks = {0, 1}
  Cols = {"col0", "col1"}
  RowOf <- BankedRowOf
  ColOf <- BankedColOf
  BankOf <- MCBankOf
  AllBit <- MCAllBit
  NextLine <- MCNextLine
  PrevLine <- MCPrevLine
  NoRow = "closed"
  FirstLine = "L0"
  FirstByte = 0
  FirstBank = 0
  FirstCol = "col0"
  Zero = 0
  RefreshInterval = 14
  TRCD = 3
  IdenticalClocks = FALSE
  NonRamValue = 0
  WriteLines = {"L0", "L1", "L2", "IO"}
  NextToggles = {FALSE}
  PrevToggles = {FALSE}
INVARIANTS TypeOK RowDiscipline
PROPERTIES LatchedRequestsAreServed ReadsAreAnswered RefreshIsNotStarved
