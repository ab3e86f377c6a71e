SPECIFICATION Spec
CONSTANTS
  Lines = {"L0"}
  LastByte = 1
  Addresses <- MCAddresses
  NoAddress <- MCNoAddress
  Data = {0, 1}
  Blank = 0
  ReadTimeout = 3
  CartTimeout = 4
  WriteData = {0}
  Prompt = TRUE
  LineValid = {FALSE, TRUE}
  RequestGap = 4
INVARIANTS TypeOK AcknowledgedInTime PerformedExactlyOnce 
PROPERTY AnswerIsStable
