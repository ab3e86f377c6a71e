SPECIFICATION Spec
CONSTANTS
  Uarts = {"u0", "u1"}
  First = "u0"
  Turn <- MCTurn
  NoUart = "none"
  RingSize = 2
  Inhibit = 2
  Data = {0, 1}
  Unset = 0
  AccessGap = 4
  Selections = {"u0", "u1"}
  SendUarts = {"u0"}
  ReceiveUarts = {"u0"}
  Resets = {FALSE, TRUE}
INVARIANTS UartTypeOK  RingsHoldTheirQueues FirstByteIsShownUnlessCollided
