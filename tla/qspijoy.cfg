\* Reflashing a slot with the joystick, with failures of the card and the chip.
CONSTANTS
  Card <- MCCard
  SectorsPerCluster = 2
  EntriesPerSector = 3
  NeverFails = 99
  CoreNames <- MCCoreNames
  Core <- MCCore
  SlotCount = 2
  SlotBlocks = 2
  PagesPerBlock = 2
  MaxTries = 2
  Boards <- MCBoards
  Flashes <- MCFlashes
  Reads = {0, 1}
  Mishaps = 2
  Jobs = 1
SPECIFICATION Spec
INVARIANT UpdatedIsWritten
 
\* The program may hand over to a core or stop.
CHECK_DEADLOCK FALSE
