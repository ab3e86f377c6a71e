\* Flashing, erasing and changing flags, with a power cut and failures.
CONSTANTS
  NoCard = NoCard
  Card <- BothCards
  SectorsPerCluster = 2
  NeverFails = 99
  Core <- MCCore
  SlotBlocks = 3
  CoreNames <- MCCoreNames
  CoreDirectory = "CORE"
  Bringup <- MCBringup
  ReadDirectory <- Scan
  FindFile <- nhsd_findfile
  SlotCount = 3
  MAX_RETRY = 2
  EditBlocks = 1
  PagesPerBlock = 4
  Boards <- MCBoards
  Models <- MCModels
  NoBlock = 99
  Flashes <- MCFlashes
  Unset = {0, 3}
  Reads = {1}
  Mishaps = 1
  Jobs = 1
SPECIFICATION Spec
INVARIANT FlasherTypeOK
 
 
 
INVARIANT ScanIsCurrent
PROPERTY FlashingEnds
\* The program may hand over to a core or stop.
CHECK_DEADLOCK FALSE
