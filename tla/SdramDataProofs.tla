--------------------------- MODULE SdramDataProofs ---------------------------
(* What the SDRAM controller keeps and what it answers: a write that was latched
   reaches its cell, and the line that a read brings is the line as the writes
   before it left it.  Both hold as long as no write to a control register has
   re-run the initialisation sequence, on the row discipline of
   SdramControllerProofs: the row that is open when READ or WRITE is on the pins
   is the row of the latched address, and nothing replaces that address.    *)
EXTENDS SdramControllerProofs

Line == latched_addr.line
Col == ColOf[Line]

\* The burst of the read in progress has been taken from the chip.
Reading == {"READ_WAIT_2", "READ_WAIT_3", "READ_WAIT_4",
            "READ_0", "READ_1", "READ_2", "READ_3", "READ_4"}

\* The access that the machine is at, and the pins it has set for it.
AccessInProgress ==
  /\ sdram_state \in Reading \cup {"READ_WAIT"} => read_latched /\ AccessesRam
  /\ sdram_state = "READ_WAIT" => cmd = "READ" /\ sdram_a = Col
  /\ sdram_state = "WRITE_1" => write_latched
  /\ sdram_state = "WRITE_2" =>
       AccessesRam /\ cmd = "WRITE" /\ enabled = {latched_addr.byte} /\ sdram_a = Col

WritePending == write_latched \/ sdram_state = "WRITE_2"

\* Only the byte of the write that is pending differs from what was accepted, and
\* the latch holds that byte's new value.
WriteInv ==
  /\ WritePending /\ AccessesRam => accepted[Line][latched_addr.byte] = wdata_latched
  /\ \A l \in RamLines, b \in Bytes :
       mem[l][b] # accepted[l][b] => WritePending /\ latched_addr = [line |-> l, byte |-> b]

\* The line on its way from the chip to the cache line is the line in the cells.
ReadInv ==
  /\ sdram_state \in Reading => burst = mem[Line]
  /\ read_complete_strobe =>
       sdram_state = "IDLE" /\ Free /\ AccessesRam /\ rdata_line = mem[Line]
  /\ read_publish_strobe =>
       /\ sdram_state \in {"IDLE", "CLOSE_FOR_REFRESH", "REFRESH_1"}
       /\ current_cache_line_address \in RamLines
       /\ current_cache_line = mem[current_cache_line_address]

DataInv == Uninterrupted => AccessInProgress /\ WriteInv /\ ReadInv
-----------------------------------------------------------------------------
(* What each step does to the parts of DataInv.                             *)

LEMMA DataInvInit == Init => DataInv
  BY DEF Init, DataInv, AccessInProgress, WriteInv, ReadInv, Reading, WritePending, Free

\* A line is told from the others by its row and its column.
LEMMA OneLineIsAddressed ==
  ASSUME TypeInv, RowIsOpen, SteadyInv, AccessesRam, sdram_a = Col
  PROVE  \A l \in RamLines : Addressed(l) <=> l = Line
<1>1. bank_row[sdram_ba] = RowOf[Line]
  BY DEF RowIsOpen, SteadyInv, Line
<1> QED
  BY <1>1, GeometryAssumption DEF Addressed, AccessesRam, Line, Col

\* The chip changes one byte, of the line and at the position in the latch, when the
\* machine is in WRITE_2, and nothing else ever.
LEMMA CellsStep ==
  ASSUME TypeInv, RowInv, Uninterrupted, AccessInProgress, Chip
  PROVE  /\ sdram_state # "WRITE_2" => mem' = mem
         /\ sdram_state = "WRITE_2" =>
              \A l \in RamLines, b \in Bytes :
                mem'[l][b] = IF l = Line /\ b = latched_addr.byte THEN wdata_latched
                                                                  ELSE mem[l][b]
<1>1. StateInv /\ mem \in [RamLines -> [Bytes -> Data]] /\ sdram_state \in States
  BY DEF RowInv, TypeInv, TypeOK, LineData
<1>2. ASSUME sdram_state # "WRITE_2" PROVE mem' = mem
  <2>1. cmd # "WRITE" \/ enabled = {}
    <3>1. CASE sdram_state \in Steady
      BY <1>1, <1>2, <3>1 DEF StateInv, SteadyInv
    <3>2. CASE sdram_state \notin Steady
      BY <1>1, <3>2, StateClasses DEF StateInv
    <3> QED
      BY <3>1, <3>2
  <2>2. CASE enabled = {}
    BY <1>1, <2>2 DEF Chip
  <2> QED
    BY <2>1, <2>2 DEF Chip
<1>3. ASSUME sdram_state = "WRITE_2"
      PROVE  \A l \in RamLines, b \in Bytes :
               mem'[l][b] = IF l = Line /\ b = latched_addr.byte THEN wdata_latched
                                                                 ELSE mem[l][b]
  <2>1. AccessesRam /\ cmd = "WRITE" /\ enabled = {latched_addr.byte} /\ sdram_a = Col
    BY <1>3 DEF AccessInProgress
  <2>2. RowIsOpen /\ SteadyInv
    BY <1>1, <1>3, StateClasses DEF StateInv, SteadyInv
  <2>3. \A l \in RamLines : Addressed(l) <=> l = Line
    BY <2>1, <2>2, OneLineIsAddressed
  <2> QED
    BY <2>1, <2>3 DEF Chip
<1> QED
  BY <1>2, <1>3

LEMMA AccessStep ==
  ASSUME TypeInv, AccessInProgress, Uninterrupted,
         NEW read, NEW write, NEW address, NEW wdata, NEW next_toggle, NEW prev_toggle,
         Intake(read, write, address, wdata, next_toggle, prev_toggle),
         Fsm, ~InitialisationPhase, ~NonRamWrite
  PROVE  AccessInProgress'
<1>1. ~Free => latched_addr' = latched_addr
  BY LatchHolds
<1>2. sdram_prepped /\ (sdram_state \in Accessing => ~Free /\ AccessesRam)
      /\ ~(read_latched /\ write_latched)
  BY DEF Uninterrupted, TypeInv, AccessInv, TypeOK
<1> USE DEF At, Move
<1>3. ASSUME sdram_state' \in Reading PROVE AccessInProgress'
  <2>1. PICK p \in WaitStates : p[1] = sdram_state /\ p[2] = sdram_state'
    BY <1>2, <1>3 DEF Fsm, RefreshClosed, CloseForRefresh, StayIdle, NonRamRead, PresentNonRam,
       ActivateRow, SwitchRow, ReadOpenRow, WriteOpenRow, Wait, OpenNewRow, RowActivated,
       LastBeat, WriteByte, WriteDone, RefreshStarted, Reading
  <2>2. sdram_state \in (Reading \cup {"READ_WAIT"}) \ {"READ_4"}
    BY <1>3, <2>1 DEF WaitStates, Reading
  <2>3. read_latched /\ AccessesRam
    BY <2>2 DEF AccessInProgress
  <2>4. read_latched' /\ AccessesRam'
    BY <1>1, <2>2, <2>3 DEF Intake, Free, AccessesRam, Reading
  <2> QED
    BY <1>3, <2>4 DEF AccessInProgress, Reading
<1>4. ASSUME sdram_state' = "READ_WAIT" PROVE AccessInProgress'
  <2>1. /\ sdram_state \in {"IDLE", "ACTIVATE_WAIT_2"} /\ read_latched /\ AccessesRam
        /\ cmd' = "READ" /\ sdram_a' = Col
    <3>1. CASE ReadOpenRow
      BY <3>1 DEF ReadOpenRow, Ready, PutColumn, Line, Col
    <3>2. CASE RowActivated
      BY <1>2, <1>4, <3>2 DEF RowActivated, PutColumn, Line, Col, Accessing, Free
    <3> QED
      BY <1>4, <3>1, <3>2 DEF Fsm, RefreshClosed, CloseForRefresh, StayIdle, NonRamRead,
         PresentNonRam, ActivateRow, SwitchRow, WriteOpenRow, Wait, WaitStates, OpenNewRow,
         LastBeat, WriteByte, WriteDone, RefreshStarted
  <2>2. read_latched' /\ AccessesRam' /\ Col' = Col
    BY <1>1, <2>1 DEF Intake, Free, AccessesRam, Line, Col
  <2> QED
    BY <1>4, <2>1, <2>2 DEF AccessInProgress, Reading
<1>5. ASSUME sdram_state' = "WRITE_1" PROVE AccessInProgress'
  <2>1. sdram_state \in {"IDLE", "ACTIVATE_WAIT_2"} /\ write_latched /\ AccessesRam
    <3>1. CASE WriteOpenRow
      BY <3>1 DEF WriteOpenRow, Ready
    <3>2. CASE RowActivated
      BY <1>2, <1>5, <3>2 DEF RowActivated, Accessing
    <3> QED
      BY <1>5, <3>1, <3>2 DEF Fsm, RefreshClosed, CloseForRefresh, StayIdle, NonRamRead,
         PresentNonRam, ActivateRow, SwitchRow, ReadOpenRow, Wait, WaitStates, OpenNewRow,
         LastBeat, WriteByte, WriteDone, RefreshStarted
  <2>2. write_latched'
    BY <2>1 DEF Intake
  <2> QED
    BY <1>5, <2>2 DEF AccessInProgress, Reading
<1>6. ASSUME sdram_state' = "WRITE_2" PROVE AccessInProgress'
  <2>1. WriteByte
    BY <1>6 DEF Fsm, RefreshClosed, CloseForRefresh, StayIdle, NonRamRead, PresentNonRam,
       ActivateRow, SwitchRow, ReadOpenRow, WriteOpenRow, Wait, WaitStates, OpenNewRow,
       RowActivated, LastBeat, WriteDone, RefreshStarted
  <2>2. ~Free /\ AccessesRam
    BY <1>2, <2>1 DEF WriteByte, Accessing
  <2>3. cmd' = "WRITE" /\ enabled' = {latched_addr.byte} /\ sdram_a' = Col
    BY <2>1 DEF WriteByte, PutColumn, Line, Col
  <2>4. latched_addr' = latched_addr /\ AccessesRam' /\ Col' = Col
    BY <1>1, <2>2 DEF AccessesRam, Line, Col
  <2> QED
    BY <1>6, <2>3, <2>4 DEF AccessInProgress, Reading
<1> QED
  BY <1>3, <1>4, <1>5, <1>6 DEF AccessInProgress

\* A latched write is pending until the step that puts it in its cell, and only a
\* write that was latched becomes pending.
LEMMA PendingStep ==
  ASSUME Uninterrupted, AccessInProgress,
         NEW read, NEW write, NEW address, NEW wdata, NEW next_toggle, NEW prev_toggle,
         Intake(read, write, address, wdata, next_toggle, prev_toggle),
         Fsm, ~InitialisationPhase, ~NonRamWrite
  PROVE  /\ write_latched \/ LatchWrite(read, write) => WritePending'
         /\ WritePending' => write_latched \/ LatchWrite(read, write)
<1> USE DEF At, Move
<1>1. sdram_state = "WRITE_1" => sdram_state' = "WRITE_2" /\ write_latched
  <2> SUFFICES ASSUME sdram_state = "WRITE_1" PROVE sdram_state' = "WRITE_2" /\ write_latched
    OBVIOUS
  <2>1. ~Wait
    BY DEF Wait, WaitStates
  <2>2. WriteByte
    BY <2>1 DEF Fsm, RefreshClosed, CloseForRefresh, StayIdle, NonRamRead, PresentNonRam,
       ActivateRow, SwitchRow, ReadOpenRow, WriteOpenRow, OpenNewRow, RowActivated, LastBeat,
       WriteDone, RefreshStarted, Ready
  <2> QED
    BY <2>2 DEF WriteByte, AccessInProgress
<1>2. sdram_state' = "WRITE_2" => sdram_state = "WRITE_1"
  BY DEF Fsm, RefreshClosed, CloseForRefresh, StayIdle, NonRamRead, PresentNonRam,
     ActivateRow, SwitchRow, ReadOpenRow, WriteOpenRow, Wait, WaitStates, OpenNewRow,
     RowActivated, LastBeat, WriteByte, WriteDone, RefreshStarted
<1>3. ~(Ready /\ write_latched /\ ~AccessesRam)
  <2> SUFFICES ASSUME Ready, write_latched, ~AccessesRam PROVE FALSE
    OBVIOUS
  <2>1. ~Wait
    BY DEF Wait, WaitStates, Ready
  <2> QED
    BY <2>1 DEF Uninterrupted, Fsm, RefreshClosed, CloseForRefresh, StayIdle, NonRamRead,
       PresentNonRam, ActivateRow, SwitchRow, ReadOpenRow, WriteOpenRow, OpenNewRow,
       RowActivated, LastBeat, WriteByte, WriteDone, RefreshStarted, Ready, Free
<1> QED
  BY <1>1, <1>2, <1>3 DEF Intake, WritePending

LEMMA WriteStep ==
  ASSUME TypeInv, RowInv, Uninterrupted, AccessInProgress, WriteInv,
         NEW read, NEW write, NEW address \in Addresses, NEW wdata \in Data,
         NEW next_toggle, NEW prev_toggle,
         Intake(read, write, address, wdata, next_toggle, prev_toggle),
         Fsm, ~InitialisationPhase, ~NonRamWrite, Chip
  PROVE  WriteInv'
<1>1. /\ write_latched \/ LatchWrite(read, write) => WritePending'
      /\ WritePending' => write_latched \/ LatchWrite(read, write)
  BY PendingStep
<1>2. /\ sdram_state # "WRITE_2" => mem' = mem
      /\ sdram_state = "WRITE_2" =>
           \A l \in RamLines, b \in Bytes :
             mem'[l][b] = IF l = Line /\ b = latched_addr.byte THEN wdata_latched
                                                               ELSE mem[l][b]
  BY CellsStep
<1>3. ASSUME NEW l \in RamLines, NEW b \in Bytes, mem'[l][b] # accepted[l][b]
      PROVE  write_latched /\ latched_addr = [line |-> l, byte |-> b]
  <2>1. CASE sdram_state # "WRITE_2"
    BY <1>2, <1>3, <2>1 DEF WriteInv, WritePending
  <2>2. CASE sdram_state = "WRITE_2"
    <3>1. accepted[Line][latched_addr.byte] = wdata_latched
      BY <2>2 DEF WriteInv, WritePending, AccessInProgress
    <3>2. mem[l][b] # accepted[l][b] /\ ~(l = Line /\ b = latched_addr.byte)
      BY <1>2, <1>3, <2>2, <3>1
    <3> QED
      BY <3>2 DEF WriteInv, Line
  <2> QED
    BY <2>1, <2>2
<1>4. CASE write_latched
  <2>1. UNCHANGED <<latched_addr, wdata_latched, accepted>>
    BY <1>4, LatchHolds DEF Free, Intake, LatchWrite
  <2>2. WritePending'
    BY <1>1, <1>4
  <2>3. AccessesRam' => (accepted[Line][latched_addr.byte])' = wdata_latched'
    BY <1>4, <2>1 DEF WriteInv, WritePending, AccessesRam, Line
  <2> QED
    BY <1>3, <2>1, <2>2, <2>3 DEF WriteInv
<1>5. CASE ~write_latched /\ LatchWrite(read, write)
  <2>1. /\ latched_addr' = address /\ wdata_latched' = wdata /\ WritePending'
        /\ accepted' = IF address.line \in RamLines
                         THEN [accepted EXCEPT ![address.line][address.byte] = wdata]
                         ELSE accepted
    BY <1>1, <1>5 DEF Intake, LatchWrite, LatchRead, FetchNext, FetchPrev
  <2>2. accepted \in [RamLines -> [Bytes -> Data]] /\ address.byte \in Bytes
        /\ address = [line |-> address.line, byte |-> address.byte]
    BY DEF TypeInv, TypeOK, LineData, Addresses
  <2>3. AccessesRam' => (accepted[Line][latched_addr.byte])' = wdata_latched'
    BY <2>1, <2>2 DEF AccessesRam, Line
  <2>4. ASSUME NEW l \in RamLines, NEW b \in Bytes, mem'[l][b] # accepted'[l][b]
        PROVE  latched_addr' = [line |-> l, byte |-> b]
    <3>1. mem'[l][b] = accepted[l][b]
      BY <1>3, <1>5
    <3> QED
      BY <2>1, <2>2, <2>4, <3>1
  <2> QED
    BY <2>1, <2>3, <2>4 DEF WriteInv
<1>6. CASE ~write_latched /\ ~LatchWrite(read, write)
  BY <1>1, <1>3, <1>6 DEF WriteInv, Intake
<1> QED
  BY <1>4, <1>5, <1>6

LEMMA ReadStep ==
  ASSUME TypeInv, RowInv, Uninterrupted, AccessInProgress, WriteInv, ReadInv,
         NEW read, NEW write, NEW address, NEW wdata, NEW next_toggle, NEW prev_toggle,
         Intake(read, write, address, wdata, next_toggle, prev_toggle),
         ReadPipe, CacheLine, Fsm, ~InitialisationPhase, ~NonRamWrite, Chip
  PROVE  ReadInv'
<1> USE DEF At, Move
<1>1. ~Free => latched_addr' = latched_addr
  BY LatchHolds
<1>2. sdram_state # "WRITE_2" => mem' = mem
  BY CellsStep
<1>3. StateInv /\ sdram_prepped /\ ~(read_latched /\ write_latched)
  BY DEF RowInv, Uninterrupted, TypeInv, TypeOK
<1>4. ASSUME sdram_state' \in Reading PROVE burst' = (mem[Line])'
  <2>1. PICK p \in WaitStates : p[1] = sdram_state /\ p[2] = sdram_state'
    BY <1>4 DEF Fsm, RefreshClosed, CloseForRefresh, StayIdle, NonRamRead, PresentNonRam,
       ActivateRow, SwitchRow, ReadOpenRow, WriteOpenRow, Wait, OpenNewRow, RowActivated,
       LastBeat, WriteByte, WriteDone, RefreshStarted, Reading
  <2>2. sdram_state \in Reading \cup {"READ_WAIT"}
    BY <1>4, <2>1 DEF WaitStates, Reading
  <2>3. read_latched /\ AccessesRam /\ sdram_state # "WRITE_2"
    BY <2>2 DEF AccessInProgress, Reading
  <2>4. SteadyInv
    BY <1>3, <2>2 DEF StateInv, Steady, Reading
  <2>5. burst' = mem[Line]
    <3>1. CASE sdram_state = "READ_WAIT"
      <4>1. cmd = "READ" /\ RowIsOpen /\ sdram_a = Col
        BY <2>4, <3>1 DEF AccessInProgress, SteadyInv
      <4>2. \A l \in RamLines : Addressed(l) <=> l = Line
        BY <2>3, <2>4, <4>1, OneLineIsAddressed
      <4>3. Line \in RamLines
        BY <2>3 DEF AccessesRam, Line
      <4> QED
        BY <4>1, <4>2, <4>3 DEF Chip
    <3>2. CASE sdram_state \in Reading
      <4>1. cmd # "READ"
        BY <2>4, <3>2 DEF SteadyInv, Reading
      <4> QED
        BY <3>2, <4>1 DEF Chip, ReadInv
    <3> QED
      BY <2>2, <3>1, <3>2
  <2> QED
    BY <1>1, <1>2, <2>3, <2>5 DEF Free, Line
<1>5. ASSUME read_complete_strobe'
      PROVE  (sdram_state = "IDLE" /\ Free /\ AccessesRam /\ rdata_line = mem[Line])'
  <2>1. sdram_state = "READ_4" /\ read_latched /\ AccessesRam /\ rdata_line' = burst
    BY <1>5 DEF ReadPipe, AccessInProgress, Reading
  <2>2. sdram_state' = "IDLE"
    BY <2>1 DEF Fsm, RefreshClosed, CloseForRefresh, StayIdle, NonRamRead, PresentNonRam,
       ActivateRow, SwitchRow, ReadOpenRow, WriteOpenRow, Wait, WaitStates, OpenNewRow,
       RowActivated, LastBeat, WriteByte, WriteDone, RefreshStarted, Ready
  <2>3. Free'
    BY <1>3, <2>1 DEF Intake, Free, LatchWrite
  <2>4. rdata_line' = mem'[Line]
    BY <1>2, <2>1 DEF ReadInv, Reading
  <2> QED
    BY <1>1, <2>1, <2>2, <2>3, <2>4 DEF Free, AccessesRam, Line
<1>6. ASSUME read_publish_strobe'
      PROVE  /\ sdram_state' \in {"IDLE", "CLOSE_FOR_REFRESH", "REFRESH_1"}
             /\ current_cache_line_address' \in RamLines
             /\ (current_cache_line = mem[current_cache_line_address])'
  <2>1. read_complete_strobe
    BY <1>6 DEF ReadPipe
  <2>2. sdram_state = "IDLE" /\ Free /\ AccessesRam /\ rdata_line = mem[Line]
    BY <2>1 DEF ReadInv
  <2>3. sdram_state' \in {"IDLE", "CLOSE_FOR_REFRESH", "REFRESH_1"}
    <3>1. ~Wait
      BY <2>2 DEF Wait, WaitStates
    <3> QED
      BY <2>2, <3>1 DEF Fsm, RefreshClosed, CloseForRefresh, StayIdle, NonRamRead,
         PresentNonRam, ActivateRow, SwitchRow, ReadOpenRow, WriteOpenRow, OpenNewRow,
         RowActivated, LastBeat, WriteByte, WriteDone, RefreshStarted, Free
  <2> QED
    BY <1>2, <2>1, <2>2, <2>3 DEF CacheLine, AccessesRam, Line
<1> QED
  BY <1>4, <1>5, <1>6 DEF ReadInv
-----------------------------------------------------------------------------
(* The theorems.                                                            *)

LEMMA DataInvNext == TypeInv /\ RowInv /\ DataInv /\ [Next]_vars => DataInv'
<1> SUFFICES ASSUME TypeInv, RowInv, DataInv, [Next]_vars, Uninterrupted'
             PROVE  (AccessInProgress /\ WriteInv /\ ReadInv)'
  BY DEF DataInv
<1>1. CASE Next
  <2>1. PICK read, write \in BOOLEAN, address \in Addresses, wdata \in Data,
             next_toggle, prev_toggle \in BOOLEAN :
               Tick(read, write, address, wdata, next_toggle, prev_toggle)
    BY <1>1, NextIsTick
  <2>2. /\ Intake(read, write, address, wdata, next_toggle, prev_toggle)
        /\ ReadPipe /\ CacheLine /\ Fsm /\ Chip
    BY <2>1 DEF Tick
  <2>3. Uninterrupted /\ ~InitialisationPhase /\ ~NonRamWrite
    BY <2>2, StaysUninterrupted DEF TypeInv
  <2>4. AccessInProgress /\ WriteInv /\ ReadInv
    BY <2>3 DEF DataInv
  <2>5. AccessInProgress'
    BY <2>2, <2>3, <2>4, AccessStep
  <2>6. WriteInv'
    BY <2>2, <2>3, <2>4, WriteStep
  <2>7. ReadInv'
    BY <2>2, <2>3, <2>4, ReadStep
  <2> QED
    BY <2>5, <2>6, <2>7
<1>2. CASE UNCHANGED vars
  BY <1>2 DEF DataInv, Uninterrupted, AccessInProgress, WriteInv, ReadInv, WritePending,
     AccessesRam, Free, Line, Col, vars, fsmVars, pinVars, requestVars, readVars, cacheVars,
     chipVars
<1> QED
  BY <1>1, <1>2

LEMMA DataInvImplies ==
  TypeInv /\ DataInv /\ Uninterrupted => AcceptedWritesReachMemory /\ FreshLineIsCurrent
<1> SUFFICES ASSUME TypeInv, DataInv, Uninterrupted
             PROVE  AcceptedWritesReachMemory /\ FreshLineIsCurrent
  OBVIOUS
<1>1. AccessInProgress /\ WriteInv /\ ReadInv
  BY DEF DataInv
<1>2. AcceptedWritesReachMemory
  <2> SUFFICES ASSUME NEW l \in RamLines, NEW b \in Bytes, mem[l][b] # accepted[l][b]
               PROVE  /\ latched_addr = [line |-> l, byte |-> b]
                      /\ wdata_latched = accepted[l][b]
                      /\ write_latched \/ (cmd = "WRITE" /\ b \in enabled)
    BY DEF AcceptedWritesReachMemory
  <2>1. WritePending /\ latched_addr = [line |-> l, byte |-> b]
    BY <1>1 DEF WriteInv
  <2>2. Line = l /\ latched_addr.byte = b /\ AccessesRam
    BY <2>1 DEF Line, AccessesRam
  <2> QED
    BY <1>1, <2>1, <2>2 DEF WriteInv, WritePending, AccessInProgress
<1>3. FreshLineIsCurrent
  <2> SUFFICES ASSUME read_publish_strobe, ~write_latched
               PROVE  current_cache_line = accepted[current_cache_line_address]
    BY DEF FreshLineIsCurrent
  <2> DEFINE line == current_cache_line_address
  <2>1. line \in RamLines /\ current_cache_line = mem[line] /\ sdram_state # "WRITE_2"
    BY <1>1 DEF ReadInv
  <2>2. \A b \in Bytes : mem[line][b] = accepted[line][b]
    BY <1>1, <2>1 DEF WriteInv, WritePending
  <2>3. mem[line] \in [Bytes -> Data] /\ accepted[line] \in [Bytes -> Data]
    BY <2>1 DEF TypeInv, TypeOK, LineData
  <2>4. mem[line] = accepted[line]
    BY <2>2, <2>3
  <2> QED
    BY <2>1, <2>4
<1> QED
  BY <1>2, <1>3

LEMMA DataInvariant == Spec => [](TypeInv /\ RowInv /\ DataInv)
<1>1. Init => TypeInv /\ RowInv /\ DataInv
  BY TypeInvInit, RowInvInit, DataInvInit
<1>2. TypeInv /\ RowInv /\ DataInv /\ [Next]_vars => (TypeInv /\ RowInv /\ DataInv)'
  BY TypeInvNext, RowInvNext, DataInvNext
<1> QED
  BY <1>1, <1>2, PTL DEF Spec

\* Until a write to a control register re-runs the initialisation sequence, each
\* write that the controller latched is in its cell, or is the one in the latch or
\* on the pins: no later request, prefetch, refresh or row switch loses it, puts it
\* in another cell or puts another value there.
THEOREM SdramWritesReachMemory == Spec => [](Uninterrupted => AcceptedWritesReachMemory)
<1>1. TypeInv /\ RowInv /\ DataInv => (Uninterrupted => AcceptedWritesReachMemory)
  BY DataInvImplies
<1> QED
  BY <1>1, DataInvariant, PTL

\* Until then, too, the line that a read or a prefetch puts in the cache line is the
\* line as the writes latched before it left it: what is captured in READ_4 is what
\* the cells of the latched address hold, and no write reaches the cells before it
\* is published.
THEOREM SdramFreshLineIsCurrent == Spec => [](Uninterrupted => FreshLineIsCurrent)
<1>1. TypeInv /\ RowInv /\ DataInv => (Uninterrupted => FreshLineIsCurrent)
  BY DataInvImplies
<1> QED
  BY <1>1, DataInvariant, PTL

\* Only a latched write to a control register interrupts the machine.
InterruptInv == Uninterrupted /\ (write_latched => AccessesRam)

LEMMA InterruptInvNext ==
  ASSUME WriteLines \subseteq RamLines, TypeInv, InterruptInv, [Next]_vars
  PROVE  InterruptInv'
<1>1. CASE Next
  <2>1. PICK read, write \in BOOLEAN, address \in Addresses, wdata \in Data,
             next_toggle \in NextToggles, prev_toggle \in PrevToggles :
               /\ Looked(read, write, address, wdata)
               /\ Tick(read, write, address, wdata, next_toggle, prev_toggle)
    BY <1>1 DEF Next
  <2>2. Intake(read, write, address, wdata, next_toggle, prev_toggle) /\ Fsm
    BY <2>1 DEF Tick
  <2>3. (write_latched => AccessesRam)'
    <3>1. CASE write_latched
      BY <2>2, <3>1, LatchHolds DEF Free, InterruptInv, AccessesRam
    <3>2. CASE ~write_latched /\ LatchWrite(read, write)
      <4>1. address.line \in RamLines
        BY <2>1, <3>2 DEF Looked
      <4>2. latched_addr' = address
        BY <2>2, <3>2 DEF Intake, LatchWrite, LatchRead, FetchNext, FetchPrev
      <4> QED
        BY <4>1, <4>2 DEF AccessesRam
    <3>3. CASE ~write_latched /\ ~LatchWrite(read, write)
      BY <2>2, <3>3 DEF Intake
    <3> QED
      BY <3>1, <3>2, <3>3
  <2>4. ~InitialisationPhase /\ ~NonRamWrite
    BY DEF InitialisationPhase, NonRamWrite, InterruptInv, Uninterrupted
  <2>5. sdram_prepped' = sdram_prepped
        /\ sdram_init_phase' = IF sdram_init_phase = 0 THEN 1 ELSE sdram_init_phase
    BY <2>2, <2>4 DEF Fsm, RefreshClosed, CloseForRefresh, StayIdle, NonRamRead, PresentNonRam,
       ActivateRow, SwitchRow, ReadOpenRow, WriteOpenRow, Wait, OpenNewRow, RowActivated,
       LastBeat, WriteByte, WriteDone, RefreshStarted, Move
  <2> QED
    BY <2>3, <2>5 DEF InterruptInv, Uninterrupted
<1>2. CASE UNCHANGED vars
  BY <1>2 DEF InterruptInv, Uninterrupted, AccessesRam, vars, fsmVars, requestVars
<1> QED
  BY <1>1, <1>2

\* With a requester that never writes a control register, nothing interrupts the
\* machine, and the row discipline, the writes and the lines read are right in
\* every state.
THEOREM SdramIsRightForever ==
  ASSUME WriteLines \subseteq RamLines
  PROVE  Spec => [](RowProtocol /\ AcceptedWritesReachMemory /\ FreshLineIsCurrent)
<1> DEFINE Inv == TypeInv /\ RowInv /\ DataInv /\ InterruptInv
<1>1. Init => Inv
  <2>1. Init => InterruptInv
    BY DEF Init, InterruptInv, Uninterrupted
  <2> QED
    BY <2>1, TypeInvInit, RowInvInit, DataInvInit
<1>2. Inv /\ [Next]_vars => Inv'
  BY TypeInvNext, RowInvNext, DataInvNext, InterruptInvNext
<1>3. Inv => RowProtocol /\ AcceptedWritesReachMemory /\ FreshLineIsCurrent
  BY RowInvImpliesRowDiscipline, DataInvImplies DEF InterruptInv, RowDiscipline, Uninterrupted
<1> QED
  BY <1>1, <1>2, <1>3, PTL DEF Spec
=============================================================================
