------------------------ MODULE SdramControllerProofs ------------------------
(* Type correctness and the row discipline of the SDRAM controller, for every
   geometry, every refresh interval and every requester.                    *)
EXTENDS SdramController, TLAPS

\* A wait state goes to a state of the machine.
LEMMA WaitStatesType == \A p \in WaitStates : p[1] \in States /\ p[2] \in States
  BY DEF WaitStates, States

\* A latched request keeps its address and its data until it is released.
LEMMA LatchHolds ==
  ASSUME NEW read, NEW write, NEW address, NEW wdata, NEW next_toggle, NEW prev_toggle,
         Intake(read, write, address, wdata, next_toggle, prev_toggle),
         ~Free
  PROVE  latched_addr' = latched_addr /\ wdata_latched' = wdata_latched
  BY DEF Intake, Free, LatchRead, LatchWrite, FetchNext, FetchPrev

LEMMA IntakeType ==
  ASSUME TypeOK,
         NEW read \in BOOLEAN, NEW write \in BOOLEAN, NEW address \in Addresses,
         NEW wdata \in Data, NEW next_toggle \in BOOLEAN, NEW prev_toggle \in BOOLEAN,
         Intake(read, write, address, wdata, next_toggle, prev_toggle)
  PROVE  /\ read_latched' \in BOOLEAN /\ write_latched' \in BOOLEAN
         /\ ~(read_latched' /\ write_latched')
         /\ latched_addr' \in Addresses /\ wdata_latched' \in Data
         /\ silent_read' \in BOOLEAN
         /\ next_toggle_drive' \in BOOLEAN /\ prev_toggle_drive' \in BOOLEAN
         /\ prev_current_cache_line_next_toggle' \in BOOLEAN
         /\ prev_current_cache_line_prev_toggle' \in BOOLEAN
         /\ accepted' \in [RamLines -> LineData]
<1>1. latched_addr' \in Addresses
  BY GeometryAssumption DEF TypeOK, Intake, Addresses
<1>2. accepted' \in [RamLines -> LineData]
  BY DEF TypeOK, Intake, Addresses, LineData
<1>3. ~(read_latched' /\ write_latched')
  BY DEF TypeOK, Intake, Free, LatchRead, LatchWrite, Fetch, FetchNext, FetchPrev
<1>4. /\ read_latched' \in BOOLEAN /\ write_latched' \in BOOLEAN
      /\ silent_read' \in BOOLEAN
  BY DEF TypeOK, Intake
<1>5. /\ wdata_latched' \in Data
      /\ next_toggle_drive' \in BOOLEAN /\ prev_toggle_drive' \in BOOLEAN
      /\ prev_current_cache_line_next_toggle' \in BOOLEAN
      /\ prev_current_cache_line_prev_toggle' \in BOOLEAN
  BY DEF TypeOK, Intake
<1> QED
  BY <1>1, <1>2, <1>3, <1>4, <1>5

LEMMA ReadPipeType ==
  ASSUME TypeOK, ReadPipe
  PROVE  /\ rdata_line' \in LineData /\ rdata_buf' \in Data /\ rdata' \in Data
         /\ read_complete_strobe' \in BOOLEAN /\ read_publish_strobe' \in BOOLEAN
         /\ data_ready_toggle' \in BOOLEAN
<1>1. rdata_buf' \in Data
  BY DEF TypeOK, ReadPipe, Addresses, LineData
<1>2. rdata' \in Data
  BY GeometryAssumption DEF TypeOK, ReadPipe
<1> QED
  BY <1>1, <1>2 DEF TypeOK, ReadPipe, At

LEMMA CacheLineType ==
  ASSUME TypeOK, CacheLine
  PROVE  /\ current_cache_line' \in LineData /\ current_cache_line_address' \in Lines
         /\ current_cache_line_valid' \in BOOLEAN
         /\ reactive_cache_line_if_safe' \in BOOLEAN /\ write_targets_cache_line' \in BOOLEAN
         /\ cache_line_next_address' \in Lines /\ cache_line_prev_address' \in Lines
  BY GeometryAssumption DEF TypeOK, CacheLine, Addresses

LEMMA RefreshTimerType ==
  ASSUME TypeOK, RefreshTimer
  PROVE  refresh_due' \in BOOLEAN /\ refresh_due_countdown' \in 0..(RefreshInterval - 1)
  BY TimingAssumption DEF TypeOK, RefreshTimer

LEMMA ChipType ==
  ASSUME TypeOK, Chip
  PROVE  /\ bank_row' \in [Banks -> Rows \cup {NoRow}] /\ delay_cnt' \in 0..(TRCD - 1)
         /\ mem' \in [RamLines -> LineData] /\ burst' \in LineData
<1>1. bank_row' \in [Banks -> Rows \cup {NoRow}]
  BY DEF TypeOK, Chip, Settled
<1>2. delay_cnt' \in 0..(TRCD - 1)
  BY TimingAssumption DEF TypeOK, Chip
<1>3. mem' \in [RamLines -> LineData]
  BY DEF TypeOK, Chip, LineData
<1>4. burst' \in LineData
  BY DEF TypeOK, Chip
<1> QED
  BY <1>1, <1>2, <1>3, <1>4

-----------------------------------------------------------------------------
(* From the moment a row is switched or opened until the byte is written or the
   read command is given, a request for a RAM line is latched: that is why the
   row and the column put on the address bus exist.                         *)

Accessing == {"CLOSE_AND_SWITCH_ROW", "CLOSE_AND_SWITCH_ROW_2", "CLOSE_AND_SWITCH_ROW_3",
              "CLOSE_AND_SWITCH_ROW_4", "ACTIVATE_WAIT", "ACTIVATE_WAIT_1",
              "ACTIVATE_WAIT_2", "WRITE_1"}

AccessInv == sdram_state \in Accessing => ~Free /\ AccessesRam

\* The part of TypeOK that the state machine assigns.
FsmTyped ==
  /\ sdram_state \in States /\ sdram_prepped \in BOOLEAN /\ sdram_init_phase \in 0..31
  /\ cmd \in Commands /\ sdram_ba \in Banks /\ sdram_a \in Rows \cup Cols
  /\ a10 \in BOOLEAN /\ enabled \in SUBSET Bytes
  /\ cmd = "ACTIVATE_ROW" => sdram_a \in Rows
  /\ active_row \in BOOLEAN /\ active_row_addr \in Rows

LEMMA FsmType ==
  ASSUME TypeOK, AccessInv, Fsm
  PROVE  FsmTyped'
<1> DEFINE line == latched_addr.line
<1>1. FsmTyped /\ latched_addr \in Addresses /\ latched_addr.byte \in Bytes
  BY DEF TypeOK, FsmTyped, Addresses
<1>2. ASSUME AccessesRam
      PROVE  /\ RowOf[line] \in Rows /\ ColOf[line] \in Cols
             /\ BankOf[RowOf[line]] \in Banks /\ AllBit[RowOf[line]] \in BOOLEAN
  BY <1>2, GeometryAssumption DEF AccessesRam
<1> HIDE DEF line
<1> USE DEF FsmTyped, Commands, States
<1>3. CASE InitialisationPhase
  BY <1>1, <1>3, GeometryAssumption DEF InitialisationPhase, KeepRow, rowVars, Masked, init_cmds
<1>4. CASE RefreshClosed
  BY <1>1, <1>4 DEF RefreshClosed, Emit, Move, Masked, KeepRow, rowVars
<1>5. CASE CloseForRefresh
  BY <1>1, <1>5 DEF CloseForRefresh, Emit, Move, Masked, KeepRow, rowVars
<1>6. CASE StayIdle
  BY <1>1, <1>6 DEF StayIdle, Emit, Move, Masked, KeepRow, rowVars
<1>7. CASE NonRamWrite
  <2>1. sdram_prepped' \in BOOLEAN
    BY <1>7 DEF NonRamWrite
  <2> QED
    BY <1>1, <1>7, <2>1 DEF NonRamWrite, Hold, Masked, KeepRow, rowVars
<1>8. CASE NonRamRead
  BY <1>1, <1>8 DEF NonRamRead, Emit, Move, Masked, KeepRow, rowVars
<1>9. CASE PresentNonRam
  BY <1>1, <1>9 DEF PresentNonRam, Hold, Move, Masked, KeepRow, rowVars
<1>10. CASE ActivateRow
  <2>1. AccessesRam
    BY <1>10 DEF ActivateRow, AccessInv, Accessing, At
  <2> QED
    BY <1>1, <1>2, <1>10, <2>1 DEF ActivateRow, PutRow, Move, Masked, KeepRow, rowVars, line
<1>11. CASE SwitchRow
  <2>1. AccessesRam
    BY <1>11 DEF SwitchRow, AccessInv, Accessing, At
  <2> QED
    BY <1>1, <1>2, <1>11, <2>1 DEF SwitchRow, PutRow, Move, Masked, KeepRow, rowVars, line
<1>12. CASE ReadOpenRow
  <2>1. AccessesRam
    BY <1>12 DEF ReadOpenRow, AccessInv, Accessing, At
  <2>2. a10' \in BOOLEAN
    BY <1>12 DEF ReadOpenRow, PutColumn
  <2> QED
    BY <1>1, <1>2, <1>12, <2>1, <2>2 DEF ReadOpenRow, PutColumn, Move, Masked, KeepRow, rowVars, line
<1>13. CASE WriteOpenRow
  BY <1>1, <1>13 DEF WriteOpenRow, Hold, Move, Masked, KeepRow, rowVars
<1>14. CASE Wait
  BY <1>1, <1>14, WaitStatesType DEF Wait, Emit, Move, Masked, KeepRow, rowVars
<1>15. CASE OpenNewRow
  <2>1. AccessesRam
    BY <1>15 DEF OpenNewRow, AccessInv, Accessing, At
  <2> QED
    BY <1>1, <1>2, <1>15, <2>1 DEF OpenNewRow, PutRow, Move, Masked, KeepRow, rowVars, line
<1>16. CASE RowActivated
  <2>1. AccessesRam
    BY <1>16 DEF RowActivated, AccessInv, Accessing, At
  <2>2. active_row' \in BOOLEAN
    BY <1>16 DEF RowActivated
  <2>3. a10' \in BOOLEAN
    <3>1. CASE PutColumn
      BY <3>1 DEF PutColumn
    <3>2. CASE Emit("NOP")
      BY <1>1, <3>2 DEF Emit
    <3> QED
      BY <1>16, <3>1, <3>2 DEF RowActivated
  <2> QED
    BY <1>1, <1>2, <1>16, <2>1, <2>2, <2>3 DEF RowActivated, PutColumn, Emit, Move, Masked, line
<1>17. CASE LastBeat
  BY <1>1, <1>17 DEF LastBeat, Hold, Move, Masked, KeepRow, rowVars
<1>18. CASE WriteByte
  <2>1. AccessesRam
    BY <1>18 DEF WriteByte, AccessInv, Accessing, At
  <2>2. a10' \in BOOLEAN
    BY <1>18 DEF WriteByte, PutColumn
  <2> QED
    BY <1>1, <1>2, <1>18, <2>1, <2>2 DEF WriteByte, PutColumn, Move, KeepRow, rowVars, line
<1>19. CASE WriteDone
  BY <1>1, <1>19 DEF WriteDone, Hold, Move, Masked, KeepRow, rowVars
<1>20. CASE RefreshStarted
  <2>1. active_row' \in BOOLEAN
    BY <1>20 DEF RefreshStarted
  <2> QED
    BY <1>1, <1>20, <2>1 DEF RefreshStarted, Hold, Move, Masked
<1> QED
  BY <1>3, <1>4, <1>5, <1>6, <1>7, <1>8, <1>9, <1>10, <1>11, <1>12, <1>13, <1>14, <1>15, <1>16, <1>17, <1>18, <1>19, <1>20 DEF Fsm

LEMMA TickType ==
  ASSUME TypeOK, AccessInv,
         NEW read \in BOOLEAN, NEW write \in BOOLEAN, NEW address \in Addresses,
         NEW wdata \in Data, NEW next_toggle \in BOOLEAN, NEW prev_toggle \in BOOLEAN,
         Tick(read, write, address, wdata, next_toggle, prev_toggle)
  PROVE  TypeOK'
<1>1. Intake(read, write, address, wdata, next_toggle, prev_toggle)
  BY DEF Tick
<1>2. ReadPipe /\ CacheLine /\ RefreshTimer /\ Fsm /\ Chip
  BY DEF Tick
<1>3. busy' \in BOOLEAN
  BY DEF Tick, BusyFlag
<1>4. /\ read_latched' \in BOOLEAN /\ write_latched' \in BOOLEAN
      /\ ~(read_latched' /\ write_latched')
      /\ latched_addr' \in Addresses /\ wdata_latched' \in Data
      /\ silent_read' \in BOOLEAN
      /\ next_toggle_drive' \in BOOLEAN /\ prev_toggle_drive' \in BOOLEAN
      /\ prev_current_cache_line_next_toggle' \in BOOLEAN
      /\ prev_current_cache_line_prev_toggle' \in BOOLEAN
      /\ accepted' \in [RamLines -> LineData]
  BY <1>1, IntakeType
<1>5. /\ rdata_line' \in LineData /\ rdata_buf' \in Data /\ rdata' \in Data
      /\ read_complete_strobe' \in BOOLEAN /\ read_publish_strobe' \in BOOLEAN
      /\ data_ready_toggle' \in BOOLEAN
  BY <1>2, ReadPipeType
<1>6. /\ current_cache_line' \in LineData /\ current_cache_line_address' \in Lines
      /\ current_cache_line_valid' \in BOOLEAN
      /\ reactive_cache_line_if_safe' \in BOOLEAN /\ write_targets_cache_line' \in BOOLEAN
      /\ cache_line_next_address' \in Lines /\ cache_line_prev_address' \in Lines
  BY <1>2, CacheLineType
<1>7. refresh_due' \in BOOLEAN /\ refresh_due_countdown' \in 0..(RefreshInterval - 1)
  BY <1>2, RefreshTimerType
<1>8. /\ bank_row' \in [Banks -> Rows \cup {NoRow}] /\ delay_cnt' \in 0..(TRCD - 1)
      /\ mem' \in [RamLines -> LineData] /\ burst' \in LineData
  BY <1>2, ChipType
<1>9. FsmTyped'
  BY <1>2, FsmType
<1> QED
  BY <1>3, <1>4, <1>5, <1>6, <1>7, <1>8, <1>9 DEF TypeOK, FsmTyped

\* The wait states that precede an access come from such states only.
LEMMA WaitStatesAccess ==
  \A p \in WaitStates : p[2] \in Accessing => p[1] \in Accessing
  BY DEF WaitStates, Accessing

LEMMA TickAccess ==
  ASSUME TypeOK, AccessInv,
         NEW read, NEW write, NEW address, NEW wdata, NEW next_toggle, NEW prev_toggle,
         Tick(read, write, address, wdata, next_toggle, prev_toggle)
  PROVE  AccessInv'
<1> SUFFICES ASSUME sdram_state' \in Accessing
             PROVE  (~Free /\ AccessesRam)'
  BY DEF AccessInv
<1>1. Intake(read, write, address, wdata, next_toggle, prev_toggle) /\ Fsm
  BY DEF Tick
<1>2. ~Free /\ AccessesRam /\ ~At("NON_RAM_READ") /\ ~At("READ_4") /\ ~At("WRITE_1")
      /\ ~(Ready /\ write_latched /\ ~AccessesRam)
  <2> USE DEF At, Ready, Move
  <2>1. CASE InitialisationPhase
    BY <2>1 DEF InitialisationPhase, AccessInv
  <2>2. CASE ActivateRow \/ SwitchRow \/ WriteOpenRow
    BY <2>2 DEF ActivateRow, SwitchRow, WriteOpenRow, Free
  <2>3. CASE Wait
    BY <2>3, WaitStatesAccess DEF Wait, AccessInv, WaitStates
  <2>4. CASE OpenNewRow \/ RowActivated
    BY <2>4 DEF OpenNewRow, RowActivated, AccessInv, Accessing
  <2>5. CASE ~(InitialisationPhase \/ ActivateRow \/ SwitchRow \/ WriteOpenRow \/ Wait
               \/ OpenNewRow \/ RowActivated)
    BY <1>1, <2>5 DEF Fsm, RefreshClosed, CloseForRefresh, StayIdle, NonRamWrite, NonRamRead,
       PresentNonRam, ReadOpenRow, LastBeat, WriteByte, WriteDone, RefreshStarted, Accessing
  <2> QED
    BY <2>1, <2>2, <2>3, <2>4, <2>5
<1>3. latched_addr' = latched_addr
  BY <1>1, <1>2, LatchHolds
<1>4. ~Free'
  BY <1>1, <1>2 DEF Intake, Free
<1> QED
  BY <1>2, <1>3, <1>4 DEF AccessesRam
-----------------------------------------------------------------------------
(* Type correctness.                                                        *)

TypeInv == TypeOK /\ AccessInv

\* The next step is a tick on well-typed inputs.
LEMMA NextIsTick ==
  ASSUME Next
  PROVE  \E read, write \in BOOLEAN, address \in Addresses, wdata \in Data,
            next_toggle, prev_toggle \in BOOLEAN :
              Tick(read, write, address, wdata, next_toggle, prev_toggle)
  BY TimingAssumption DEF Next

LEMMA TypeInvInit == Init => TypeInv
<1> SUFFICES ASSUME Init PROVE TypeInv
  OBVIOUS
<1> USE GeometryAssumption, TimingAssumption
<1>1. FsmTyped
  <2>1. sdram_prepped = TRUE /\ a10 = FALSE /\ active_row = FALSE
    BY DEF Init
  <2>2. /\ sdram_state \in States /\ sdram_init_phase \in 0..31
        /\ cmd \in Commands /\ sdram_ba \in Banks /\ sdram_a \in Rows \cup Cols
        /\ enabled \in SUBSET Bytes /\ cmd # "ACTIVATE_ROW" /\ active_row_addr \in Rows
    BY DEF Init, States, Commands
  <2> QED
    BY <2>1, <2>2 DEF FsmTyped
<1>2. /\ mem \in [RamLines -> LineData] /\ accepted \in [RamLines -> LineData]
      /\ rdata_line \in LineData /\ current_cache_line \in LineData /\ burst \in LineData
      /\ bank_row \in [Banks -> Rows \cup {NoRow}] /\ delay_cnt \in 0..(TRCD - 1)
  BY DEF Init, LineData
<1>3. latched_addr \in Addresses
  BY DEF Init, Addresses
<1>4. /\ refresh_due_countdown \in 0..(RefreshInterval - 1)
      /\ wdata_latched \in Data /\ rdata_buf \in Data /\ rdata \in Data
      /\ current_cache_line_address \in Lines
      /\ cache_line_next_address \in Lines /\ cache_line_prev_address \in Lines
  BY DEF Init
<1>5. /\ read_latched = FALSE /\ write_latched = FALSE /\ silent_read = FALSE /\ busy = TRUE
      /\ read_complete_strobe = FALSE /\ read_publish_strobe = FALSE
      /\ data_ready_toggle = FALSE /\ refresh_due = FALSE
  BY DEF Init
<1>6. /\ current_cache_line_valid = FALSE
      /\ reactive_cache_line_if_safe = FALSE /\ write_targets_cache_line = FALSE
      /\ next_toggle_drive = FALSE /\ prev_toggle_drive = FALSE
      /\ prev_current_cache_line_next_toggle = FALSE
      /\ prev_current_cache_line_prev_toggle = FALSE
  BY DEF Init
<1>7. TypeOK
  BY <1>1, <1>2, <1>3, <1>4, <1>5, <1>6 DEF TypeOK, FsmTyped
<1>8. AccessInv
  BY DEF Init, AccessInv, Accessing
<1> QED
  BY <1>7, <1>8 DEF TypeInv

LEMMA TypeInvNext == TypeInv /\ [Next]_vars => TypeInv'
<1> SUFFICES ASSUME TypeInv, [Next]_vars PROVE TypeInv'
  OBVIOUS
<1>1. CASE Next
  <2>1. PICK read, write \in BOOLEAN, address \in Addresses, wdata \in Data,
             next_toggle, prev_toggle \in BOOLEAN :
               Tick(read, write, address, wdata, next_toggle, prev_toggle)
    BY <1>1, NextIsTick
  <2>2. TypeOK'
    BY <2>1, TickType DEF TypeInv
  <2>3. AccessInv'
    BY <2>1, TickAccess DEF TypeInv
  <2> QED
    BY <2>2, <2>3 DEF TypeInv
<1>2. CASE UNCHANGED vars
  BY <1>2 DEF TypeInv, TypeOK, AccessInv, Free, AccessesRam, vars, fsmVars, pinVars, rowVars,
     refreshVars, requestVars, readVars, cacheVars, prefetchVars, chipVars
<1> QED
  BY <1>1, <1>2

\* Every register, every pin and every cell holds a value of its type, for every
\* geometry: in particular whatever is put on the address bus of the chip is a row
\* when a row is opened, because the access it is for is a latched RAM access.
THEOREM SdramTypeCorrect == Spec => []TypeOK
<1>1. TypeInv => TypeOK
  BY DEF TypeInv
<1> QED
  BY <1>1, TypeInvInit, TypeInvNext, PTL DEF Spec
-----------------------------------------------------------------------------
(* The row discipline.  Its inductive strengthening says, state by state, how the
   rows open in the chip relate to active_row and to the latched request.   *)

Row == RowOf[latched_addr.line]
Bank == BankOf[Row]

\* No row is being opened or closed; the pins carry nothing that changes the rows.
Steady == {"IDLE", "NON_RAM_READ", "READ_WAIT", "READ_WAIT_2", "READ_WAIT_3", "READ_WAIT_4",
           "READ_0", "READ_1", "READ_2", "READ_3", "READ_4", "WRITE_1", "WRITE_2"}
Switching == {"CLOSE_AND_SWITCH_ROW_2", "CLOSE_AND_SWITCH_ROW_3", "CLOSE_AND_SWITCH_ROW_4"}
Closed == {"CLOSE_FOR_REFRESH_2", "CLOSE_FOR_REFRESH_3", "CLOSE_FOR_REFRESH_4", "REFRESH_1"}
Refreshing == {"REFRESH_2", "REFRESH_3", "REFRESH_4", "REFRESH_5", "REFRESH_6", "REFRESH_7",
               "REFRESH_8", "REFRESH_9"}

SteadyInv ==
  /\ delay_cnt = 0 /\ cmd \in {"NOP", "SET_MODE_REG", "READ", "WRITE"}
  /\ cmd = "READ" => sdram_state = "READ_WAIT"
  /\ cmd = "WRITE" /\ enabled # {} => sdram_state = "WRITE_2"
  /\ active_row => bank_row[BankOf[active_row_addr]] = active_row_addr
                    /\ sdram_ba = BankOf[active_row_addr]
  /\ ~active_row => AllClosed
  /\ sdram_state \in {"READ_WAIT", "WRITE_1", "WRITE_2"} => RowIsOpen

StateInv ==
  /\ sdram_state \in Steady => SteadyInv
  /\ sdram_state = "CLOSE_AND_SWITCH_ROW" =>
       cmd = "PRECHARGE" /\ sdram_ba = Bank /\ delay_cnt = 0
  /\ sdram_state \in Switching => cmd = "NOP" /\ bank_row[Bank] = NoRow /\ delay_cnt = 0
  /\ sdram_state = "ACTIVATE_WAIT" =>
       cmd = "ACTIVATE_ROW" /\ sdram_ba = Bank /\ sdram_a = Row /\ bank_row[Bank] = NoRow
  /\ sdram_state = "ACTIVATE_WAIT_1" => cmd = "NOP" /\ sdram_ba = Bank /\ bank_row[Bank] = Row
  /\ sdram_state = "ACTIVATE_WAIT_2" =>
       cmd = "NOP" /\ sdram_ba = Bank /\ bank_row[Bank] = Row /\ delay_cnt <= 1
  /\ sdram_state = "CLOSE_FOR_REFRESH" => cmd = "PRECHARGE" /\ a10 /\ delay_cnt = 0
  /\ sdram_state \in Closed => cmd \in {"NOP", "AUTO_REFRESH"} /\ AllClosed /\ delay_cnt = 0
  /\ sdram_state \in Refreshing =>
       cmd \in {"NOP", "AUTO_REFRESH"} /\ AllClosed /\ delay_cnt = 0 /\ ~active_row

Uninterrupted == sdram_prepped /\ sdram_init_phase # 31

RowInv ==
  /\ sdram_prepped => sdram_init_phase \in {0, 1, 31}
  /\ Uninterrupted => StateInv
\* The states of StateInv's conjuncts are the states of the machine, once each.
LEMMA StateClasses ==
  /\ States = Steady \cup Switching \cup Closed \cup Refreshing
               \cup {"CLOSE_AND_SWITCH_ROW", "ACTIVATE_WAIT", "ACTIVATE_WAIT_1",
                     "ACTIVATE_WAIT_2", "CLOSE_FOR_REFRESH"}
  /\ "IDLE" \in Steady /\ "NON_RAM_READ" \in Steady /\ "READ_WAIT" \in Steady
  /\ "READ_4" \in Steady /\ "WRITE_1" \in Steady /\ "WRITE_2" \in Steady
  /\ "CLOSE_AND_SWITCH_ROW_4" \in Switching
  /\ "REFRESH_1" \in Closed /\ "REFRESH_2" \in Refreshing
  BY DEF States, Steady, Switching, Closed, Refreshing

LEMMA RowInvInit == Init => RowInv
  BY GeometryAssumption
  DEF Init, RowInv, Uninterrupted, StateInv, SteadyInv, AllClosed, Steady, Switching, Closed,
      Refreshing

\* The state machine can only be uninterrupted if it was.
LEMMA StaysUninterrupted ==
  ASSUME TypeOK, RowInv, Fsm
  PROVE  /\ sdram_prepped' => sdram_init_phase' \in {0, 1, 31}
         /\ Uninterrupted' => Uninterrupted /\ ~InitialisationPhase /\ ~NonRamWrite
<1>1. CASE InitialisationPhase
  BY <1>1 DEF InitialisationPhase, Uninterrupted
<1>2. CASE NonRamWrite
  BY <1>2 DEF NonRamWrite, Uninterrupted
<1>3. CASE ~InitialisationPhase /\ ~NonRamWrite
  <2>1. sdram_prepped /\ sdram_prepped' = sdram_prepped
        /\ sdram_init_phase' = IF sdram_init_phase = 0 THEN 1 ELSE sdram_init_phase
    BY <1>3 DEF Fsm, RefreshClosed, CloseForRefresh, StayIdle, NonRamRead, PresentNonRam,
       ActivateRow, SwitchRow, ReadOpenRow, WriteOpenRow, Wait, OpenNewRow, RowActivated,
       LastBeat, WriteByte, WriteDone, RefreshStarted, Move, At, Ready
  <2> QED
    BY <1>3, <2>1 DEF RowInv, Uninterrupted
<1> QED
  BY <1>1, <1>2, <1>3

LEMMA RowInvStep ==
  ASSUME TypeInv, RowInv,
         NEW read, NEW write, NEW address, NEW wdata, NEW next_toggle, NEW prev_toggle,
         Tick(read, write, address, wdata, next_toggle, prev_toggle)
  PROVE  RowInv'
<1>1. Intake(read, write, address, wdata, next_toggle, prev_toggle) /\ Fsm /\ Chip
  BY DEF Tick
<1>2. SUFFICES ASSUME Uninterrupted' PROVE StateInv'
  BY <1>1, StaysUninterrupted DEF RowInv, TypeInv
<1>3. StateInv /\ sdram_prepped /\ ~InitialisationPhase /\ ~NonRamWrite
  BY <1>1, <1>2, StaysUninterrupted DEF RowInv, TypeInv, Uninterrupted
<1>4. ~Free => latched_addr' = latched_addr
  BY <1>1, LatchHolds
<1>5. /\ bank_row \in [Banks -> Rows \cup {NoRow}] /\ sdram_ba \in Banks
      /\ active_row_addr \in Rows /\ BankOf[active_row_addr] \in Banks
      /\ delay_cnt \in 0..(TRCD - 1)
  BY GeometryAssumption DEF TypeInv, TypeOK
<1>6. AccessesRam => Row \in Rows /\ Bank \in Banks
  BY GeometryAssumption DEF AccessesRam, Row, Bank
<1>7. sdram_state \in Accessing => ~Free /\ AccessesRam
  BY DEF TypeInv, AccessInv
<1>8. bank_row' = Settled
      /\ (cmd = "ACTIVATE_ROW" => delay_cnt' = TRCD - 1)
      /\ (cmd # "ACTIVATE_ROW" /\ delay_cnt # 0 => delay_cnt' = delay_cnt - 1)
      /\ (cmd # "ACTIVATE_ROW" /\ delay_cnt = 0 => delay_cnt' = 0)
  BY <1>1 DEF Chip
<1>9. sdram_state \in Steady => bank_row' = bank_row /\ delay_cnt' = 0 /\ SteadyInv
  BY <1>3, <1>8 DEF StateInv, SteadyInv, Settled
<1> USE DEF At
(* The class of the next state selects the conjunct of StateInv' to prove. *)
<1>10. ASSUME sdram_state' \in Steady, SteadyInv' PROVE StateInv'
  BY <1>10 DEF StateInv, Steady, Switching, Closed, Refreshing
<1>11. ASSUME sdram_state' \in Closed \cup Refreshing, cmd' \in {"NOP", "AUTO_REFRESH"},
              AllClosed', delay_cnt' = 0, sdram_state' \in Refreshing => ~active_row'
       PROVE  StateInv'
  BY <1>11 DEF StateInv, Steady, Switching, Closed, Refreshing
<1>12. ASSUME sdram_state \in Steady, sdram_state' \in Steady \ {"READ_WAIT", "WRITE_1", "WRITE_2"},
              UNCHANGED <<sdram_ba, active_row, active_row_addr>>,
              cmd' = "NOP" \/ (cmd' = cmd /\ cmd # "READ"), enabled' = {}
       PROVE  StateInv'
  <2>1. SteadyInv'
    BY <1>9, <1>12 DEF SteadyInv, AllClosed
  <2> QED
    BY <1>10, <1>12, <2>1
<1>13. CASE RefreshClosed
  <2>1. sdram_state' \in Refreshing \cup Closed /\ sdram_state' \notin Refreshing
    BY <1>13 DEF RefreshClosed, Move, Closed, Refreshing
  <2>2. AllClosed' /\ delay_cnt' = 0 /\ cmd' = "AUTO_REFRESH"
    BY <1>9, <1>13, StateClasses DEF RefreshClosed, Emit, SteadyInv, AllClosed
  <2> QED
    BY <1>11, <2>1, <2>2
<1>14. CASE CloseForRefresh
  BY <1>9, <1>14 DEF CloseForRefresh, Move, StateInv, Steady, Switching, Closed, Refreshing
<1>15. CASE StayIdle
  BY <1>12, <1>15, StateClasses DEF StayIdle, Ready, Emit, Move, Masked, KeepRow, rowVars
<1>16. CASE NonRamRead
  BY <1>12, <1>16, StateClasses DEF NonRamRead, Ready, Emit, Move, Masked, KeepRow, rowVars
<1>17. CASE PresentNonRam \/ LastBeat \/ WriteDone
  <2>1. sdram_state \in {"NON_RAM_READ", "READ_4", "WRITE_2"} /\ sdram_state' = "IDLE"
        /\ UNCHANGED <<cmd, sdram_ba, active_row, active_row_addr>> /\ enabled' = {}
    BY <1>17 DEF PresentNonRam, LastBeat, WriteDone, Hold, Move, Masked, KeepRow, rowVars
  <2>2. cmd # "READ"
    BY <1>9, <2>1, StateClasses DEF SteadyInv
  <2> QED
    BY <1>12, <2>1, <2>2, StateClasses
<1>18. CASE ActivateRow
  <2>1. /\ sdram_state = "IDLE" /\ sdram_state' = "ACTIVATE_WAIT" /\ ~Free /\ AccessesRam
        /\ ~active_row /\ cmd' = "ACTIVATE_ROW" /\ sdram_ba' = Bank /\ sdram_a' = Row
    BY <1>18 DEF ActivateRow, Ready, Move, PutRow, Row, Bank
  <2>2. bank_row'[Bank] = NoRow
    BY <1>6, <1>9, <2>1, StateClasses DEF SteadyInv, AllClosed
  <2>3. Row' = Row /\ Bank' = Bank
    BY <1>4, <2>1 DEF Row, Bank
  <2> QED
    BY <2>1, <2>2, <2>3 DEF StateInv, Steady, Switching, Closed, Refreshing
<1>19. CASE SwitchRow
  <2>1. /\ sdram_state = "IDLE" /\ sdram_state' = "CLOSE_AND_SWITCH_ROW" /\ ~Free
        /\ cmd' = "PRECHARGE" /\ sdram_ba' = Bank
    BY <1>19 DEF SwitchRow, Ready, Move, PutRow, Row, Bank
  <2>2. Bank' = Bank /\ delay_cnt' = 0
    BY <1>4, <1>9, <2>1, StateClasses DEF Row, Bank
  <2> QED
    BY <2>1, <2>2 DEF StateInv, Steady, Switching, Closed, Refreshing
<1>20. CASE ReadOpenRow
  <2>1. /\ sdram_state = "IDLE" /\ sdram_state' = "READ_WAIT" /\ ~Free /\ RowIsOpen
        /\ cmd' = "READ" /\ UNCHANGED <<sdram_ba, active_row, active_row_addr>>
    BY <1>20 DEF ReadOpenRow, Ready, Free, Move, PutColumn, KeepRow, rowVars
  <2>2. SteadyInv'
    BY <1>4, <1>9, <2>1, StateClasses DEF SteadyInv, RowIsOpen, AllClosed
  <2> QED
    BY <1>10, <2>1, <2>2, StateClasses
<1>21. CASE WriteOpenRow
  <2>1. /\ sdram_state = "IDLE" /\ sdram_state' = "WRITE_1" /\ ~Free /\ RowIsOpen
        /\ enabled' = {} /\ UNCHANGED <<cmd, sdram_ba, active_row, active_row_addr>>
    BY <1>21 DEF WriteOpenRow, Ready, Free, Move, Masked, Hold, KeepRow, rowVars
  <2>2. SteadyInv'
    BY <1>4, <1>9, <2>1, StateClasses DEF SteadyInv, RowIsOpen, AllClosed
  <2> QED
    BY <1>10, <2>1, <2>2, StateClasses
<1>22. CASE OpenNewRow
  <2>1. /\ sdram_state = "CLOSE_AND_SWITCH_ROW_4" /\ sdram_state' = "ACTIVATE_WAIT"
        /\ ~Free /\ AccessesRam
        /\ cmd' = "ACTIVATE_ROW" /\ sdram_ba' = Bank /\ sdram_a' = Row
    BY <1>7, <1>22 DEF OpenNewRow, Move, PutRow, Row, Bank, Accessing
  <2>2. cmd = "NOP" /\ bank_row[Bank] = NoRow
    BY <1>3, <2>1, StateClasses DEF StateInv
  <2>3. bank_row'[Bank] = NoRow
    BY <1>8, <2>2 DEF Settled
  <2>4. Row' = Row /\ Bank' = Bank
    BY <1>4, <2>1 DEF Row, Bank
  <2> QED
    BY <2>1, <2>3, <2>4 DEF StateInv, Steady, Switching, Closed, Refreshing
<1>23. CASE RowActivated
  <2>1. /\ sdram_state = "ACTIVATE_WAIT_2" /\ ~Free /\ AccessesRam
        /\ active_row' = TRUE /\ active_row_addr' = Row /\ sdram_ba' = sdram_ba
        /\ enabled' = {}
        /\ \/ sdram_state' = "READ_WAIT" /\ cmd' \in {"NOP", "READ"}
           \/ sdram_state' = "WRITE_1" /\ cmd' = "NOP"
    BY <1>7, <1>23 DEF RowActivated, Move, Emit, PutColumn, Masked, Row, Accessing, TypeInv,
                       TypeOK, Free
  <2>2. cmd = "NOP" /\ sdram_ba = Bank /\ bank_row[Bank] = Row /\ delay_cnt <= 1
    BY <1>3, <2>1 DEF StateInv
  <2>3. bank_row' = bank_row /\ delay_cnt' = 0
    BY <1>5, <1>8, <2>2, TimingAssumption DEF Settled
  <2>4. Row' = Row /\ Bank' = Bank
    BY <1>4, <2>1 DEF Row, Bank
  <2>5. RowIsOpen'
    BY <2>1, <2>4 DEF RowIsOpen, Row
  <2>6. SteadyInv'
    BY <2>1, <2>2, <2>3, <2>4, <2>5 DEF SteadyInv, Bank
  <2> QED
    BY <1>10, <2>1, <2>6, StateClasses
<1>24. CASE WriteByte
  <2>1. /\ sdram_state = "WRITE_1" /\ sdram_state' = "WRITE_2" /\ ~Free
        /\ cmd' = "WRITE" /\ UNCHANGED <<sdram_ba, active_row, active_row_addr>>
    BY <1>7, <1>24 DEF WriteByte, Move, PutColumn, KeepRow, rowVars, Accessing
  <2>2. SteadyInv'
    BY <1>4, <1>9, <2>1, StateClasses DEF SteadyInv, RowIsOpen, AllClosed
  <2> QED
    BY <1>10, <2>1, <2>2, StateClasses
<1>25. CASE RefreshStarted
  <2>1. /\ sdram_state = "REFRESH_1" /\ sdram_state' = "REFRESH_2" /\ cmd' = cmd
        /\ active_row' = FALSE
    BY <1>25 DEF RefreshStarted, Hold, Move
  <2>2. cmd \in {"NOP", "AUTO_REFRESH"} /\ AllClosed /\ delay_cnt = 0
    BY <1>3, <2>1, StateClasses DEF StateInv
  <2>3. AllClosed' /\ delay_cnt' = 0
    BY <1>8, <2>2 DEF Settled, AllClosed
  <2> QED
    BY <1>11, <2>1, <2>2, <2>3, StateClasses
<1>26. CASE Wait
  <2>1. PICK p \in WaitStates : p[1] = sdram_state /\ p[2] = sdram_state'
    BY <1>26 DEF Wait, Move
  <2>2. cmd' = "NOP" /\ UNCHANGED <<sdram_ba, active_row, active_row_addr>> /\ enabled' = {}
    BY <1>26 DEF Wait, Emit, KeepRow, rowVars, Masked
  <2>3. CASE sdram_state \in Steady
    <3>1. sdram_state' \in Steady \ {"READ_WAIT", "WRITE_1", "WRITE_2"}
      BY <2>1, <2>3 DEF WaitStates, Steady
    <3> QED
      BY <1>12, <2>2, <2>3, <3>1
  <2>4. CASE sdram_state \in Closed \cup Refreshing
    <3>1. cmd \in {"NOP", "AUTO_REFRESH"} /\ AllClosed /\ delay_cnt = 0
          /\ (sdram_state \in Refreshing => ~active_row)
      BY <1>3, <2>4 DEF StateInv
    <3>2. AllClosed' /\ delay_cnt' = 0
      BY <1>8, <3>1 DEF Settled, AllClosed
    <3>3. CASE sdram_state' \in Closed \cup Refreshing
      <4>1. sdram_state' \in Refreshing => sdram_state \in Refreshing
        BY <2>1, <2>4 DEF WaitStates, Closed, Refreshing
      <4> QED
        BY <1>11, <2>2, <3>1, <3>2, <3>3, <4>1
    <3>4. CASE sdram_state' \notin Closed \cup Refreshing
      <4>1. sdram_state = "REFRESH_9" /\ sdram_state' = "IDLE"
        BY <2>1, <2>4, <3>4 DEF WaitStates, Closed, Refreshing
      <4>2. SteadyInv'
        BY <2>2, <3>1, <3>2, <4>1 DEF SteadyInv, Refreshing
      <4> QED
        BY <1>10, <4>1, <4>2, StateClasses
    <3> QED
      BY <3>3, <3>4
  <2>5. CASE sdram_state = "CLOSE_FOR_REFRESH"
    <3>1. cmd = "PRECHARGE" /\ a10 /\ delay_cnt = 0
      BY <1>3, <2>5 DEF StateInv
    <3>2. AllClosed' /\ delay_cnt' = 0
      BY <1>5, <1>8, <3>1 DEF Settled, AllClosed
    <3>3. sdram_state' \in Closed /\ sdram_state' \notin Refreshing
      BY <2>1, <2>5 DEF WaitStates, Closed, Refreshing
    <3> QED
      BY <1>11, <2>2, <3>2, <3>3
  <2>6. CASE sdram_state \in {"CLOSE_AND_SWITCH_ROW", "CLOSE_AND_SWITCH_ROW_2",
                              "CLOSE_AND_SWITCH_ROW_3"}
    <3>1. ~Free /\ AccessesRam
      BY <1>7, <2>6 DEF Accessing
    <3>2. \/ cmd = "PRECHARGE" /\ sdram_ba = Bank /\ delay_cnt = 0
          \/ cmd = "NOP" /\ bank_row[Bank] = NoRow /\ delay_cnt = 0
      BY <1>3, <2>6 DEF StateInv, Switching
    <3>3. bank_row'[Bank] = NoRow /\ delay_cnt' = 0
      BY <1>5, <1>6, <1>8, <3>1, <3>2 DEF Settled
    <3>4. Bank' = Bank
      BY <1>4, <3>1 DEF Row, Bank
    <3>5. sdram_state' \in Switching
      BY <2>1, <2>6 DEF WaitStates, Switching
    <3> QED
      BY <2>2, <3>3, <3>4, <3>5 DEF StateInv, Steady, Switching, Closed, Refreshing
  <2>7. CASE sdram_state = "ACTIVATE_WAIT"
    <3>1. ~Free /\ AccessesRam /\ sdram_state' = "ACTIVATE_WAIT_1"
      BY <1>7, <2>1, <2>7 DEF Accessing, WaitStates
    <3>2. cmd = "ACTIVATE_ROW" /\ sdram_ba = Bank /\ sdram_a = Row
      BY <1>3, <2>7 DEF StateInv
    <3>3. bank_row'[Bank] = Row
      BY <1>5, <1>6, <1>8, <3>1, <3>2 DEF Settled
    <3>4. Row' = Row /\ Bank' = Bank
      BY <1>4, <3>1 DEF Row, Bank
    <3> QED
      BY <2>2, <3>1, <3>2, <3>3, <3>4 DEF StateInv, Steady, Switching, Closed, Refreshing
  <2>8. CASE sdram_state = "ACTIVATE_WAIT_1"
    <3>1. ~Free /\ AccessesRam /\ sdram_state' = "ACTIVATE_WAIT_2"
      BY <1>7, <2>1, <2>8 DEF Accessing, WaitStates
    <3>2. cmd = "NOP" /\ sdram_ba = Bank /\ bank_row[Bank] = Row
      BY <1>3, <2>8 DEF StateInv
    <3>3. bank_row'[Bank] = Row /\ delay_cnt' <= 1
      BY <1>5, <1>8, <3>2, TimingAssumption DEF Settled
    <3>4. Row' = Row /\ Bank' = Bank
      BY <1>4, <3>1 DEF Row, Bank
    <3> QED
      BY <2>2, <3>1, <3>2, <3>3, <3>4 DEF StateInv, Steady, Switching, Closed, Refreshing
  <2> QED
    BY <2>1, <2>3, <2>4, <2>5, <2>6, <2>7, <2>8
    DEF WaitStates, Steady, Closed, Refreshing
<1> QED
  BY <1>1, <1>3, <1>13, <1>14, <1>15, <1>16, <1>17, <1>18, <1>19, <1>20, <1>21, <1>22, <1>23,
     <1>24, <1>25, <1>26 DEF Fsm

LEMMA RowInvNext == TypeInv /\ RowInv /\ [Next]_vars => RowInv'
<1> SUFFICES ASSUME TypeInv, RowInv, [Next]_vars PROVE RowInv'
  OBVIOUS
<1>1. CASE Next
  BY <1>1, RowInvStep DEF Next
<1>2. CASE UNCHANGED vars
  BY <1>2 DEF RowInv, Uninterrupted, StateInv, SteadyInv, AllClosed, RowIsOpen, Row, Bank,
     vars, fsmVars, pinVars, rowVars, requestVars, chipVars
<1> QED
  BY <1>1, <1>2

LEMMA RowInvImpliesRowDiscipline == TypeInv /\ RowInv => RowDiscipline
<1> SUFFICES ASSUME TypeInv, RowInv, sdram_prepped /\ sdram_init_phase # 31
             PROVE  RowProtocol
  BY DEF RowDiscipline
<1>1. StateInv /\ sdram_state \in States
  BY DEF RowInv, Uninterrupted, TypeInv, TypeOK
<1>2. CASE sdram_state \in Steady
  BY <1>1, <1>2 DEF StateInv, SteadyInv, RowProtocol, RowIsOpen
<1>3. CASE sdram_state \notin Steady
  BY <1>1, <1>3, StateClasses DEF StateInv, RowProtocol
<1> QED
  BY <1>2, <1>3

\* As long as no write to a control register has re-run the initialisation sequence,
\* the controller opens rows of closed banks only, reads and writes the row of the
\* latched address only, not before tRCD, and refreshes only closed banks -- whatever
\* the requester does, whatever the refresh interval, in every geometry, and even
\* though the PRECHARGE of SwitchRow may close all the banks or only the new one.
THEOREM SdramRowDiscipline == Spec => []RowDiscipline
<1>1. Init => TypeInv /\ RowInv
  BY TypeInvInit, RowInvInit
<1>2. TypeInv /\ RowInv /\ [Next]_vars => (TypeInv /\ RowInv)'
  BY TypeInvNext, RowInvNext
<1> QED
  BY <1>1, <1>2, RowInvImpliesRowDiscipline, PTL DEF Spec
=============================================================================
