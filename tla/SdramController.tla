--------------------------- MODULE SdramController ---------------------------
(* The SDRAM controller of the R4/R5/R6 boards (src/vhdl/sdram_controller.vhdl) and
   the SDRAM chip on its pins.  One step is one rising edge of clock162.  The
   process of the controller is a list of signal assignments of which the last
   one executed wins; each register's next value is stated here once, in the
   order that rule gives.  The inputs of the edge are the parameters of Tick, so
   that a module that composes the controller passes it the requester's pins.

   A byte address is a cache line (address bits 26..3) and a byte of it; the
   row, the bank and the column of a line are functions of the constants.  The
   four beats of a read burst are one value, captured in READ_4.            *)
EXTENDS Naturals

CONSTANTS
  Lines,           \* 8-byte cache lines of the address space
  NonRam,          \* those with address bit 26 set: control registers, not RAM
  Bytes, Data,     \* byte positions in a line, byte values
  Rows, Banks, Cols,
  RowOf,           \* line -> row, bank included   (address bits 25..11)
  ColOf,           \* line -> column in its row    (address bits 10..3)
  BankOf,          \* row -> bank                  (address bits 25..24)
  AllBit,          \* row -> the bit that lands on A10 (address bit 21)
  NextLine, PrevLine,                   \* line + 1 and line - 1
  NoRow, FirstLine, FirstByte, FirstBank, FirstCol, Zero,  \* closed; power-up 0
  RefreshInterval, \* ticks between refreshes: 1265 in the code
  TRCD,            \* ticks from ACTIVATE to READ or WRITE, of the chip
  IdenticalClocks, \* the generic input that drops READ_WAIT_4
  NonRamValue,     \* what a read of a control register gives
  WriteLines,      \* lines the requester may write (NonRam ones re-initialise)
  NextToggles, PrevToggles  \* values of its prefetch toggles: BOOLEAN, or {FALSE} for none

RamLines == Lines \ NonRam
Addresses == [line : Lines, byte : Bytes]
LineData == [Bytes -> Data]

ASSUME GeometryAssumption ==
  /\ WriteLines \subseteq Lines
  /\ FirstLine \in Lines /\ FirstByte \in Bytes /\ FirstBank \in Banks
  /\ FirstCol \in Cols /\ Zero \in Data /\ NonRamValue \in Data
  /\ RowOf \in [RamLines -> Rows] /\ ColOf \in [RamLines -> Cols]
  /\ BankOf \in [Rows -> Banks] /\ AllBit \in [Rows -> BOOLEAN]
  /\ NextLine \in [Lines -> Lines] /\ PrevLine \in [Lines -> Lines]
  /\ NoRow \notin Rows
  /\ \A l, m \in RamLines : RowOf[l] = RowOf[m] /\ ColOf[l] = ColOf[m] => l = m

ASSUME TimingAssumption ==
  /\ RefreshInterval \in Nat \ {0}
  /\ TRCD \in 1..3   \* tRCD of the fitted chips is 18 ns, three ticks
  /\ IdenticalClocks \in BOOLEAN
  /\ NextToggles \subseteq BOOLEAN /\ PrevToggles \subseteq BOOLEAN

States ==
  {"CLOSE_AND_SWITCH_ROW", "CLOSE_AND_SWITCH_ROW_2", "CLOSE_AND_SWITCH_ROW_3",
   "CLOSE_AND_SWITCH_ROW_4", "ACTIVATE_WAIT", "ACTIVATE_WAIT_1", "ACTIVATE_WAIT_2",
   "READ_WAIT", "READ_WAIT_2", "READ_WAIT_3", "READ_WAIT_4",
   "READ_0", "READ_1", "READ_2", "READ_3", "READ_4", "WRITE_1", "WRITE_2",
   "CLOSE_FOR_REFRESH", "CLOSE_FOR_REFRESH_2", "CLOSE_FOR_REFRESH_3",
   "CLOSE_FOR_REFRESH_4", "REFRESH_1", "REFRESH_2", "REFRESH_3", "REFRESH_4",
   "REFRESH_5", "REFRESH_6", "REFRESH_7", "REFRESH_8", "REFRESH_9", "NON_RAM_READ", "IDLE"}

\* The states that emit NOP and do nothing else, with the state that follows each.
WaitStates ==
  { <<"CLOSE_AND_SWITCH_ROW", "CLOSE_AND_SWITCH_ROW_2">>,
    <<"CLOSE_AND_SWITCH_ROW_2", "CLOSE_AND_SWITCH_ROW_3">>,
    <<"CLOSE_AND_SWITCH_ROW_3", "CLOSE_AND_SWITCH_ROW_4">>,
    <<"ACTIVATE_WAIT", "ACTIVATE_WAIT_1">>, <<"ACTIVATE_WAIT_1", "ACTIVATE_WAIT_2">>,
    <<"READ_WAIT", "READ_WAIT_2">>, <<"READ_WAIT_2", "READ_WAIT_3">>,
    <<"READ_WAIT_3", IF IdenticalClocks THEN "READ_0" ELSE "READ_WAIT_4">>,
    <<"READ_WAIT_4", "READ_0">>, <<"READ_0", "READ_1">>, <<"READ_1", "READ_2">>,
    <<"READ_2", "READ_3">>, <<"READ_3", "READ_4">>,
    <<"CLOSE_FOR_REFRESH", "CLOSE_FOR_REFRESH_2">>,
    <<"CLOSE_FOR_REFRESH_2", "CLOSE_FOR_REFRESH_3">>,
    <<"CLOSE_FOR_REFRESH_3", "CLOSE_FOR_REFRESH_4">>,
    <<"CLOSE_FOR_REFRESH_4", "REFRESH_1">>,
    <<"REFRESH_2", "REFRESH_3">>, <<"REFRESH_3", "REFRESH_4">>,
    <<"REFRESH_4", "REFRESH_5">>, <<"REFRESH_5", "REFRESH_6">>,
    <<"REFRESH_6", "REFRESH_7">>, <<"REFRESH_7", "REFRESH_8">>,
    <<"REFRESH_8", "REFRESH_9">>, <<"REFRESH_9", "IDLE">> }

Commands == {"NOP", "SET_MODE_REG", "PRECHARGE", "AUTO_REFRESH", "ACTIVATE_ROW",
             "READ", "WRITE"}

\* The initialisation sequence: the command of each of its 32 phases.
init_cmds == [p \in 0..31 |-> IF p = 2 THEN "PRECHARGE"
                               ELSE IF p \in {6, 16} THEN "AUTO_REFRESH"
                               ELSE IF p = 30 THEN "SET_MODE_REG" ELSE "NOP"]

VARIABLES
  sdram_state, sdram_prepped, sdram_init_phase,
  cmd,                        \* ras_n, cas_n, we_n
  sdram_ba, sdram_a, a10,     \* bank; row or column; A10, told apart from sdram_a
  enabled,                    \* bytes of the line that column and DQM let WRITE change
  active_row, active_row_addr,
  refresh_due, refresh_due_countdown,
  read_latched, write_latched, latched_addr, wdata_latched, silent_read, busy,
  rdata_line, read_complete_strobe, read_publish_strobe,
  rdata_buf, rdata, data_ready_toggle,
  current_cache_line, current_cache_line_address, current_cache_line_valid,
  reactive_cache_line_if_safe, write_targets_cache_line,
  cache_line_next_address, cache_line_prev_address,
  next_toggle_drive, prev_toggle_drive,
  prev_current_cache_line_next_toggle, prev_current_cache_line_prev_toggle,
  bank_row, delay_cnt, mem, burst,   \* the chip: open rows, tRCD timer, cells, data out
  accepted                    \* history: each RAM byte as the latched writes leave it

fsmVars == <<sdram_state, sdram_prepped, sdram_init_phase>>
pinVars == <<cmd, sdram_ba, sdram_a, a10, enabled>>
rowVars == <<active_row, active_row_addr>>
refreshVars == <<refresh_due, refresh_due_countdown>>
requestVars == <<read_latched, write_latched, latched_addr, wdata_latched, silent_read, busy>>
readVars == <<rdata_line, read_complete_strobe, read_publish_strobe, rdata_buf, rdata,
              data_ready_toggle>>
cacheVars == <<current_cache_line, current_cache_line_address, current_cache_line_valid,
               reactive_cache_line_if_safe, write_targets_cache_line>>
prefetchVars == <<cache_line_next_address, cache_line_prev_address,
                  next_toggle_drive, prev_toggle_drive,
                  prev_current_cache_line_next_toggle, prev_current_cache_line_prev_toggle>>
chipVars == <<bank_row, delay_cnt, mem, burst>>
vars == <<fsmVars, pinVars, rowVars, refreshVars, requestVars, readVars, cacheVars,
          prefetchVars, chipVars, accepted>>

Init ==
  /\ sdram_state = "IDLE" /\ sdram_prepped = TRUE /\ sdram_init_phase = 0
  /\ cmd \in {"NOP", "SET_MODE_REG"}   \* the strobes have no initial value
  /\ sdram_ba = FirstBank /\ sdram_a = FirstCol /\ a10 = FALSE /\ enabled = {}
  /\ active_row = FALSE /\ active_row_addr \in Rows
  /\ refresh_due = FALSE /\ refresh_due_countdown = RefreshInterval - 1
  /\ read_latched = FALSE /\ write_latched = FALSE /\ silent_read = FALSE /\ busy = TRUE
  /\ latched_addr = [line |-> FirstLine, byte |-> FirstByte] /\ wdata_latched = Zero
  /\ rdata_line = [b \in Bytes |-> Zero] /\ rdata_buf = Zero /\ rdata = Zero
  /\ read_complete_strobe = FALSE /\ read_publish_strobe = FALSE
  /\ data_ready_toggle = FALSE
  /\ current_cache_line = [b \in Bytes |-> Zero] /\ current_cache_line_address = FirstLine
  /\ current_cache_line_valid = FALSE
  /\ reactive_cache_line_if_safe = FALSE /\ write_targets_cache_line = FALSE
  /\ cache_line_next_address = FirstLine /\ cache_line_prev_address = FirstLine
  /\ next_toggle_drive = FALSE /\ prev_toggle_drive = FALSE
  /\ prev_current_cache_line_next_toggle = FALSE
  /\ prev_current_cache_line_prev_toggle = FALSE
  /\ bank_row = [b \in Banks |-> NoRow] /\ delay_cnt = 0
  /\ mem \in [RamLines -> LineData] /\ burst = [b \in Bytes |-> Zero]
  /\ accepted = mem
-----------------------------------------------------------------------------
(* What the process decides at an edge from the registers and its inputs.   *)

Free == ~read_latched /\ ~write_latched

\* Mutants: a request overwrites the one in the latch.
LatchReadOverRead(read, write) == ~write_latched /\ read /\ ~write
LatchWriteAnyTime(read, write) == write /\ ~read
FetchNextAnyTime(read, write) ==
  ~read /\ ~write /\ next_toggle_drive # prev_current_cache_line_next_toggle

\* A request pin is looked at whatever the state of the machine and of busy.
LatchRead(read, write) == Free /\ read /\ ~write
LatchWrite(read, write) == Free /\ write /\ ~read
FetchPrev(read, write) ==
  /\ Free /\ ~read /\ ~write
  /\ prev_toggle_drive # prev_current_cache_line_prev_toggle
FetchNext(read, write) ==
  /\ Free /\ ~read /\ ~write
  /\ next_toggle_drive # prev_current_cache_line_next_toggle
Fetch(read, write) == FetchPrev(read, write) \/ FetchNext(read, write)

At(s) == sdram_prepped /\ sdram_state = s
AccessesRam == latched_addr.line \in RamLines
\* Mutant: a request goes before a refresh that is due.
ReadyThoughRefreshDue == At("IDLE")

Ready == At("IDLE") /\ ~refresh_due            \* IDLE, and may start a request
WriteStart == Ready /\ write_latched /\ AccessesRam
\* Mutant: any open row serves.
SomeRowIsOpen == active_row

RowIsOpen == active_row /\ RowOf[latched_addr.line] = active_row_addr
\* Mutant: a new request takes the strobe from the answer before it.
PublishIfFree == read_publish_strobe /\ ~silent_read /\ Free

Publish == read_publish_strobe /\ ~silent_read
Reactivate == reactive_cache_line_if_safe /\ ~write_targets_cache_line
-----------------------------------------------------------------------------
(* The registers outside the state machine.                                 *)

\* Read, write or prefetch request into the one latch, the last of them winning.
Intake(read, write, address, wdata, next_toggle, prev_toggle) ==
  /\ latched_addr' =
       IF FetchNext(read, write) THEN [line |-> cache_line_next_address, byte |-> FirstByte]
       ELSE IF FetchPrev(read, write) THEN [line |-> cache_line_prev_address, byte |-> FirstByte]
       ELSE IF LatchRead(read, write) \/ LatchWrite(read, write) THEN address
       ELSE latched_addr
  /\ wdata_latched' = IF LatchWrite(read, write) THEN wdata ELSE wdata_latched
  /\ silent_read' = (Fetch(read, write) \/ (silent_read /\ ~LatchRead(read, write)))
  /\ read_latched' = /\ read_latched \/ LatchRead(read, write) \/ Fetch(read, write)
                     /\ ~At("NON_RAM_READ") /\ ~At("READ_4")
  /\ write_latched' = /\ write_latched \/ LatchWrite(read, write)
                      /\ ~At("WRITE_1") /\ ~(Ready /\ write_latched /\ ~AccessesRam)
  /\ accepted' = IF LatchWrite(read, write) /\ address.line \in RamLines
                   THEN [accepted EXCEPT ![address.line][address.byte] = wdata]
                   ELSE accepted
  /\ next_toggle_drive' = next_toggle /\ prev_toggle_drive' = prev_toggle
  /\ prev_current_cache_line_next_toggle' =
       IF FetchNext(read, write) THEN next_toggle_drive
                                 ELSE prev_current_cache_line_next_toggle
  /\ prev_current_cache_line_prev_toggle' =
       IF FetchPrev(read, write) THEN prev_toggle_drive
                                 ELSE prev_current_cache_line_prev_toggle

\* Every assignment of busy, in the order of the process.
BusyFlag(read, write) ==
  LET clear == \/ At("NON_RAM_READ") \/ At("READ_4") \/ At("WRITE_1") \/ At("REFRESH_9")
               \/ ~sdram_prepped /\ sdram_init_phase = 31
      refresh == At("IDLE") /\ refresh_due
  IN busy' = \/ refresh
             \/ ~clear /\ Fetch(read, write)
             \/ ~clear /\ ~Publish /\ (busy \/ LatchRead(read, write) \/ LatchWrite(read, write))

\* The line just read goes to the cache line, then its byte to rdata.
ReadPipe ==
  /\ rdata_line' = IF At("READ_4") THEN burst ELSE rdata_line
  /\ read_complete_strobe' = At("READ_4")
  /\ read_publish_strobe' = read_complete_strobe
  /\ rdata_buf' = rdata_line[latched_addr.byte]
  /\ rdata' = IF At("NON_RAM_READ") THEN NonRamValue
              ELSE IF Publish THEN rdata_buf ELSE rdata
  /\ data_ready_toggle' = IF Publish \/ At("NON_RAM_READ") THEN ~data_ready_toggle
                                                           ELSE data_ready_toggle

CacheLine ==
  /\ current_cache_line' = IF read_complete_strobe THEN rdata_line ELSE current_cache_line
  /\ current_cache_line_address' = IF read_complete_strobe THEN latched_addr.line
                                                           ELSE current_cache_line_address
  /\ current_cache_line_valid' = /\ ~WriteStart
                                 /\ Reactivate \/ read_complete_strobe \/ current_cache_line_valid
  /\ reactive_cache_line_if_safe' = \/ WriteStart /\ current_cache_line_valid
                                    \/ reactive_cache_line_if_safe /\ ~Reactivate
  /\ write_targets_cache_line' = (current_cache_line_address = latched_addr.line)
  /\ cache_line_next_address' = NextLine[current_cache_line_address]
  /\ cache_line_prev_address' = PrevLine[current_cache_line_address]

\* Mutant: the countdown is not restarted.
RefreshTimerRunsOut ==
  /\ refresh_due' = (refresh_due_countdown = 0)
  /\ refresh_due_countdown' = IF refresh_due_countdown # 0 THEN refresh_due_countdown - 1 ELSE 0

RefreshTimer ==
  /\ refresh_due' = (refresh_due_countdown = 0)
  /\ refresh_due_countdown' =
       IF At("REFRESH_1") THEN RefreshInterval - 1
       ELSE IF refresh_due_countdown # 0 THEN refresh_due_countdown - 1 ELSE 0
-----------------------------------------------------------------------------
(* The state machine, one action for each thing it can do at an edge.       *)

Emit(c) == cmd' = c /\ UNCHANGED <<sdram_ba, sdram_a, a10>>
Hold == UNCHANGED <<cmd, sdram_ba, sdram_a, a10>>
Masked == enabled' = {}
\* Phase 0 with sdram_do_init set: the sequence is armed on the first edge.
Move(s) ==
  /\ sdram_state' = s /\ sdram_prepped' = sdram_prepped
  /\ sdram_init_phase' = IF sdram_init_phase = 0 THEN 1 ELSE sdram_init_phase
KeepRow == UNCHANGED rowVars

PutRow == LET row == RowOf[latched_addr.line]
          IN sdram_ba' = BankOf[row] /\ sdram_a' = row
PutColumn == sdram_a' = ColOf[latched_addr.line] /\ a10' = FALSE /\ UNCHANGED sdram_ba

\* sdram_prepped = '0': one phase of the initialisation sequence.
InitialisationPhase ==
  /\ ~sdram_prepped
  /\ cmd' = init_cmds[sdram_init_phase] /\ a10' = (cmd' = "PRECHARGE")
  /\ sdram_ba' = FirstBank /\ sdram_a' = FirstCol
  /\ sdram_prepped' = (sdram_init_phase = 31)
  /\ sdram_init_phase' = IF sdram_init_phase = 31 THEN 31 ELSE sdram_init_phase + 1
  /\ sdram_state' = sdram_state /\ KeepRow /\ Masked

RefreshClosed ==
  /\ At("IDLE") /\ refresh_due /\ ~active_row
  /\ Emit("AUTO_REFRESH") /\ Move("REFRESH_1") /\ KeepRow /\ Masked

CloseForRefresh ==
  /\ At("IDLE") /\ refresh_due /\ active_row
  /\ cmd' = "PRECHARGE" /\ a10' = TRUE /\ UNCHANGED <<sdram_ba, sdram_a>>
  /\ Move("CLOSE_FOR_REFRESH") /\ KeepRow /\ Masked

StayIdle ==
  /\ Ready /\ Free
  /\ Emit("NOP") /\ Move("IDLE") /\ KeepRow /\ Masked

\* A write to a control register repeats the initialisation of the chip.
NonRamWrite ==
  /\ Ready /\ write_latched /\ ~AccessesRam
  /\ sdram_prepped' = FALSE /\ sdram_init_phase' = 0
  /\ Hold /\ sdram_state' = sdram_state /\ KeepRow /\ Masked

NonRamRead ==
  /\ Ready /\ read_latched /\ ~write_latched /\ ~AccessesRam
  /\ Emit("NOP") /\ Move("NON_RAM_READ") /\ KeepRow /\ Masked

PresentNonRam ==
  /\ At("NON_RAM_READ")
  /\ Hold /\ Move("IDLE") /\ KeepRow /\ Masked

ActivateRow ==
  /\ Ready /\ ~Free /\ AccessesRam /\ ~active_row
  /\ cmd' = "ACTIVATE_ROW" /\ PutRow /\ a10' = AllBit[RowOf[latched_addr.line]]
  /\ Move("ACTIVATE_WAIT") /\ KeepRow /\ Masked

\* PRECHARGE sets A10, and the row address put on the bus afterwards overrides it.
SwitchRow ==
  /\ Ready /\ ~Free /\ AccessesRam /\ active_row /\ ~RowIsOpen
  /\ cmd' = "PRECHARGE" /\ PutRow /\ a10' = AllBit[RowOf[latched_addr.line]]
  /\ Move("CLOSE_AND_SWITCH_ROW") /\ KeepRow /\ Masked

ReadOpenRow ==
  /\ Ready /\ read_latched /\ ~write_latched /\ AccessesRam /\ RowIsOpen
  /\ cmd' = "READ" /\ PutColumn
  /\ Move("READ_WAIT") /\ KeepRow /\ Masked

\* Only the data is put on the bus: the command pins keep what they had.
WriteOpenRow ==
  /\ Ready /\ write_latched /\ AccessesRam /\ RowIsOpen
  /\ Hold /\ Move("WRITE_1") /\ KeepRow /\ Masked

Wait ==
  /\ sdram_prepped
  /\ \E p \in WaitStates : p[1] = sdram_state /\ Move(p[2])
  /\ Emit("NOP") /\ KeepRow /\ Masked

OpenNewRow ==
  /\ At("CLOSE_AND_SWITCH_ROW_4")
  /\ cmd' = "ACTIVATE_ROW" /\ PutRow /\ a10' = AllBit[RowOf[latched_addr.line]]
  /\ Move("ACTIVATE_WAIT") /\ KeepRow /\ Masked

RowActivated ==
  /\ At("ACTIVATE_WAIT_2")
  /\ active_row' = TRUE /\ active_row_addr' = RowOf[latched_addr.line]
  /\ Masked
  /\ \/ /\ read_latched
        /\ cmd' = "READ" /\ PutColumn
     \/ ~read_latched /\ Emit("NOP")
  /\ Move(IF write_latched THEN "WRITE_1" ELSE "READ_WAIT")

LastBeat ==
  /\ At("READ_4")
  /\ Hold /\ Move("IDLE") /\ KeepRow /\ Masked

\* Mutant: DQM masks nothing.
WriteWholeLine ==
  /\ At("WRITE_1")
  /\ cmd' = "WRITE" /\ PutColumn /\ enabled' = Bytes
  /\ Move("WRITE_2") /\ KeepRow

WriteByte ==
  /\ At("WRITE_1")
  /\ cmd' = "WRITE" /\ PutColumn /\ enabled' = {latched_addr.byte}
  /\ Move("WRITE_2") /\ KeepRow

\* WRITE stays on the pins, with DQM masking every byte.
WriteDone ==
  /\ At("WRITE_2")
  /\ Hold /\ Move("IDLE") /\ KeepRow /\ Masked

\* The command pins keep what they had: REFRESH_1 emits nothing.
RefreshStarted ==
  /\ At("REFRESH_1")
  /\ active_row' = FALSE /\ UNCHANGED active_row_addr
  /\ Hold /\ Move("REFRESH_2") /\ Masked

Fsm == \/ InitialisationPhase \/ RefreshClosed \/ CloseForRefresh \/ StayIdle
       \/ NonRamWrite \/ NonRamRead \/ PresentNonRam \/ ActivateRow \/ SwitchRow
       \/ ReadOpenRow \/ WriteOpenRow \/ Wait \/ OpenNewRow \/ RowActivated
       \/ LastBeat \/ WriteByte \/ WriteDone \/ RefreshStarted
-----------------------------------------------------------------------------
(* The chip takes the command that was on its pins before the edge.         *)

\* The open row of each bank once the command on the pins is taken.
Settled ==
  IF cmd = "ACTIVATE_ROW" THEN [bank_row EXCEPT ![sdram_ba] = sdram_a]
  ELSE IF cmd = "PRECHARGE"
         THEN [b \in Banks |-> IF a10 \/ b = sdram_ba THEN NoRow ELSE bank_row[b]]
  ELSE bank_row

\* The line that the open row of the selected bank and the column address.
Addressed(l) == RowOf[l] = bank_row[sdram_ba] /\ ColOf[l] = sdram_a

Chip ==
  /\ bank_row' = Settled
  /\ delay_cnt' = IF cmd = "ACTIVATE_ROW" THEN TRCD - 1
                  ELSE IF delay_cnt # 0 THEN delay_cnt - 1 ELSE 0
  /\ mem' = IF cmd = "WRITE"
              THEN [l \in RamLines |-> [b \in Bytes |->
                      IF Addressed(l) /\ b \in enabled THEN wdata_latched ELSE mem[l][b]]]
              ELSE mem
  /\ \/ \E l \in RamLines : cmd = "READ" /\ Addressed(l) /\ burst' = mem[l]
     \/ /\ ~(cmd = "READ" /\ \E l \in RamLines : Addressed(l))
        /\ burst' = burst
-----------------------------------------------------------------------------
Tick(read, write, address, wdata, next_toggle, prev_toggle) ==
  /\ Intake(read, write, address, wdata, next_toggle, prev_toggle)
  /\ BusyFlag(read, write) /\ ReadPipe /\ CacheLine /\ RefreshTimer /\ Fsm /\ Chip

\* An address or a byte that the process does not take at this edge has one value.
Looked(read, write, address, wdata) ==
  /\ LatchRead(read, write) \/ LatchWrite(read, write) \/ address = latched_addr
  /\ LatchWrite(read, write) \/ wdata = wdata_latched
  /\ LatchWrite(read, write) => address.line \in WriteLines

\* Any requester: it may raise, hold or drop its pins at any edge.
Next ==
  \E read, write \in BOOLEAN, address \in Addresses, wdata \in Data,
     next_toggle \in NextToggles, prev_toggle \in PrevToggles :
       /\ Looked(read, write, address, wdata)
       /\ Tick(read, write, address, wdata, next_toggle, prev_toggle)

Spec == Init /\ [][Next]_vars /\ WF_vars(Next)
-----------------------------------------------------------------------------
\* Every register and every cell holds a value of its type; at most one request
\* is latched, and a command that opens a row has a row on the address bus.
TypeOK ==
  /\ sdram_state \in States /\ sdram_prepped \in BOOLEAN /\ sdram_init_phase \in 0..31
  /\ cmd \in Commands /\ sdram_ba \in Banks /\ sdram_a \in Rows \cup Cols
  /\ a10 \in BOOLEAN /\ enabled \in SUBSET Bytes
  /\ cmd = "ACTIVATE_ROW" => sdram_a \in Rows
  /\ active_row \in BOOLEAN /\ active_row_addr \in Rows
  /\ refresh_due \in BOOLEAN /\ refresh_due_countdown \in 0..(RefreshInterval - 1)
  /\ read_latched \in BOOLEAN /\ write_latched \in BOOLEAN /\ ~(read_latched /\ write_latched)
  /\ latched_addr \in Addresses /\ wdata_latched \in Data
  /\ silent_read \in BOOLEAN /\ busy \in BOOLEAN
  /\ rdata_line \in LineData /\ rdata_buf \in Data /\ rdata \in Data
  /\ read_complete_strobe \in BOOLEAN /\ read_publish_strobe \in BOOLEAN
  /\ data_ready_toggle \in BOOLEAN
  /\ current_cache_line \in LineData /\ current_cache_line_address \in Lines
  /\ current_cache_line_valid \in BOOLEAN
  /\ reactive_cache_line_if_safe \in BOOLEAN /\ write_targets_cache_line \in BOOLEAN
  /\ cache_line_next_address \in Lines /\ cache_line_prev_address \in Lines
  /\ next_toggle_drive \in BOOLEAN /\ prev_toggle_drive \in BOOLEAN
  /\ prev_current_cache_line_next_toggle \in BOOLEAN
  /\ prev_current_cache_line_prev_toggle \in BOOLEAN
  /\ bank_row \in [Banks -> Rows \cup {NoRow}] /\ delay_cnt \in 0..(TRCD - 1)
  /\ mem \in [RamLines -> LineData] /\ burst \in LineData
  /\ accepted \in [RamLines -> LineData]

AllClosed == \A b \in Banks : bank_row[b] = NoRow

\* What the chip requires of the command on its pins (the assertions of the chip's
\* simulation model): it opens a row of a closed bank only, reads and writes the
\* open row of the request only, tRCD after it was opened, and refreshes only
\* when every bank is closed.
RowProtocol ==
  /\ cmd = "ACTIVATE_ROW" => bank_row[sdram_ba] = NoRow
  /\ cmd = "READ" \/ (cmd = "WRITE" /\ enabled # {}) =>
       /\ bank_row[sdram_ba] = RowOf[latched_addr.line] /\ delay_cnt = 0
  /\ cmd = "AUTO_REFRESH" => AllClosed

\* The row protocol, as long as no write to a control register has re-run the
\* initialisation sequence (which leaves sdram_init_phase at 31): the row the
\* controller believes open is the row the chip has open.
RowDiscipline == sdram_prepped /\ sdram_init_phase # 31 => RowProtocol

\* A write to RAM that was latched is in its cell, or is still latched, or is on the pins.
AcceptedWritesReachMemory ==
  \A l \in RamLines, b \in Bytes :
    mem[l][b] # accepted[l][b] =>
      /\ latched_addr = [line |-> l, byte |-> b] /\ wdata_latched = accepted[l][b]
      /\ write_latched \/ (cmd = "WRITE" /\ b \in enabled)

\* The line that a read has just put in the cache line is the line as the writes
\* latched before it left it (a write latched since is still in the latch).
FreshLineIsCurrent ==
  read_publish_strobe /\ current_cache_line_address \in RamLines =>
    current_cache_line = accepted[current_cache_line_address] \/ write_latched

\* A request that was latched is always served: refreshes postpone it only.
LatchedRequestsAreServed == ~Free ~> Free

\* A read latched for the requester, not a prefetch, is answered on the data toggle.
ReadsAreAnswered ==
  \A t \in BOOLEAN :
    (read_latched /\ ~silent_read /\ data_ready_toggle = t) ~> (data_ready_toggle # t)

\* The chip is refreshed: AUTO_REFRESH is on the pins time and again.
RefreshedAgainAndAgain == []<>(cmd = "AUTO_REFRESH")

\* A steady stream of requests cannot hold a due refresh cycle off.
RefreshIsNotStarved == refresh_due ~> (sdram_state = "REFRESH_1")
=============================================================================
