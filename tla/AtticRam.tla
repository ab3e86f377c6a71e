------------------------------ MODULE AtticRam -------------------------------
(* The expansion ("attic") RAM path of the R6 board: the CPU's slow-memory port
   (gs4510.vhdl), the slow-device bus and the SDRAM controller, wired as in
   mega65r6.vhdl.  One step is one rising edge of clock162, at which the
   controller ticks; the bus ticks at every second one (pixelclock) and the CPU at
   every fourth (cpuclock), all from the registers as they were before the edge.

   The bus does not see the cache line's valid flag here (the port is not
   connected); the CPU does, and reads a byte of a valid line without a request.
   The CPU asks for RAM only, one byte at a time, and does not prefetch
   (slow_cache_advance_enable is off at power-up).                          *)
EXTENDS SdramController

CONSTANTS
  LastByte, NoAddress, ReadTimeout, CartTimeout,   \* of SlowDevices
  ReadLines,          \* lines the CPU reads; it writes WriteLines
  slow_cache_enable   \* the CPU reads valid cache lines directly: on at power-up

VARIABLES
  state, sfx_emulation, opl_we,
  slow_access_rdata, slow_access_ready_toggle, slow_access_last_request_toggle,
  expansionram_read, expansionram_write, expansionram_address, expansionram_wdata,
  expansionram_read_timeout, expansionram_eternally_busy,
  last_expansionram_data_ready_toggle,
  last_expansionram_write_address, last_expansionram_write_data,
  expansionram_current_cache_line_next_toggle,
  slow_prefetched_address, slow_prefetched_data,
  cart_access_request, cart_access_read, cart_access_address, cart_access_wdata

VARIABLES
  clock,       \* which of the four edges of a CPU cycle comes next
  proceed,     \* the CPU may start an access; otherwise it waits for the bus
  drive, pins, \* the request the CPU has decided on, and the same one cycle later
  written,     \* history: RAM as the CPU's writes, in program order, leave it
  taking,      \* the CPU takes the byte of a read at its next edge
  aborted,     \* history: the bus gave the last request up
  taken,       \* history: times the controller latched the last request
  waited       \* history: CPU cycles the CPU has waited, up to WaitLimit + 1

SlowAddress(l, b) == [region |-> "ram", line |-> l, byte |-> b]
SlowAddresses == {SlowAddress(l, b) : l \in RamLines, b \in Bytes}
Slow == INSTANCE SlowDevices WITH Addresses <- SlowAddresses, Blank <- Zero

\* The prefetch toggles of the controller are not connected.
ASSUME PathAssumption ==
  /\ LastByte \in Nat /\ Bytes = 0..LastByte /\ ReadTimeout \in Nat \ {0, 1}
  /\ ReadLines \subseteq RamLines /\ WriteLines \subseteq RamLines
  /\ slow_cache_enable \in BOOLEAN
  /\ FALSE \in NextToggles /\ FALSE \in PrevToggles

slowVars ==
  <<state, sfx_emulation, opl_we,
    slow_access_rdata, slow_access_ready_toggle, slow_access_last_request_toggle,
    expansionram_read, expansionram_write, expansionram_address, expansionram_wdata,
    expansionram_read_timeout, expansionram_eternally_busy,
    last_expansionram_data_ready_toggle,
    last_expansionram_write_address, last_expansionram_write_data,
    expansionram_current_cache_line_next_toggle,
    slow_prefetched_address, slow_prefetched_data,
    cart_access_request, cart_access_read, cart_access_address, cart_access_wdata>>
cpuVars == <<proceed, drive, pins, taking, written>>
pathVars == <<vars, slowVars, clock, cpuVars, aborted, taken, waited>>

PathInit ==
  /\ Init /\ Slow!SlowInit
  /\ clock = 0 /\ proceed = TRUE
  /\ \E l \in RamLines, b \in Bytes :   \* any, for no request has been made yet
       drive = [toggle |-> FALSE, write |-> FALSE, address |-> SlowAddress(l, b), wdata |-> Zero]
  /\ pins = drive /\ taking = FALSE
  /\ written = mem /\ aborted = FALSE /\ taken = 1 /\ waited = 0

BusEdge == clock \in {1, 3}
CpuEdge == clock = 3
-----------------------------------------------------------------------------
(* The CPU's side: read_address, write_long_byte and the wait for the bus.  *)

Hit(a) == /\ slow_cache_enable /\ current_cache_line_valid
          /\ a.line = current_cache_line_address

\* The program's first access comes after the controller's first refresh, 8 us after
\* power-up, when the bus has seen that there is a RAM.
MayAsk == proceed /\ ~expansionram_eternally_busy

\* A read of a valid cache line moves the address on the pins, and no more.
ReadDirectly ==
  /\ MayAsk
  /\ \E a \in SlowAddresses :
       /\ a.line \in ReadLines /\ Hit(a)
       /\ drive' = [drive EXCEPT !.address = a, !.write = FALSE]
  /\ UNCHANGED <<proceed, written>>

AskToRead ==
  /\ MayAsk
  /\ \E a \in SlowAddresses :
       /\ a.line \in ReadLines /\ ~Hit(a)
       /\ drive' = [drive EXCEPT !.toggle = ~@, !.address = a, !.write = FALSE]
  /\ proceed' = FALSE /\ UNCHANGED written

AskToWrite ==
  /\ MayAsk
  /\ \E a \in SlowAddresses, d \in Data :
       /\ a.line \in WriteLines
       /\ drive' = [toggle |-> ~drive.toggle, write |-> TRUE, address |-> a, wdata |-> d]
       /\ written' = [written EXCEPT ![a.line][a.byte] = d]
  /\ proceed' = FALSE

ElseWhere == proceed /\ UNCHANGED <<proceed, drive, written>>

\* The bus has answered: the CPU goes on, and takes the byte, at its next edge.
Answered ==
  /\ ~proceed /\ slow_access_ready_toggle = drive.toggle
  /\ proceed' = TRUE /\ drive' = [drive EXCEPT !.write = FALSE] /\ UNCHANGED written

KeepWaiting ==
  /\ ~proceed /\ slow_access_ready_toggle # drive.toggle
  /\ UNCHANGED <<proceed, drive, written>>

Cpu == /\ ReadDirectly \/ AskToRead \/ AskToWrite \/ ElseWhere \/ Answered \/ KeepWaiting
       /\ pins' = drive /\ taking' = (~proceed /\ proceed' /\ ~drive.write)
-----------------------------------------------------------------------------
RamPort == [busy |-> busy, toggle |-> data_ready_toggle, rdata |-> rdata,
            line_valid |-> FALSE, line_address |-> current_cache_line_address,
            line |-> current_cache_line]
NoCart == [accept |-> FALSE, read_strobe |-> FALSE, rdata |-> Zero]

Latches == \/ LatchRead(expansionram_read, expansionram_write)
           \/ LatchWrite(expansionram_read, expansionram_write)

\* Half the timeout of the bus, and the cycles before and after it.
WaitLimit == ReadTimeout \div 2 + 3

PathNext ==
  /\ clock' = (clock + 1) % 4
  /\ Tick(expansionram_read, expansionram_write,
          expansionram_address, expansionram_wdata, FALSE, FALSE)
  /\ \/ BusEdge /\ \E other \in Data : Slow!SlowTick(pins, RamPort, NoCart, other)
     \/ ~BusEdge /\ UNCHANGED slowVars
  /\ \/ CpuEdge /\ Cpu
     \/ ~CpuEdge /\ UNCHANGED cpuVars
  /\ aborted' = IF drive'.toggle # drive.toggle THEN FALSE
                ELSE aborted \/ (BusEdge /\ Slow!TimedOut)
  /\ taken' = IF drive'.toggle # drive.toggle THEN 0
              ELSE IF Latches THEN taken + 1 ELSE taken
  /\ waited' = IF proceed THEN 0
               ELSE IF CpuEdge /\ waited <= WaitLimit THEN waited + 1 ELSE waited

PathSpec == PathInit /\ [][PathNext]_pathVars /\ WF_pathVars(PathNext)
-----------------------------------------------------------------------------
\* The controller takes a request at most once, though its strobe lasts two ticks of
\* the controller and refreshes come between.
TakenAtMostOnce == taken <= 1

\* The byte the CPU takes is the one that the writes the controller accepted have left
\* there, unless the bus has given the read up: no other request's answer is taken.
AnswerIsCurrent ==
  taking /\ ~aborted =>
    slow_access_rdata = accepted[pins.address.line][pins.address.byte]

\* A request that the bus has given up was never latched by the controller, nor will
\* be: no late answer and no late write comes of it.
GivenUpWasNeverTaken == aborted => taken = 0

\* The CPU never waits for ever: a request is answered, or given up in time.
CpuGoesOn == waited <= WaitLimit

\* "Write can be delivered, and then ignored": a write that the bus has acknowledged
\* and no longer strobes has been accepted by the controller.
AcknowledgedWritesAreAccepted ==
  proceed /\ ~expansionram_write /\ slow_access_ready_toggle = drive.toggle =>
    written = accepted

\* A byte that the CPU may read directly from a valid cache line is the one that the
\* writes the controller has accepted left there.
DirectReadIsCurrent ==
  \A a \in SlowAddresses :
    MayAsk /\ CpuEdge /\ Hit(a) /\ ~write_latched =>
      current_cache_line[a.byte] = accepted[a.line][a.byte]
=============================================================================
