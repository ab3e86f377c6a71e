----------------------------- MODULE SlowDevices -----------------------------
(* The slow-device bus (src/vhdl/slow_devices.vhdl): it takes one request at a time
   from the CPU on a toggle, directs it by its address to the SFX and OPL
   registers, the expansion RAM or the cartridge port, and acknowledges it by
   copying the request toggle.  One step is one rising edge of pixelclock.

   The inputs of an edge are records: req, the CPU's request pins; ram and cart,
   what the memory controller and the cartridge port drive; other, the byte that
   is on a register this module does not hold (OPL status, debug, "Unmapped").
   As in the process, an assignment of the state's branch overrides the one that
   the timeout made before it.                                              *)
EXTENDS Naturals

CONSTANTS
  Lines, LastByte, \* a line of the address space has the bytes 0..LastByte: 0..7 in the code
  Addresses,       \* those requested: records of region, line and byte
  NoAddress,       \* an address that is never requested: all ones
  Data, Blank,     \* byte values; that of the registers at power-up
  ReadTimeout,     \* ticks of an expansion RAM request: 128 in the code
  CartTimeout      \* ticks of a cartridge port request: 1000 in the code

\* sfx_control is $7FEFFFF, sfx_index $7FFDF40 and $7FFDF60, sfx_data $7FFDF50, opl
\* $FE000xx; immediate stands for whatever is answered without a device.
Regions == {"sfx_control", "sfx_index", "sfx_data", "opl", "immediate", "ram", "cart"}
Places == [line : Lines, byte : 0..LastByte]   \* 27-bit addresses of the expansion RAM

ASSUME BusAssumption ==
  /\ LastByte \in Nat /\ Blank \in Data
  /\ Addresses \subseteq [region : Regions, line : Lines, byte : 0..LastByte]
  /\ NoAddress \notin Addresses \cup Places
  /\ ReadTimeout \in Nat \ {0, 1} /\ CartTimeout \in Nat \ {0, 1}

VARIABLES
  state, sfx_emulation, opl_we,
  slow_access_rdata, slow_access_ready_toggle, slow_access_last_request_toggle,
  expansionram_read, expansionram_write, expansionram_address, expansionram_wdata,
  expansionram_read_timeout, expansionram_eternally_busy,
  last_expansionram_data_ready_toggle,
  last_expansionram_write_address, last_expansionram_write_data,
  expansionram_current_cache_line_next_toggle,
  slow_prefetched_address, slow_prefetched_data,
  cart_access_request, cart_access_read, cart_access_address, cart_access_wdata

ackVars == <<slow_access_rdata, slow_access_ready_toggle>>
ramVars == <<expansionram_address, expansionram_wdata,
             last_expansionram_write_address, last_expansionram_write_data>>
prefetchedVars == <<expansionram_current_cache_line_next_toggle,
                    slow_prefetched_address, slow_prefetched_data>>
cartVars == <<cart_access_request, cart_access_read, cart_access_address, cart_access_wdata>>
deviceVars == <<sfx_emulation, opl_we>>
slowVars == <<state, slow_access_last_request_toggle, expansionram_read, expansionram_write,
              expansionram_read_timeout, expansionram_eternally_busy,
              last_expansionram_data_ready_toggle,
              ackVars, ramVars, prefetchedVars, cartVars, deviceVars>>

SlowInit ==
  /\ state = "Idle" /\ sfx_emulation = FALSE /\ opl_we = FALSE
  /\ slow_access_rdata \in Data   \* no initial value
  /\ slow_access_ready_toggle = FALSE /\ slow_access_last_request_toggle = FALSE
  /\ expansionram_read = FALSE /\ expansionram_write = FALSE
  /\ expansionram_address = NoAddress /\ expansionram_wdata = Blank
  /\ expansionram_read_timeout = 0 /\ expansionram_eternally_busy = TRUE
  /\ last_expansionram_data_ready_toggle = FALSE
  /\ last_expansionram_write_address = NoAddress /\ last_expansionram_write_data = Blank
  /\ expansionram_current_cache_line_next_toggle = FALSE
  /\ slow_prefetched_address = NoAddress /\ slow_prefetched_data = Blank
  /\ cart_access_request = FALSE /\ cart_access_read = TRUE
  /\ cart_access_address = NoAddress /\ cart_access_wdata = Blank
-----------------------------------------------------------------------------
\* Mutant: the timeout fires one tick early.
TimedOutEarly == state # "Idle" /\ expansionram_read_timeout = 1

TimedOut == state # "Idle" /\ expansionram_read_timeout = 0

New(req) == state = "Idle" /\ slow_access_last_request_toggle # req.toggle

\* A read that the exported cache line holds.
Cached(req, ram) == /\ ram.line_valid /\ ~req.write
                    /\ req.address.region = "ram" /\ ram.line_address = req.address.line

\* The request goes to the device of region r.
Triaged(req, r) == New(req) /\ req.address.region = r
ToCartridge(req) ==
  \/ Triaged(req, "cart")
  \/ ~sfx_emulation /\ (Triaged(req, "sfx_index") \/ Triaged(req, "sfx_data"))
ToRam(req, ram) == Triaged(req, "ram") /\ ~Cached(req, ram)
-----------------------------------------------------------------------------
(* The assignments that several branches share.                             *)

Acknowledge(req, value) ==
  /\ slow_access_ready_toggle' = req.toggle /\ slow_access_rdata' = value

\* A branch that does not acknowledge leaves the acknowledgement to the timeout.
LeaveToTimeout(req, other) ==
  IF TimedOut THEN Acknowledge(req, other) ELSE UNCHANGED ackVars

\* A write is acknowledged without a value.
AcknowledgeWrite(req, other) ==
  Acknowledge(req, IF TimedOut THEN other ELSE slow_access_rdata)

Stay == state' = IF TimedOut THEN "Idle" ELSE state
Idle == state' = "Idle"

Place(line, byte) == [line |-> line, byte |-> byte]

\* The byte of the exported line after byte b is offered to the CPU as that of line l.
Offer(l, b, ram) ==
  /\ slow_prefetched_address' = Place(l, b + 1)
  /\ slow_prefetched_data' = ram.line[b + 1]
  /\ UNCHANGED expansionram_current_cache_line_next_toggle

\* Mutant: the toggle noted is that of the last acknowledgement.
NoteAcknowledged(req) == slow_access_last_request_toggle' = slow_access_ready_toggle

NoteRequest(req) ==
  slow_access_last_request_toggle' =
    IF state = "Idle" THEN req.toggle ELSE slow_access_last_request_toggle

\* Mutant: a request goes on with what the one before it has left of its timeout.
CountDownGoesOn(req, ram) ==
  expansionram_read_timeout' =
    IF state # "Idle" /\ ~TimedOut THEN expansionram_read_timeout - 1
    ELSE IF expansionram_read_timeout # 0 THEN expansionram_read_timeout
    ELSE IF ToRam(req, ram) THEN ReadTimeout
    ELSE IF ToCartridge(req) THEN CartTimeout ELSE 0

CountDown(req, ram) ==
  expansionram_read_timeout' =
    IF ToRam(req, ram) THEN ReadTimeout
    ELSE IF ToCartridge(req) THEN CartTimeout
    ELSE IF state # "Idle" /\ ~TimedOut THEN expansionram_read_timeout - 1
    ELSE expansionram_read_timeout

\* Registers assigned at every edge, whatever the branch.
EveryTick(req, ram) ==
  /\ last_expansionram_data_ready_toggle' = ram.toggle
  /\ expansionram_eternally_busy' = (expansionram_eternally_busy /\ ram.busy)
  /\ NoteRequest(req) /\ CountDown(req, ram)

\* Mutant: the request pins are cleared in Idle only.
ClearRamInIdle ==
  IF state = "Idle"
    THEN expansionram_read' = FALSE /\ expansionram_write' = FALSE
    ELSE UNCHANGED <<expansionram_read, expansionram_write>>

\* The request pins of the RAM are cleared in Idle and while its answer is awaited.
ClearRam ==
  IF state \in {"Idle", "ExpansionRAMReadWait"}
    THEN expansionram_read' = FALSE /\ expansionram_write' = FALSE
    ELSE UNCHANGED <<expansionram_read, expansionram_write>>
-----------------------------------------------------------------------------
(* The branches of the state machine.                                       *)

NothingNew(req) ==
  /\ state = "Idle" /\ ~New(req)
  /\ Stay /\ UNCHANGED <<ackVars, ramVars, prefetchedVars, cartVars, deviceVars>> /\ ClearRam

SfxControl(req, other) ==
  /\ Triaged(req, "sfx_control")
  /\ sfx_emulation' \in IF req.write THEN BOOLEAN ELSE {sfx_emulation}   \* wdata(0)
  /\ Acknowledge(req, other)
  /\ Idle /\ UNCHANGED <<ramVars, prefetchedVars, cartVars, opl_we>> /\ ClearRam

AnswerAtOnce(req, other) ==
  /\ Triaged(req, "immediate") \/ (sfx_emulation /\ Triaged(req, "sfx_index"))
  /\ Acknowledge(req, other)
  /\ Idle /\ UNCHANGED <<ramVars, prefetchedVars, cartVars, deviceVars>> /\ ClearRam

StartOpl(req, other) ==
  /\ Triaged(req, "opl") \/ (sfx_emulation /\ Triaged(req, "sfx_data"))
  /\ opl_we' = req.write
  /\ \/ Triaged(req, "opl") /\ Acknowledge(req, other)
     \/ Triaged(req, "sfx_data") /\ AcknowledgeWrite(req, other)
  /\ state' = "OPL2Request"
  /\ UNCHANGED <<ramVars, prefetchedVars, cartVars, sfx_emulation>> /\ ClearRam

\* The last written byte is kept at hand, for the line may not have it yet.
ReadCacheLine(req, ram) ==
  /\ New(req) /\ Cached(req, ram)
  /\ Acknowledge(req, IF req.address = last_expansionram_write_address
                        THEN last_expansionram_write_data ELSE ram.line[req.address.byte])
  /\ \/ req.address.byte # LastByte /\ Offer(req.address.line, req.address.byte, ram)
     \/ /\ req.address.byte = LastByte
        /\ expansionram_current_cache_line_next_toggle' =
             ~expansionram_current_cache_line_next_toggle
        /\ UNCHANGED <<slow_prefetched_address, slow_prefetched_data>>
  /\ Idle /\ UNCHANGED <<ramVars, cartVars, deviceVars>> /\ ClearRam

StartRam(req, ram) ==
  /\ ToRam(req, ram)
  /\ state' = "ExpansionRAMRequest"
  /\ UNCHANGED <<ackVars, ramVars, prefetchedVars, cartVars, deviceVars>> /\ ClearRam

StartCartridge(req) ==
  /\ ToCartridge(req)
  /\ state' = "CartridgePortRequest"
  /\ UNCHANGED <<ackVars, ramVars, prefetchedVars, cartVars, deviceVars>> /\ ClearRam

\* The OPL may be half a cycle out of phase: its write stays for a second tick.
OplLatched(req, other) ==
  /\ state = "OPL2Request" /\ state' = "OPL2Read" /\ LeaveToTimeout(req, other)
  /\ UNCHANGED <<ramVars, prefetchedVars, cartVars, deviceVars>> /\ ClearRam

OplDone(req, other) ==
  /\ state = "OPL2Read" /\ Idle /\ opl_we' = FALSE /\ LeaveToTimeout(req, other)
  /\ UNCHANGED <<ramVars, prefetchedVars, cartVars, sfx_emulation>> /\ ClearRam

\* No RAM has ever been ready: the request is answered with "ExtraRAM".
RamAbsent(req, other) ==
  /\ state = "ExpansionRAMRequest" /\ expansionram_eternally_busy
  /\ Idle /\ Acknowledge(req, other)
  /\ UNCHANGED <<ramVars, prefetchedVars, cartVars, deviceVars>> /\ ClearRam

RamBusy(req, ram, other) ==
  /\ state = "ExpansionRAMRequest" /\ ~expansionram_eternally_busy /\ ram.busy
  /\ Stay /\ LeaveToTimeout(req, other)
  /\ UNCHANGED <<ramVars, prefetchedVars, cartVars, deviceVars>> /\ ClearRam

ToRamPins(req) ==
  /\ expansionram_address' = Place(req.address.line, req.address.byte)
  /\ expansionram_wdata' = req.wdata
  /\ expansionram_read' = ~req.write /\ expansionram_write' = req.write

\* Mutants: a write that is not acknowledged; a read that is, before its answer.
RamWriteSilent(req, ram, other) ==
  /\ state = "ExpansionRAMRequest" /\ ~expansionram_eternally_busy /\ ~ram.busy
  /\ req.write /\ ToRamPins(req)
  /\ last_expansionram_write_address' = req.address
  /\ last_expansionram_write_data' = req.wdata
  /\ Idle /\ LeaveToTimeout(req, other)
  /\ UNCHANGED <<prefetchedVars, cartVars, deviceVars>>
RamReadPosted(req, ram, other) ==
  /\ state = "ExpansionRAMRequest" /\ ~expansionram_eternally_busy /\ ~ram.busy
  /\ ~req.write /\ ToRamPins(req)
  /\ state' = "ExpansionRAMReadWait" /\ AcknowledgeWrite(req, other)
  /\ UNCHANGED <<last_expansionram_write_address, last_expansionram_write_data>>
  /\ UNCHANGED <<prefetchedVars, cartVars, deviceVars>>

\* A write is acknowledged at once.  slow_prefetched_data is not updated: the
\* comparison of the 28-bit address with the 27-bit one is never true.
RamWrite(req, ram, other) ==
  /\ state = "ExpansionRAMRequest" /\ ~expansionram_eternally_busy /\ ~ram.busy
  /\ req.write /\ ToRamPins(req)
  /\ last_expansionram_write_address' = req.address
  /\ last_expansionram_write_data' = req.wdata
  /\ Idle /\ AcknowledgeWrite(req, other)
  /\ UNCHANGED <<prefetchedVars, cartVars, deviceVars>>

RamRead(req, ram, other) ==
  /\ state = "ExpansionRAMRequest" /\ ~expansionram_eternally_busy /\ ~ram.busy
  /\ ~req.write /\ ToRamPins(req)
  /\ state' = "ExpansionRAMReadWait" /\ LeaveToTimeout(req, other)
  /\ UNCHANGED <<last_expansionram_write_address, last_expansionram_write_data>>
  /\ UNCHANGED <<prefetchedVars, cartVars, deviceVars>>

RamAnswer(req, ram) ==
  /\ state = "ExpansionRAMReadWait"
  /\ ram.toggle # last_expansionram_data_ready_toggle
  /\ Idle /\ Acknowledge(req, ram.rdata)
  /\ IF req.address.byte # LastByte
       THEN Offer(ram.line_address, req.address.byte, ram) ELSE UNCHANGED prefetchedVars
  /\ UNCHANGED <<ramVars, cartVars, deviceVars>> /\ ClearRam

RamSilent(req, ram, other) ==
  /\ state = "ExpansionRAMReadWait"
  /\ ram.toggle = last_expansionram_data_ready_toggle
  /\ Stay /\ LeaveToTimeout(req, other)
  /\ UNCHANGED <<ramVars, prefetchedVars, cartVars, deviceVars>> /\ ClearRam

\* Mutant: the request is not withdrawn when it is accepted.
OfferedStill(req, cart) ==
  /\ cart_access_request' = TRUE
  /\ cart_access_read' = ~req.write
  /\ cart_access_address' = req.address /\ cart_access_wdata' = req.wdata
  /\ UNCHANGED <<ramVars, prefetchedVars, deviceVars>> /\ ClearRam

\* What the CartridgePortRequest state puts on the pins of the cartridge port.
Offered(req, cart) ==
  /\ cart_access_request' = ~cart.accept
  /\ cart_access_read' = ~req.write
  /\ cart_access_address' = req.address /\ cart_access_wdata' = req.wdata
  /\ UNCHANGED <<ramVars, prefetchedVars, deviceVars>> /\ ClearRam

\* The state is set again here, which overrides the timeout's return to Idle.
CartridgeBusy(req, cart, other) ==
  /\ state = "CartridgePortRequest" /\ ~cart.accept
  /\ state' = "CartridgePortRequest" /\ LeaveToTimeout(req, other) /\ Offered(req, cart)

CartridgeWrite(req, cart, other) ==
  /\ state = "CartridgePortRequest" /\ cart.accept /\ req.write
  /\ Idle /\ AcknowledgeWrite(req, other) /\ Offered(req, cart)

CartridgeRead(req, cart, other) ==
  /\ state = "CartridgePortRequest" /\ cart.accept /\ ~req.write
  /\ state' = "CartridgePortAcceptWait" /\ LeaveToTimeout(req, other) /\ Offered(req, cart)

CartridgeAnswer(req, cart) ==
  /\ state = "CartridgePortAcceptWait" /\ cart.read_strobe
  /\ Idle /\ Acknowledge(req, cart.rdata) /\ cart_access_request' = FALSE
  /\ UNCHANGED <<ramVars, prefetchedVars, deviceVars>> /\ ClearRam
  /\ UNCHANGED <<cart_access_read, cart_access_address, cart_access_wdata>>

CartridgeSilent(req, cart, other) ==
  /\ state = "CartridgePortAcceptWait" /\ ~cart.read_strobe
  /\ Stay /\ LeaveToTimeout(req, other)
  /\ UNCHANGED <<ramVars, prefetchedVars, cartVars, deviceVars>> /\ ClearRam
-----------------------------------------------------------------------------
SlowTick(req, ram, cart, other) ==
  /\ EveryTick(req, ram)
  /\ \/ NothingNew(req)
     \/ SfxControl(req, other) \/ AnswerAtOnce(req, other) \/ StartOpl(req, other)
     \/ ReadCacheLine(req, ram) \/ StartRam(req, ram) \/ StartCartridge(req)
     \/ OplLatched(req, other) \/ OplDone(req, other)
     \/ RamAbsent(req, other) \/ RamBusy(req, ram, other)
     \/ RamWrite(req, ram, other) \/ RamRead(req, ram, other)
     \/ RamAnswer(req, ram) \/ RamSilent(req, ram, other)
     \/ CartridgeBusy(req, cart, other) \/ CartridgeWrite(req, cart, other)
     \/ CartridgeRead(req, cart, other) \/ CartridgeAnswer(req, cart)
     \/ CartridgeSilent(req, cart, other)

\* Types of the registers.
SlowTypeOK ==
  /\ state \in {"Idle", "OPL2Request", "OPL2Read", "ExpansionRAMRequest",
                "ExpansionRAMReadWait", "CartridgePortRequest", "CartridgePortAcceptWait"}
  /\ sfx_emulation \in BOOLEAN /\ opl_we \in BOOLEAN
  /\ slow_access_rdata \in Data
  /\ slow_access_ready_toggle \in BOOLEAN /\ slow_access_last_request_toggle \in BOOLEAN
  /\ expansionram_read \in BOOLEAN /\ expansionram_write \in BOOLEAN
  /\ ~(expansionram_read /\ expansionram_write)
  /\ expansionram_address \in Places \cup {NoAddress} /\ expansionram_wdata \in Data
  /\ expansionram_read_timeout \in 0..(ReadTimeout + CartTimeout)
  /\ expansionram_eternally_busy \in BOOLEAN
  /\ last_expansionram_data_ready_toggle \in BOOLEAN
  /\ last_expansionram_write_address \in Addresses \cup {NoAddress}
  /\ last_expansionram_write_data \in Data
  /\ expansionram_current_cache_line_next_toggle \in BOOLEAN
  /\ slow_prefetched_address \in Places \cup {NoAddress} /\ slow_prefetched_data \in Data
  /\ cart_access_request \in BOOLEAN /\ cart_access_read \in BOOLEAN
  /\ cart_access_address \in Addresses \cup {NoAddress} /\ cart_access_wdata \in Data
=============================================================================
