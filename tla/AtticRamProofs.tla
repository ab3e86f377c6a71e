---------------------------- MODULE AtticRamProofs ----------------------------
(* The expansion RAM path as a whole.  An edge of clock162 moves three machines: the
   controller always, the bus at every second edge, the CPU at every fourth.  Each
   is first reduced to what it does when the requests are for RAM alone: BusTick,
   CpuTick and CtrlTick.  Then

   - the controller in the composition is the controller of SdramController with one
     of its requesters (PathImplementsController), so that its invariants carry over;
   - PathInv, whatever the timeout: who has a request (HandshakeInv), what a strobe
     is (StrobeInv), that it is taken once (TakenInv), how long it waits (WaitInv);
   - PatientInv, with the margins of the code: a read that was taken is answered
     before it is given up, by ranks on the states of the controller (ReadingInv);
   - AnswerInv: what the CPU takes, and what becomes of a request that is given up.  *)
EXTENDS AtticRam, SdramDataProofs

-----------------------------------------------------------------------------
(* The bus and the CPU when the requests are for RAM alone.                 *)

Requests == [toggle : BOOLEAN, write : BOOLEAN, address : SlowAddresses, wdata : Data]
IsRequest(r) == r \in Requests /\ (r.write => r.address.line \in WriteLines)

SlowTypes ==
  /\ clock \in 0..3 /\ proceed \in BOOLEAN /\ taking \in BOOLEAN /\ aborted \in BOOLEAN
  /\ IsRequest(drive) /\ IsRequest(pins)
  /\ state \in {"Idle", "ExpansionRAMRequest", "ExpansionRAMReadWait"}
  /\ slow_access_ready_toggle \in BOOLEAN /\ slow_access_last_request_toggle \in BOOLEAN
  /\ expansionram_read \in BOOLEAN /\ expansionram_write \in BOOLEAN
  /\ expansionram_eternally_busy \in BOOLEAN /\ last_expansionram_data_ready_toggle \in BOOLEAN
  /\ expansionram_read_timeout \in 0..ReadTimeout
  /\ taken \in Nat /\ waited \in Nat

Idle == state = "Idle"
Asked == state = "ExpansionRAMRequest"
Awaiting == state = "ExpansionRAMReadWait"
TimeIsUp == expansionram_read_timeout = 0
Noted == slow_access_last_request_toggle = pins.toggle

StrobesDropped == expansionram_read' = FALSE /\ expansionram_write' = FALSE
NoAck == UNCHANGED <<slow_access_ready_toggle, slow_access_rdata>>
Ack == slow_access_ready_toggle' = pins.toggle
GivenUpInTime(s) == IF TimeIsUp THEN Ack /\ state' = "Idle" ELSE NoAck /\ state' = s
PinsDriven ==
  /\ expansionram_read' = ~pins.write /\ expansionram_write' = pins.write
  /\ expansionram_address' = [line |-> pins.address.line, byte |-> pins.address.byte]
  /\ expansionram_wdata' = pins.wdata
PinsHeld == UNCHANGED <<expansionram_read, expansionram_write,
                        expansionram_address, expansionram_wdata>>

\* What an edge of the bus does when the requests are for RAM alone.
BusTick ==
  /\ last_expansionram_data_ready_toggle' = data_ready_toggle
  /\ expansionram_eternally_busy' = (expansionram_eternally_busy /\ busy)
  /\ slow_access_last_request_toggle' = IF Idle THEN pins.toggle
                                                ELSE slow_access_last_request_toggle
  /\ expansionram_read_timeout' =
       IF Idle THEN IF Noted THEN expansionram_read_timeout ELSE ReadTimeout
       ELSE IF TimeIsUp THEN 0 ELSE expansionram_read_timeout - 1
  /\ \/ Idle /\ Noted /\ state' = "Idle" /\ NoAck /\ StrobesDropped
     \/ Idle /\ ~Noted /\ state' = "ExpansionRAMRequest" /\ NoAck /\ StrobesDropped
     \/ Asked /\ expansionram_eternally_busy /\ state' = "Idle" /\ Ack /\ PinsHeld
     \/ Asked /\ ~expansionram_eternally_busy /\ busy
        /\ GivenUpInTime("ExpansionRAMRequest") /\ PinsHeld
     \/ Asked /\ ~expansionram_eternally_busy /\ ~busy /\ pins.write
        /\ state' = "Idle" /\ Ack /\ PinsDriven
     \/ Asked /\ ~expansionram_eternally_busy /\ ~busy /\ ~pins.write
        /\ state' = "ExpansionRAMReadWait" /\ (IF TimeIsUp THEN Ack ELSE NoAck) /\ PinsDriven
     \/ Awaiting /\ data_ready_toggle # last_expansionram_data_ready_toggle
        /\ state' = "Idle" /\ Ack /\ slow_access_rdata' = rdata /\ StrobesDropped
     \/ Awaiting /\ data_ready_toggle = last_expansionram_data_ready_toggle
        /\ GivenUpInTime("ExpansionRAMReadWait") /\ StrobesDropped

\* The branches of slow_devices that a request for RAM can take are those of BusTick.
LEMMA BusEdgeIsBusTick ==
  ASSUME SlowTypes, NEW other, Slow!SlowTick(pins, RamPort, NoCart, other)
  PROVE  BusTick
<1>1. /\ pins.address.region = "ram" /\ RamPort.line_valid = FALSE /\ RamPort.busy = busy
      /\ RamPort.toggle = data_ready_toggle /\ RamPort.rdata = rdata
      /\ pins.write \in BOOLEAN /\ pins.toggle \in BOOLEAN
  BY DEF SlowTypes, IsRequest, Requests, SlowAddresses, SlowAddress, RamPort
<1>2. ~Slow!ToCartridge(pins) /\ ~Slow!Cached(pins, RamPort)
      /\ (Slow!ToRam(pins, RamPort) <=> Slow!New(pins))
  BY <1>1 DEF Slow!ToCartridge, Slow!Triaged, Slow!Cached, Slow!ToRam
<1>3. Slow!EveryTick(pins, RamPort)
  BY DEF Slow!SlowTick
<1>4. /\ last_expansionram_data_ready_toggle' = data_ready_toggle
      /\ expansionram_eternally_busy' = (expansionram_eternally_busy /\ busy)
      /\ slow_access_last_request_toggle' = IF Idle THEN pins.toggle
                                                    ELSE slow_access_last_request_toggle
  BY <1>1, <1>3 DEF Slow!EveryTick, Slow!NoteRequest, Idle
<1>5. expansionram_read_timeout' =
        IF Idle THEN IF Noted THEN expansionram_read_timeout ELSE ReadTimeout
        ELSE IF TimeIsUp THEN 0 ELSE expansionram_read_timeout - 1
  BY <1>1, <1>2, <1>3 DEF Slow!EveryTick, Slow!CountDown, Slow!New, Slow!TimedOut, Idle, Noted,
     TimeIsUp, SlowTypes
<1>6. \/ Slow!NothingNew(pins) \/ Slow!StartRam(pins, RamPort)
      \/ Slow!RamAbsent(pins, other) \/ Slow!RamBusy(pins, RamPort, other)
      \/ Slow!RamWrite(pins, RamPort, other) \/ Slow!RamRead(pins, RamPort, other)
      \/ Slow!RamAnswer(pins, RamPort) \/ Slow!RamSilent(pins, RamPort, other)
  BY <1>1, <1>2 DEF Slow!SlowTick, Slow!SfxControl, Slow!AnswerAtOnce, Slow!StartOpl,
     Slow!ReadCacheLine, Slow!StartCartridge, Slow!OplLatched, Slow!OplDone,
     Slow!CartridgeBusy, Slow!CartridgeWrite, Slow!CartridgeRead, Slow!CartridgeAnswer,
     Slow!CartridgeSilent, Slow!Triaged, SlowTypes
<1> USE DEF Slow!ClearRam, Slow!Stay, Slow!Idle, Slow!TimedOut, Slow!New, Slow!Acknowledge,
     Slow!AcknowledgeWrite, Slow!LeaveToTimeout, Slow!ToRamPins, Slow!Place, Slow!ackVars,
     Slow!ramVars, Idle, Asked, Awaiting, Noted, TimeIsUp, NoAck, Ack, GivenUpInTime,
     PinsDriven, PinsHeld, StrobesDropped
<1>7. CASE Slow!NothingNew(pins)
  BY <1>4, <1>5, <1>7 DEF Slow!NothingNew, BusTick
<1>8. CASE Slow!StartRam(pins, RamPort)
  BY <1>4, <1>5, <1>8 DEF Slow!StartRam, BusTick, Slow!ToRam, Slow!Triaged
<1>9. CASE Slow!RamAbsent(pins, other)
  BY <1>4, <1>5, <1>9 DEF Slow!RamAbsent, BusTick
<1>10. CASE Slow!RamBusy(pins, RamPort, other)
  BY <1>1, <1>4, <1>5, <1>10 DEF Slow!RamBusy, BusTick
<1>11. CASE Slow!RamWrite(pins, RamPort, other)
  BY <1>1, <1>4, <1>5, <1>11 DEF Slow!RamWrite, BusTick
<1>12. CASE Slow!RamRead(pins, RamPort, other)
  BY <1>1, <1>4, <1>5, <1>12 DEF Slow!RamRead, BusTick
<1>13. CASE Slow!RamAnswer(pins, RamPort)
  BY <1>1, <1>4, <1>5, <1>13 DEF Slow!RamAnswer, BusTick
<1>14. CASE Slow!RamSilent(pins, RamPort, other)
  BY <1>1, <1>4, <1>5, <1>14 DEF Slow!RamSilent, BusTick
<1> QED
  BY <1>6, <1>7, <1>8, <1>9, <1>10, <1>11, <1>12, <1>13, <1>14

\* What an edge of the CPU does to the requests.
CpuTick ==
  /\ pins' = drive /\ taking' = (~proceed /\ proceed' /\ ~drive.write)
  /\ \/ /\ proceed /\ ~expansionram_eternally_busy /\ proceed' = FALSE
        /\ IsRequest(drive') /\ drive'.toggle = ~drive.toggle
     \/ /\ proceed /\ proceed' = TRUE
        /\ IsRequest(drive') /\ drive'.toggle = drive.toggle
        /\ drive' = drive \/ ~drive'.write
     \/ /\ ~proceed /\ slow_access_ready_toggle = drive.toggle /\ proceed' = TRUE
        /\ IsRequest(drive') /\ drive'.toggle = drive.toggle /\ ~drive'.write
        /\ drive'.address = drive.address
     \/ /\ ~proceed /\ slow_access_ready_toggle # drive.toggle
        /\ proceed' = FALSE /\ drive' = drive

LEMMA CpuEdgeIsCpuTick ==
  ASSUME SlowTypes, Cpu
  PROVE  CpuTick
<1>1. /\ drive \in [toggle : BOOLEAN, write : BOOLEAN, address : SlowAddresses, wdata : Data]
      /\ drive.write => drive.address.line \in WriteLines
      /\ proceed \in BOOLEAN
  BY DEF SlowTypes, IsRequest, Requests
<1>2. pins' = drive /\ taking' = (~proceed /\ proceed' /\ ~drive.write)
  BY DEF Cpu
<1>3. CASE ReadDirectly
  <2>1. PICK a \in SlowAddresses : drive' = [drive EXCEPT !.address = a, !.write = FALSE]
    BY <1>3 DEF ReadDirectly
  <2> QED
    BY <1>1, <1>2, <1>3, <2>1 DEF ReadDirectly, MayAsk, CpuTick, IsRequest, Requests
<1>4. CASE AskToRead
  <2>1. PICK a \in SlowAddresses :
          drive' = [drive EXCEPT !.toggle = ~@, !.address = a, !.write = FALSE]
    BY <1>4 DEF AskToRead
  <2> QED
    BY <1>1, <1>2, <1>4, <2>1 DEF AskToRead, MayAsk, CpuTick, IsRequest, Requests
<1>5. CASE AskToWrite
  <2>1. PICK a \in SlowAddresses, d \in Data :
          /\ a.line \in WriteLines
          /\ drive' = [toggle |-> ~drive.toggle, write |-> TRUE, address |-> a, wdata |-> d]
    BY <1>5 DEF AskToWrite
  <2> QED
    BY <1>1, <1>2, <1>5, <2>1 DEF AskToWrite, MayAsk, CpuTick, IsRequest, Requests
<1>6. CASE ElseWhere
  BY <1>1, <1>2, <1>6 DEF ElseWhere, CpuTick, IsRequest, Requests
<1>7. CASE Answered
  BY <1>1, <1>2, <1>7 DEF Answered, CpuTick, IsRequest, Requests
<1>8. CASE KeepWaiting
  BY <1>1, <1>2, <1>8 DEF KeepWaiting, CpuTick
<1> QED
  BY <1>3, <1>4, <1>5, <1>6, <1>7, <1>8 DEF Cpu

BusRests ==
  UNCHANGED <<state, slow_access_rdata, slow_access_ready_toggle,
    slow_access_last_request_toggle, expansionram_read, expansionram_write,
    expansionram_address, expansionram_wdata, expansionram_read_timeout,
    expansionram_eternally_busy, last_expansionram_data_ready_toggle>>
CpuRests == UNCHANGED <<proceed, drive, pins, taking>>

\* An edge of clock162 is one of neither, of the bus alone, or of both.
Edge ==
  /\ clock' = (clock + 1) % 4
  /\ \/ clock \in {0, 2} /\ BusRests /\ CpuRests
     \/ clock = 1 /\ BusTick /\ CpuRests
     \/ clock = 3 /\ BusTick /\ CpuTick

LEMMA PathEdge ==
  ASSUME SlowTypes, PathNext
  PROVE  Edge
<1>1. clock \in {0, 1, 2, 3} /\ (BusEdge <=> clock \in {1, 3}) /\ (CpuEdge <=> clock = 3)
  BY DEF SlowTypes, BusEdge, CpuEdge
<1>2. CASE BusEdge
  <2>1. BusTick
    BY <1>2, BusEdgeIsBusTick DEF PathNext
  <2>2. IF CpuEdge THEN CpuTick ELSE CpuRests
    BY CpuEdgeIsCpuTick DEF PathNext, cpuVars, CpuRests
  <2> QED
    BY <1>1, <1>2, <2>1, <2>2 DEF Edge, PathNext
<1>3. CASE ~BusEdge
  <2>1. BusRests
    BY <1>3 DEF PathNext, slowVars, BusRests
  <2>2. CpuRests
    BY <1>1, <1>3 DEF PathNext, cpuVars, CpuRests
  <2> QED
    BY <1>1, <1>3, <2>1, <2>2 DEF Edge, PathNext
<1> QED
  BY <1>2, <1>3
-----------------------------------------------------------------------------
Acked == slow_access_ready_toggle = drive.toggle
Seen  == pins.toggle = drive.toggle

\* Where a request is: decided on, on the pins, with the bus, acknowledged.
HandshakeInv ==
  /\ Acked => Seen /\ Noted
  /\ proceed => Acked /\ Idle
  /\ ~proceed /\ Seen => pins = drive
  /\ ~proceed => ~expansionram_eternally_busy
  /\ Idle /\ ~Acked => (Seen <=> ~Noted)
  /\ ~Idle => Seen /\ Noted
  /\ Asked => ~Acked
  /\ Awaiting => ~pins.write /\ (Acked => TimeIsUp)
  /\ taking => proceed /\ ~pins.write

\* The strobe of the RAM pins lasts two ticks of the controller, with the request's
\* address and data, while the CPU waits.
Strobe == expansionram_read \/ expansionram_write
Here == [line |-> pins.address.line, byte |-> pins.address.byte]
StrobeInv ==
  /\ Strobe => /\ ~proceed /\ Seen
               /\ expansionram_write = pins.write /\ expansionram_read = ~pins.write
               /\ expansionram_address = Here /\ expansionram_wdata = pins.wdata
  /\ expansionram_read => Awaiting
  /\ expansionram_write => Idle /\ Acked

LEMMA EdgeTypes ==
  ASSUME SlowTypes, Edge
  PROVE  /\ clock' \in 0..3 /\ proceed' \in BOOLEAN /\ taking' \in BOOLEAN
         /\ IsRequest(drive') /\ IsRequest(pins')
         /\ drive'.toggle \in BOOLEAN /\ pins'.toggle \in BOOLEAN /\ pins'.write \in BOOLEAN
         /\ state' \in {"Idle", "ExpansionRAMRequest", "ExpansionRAMReadWait"}
         /\ slow_access_ready_toggle' \in BOOLEAN
         /\ slow_access_last_request_toggle' \in BOOLEAN
         /\ expansionram_read' \in BOOLEAN /\ expansionram_write' \in BOOLEAN
<1> USE DEF SlowTypes
<1>1. clock' \in 0..3
  BY DEF Edge
<1>2. /\ drive.toggle \in BOOLEAN /\ drive.write \in BOOLEAN
      /\ pins.toggle \in BOOLEAN /\ pins.write \in BOOLEAN
  BY DEF IsRequest, Requests
<1>3. /\ proceed' \in BOOLEAN /\ taking' \in BOOLEAN /\ IsRequest(drive') /\ IsRequest(pins')
  <2>1. CASE CpuRests
    BY <2>1 DEF CpuRests
  <2>2. CASE CpuTick
    BY <1>2, <2>2 DEF CpuTick
  <2> QED
    BY <2>1, <2>2 DEF Edge
<1>4. /\ state' \in {"Idle", "ExpansionRAMRequest", "ExpansionRAMReadWait"}
      /\ slow_access_ready_toggle' \in BOOLEAN
      /\ slow_access_last_request_toggle' \in BOOLEAN
      /\ expansionram_read' \in BOOLEAN /\ expansionram_write' \in BOOLEAN
  <2>1. CASE BusRests
    BY <2>1 DEF BusRests
  <2>2. CASE BusTick
    <3>1. state' \in {"Idle", "ExpansionRAMRequest", "ExpansionRAMReadWait"}
      BY <2>2 DEF BusTick, GivenUpInTime
    <3>2. NoAck \/ Ack
      BY <2>2 DEF BusTick, GivenUpInTime
    <3>3. PinsDriven \/ PinsHeld \/ StrobesDropped
      BY <2>2 DEF BusTick
    <3>4. expansionram_read' \in BOOLEAN /\ expansionram_write' \in BOOLEAN
      BY <1>2, <3>3 DEF PinsDriven, PinsHeld, StrobesDropped
    <3> QED
      BY <1>2, <2>2, <3>1, <3>2, <3>4 DEF BusTick, NoAck, Ack
  <2> QED
    BY <2>1, <2>2 DEF Edge
<1> QED
  BY <1>1, <1>3, <1>4 DEF IsRequest, Requests

\* The toggle goes round: CPU, pins, bus and back, one request at a time.
LEMMA HandshakeStep ==
  ASSUME SlowTypes, HandshakeInv, Edge
  PROVE  HandshakeInv'
<1>1. /\ drive.toggle \in BOOLEAN /\ drive.write \in BOOLEAN
      /\ pins.toggle \in BOOLEAN /\ pins.write \in BOOLEAN
      /\ expansionram_read_timeout \in Nat
  BY DEF SlowTypes, IsRequest, Requests
<1>2. /\ drive'.toggle \in BOOLEAN /\ pins'.toggle \in BOOLEAN
      /\ slow_access_ready_toggle' \in BOOLEAN /\ slow_access_last_request_toggle' \in BOOLEAN
  BY EdgeTypes
<1> USE DEF SlowTypes, HandshakeInv, Acked, Seen, Noted, Idle, Asked, Awaiting, TimeIsUp
<1>3. CASE BusRests /\ CpuRests
  BY <1>3 DEF BusRests, CpuRests
<1>4. CASE BusTick /\ CpuRests
  BY <1>1, <1>2, <1>4 DEF BusTick, CpuRests, NoAck, Ack, GivenUpInTime
<1>5. CASE BusTick /\ CpuTick
  <2>1. CASE proceed
    <3>1. /\ Idle /\ Noted /\ Acked /\ Seen /\ state' = "Idle" /\ NoAck
          /\ slow_access_last_request_toggle' = pins.toggle
      BY <1>5, <2>1 DEF BusTick
    <3>2. taking' = FALSE /\ pins' = drive
      BY <1>5, <2>1 DEF CpuTick
    <3>3. \/ proceed' = FALSE /\ drive'.toggle = ~drive.toggle /\ ~expansionram_eternally_busy
          \/ proceed' = TRUE /\ drive'.toggle = drive.toggle
      BY <1>5, <2>1 DEF CpuTick
    <3>4. expansionram_eternally_busy' => expansionram_eternally_busy
      BY <1>5 DEF BusTick
    <3> QED
      BY <1>1, <1>2, <3>1, <3>2, <3>3, <3>4 DEF NoAck
  <2>2. CASE ~proceed /\ Acked
    <3>1. state' = "Idle" /\ (NoAck \/ Ack)
          /\ slow_access_last_request_toggle' = pins.toggle
      BY <1>1, <1>5, <2>2 DEF BusTick, GivenUpInTime
    <3>2. /\ proceed' = TRUE /\ pins' = drive /\ taking' = ~drive.write
          /\ drive'.toggle = drive.toggle
      BY <1>5, <2>2 DEF CpuTick
    <3> QED
      BY <1>1, <1>2, <2>2, <3>1, <3>2 DEF NoAck, Ack
  <2>3. CASE ~proceed /\ ~Acked
    <3>1. proceed' = FALSE /\ pins' = drive /\ drive' = drive /\ taking' = FALSE
      BY <1>5, <2>3 DEF CpuTick
    <3>2. CASE Idle
      BY <1>1, <1>2, <1>5, <2>3, <3>1, <3>2 DEF BusTick, NoAck
    <3>3. CASE ~Idle
      BY <1>1, <1>2, <1>5, <2>3, <3>1, <3>3 DEF BusTick, NoAck, Ack, GivenUpInTime
    <3> QED
      BY <3>2, <3>3
  <2> QED
    BY <2>1, <2>2, <2>3
<1> QED
  BY <1>3, <1>4, <1>5 DEF Edge

\* A strobe begins with the acknowledgement of a write or the wait of a read, and the
\* request stays on the pins as long as it lasts.
LEMMA StrobeStep ==
  ASSUME SlowTypes, HandshakeInv, StrobeInv, Edge
  PROVE  StrobeInv'
<1>1. /\ drive.toggle \in BOOLEAN /\ drive.write \in BOOLEAN
      /\ pins.toggle \in BOOLEAN /\ pins.write \in BOOLEAN
  BY DEF SlowTypes, IsRequest, Requests
<1> USE DEF SlowTypes, HandshakeInv, StrobeInv, Strobe, Here, Acked, Seen, Noted, Idle, Asked,
            Awaiting
<1>2. CASE BusRests /\ CpuRests
  BY <1>2 DEF BusRests, CpuRests
<1>3. CASE BusTick
  <2>1. ~Strobe' \/ (Asked /\ ~expansionram_eternally_busy /\ PinsDriven)
    BY <1>3 DEF BusTick, StrobesDropped, PinsHeld, PinsDriven
  <2>2. ASSUME Asked, ~expansionram_eternally_busy, PinsDriven PROVE StrobeInv'
    <3>1. ~proceed /\ Seen /\ pins = drive /\ ~Acked
      BY <2>2
    <3>2. ~proceed' /\ drive' = drive /\ pins' = pins
      BY <1>3, <3>1 DEF Edge, CpuRests, CpuTick
    <3>3. IF pins.write THEN state' = "Idle" /\ Ack ELSE state' = "ExpansionRAMReadWait"
      <4>1. expansionram_read' = ~pins.write /\ ~Strobe
        BY <1>1, <2>2 DEF PinsDriven
      <4> QED
        BY <1>1, <1>3, <2>2, <4>1 DEF BusTick, PinsHeld, PinsDriven
    <3> QED
      BY <1>1, <2>2, <3>1, <3>2, <3>3 DEF PinsDriven, Ack
  <2> QED
    BY <2>1, <2>2
<1> QED
  BY <1>2, <1>3 DEF Edge
-----------------------------------------------------------------------------
(* The controller on the pins of the bus: its requester is one of those of Next, and
   it asks for RAM only, so that no edge of the composition does what the
   controller alone could not do.                                           *)

NoPrefetch ==
  /\ silent_read = FALSE /\ next_toggle_drive = FALSE /\ prev_toggle_drive = FALSE
  /\ prev_current_cache_line_next_toggle = FALSE
  /\ prev_current_cache_line_prev_toggle = FALSE

CtrlInv ==
  /\ TypeInv /\ RowInv /\ DataInv /\ InterruptInv /\ NoPrefetch
  /\ ~Free => AccessesRam
  /\ sdram_state # "NON_RAM_READ"

\* What is strobed is a place in RAM, and a write is to one of the lines the CPU writes.
LEMMA PinsAreARequest ==
  ASSUME SlowTypes, StrobeInv, Strobe
  PROVE  /\ expansionram_address \in Addresses /\ expansionram_address.line \in RamLines
         /\ expansionram_wdata \in Data
         /\ expansionram_write => expansionram_address.line \in WriteLines
<1>1. /\ pins.address.line \in RamLines /\ pins.address.byte \in Bytes /\ pins.wdata \in Data
      /\ pins.write => pins.address.line \in WriteLines
  BY DEF SlowTypes, IsRequest, Requests, SlowAddresses, SlowAddress
<1> QED
  BY <1>1 DEF StrobeInv, Here, Addresses, RamLines

\* The pins of the bus are pins that the requester of the controller may have.
LEMMA PathEdgeIsNext ==
  ASSUME SlowTypes, StrobeInv, TypeInv, PathNext
  PROVE  Next
<1> DEFINE read == expansionram_read
           write == expansionram_write
           a == IF Latches THEN expansionram_address ELSE latched_addr
           d == IF LatchWrite(read, write) THEN expansionram_wdata ELSE wdata_latched
<1>1. Tick(read, write, expansionram_address, expansionram_wdata, FALSE, FALSE)
  BY DEF PathNext
<1>2. Latches => Strobe
  BY DEF Latches, LatchRead, LatchWrite, Strobe
<1>3. a \in Addresses /\ d \in Data
  BY <1>2, PinsAreARequest DEF TypeInv, TypeOK, Latches
<1>4. Looked(read, write, a, d)
  BY <1>2, PinsAreARequest DEF Looked, Latches, LatchWrite, LatchRead
<1>5. Tick(read, write, a, d, FALSE, FALSE)
  <2>1. Intake(read, write, a, d, FALSE, FALSE)
    BY <1>1 DEF Tick, Intake, Latches
  <2> QED
    BY <1>1, <2>1 DEF Tick
<1>6. read \in BOOLEAN /\ write \in BOOLEAN
  BY DEF SlowTypes
<1> HIDE DEF a, d, read, write
<1> QED
  BY <1>3, <1>4, <1>5, <1>6, PathAssumption DEF Next

TakesRead == Free /\ expansionram_read
TakesWrite == Free /\ expansionram_write

\* What an edge does to the controller's request, busy and answer registers when
\* nothing interrupts or prefetches.
CtrlTick ==
  /\ latched_addr' = IF TakesRead \/ TakesWrite THEN expansionram_address ELSE latched_addr
  /\ read_latched' = ((read_latched \/ TakesRead) /\ sdram_state # "READ_4")
  /\ write_latched' = ((write_latched \/ TakesWrite) /\ sdram_state # "WRITE_1")
  /\ accepted' = IF TakesWrite
                   THEN [accepted EXCEPT ![expansionram_address.line]
                                           [expansionram_address.byte] = expansionram_wdata]
                   ELSE accepted
  /\ busy' = \/ sdram_state = "IDLE" /\ refresh_due
             \/ /\ sdram_state \notin {"READ_4", "WRITE_1", "REFRESH_9"} /\ ~read_publish_strobe
                /\ busy \/ TakesRead \/ TakesWrite
  /\ read_complete_strobe' = (sdram_state = "READ_4")
  /\ read_publish_strobe' = read_complete_strobe
  /\ rdata_buf' = rdata_line[latched_addr.byte]
  /\ rdata' = IF read_publish_strobe THEN rdata_buf ELSE rdata
  /\ data_ready_toggle' = IF read_publish_strobe THEN ~data_ready_toggle
                                                 ELSE data_ready_toggle

\* Without prefetches and register accesses an edge of the controller is a CtrlTick.
LEMMA PathEdgeIsCtrlTick ==
  ASSUME SlowTypes, StrobeInv, CtrlInv, PathNext
  PROVE  /\ CtrlTick /\ RefreshTimer /\ Fsm /\ ~InitialisationPhase /\ ~NonRamWrite
         /\ (Latches <=> TakesRead \/ TakesWrite) /\ ~(TakesRead /\ TakesWrite)
         /\ NoPrefetch' /\ ReadPipe /\ Chip /\ CacheLine
<1> DEFINE read == expansionram_read
           write == expansionram_write
<1>1. /\ Intake(read, write, expansionram_address, expansionram_wdata, FALSE, FALSE)
      /\ BusyFlag(read, write) /\ ReadPipe /\ CacheLine /\ RefreshTimer /\ Fsm /\ Chip
  BY DEF PathNext, Tick
<1>2. /\ read \in BOOLEAN /\ write \in BOOLEAN /\ ~(read /\ write)
      /\ pins.write \in BOOLEAN
  BY DEF SlowTypes, StrobeInv, Strobe, IsRequest, Requests
<1>3. (LatchRead(read, write) <=> TakesRead) /\ (LatchWrite(read, write) <=> TakesWrite)
  BY <1>2 DEF LatchRead, LatchWrite, TakesRead, TakesWrite
<1>4. ~FetchPrev(read, write) /\ ~FetchNext(read, write) /\ ~Fetch(read, write)
  BY DEF CtrlInv, NoPrefetch, FetchPrev, FetchNext, Fetch
<1>5. sdram_prepped = TRUE /\ ~InitialisationPhase /\ ~NonRamWrite
  BY DEF CtrlInv, InterruptInv, Uninterrupted, InitialisationPhase, NonRamWrite, TypeInv, TypeOK
<1>6. ~At("NON_RAM_READ") /\ (write_latched => AccessesRam) /\ silent_read = FALSE
      /\ \A s : At(s) <=> sdram_state = s
  BY <1>5 DEF CtrlInv, InterruptInv, At, NoPrefetch
<1>7. Publish <=> read_publish_strobe
  BY <1>6 DEF Publish
<1>8. TakesWrite => expansionram_address.line \in RamLines
  BY PinsAreARequest DEF TakesWrite, Strobe
<1>9. /\ latched_addr' = IF TakesRead \/ TakesWrite THEN expansionram_address ELSE latched_addr
      /\ read_latched' = ((read_latched \/ TakesRead) /\ sdram_state # "READ_4")
      /\ write_latched' = ((write_latched \/ TakesWrite) /\ sdram_state # "WRITE_1")
  BY <1>1, <1>3, <1>4, <1>6 DEF Intake
<1>10. /\ accepted' = IF TakesWrite
                   THEN [accepted EXCEPT ![expansionram_address.line]
                                           [expansionram_address.byte] = expansionram_wdata]
                   ELSE accepted
       /\ NoPrefetch'
  BY <1>1, <1>3, <1>4, <1>6, <1>8 DEF Intake, CtrlInv, NoPrefetch
<1>11. busy' = \/ sdram_state = "IDLE" /\ refresh_due
               \/ /\ sdram_state \notin {"READ_4", "WRITE_1", "REFRESH_9"} /\ ~read_publish_strobe
                  /\ busy \/ TakesRead \/ TakesWrite
  BY <1>1, <1>3, <1>4, <1>5, <1>6, <1>7 DEF BusyFlag
<1>12. /\ read_complete_strobe' = (sdram_state = "READ_4")
       /\ read_publish_strobe' = read_complete_strobe
       /\ rdata_buf' = rdata_line[latched_addr.byte]
       /\ rdata' = IF read_publish_strobe THEN rdata_buf ELSE rdata
       /\ data_ready_toggle' = IF read_publish_strobe THEN ~data_ready_toggle
                                                      ELSE data_ready_toggle
  <2>1. read_complete_strobe' = (sdram_state = "READ_4")
    BY <1>1, <1>5 DEF ReadPipe, At
  <2>2. read_publish_strobe' = read_complete_strobe /\ rdata_buf' = rdata_line[latched_addr.byte]
    BY <1>1 DEF ReadPipe
  <2>3. /\ rdata' = IF read_publish_strobe THEN rdata_buf ELSE rdata
        /\ data_ready_toggle' = IF read_publish_strobe THEN ~data_ready_toggle
                                                       ELSE data_ready_toggle
    BY <1>1, <1>6, <1>7, ZenonT(30) DEF ReadPipe
  <2> QED
    BY <2>1, <2>2, <2>3
<1>13. CtrlTick
  BY <1>9, <1>10, <1>11, <1>12 DEF CtrlTick
<1> QED
  BY <1>1, <1>2, <1>3, <1>5, <1>10, <1>13 DEF Latches, TakesRead, TakesWrite

\* The invariants of the controller hold in the composition, and no request is for a
\* control register.
LEMMA CtrlStep ==
  ASSUME SlowTypes, StrobeInv, CtrlInv, PathNext
  PROVE  CtrlInv'
<1>1. Next /\ WriteLines \subseteq RamLines
  BY PathEdgeIsNext, PathAssumption DEF CtrlInv
<1>2. (TypeInv /\ RowInv /\ DataInv /\ InterruptInv)'
  BY <1>1, TypeInvNext, RowInvNext, DataInvNext, InterruptInvNext DEF CtrlInv
<1>3. CtrlTick /\ Fsm /\ NoPrefetch' /\ ~InitialisationPhase /\ ~NonRamWrite
  BY PathEdgeIsCtrlTick
<1>4. (~Free => AccessesRam)'
  <2>1. CASE Free
    <3>1. ~Free' => TakesRead \/ TakesWrite
      BY <1>3, <2>1 DEF CtrlTick, Free
    <3>2. TakesRead \/ TakesWrite => Strobe /\ latched_addr' = expansionram_address
      BY <1>3 DEF CtrlTick, TakesRead, TakesWrite, Strobe
    <3> QED
      BY <3>1, <3>2, PinsAreARequest DEF AccessesRam
  <2>2. CASE ~Free
    BY <1>3, <2>2 DEF CtrlTick, CtrlInv, AccessesRam, TakesRead, TakesWrite
  <2> QED
    BY <2>1, <2>2
<1>5. sdram_state' # "NON_RAM_READ"
  <2>1. ~NonRamRead
    BY DEF CtrlInv, NonRamRead, Free
  <2> QED
    BY <1>3, <2>1 DEF Fsm, RefreshClosed, CloseForRefresh, StayIdle, PresentNonRam, ActivateRow,
       SwitchRow, ReadOpenRow, WriteOpenRow, Wait, WaitStates, OpenNewRow, RowActivated, LastBeat,
       WriteByte, WriteDone, RefreshStarted, Move
<1> QED
  BY <1>2, <1>3, <1>4, <1>5 DEF CtrlInv
-----------------------------------------------------------------------------
(* A request is taken once: when the controller takes it in the first tick of its
   strobe, it is still busy with it in the second.                          *)

\* What an edge does to the history of the request.
HistoryStep ==
  /\ aborted' = IF drive'.toggle # drive.toggle THEN FALSE
                ELSE aborted \/ (clock \in {1, 3} /\ ~Idle /\ TimeIsUp)
  /\ taken' = IF drive'.toggle # drive.toggle THEN 0
              ELSE IF TakesRead \/ TakesWrite THEN taken + 1 ELSE taken
  /\ waited' = IF proceed THEN 0
               ELSE IF clock = 3 /\ waited <= WaitLimit THEN waited + 1 ELSE waited

LEMMA PathHistory ==
  ASSUME SlowTypes, StrobeInv, CtrlInv, PathNext
  PROVE  HistoryStep
<1>1. Latches <=> TakesRead \/ TakesWrite
  BY PathEdgeIsCtrlTick
<1>2. (BusEdge <=> clock \in {1, 3}) /\ (Slow!TimedOut <=> ~Idle /\ TimeIsUp)
  BY DEF BusEdge, Slow!TimedOut, Idle, TimeIsUp
<1>3. taken' = IF drive'.toggle # drive.toggle THEN 0
               ELSE IF TakesRead \/ TakesWrite THEN taken + 1 ELSE taken
  BY <1>1 DEF PathNext
<1>4. aborted' = IF drive'.toggle # drive.toggle THEN FALSE
                ELSE aborted \/ (clock \in {1, 3} /\ ~Idle /\ TimeIsUp)
  BY <1>2 DEF PathNext
<1>5. waited' = IF proceed THEN 0
               ELSE IF clock = 3 /\ waited <= WaitLimit THEN waited + 1 ELSE waited
  BY DEF PathNext, CpuEdge
<1> QED
  BY <1>3, <1>4, <1>5 DEF HistoryStep

LEMMA TypesStep ==
  ASSUME SlowTypes, StrobeInv, CtrlInv, PathNext
  PROVE  SlowTypes'
<1>1. Edge /\ HistoryStep
  BY PathEdge, PathHistory
<1>2. data_ready_toggle \in BOOLEAN /\ busy \in BOOLEAN /\ ReadTimeout \in Nat
  BY PathAssumption DEF CtrlInv, TypeInv, TypeOK
<1>3. /\ expansionram_read_timeout' \in 0..ReadTimeout
      /\ expansionram_eternally_busy' \in BOOLEAN
      /\ last_expansionram_data_ready_toggle' \in BOOLEAN
  <2>1. CASE BusRests
    BY <2>1 DEF BusRests, SlowTypes
  <2>2. CASE BusTick
    BY <1>2, <2>2 DEF BusTick, SlowTypes, TimeIsUp
  <2> QED
    BY <1>1, <2>1, <2>2 DEF Edge
<1>4. aborted' \in BOOLEAN
  BY <1>1 DEF HistoryStep, SlowTypes
<1>5. taken' \in Nat /\ waited' \in Nat
  BY <1>1 DEF HistoryStep, SlowTypes
<1> QED
  BY <1>1, <1>3, <1>4, <1>5, EdgeTypes DEF SlowTypes

\* A strobe comes from an unanswered request, and what is not acknowledged stays with
\* the bus.
LEMMA BusOutcome ==
  ASSUME SlowTypes, HandshakeInv, StrobeInv, BusTick
  PROVE  /\ Strobe' => Asked /\ ~expansionram_eternally_busy /\ ~busy /\ PinsDriven
         /\ NoAck \/ (Ack /\ Idle')
            \/ (Ack /\ Asked /\ Awaiting' /\ TimeIsUp)
         /\ NoAck => /\ Idle => Idle' \/ (Asked' /\ ~Noted)
                     /\ Asked => Asked' \/ (Awaiting' /\ PinsDriven /\ ~busy /\ ~pins.write)
                     /\ Awaiting => Awaiting' \/ TimeIsUp
         /\ Idle => NoAck
<1>1. Asked => ~Strobe
  BY DEF StrobeInv, Strobe, Asked, Awaiting, Idle
<1>2. Asked => slow_access_ready_toggle # pins.toggle
  BY DEF HandshakeInv, Asked, Idle, Acked, Seen
<1>3. Awaiting => slow_access_ready_toggle # pins.toggle \/ TimeIsUp
  BY DEF HandshakeInv, Awaiting, Idle, Acked, Seen
<1>4. Strobe' => Asked /\ ~expansionram_eternally_busy /\ ~busy /\ PinsDriven
  BY <1>1 DEF BusTick, StrobesDropped, PinsHeld, Strobe
<1>5. Idle => NoAck
  BY DEF BusTick, Idle, Asked, Awaiting
<1>6. NoAck \/ (Ack /\ Idle') \/ (Ack /\ Asked /\ Awaiting' /\ TimeIsUp)
  BY DEF BusTick, GivenUpInTime, Idle, Awaiting
<1>7. ASSUME NoAck
      PROVE  /\ Idle => Idle' \/ (Asked' /\ ~Noted)
             /\ Asked => Asked' \/ (Awaiting' /\ PinsDriven /\ ~busy /\ ~pins.write)
             /\ Awaiting => Awaiting' \/ TimeIsUp
  BY <1>2, <1>3, <1>7 DEF BusTick, GivenUpInTime, Idle, Asked, Awaiting, NoAck, Ack
<1> QED
  BY <1>4, <1>5, <1>6, <1>7

TakenInv ==
  /\ taken <= 1
  /\ ~Acked /\ ~Awaiting => taken = 0
  /\ Strobe => taken = 0 \/ (clock \in {1, 3} /\ ~Free)

\* The first tick of a strobe may take it; in the second the latch is occupied, or was
\* before and nothing was taken.
LEMMA TakenStep ==
  ASSUME SlowTypes, HandshakeInv, StrobeInv, CtrlInv, TakenInv, PathNext
  PROVE  TakenInv'
<1>1. Edge /\ HistoryStep /\ CtrlTick
  BY PathEdge, PathHistory, PathEdgeIsCtrlTick
<1>2. /\ drive.toggle \in BOOLEAN /\ pins.toggle \in BOOLEAN /\ taken \in Nat
      /\ slow_access_ready_toggle \in BOOLEAN
      /\ clock \in {0, 1, 2, 3} /\ drive'.toggle \in BOOLEAN
  BY <1>1, EdgeTypes DEF SlowTypes, IsRequest, Requests
<1>3. TakesRead \/ TakesWrite => Strobe /\ Free /\ taken = 0 /\ ~proceed
  BY DEF TakesRead, TakesWrite, Strobe, TakenInv, StrobeInv
<1>4. CASE clock \in {0, 2}
  <2>1. BusRests /\ CpuRests /\ clock' \in {1, 3}
    BY <1>1, <1>2, <1>4 DEF Edge, BusTick, CpuTick
  <2>2. CASE ~TakesRead /\ ~TakesWrite
    BY <1>1, <1>4, <2>1, <2>2 DEF HistoryStep, TakenInv, CpuRests, BusRests, Acked, Awaiting, Strobe
  <2>3. CASE TakesRead \/ TakesWrite
    <3>1. ~Free'
      <4>1. sdram_state # "READ_4" /\ sdram_state # "WRITE_1"
        BY <1>3, <2>3 DEF CtrlInv, DataInv, InterruptInv, AccessInProgress, Reading, Free
      <4> QED
        BY <1>1, <2>3, <4>1 DEF CtrlTick, Free
    <3>2. taken' = 1
      BY <1>1, <1>2, <1>3, <2>1, <2>3 DEF HistoryStep, CpuRests
    <3>3. Acked \/ Awaiting
      BY <1>3, <2>3 DEF StrobeInv, Strobe
    <3> QED
      BY <2>1, <3>1, <3>2, <3>3 DEF TakenInv, CpuRests, BusRests, Acked, Awaiting
  <2> QED
    BY <2>2, <2>3
<1>5. CASE clock \in {1, 3}
  <2>1. BusTick /\ (CpuRests \/ CpuTick)
    BY <1>1, <1>5 DEF Edge
  <2>2. CASE Strobe
    <3>1. ~Strobe' /\ drive'.toggle = drive.toggle
      BY <2>1, <2>2, BusOutcome DEF StrobeInv, Asked, Awaiting, Idle, CpuRests, CpuTick, Strobe
    <3>2. ~Acked' => ~Acked /\ Awaiting'
      BY <2>1, <2>2, <3>1
      DEF StrobeInv, BusTick, Acked, Asked, Awaiting, Idle, HandshakeInv, Seen, Strobe, Ack,
          NoAck, GivenUpInTime
    <3>3. taken' <= 1
      BY <1>1, <1>2, <1>3, <3>1 DEF HistoryStep, TakenInv
    <3> QED
      BY <3>1, <3>2, <3>3 DEF TakenInv
  <2>3. CASE ~Strobe
    <3>1. taken' = IF drive'.toggle # drive.toggle THEN 0 ELSE taken
      BY <1>1, <1>3, <2>3 DEF HistoryStep
    <3>2. Strobe' => drive'.toggle = drive.toggle /\ ~Acked /\ Asked
      BY <2>1, BusOutcome DEF HandshakeInv, Asked, Idle, CpuRests, CpuTick
    <3>3. ~Acked' /\ ~Awaiting' /\ drive'.toggle = drive.toggle => ~Acked /\ ~Awaiting
      BY <1>2, <2>1
      DEF BusTick, Acked, Asked, Awaiting, Idle, HandshakeInv, Seen, Ack, NoAck, GivenUpInTime
    <3>4. Strobe' => taken' = 0
      BY <3>1, <3>2 DEF TakenInv, Asked, Awaiting
    <3>5. ~Acked' /\ ~Awaiting' => taken' = 0
      BY <3>1, <3>3 DEF TakenInv
    <3> QED
      BY <1>2, <3>1, <3>4, <3>5 DEF TakenInv
  <2> QED
    BY <2>2, <2>3
<1> QED
  BY <1>2, <1>4, <1>5
-----------------------------------------------------------------------------
(* The CPU goes on: the timeout of the bus and the cycles that the CPU has waited
   for it add up.                                                           *)

WaitInv ==
  /\ CpuGoesOn
  /\ ~Idle /\ ~Acked =>
       2 * waited + expansionram_read_timeout
         = ReadTimeout + (IF clock \in {2, 3} THEN 2 ELSE 3)
  /\ Idle /\ ~Acked => IF Seen THEN waited = 1 /\ clock \in {0, 1} ELSE waited = 0
  /\ ~proceed /\ Acked => waited < WaitLimit

\* Half of a number, rounded down.
LEMMA HalfRounds ==
  ASSUME NEW n \in Nat, NEW half \in Nat, half = n \div 2
  PROVE  n <= 2 * half + 1
  OBVIOUS

\* What a request has waited when its timeout is spent is below the limit.
LEMMA WaitLimitIsLate ==
  /\ WaitLimit \in Nat /\ WaitLimit > 2
  /\ \A w \in Nat : /\ 2 * w <= ReadTimeout + 3 => w < WaitLimit
                    /\ 2 * w <= ReadTimeout + 2 => w + 1 < WaitLimit
<1> DEFINE half == ReadTimeout \div 2
<1>1. ReadTimeout \in Nat
  BY PathAssumption
<1>2. half \in Nat
  BY <1>1
<1>3. WaitLimit = half + 3
  BY DEF WaitLimit
<1>4. ReadTimeout <= 2 * half + 1
  BY <1>1, <1>2, HalfRounds
<1> HIDE DEF half
<1> QED
  BY <1>1, <1>2, <1>3, <1>4

\* While a request is with the bus and not acknowledged, its timeout runs.
LEMMA TimeoutRuns ==
  ASSUME SlowTypes, HandshakeInv, StrobeInv, Edge
  PROVE  /\ ~Idle /\ ~Acked /\ ~Acked' =>
              /\ ~Idle' /\ (Awaiting => Awaiting')
              /\ expansionram_read_timeout' =
                   IF clock \in {1, 3} THEN expansionram_read_timeout - 1
                                       ELSE expansionram_read_timeout
              /\ clock \in {1, 3} => ~TimeIsUp
         /\ ~Acked => ~proceed /\ ~proceed' /\ drive' = drive
         /\ ~Acked /\ Seen => pins' = pins /\ Seen'
<1>1. /\ drive.toggle \in BOOLEAN /\ pins.toggle \in BOOLEAN
      /\ slow_access_ready_toggle \in BOOLEAN /\ proceed \in BOOLEAN
      /\ clock \in {0, 1, 2, 3}
  BY DEF SlowTypes, IsRequest, Requests
<1>2. ASSUME ~Acked PROVE ~proceed /\ ~proceed' /\ drive' = drive /\ pins' \in {pins, drive}
  BY <1>2 DEF Edge, HandshakeInv, CpuRests, CpuTick, Acked
<1>3. ASSUME ~Acked, Seen PROVE pins' = pins /\ Seen'
  BY <1>2, <1>3 DEF HandshakeInv, Seen
<1>4. ASSUME ~Idle, ~Acked, ~Acked'
      PROVE  /\ ~Idle' /\ (Awaiting => Awaiting')
             /\ expansionram_read_timeout' =
                  IF clock \in {1, 3} THEN expansionram_read_timeout - 1
                                      ELSE expansionram_read_timeout
             /\ clock \in {1, 3} => ~TimeIsUp
  <2>1. CASE BusRests /\ clock \in {0, 2}
    BY <1>4, <2>1 DEF BusRests, Idle, Awaiting
  <2>2. CASE BusTick /\ clock \in {1, 3}
    <3>1. Seen /\ drive' = drive
      BY <1>2, <1>4 DEF HandshakeInv
    <3>2. ~Ack
      BY <1>4, <3>1 DEF Acked, Ack, Seen
    <3>3. ~TimeIsUp /\ ~Idle' /\ (Awaiting => Awaiting')
      BY <1>4, <2>2, <3>2 DEF BusTick, GivenUpInTime, Idle, Awaiting, Asked
    <3> QED
      BY <1>4, <2>2, <3>3 DEF BusTick
  <2> QED
    BY <1>1, <2>1, <2>2 DEF Edge
<1> QED
  BY <1>2, <1>3, <1>4

\* A wait of the CPU uses up the timeout, until one of them ends.
LEMMA WaitStep ==
  ASSUME SlowTypes, HandshakeInv, StrobeInv, CtrlInv, WaitInv, PathNext
  PROVE  WaitInv'
<1>1. Edge /\ HistoryStep
  BY PathEdge, PathHistory
<1>2. /\ clock \in {0, 1, 2, 3} /\ waited \in Nat /\ ReadTimeout \in Nat
      /\ expansionram_read_timeout \in 0..ReadTimeout /\ WaitLimit \in Nat /\ WaitLimit > 2
      /\ waited <= WaitLimit /\ clock' = (clock + 1) % 4 /\ proceed \in BOOLEAN
  BY <1>1, PathAssumption, WaitLimitIsLate DEF SlowTypes, Edge, WaitInv, CpuGoesOn
<1>3. /\ drive.toggle \in BOOLEAN /\ pins.toggle \in BOOLEAN
      /\ slow_access_ready_toggle \in BOOLEAN
  BY DEF SlowTypes, IsRequest, Requests
<1>4. CASE proceed
  <2>1. waited' = 0 /\ Idle /\ Acked /\ Noted /\ Seen
    BY <1>1, <1>4 DEF HistoryStep, HandshakeInv
  <2>2. Idle' /\ slow_access_ready_toggle' = slow_access_ready_toggle
        /\ (pins'.toggle = pins.toggle)
    BY <1>1, <2>1 DEF Edge, BusRests, BusTick, NoAck, Idle, Asked, Awaiting, CpuRests, CpuTick, Seen
  <2>3. ~Acked' => ~Seen'
    BY <2>1, <2>2 DEF Acked, Seen
  <2> QED
    BY <1>2, <2>1, <2>2, <2>3 DEF WaitInv, CpuGoesOn, WaitLimit
<1>5. CASE ~proceed /\ Acked
  <2>1. waited < WaitLimit
    BY <1>5 DEF WaitInv
  <2>2. waited' = IF clock = 3 THEN waited + 1 ELSE waited
    BY <1>1, <1>2, <1>5 DEF HistoryStep
  <2>3. Acked' /\ (proceed' \/ clock # 3)
    <3>1. drive'.toggle = drive.toggle /\ (proceed' \/ clock # 3) /\ Seen
      BY <1>1, <1>5 DEF Edge, CpuRests, CpuTick, Acked, HandshakeInv
    <3>2. slow_access_ready_toggle' \in {slow_access_ready_toggle, pins.toggle}
      BY <1>1, BusOutcome DEF Edge, BusRests, NoAck, Ack
    <3> QED
      BY <1>5, <3>1, <3>2 DEF Acked, Seen
  <2> QED
    BY <1>2, <2>1, <2>2, <2>3 DEF WaitInv, CpuGoesOn, WaitLimit
<1>6. CASE ~proceed /\ ~Acked
  <2>1. waited' = IF clock = 3 THEN waited + 1 ELSE waited
    BY <1>1, <1>2, <1>6 DEF HistoryStep
  <2>2. ~proceed' /\ drive' = drive
    BY <1>1, <1>6, TimeoutRuns
  <2>3. CASE Idle /\ ~Seen
    <3>1. Noted /\ waited = 0
      BY <1>6, <2>3 DEF HandshakeInv, WaitInv
    <3>2. Idle' /\ ~Acked' /\ (Seen' => clock = 3)
      BY <1>1, <1>6, <2>3, <3>1, <2>2
      DEF Edge, BusRests, BusTick, NoAck, Idle, Asked, Awaiting, CpuRests, Acked, Seen
    <3>3. clock = 3 => Seen'
      BY <1>1, <2>2 DEF Edge, CpuTick, Seen
    <3> QED
      BY <1>2, <2>1, <2>2, <3>1, <3>2, <3>3 DEF WaitInv, CpuGoesOn, WaitLimit
  <2>4. CASE Idle /\ Seen
    <3>1. ~Noted /\ waited = 1 /\ clock \in {0, 1}
      BY <1>6, <2>4 DEF HandshakeInv, WaitInv
    <3>2. CASE clock = 0
      <4>1. Idle' /\ ~Acked' /\ Seen'
        BY <1>1, <1>6, <2>4, <3>2 DEF Edge, BusRests, CpuRests, Idle, Acked, Seen
      <4> QED
        BY <1>2, <2>1, <2>2, <3>1, <3>2, <4>1 DEF WaitInv, CpuGoesOn, WaitLimit
    <3>3. CASE clock = 1
      <4>1. ~Idle' /\ ~Acked' /\ expansionram_read_timeout' = ReadTimeout
        BY <1>1, <1>6, <2>4, <3>1, <3>3
        DEF Edge, BusTick, CpuRests, Idle, Asked, Awaiting, NoAck, Acked, Seen
      <4> QED
        BY <1>2, <2>1, <2>2, <3>1, <3>3, <4>1 DEF WaitInv, CpuGoesOn, WaitLimit
    <3> QED
      BY <3>1, <3>2, <3>3
  <2>5. CASE ~Idle
    <3>1. 2 * waited + expansionram_read_timeout
            = ReadTimeout + (IF clock \in {2, 3} THEN 2 ELSE 3)
      BY <1>6, <2>5 DEF WaitInv
    <3>2. waited' < WaitLimit
      BY <1>2, <2>1, <3>1, WaitLimitIsLate
    <3>3. CASE Acked'
      BY <1>2, <2>1, <2>2, <3>2, <3>3 DEF WaitInv, CpuGoesOn, WaitLimit
    <3>4. CASE ~Acked'
      <4>1. /\ ~Idle'
            /\ expansionram_read_timeout' =
                 IF clock \in {1, 3} THEN expansionram_read_timeout - 1
                                     ELSE expansionram_read_timeout
        BY <1>1, <1>6, <2>5, <3>4, TimeoutRuns
      <4>2. 2 * waited' + expansionram_read_timeout'
              = ReadTimeout + (IF clock' \in {2, 3} THEN 2 ELSE 3)
        BY <1>2, <2>1, <3>1, <4>1
      <4> QED
        BY <1>2, <2>1, <2>2, <3>2, <3>4, <4>1, <4>2 DEF WaitInv, CpuGoesOn, WaitLimit
    <3> QED
      BY <3>3, <3>4
  <2> QED
    BY <2>3, <2>4, <2>5
<1> QED
  BY <1>2, <1>4, <1>5, <1>6
-----------------------------------------------------------------------------
PathInv ==
  SlowTypes /\ HandshakeInv /\ StrobeInv /\ CtrlInv /\ TakenInv /\ WaitInv

LEMMA PathInvInit == PathInit => PathInv
<1> SUFFICES ASSUME PathInit PROVE PathInv
  OBVIOUS
<1>1. Init /\ Slow!SlowInit
  BY DEF PathInit
<1>2. PICK l \in RamLines, b \in Bytes :
        drive = [toggle |-> FALSE, write |-> FALSE, address |-> SlowAddress(l, b), wdata |-> Zero]
  BY DEF PathInit
<1>3. SlowAddress(l, b) \in SlowAddresses
  BY <1>2 DEF SlowAddresses
<1>4. IsRequest(drive) /\ pins = drive /\ drive.toggle = FALSE /\ drive.write = FALSE
  BY <1>2, <1>3, GeometryAssumption DEF PathInit, IsRequest, Requests
<1>5. /\ clock = 0 /\ proceed = TRUE /\ taking = FALSE /\ aborted = FALSE
      /\ taken = 1 /\ waited = 0
      /\ state = "Idle" /\ slow_access_ready_toggle = FALSE
      /\ slow_access_last_request_toggle = FALSE
      /\ expansionram_read = FALSE /\ expansionram_write = FALSE
      /\ expansionram_read_timeout = 0 /\ expansionram_eternally_busy = TRUE
      /\ last_expansionram_data_ready_toggle = FALSE
  BY <1>1 DEF PathInit, Slow!SlowInit
<1>6. SlowTypes /\ HandshakeInv /\ Acked
  <2>1. SlowTypes
    <3>1. IsRequest(pins)
      BY <1>4, Zenon
    <3>2. expansionram_read_timeout \in 0..ReadTimeout /\ taken \in Nat /\ waited \in Nat
      BY <1>5, PathAssumption
    <3>3. /\ clock \in 0..3
          /\ state \in {"Idle", "ExpansionRAMRequest", "ExpansionRAMReadWait"}
      BY <1>5
    <3>4. /\ proceed \in BOOLEAN /\ taking \in BOOLEAN /\ aborted \in BOOLEAN
          /\ slow_access_ready_toggle \in BOOLEAN /\ slow_access_last_request_toggle \in BOOLEAN
          /\ expansionram_read \in BOOLEAN /\ expansionram_write \in BOOLEAN
          /\ expansionram_eternally_busy \in BOOLEAN
          /\ last_expansionram_data_ready_toggle \in BOOLEAN
      BY <1>5
    <3> QED
      BY <1>4, <3>1, <3>2, <3>3, <3>4 DEF SlowTypes
  <2>2. Acked /\ Seen /\ Noted
    <3>1. pins.toggle = FALSE /\ drive.toggle = FALSE
      BY <1>4
    <3> QED
      BY <1>5, <3>1, Zenon DEF Acked, Seen, Noted
  <2>3. HandshakeInv
    BY <1>4, <1>5, <2>2 DEF HandshakeInv, Idle, Asked, Awaiting
  <2> QED
    BY <2>1, <2>2, <2>3
<1>7. StrobeInv /\ ~Strobe
  BY <1>5 DEF StrobeInv, Strobe
<1>8. CtrlInv
  <2>1. TypeInv /\ RowInv /\ DataInv
    BY <1>1, TypeInvInit, RowInvInit, DataInvInit
  <2>2. InterruptInv /\ NoPrefetch /\ Free /\ sdram_state # "NON_RAM_READ"
    BY <1>1 DEF Init, InterruptInv, Uninterrupted, NoPrefetch, Free
  <2> QED
    BY <2>1, <2>2 DEF CtrlInv
<1>9. TakenInv
  BY <1>5, <1>6, <1>7 DEF TakenInv
<1>10. WaitInv
  BY <1>5, <1>6, WaitLimitIsLate DEF WaitInv, CpuGoesOn, Idle
<1> QED
  BY <1>6, <1>7, <1>8, <1>9, <1>10 DEF PathInv

LEMMA PathInvNext == PathInv /\ [PathNext]_pathVars => PathInv'
<1> SUFFICES ASSUME PathInv, [PathNext]_pathVars PROVE PathInv'
  OBVIOUS
<1> USE DEF PathInv
<1>1. CASE PathNext
  <2>1. Edge
    BY <1>1, PathEdge
  <2>2. SlowTypes' /\ CtrlInv' /\ TakenInv' /\ WaitInv'
    BY <1>1, TypesStep, CtrlStep, TakenStep, WaitStep
  <2>3. HandshakeInv' /\ StrobeInv'
    BY <2>1, HandshakeStep, StrobeStep
  <2> QED
    BY <2>2, <2>3
<1>2. CASE UNCHANGED pathVars
  <2>1. UNCHANGED vars /\ UNCHANGED slowVars /\ UNCHANGED cpuVars
        /\ UNCHANGED <<clock, aborted, taken, waited>>
    BY <1>2 DEF pathVars
  <2>2. CtrlInv'
    <3>1. (TypeInv /\ RowInv /\ DataInv /\ InterruptInv)'
      BY <2>1, TypeInvNext, RowInvNext, DataInvNext, InterruptInvNext, PathAssumption DEF CtrlInv
    <3> QED
      BY <2>1, <3>1 DEF CtrlInv, NoPrefetch, Free, AccessesRam, vars, requestVars, prefetchVars,
         fsmVars
  <2>3. (SlowTypes /\ HandshakeInv /\ StrobeInv)'
    BY <2>1 DEF SlowTypes, HandshakeInv, StrobeInv, Strobe, Here, Acked, Seen, Noted, Idle, Asked,
       Awaiting, TimeIsUp, slowVars, cpuVars
  <2>4. TakenInv' /\ WaitInv'
    BY <2>1 DEF TakenInv, WaitInv, CpuGoesOn, Strobe, Free, Acked, Seen, Idle, Awaiting,
       slowVars, cpuVars, vars, requestVars
  <2> QED
    BY <2>2, <2>3, <2>4
<1> QED
  BY <1>1, <1>2

\* The composition never does to the controller what its own specification does not
\* allow: the bus and the CPU together are one of the requesters of SdramController,
\* so that whatever is proved of the controller for any requester holds here.
THEOREM PathImplementsController == PathSpec => Init /\ [][Next]_vars
<1>1. PathInit => Init /\ PathInv
  BY PathInvInit DEF PathInit
<1>2. PathInv /\ [PathNext]_pathVars => PathInv'
  BY PathInvNext
<1>3. PathInv /\ [PathNext]_pathVars => [Next]_vars
  BY PathEdgeIsNext DEF PathInv, CtrlInv, pathVars
<1> QED
  BY <1>1, <1>2, <1>3, PTL DEF PathSpec

\* A request is taken by the controller at most once, however short the timeout of the
\* bus is and wherever a refresh comes: the strobe lasts two ticks of the controller,
\* and a request taken in the first of them is still in the latch in the second.
THEOREM PathTakesRequestsOnce == PathSpec => []TakenAtMostOnce
<1>1. PathInv => TakenAtMostOnce
  BY DEF PathInv, TakenInv, TakenAtMostOnce
<1> QED
  BY <1>1, PathInvInit, PathInvNext, PTL DEF PathSpec

\* The CPU never waits longer than half the timeout and three of its cycles, whatever
\* the controller does: what the CPU has waited and what is left of the timeout add
\* up, and a request that the RAM does not answer is acknowledged when it runs out.
THEOREM PathCpuGoesOn == PathSpec => []CpuGoesOn
<1>1. PathInv => CpuGoesOn
  BY DEF PathInv, WaitInv
<1> QED
  BY <1>1, PathInvInit, PathInvNext, PTL DEF PathSpec
-----------------------------------------------------------------------------
(* With the timeout and the refresh interval of the code, a request that is taken is
   answered before its timeout runs out: ranks count the ticks that the controller
   still needs at most.                                                     *)

\* 128 and 1265 in the code.
Patient == ReadTimeout >= 24 /\ RefreshInterval >= 9

RefreshStates == {"REFRESH_1", "REFRESH_2", "REFRESH_3", "REFRESH_4", "REFRESH_5", "REFRESH_6",
                  "REFRESH_7", "REFRESH_8", "REFRESH_9"}
Resting == RefreshStates \cup {"CLOSE_FOR_REFRESH", "CLOSE_FOR_REFRESH_2",
                               "CLOSE_FOR_REFRESH_3", "CLOSE_FOR_REFRESH_4"}
OpeningRow == {"CLOSE_AND_SWITCH_ROW", "CLOSE_AND_SWITCH_ROW_2", "CLOSE_AND_SWITCH_ROW_3",
               "CLOSE_AND_SWITCH_ROW_4", "ACTIVATE_WAIT", "ACTIVATE_WAIT_1", "ACTIVATE_WAIT_2"}
ReadStates == OpeningRow \cup Reading \cup {"READ_WAIT"}
WriteStates == OpeningRow \cup {"WRITE_1"}

\* Ticks to the end of the refresh, to the end of the access.
RefreshRank(s) ==
  CASE s = "CLOSE_FOR_REFRESH" -> 13 [] s = "CLOSE_FOR_REFRESH_2" -> 12
    [] s = "CLOSE_FOR_REFRESH_3" -> 11 [] s = "CLOSE_FOR_REFRESH_4" -> 10
    [] s = "REFRESH_1" -> 9 [] s = "REFRESH_2" -> 8 [] s = "REFRESH_3" -> 7
    [] s = "REFRESH_4" -> 6 [] s = "REFRESH_5" -> 5 [] s = "REFRESH_6" -> 4
    [] s = "REFRESH_7" -> 3 [] s = "REFRESH_8" -> 2 [] OTHER -> 1
RowRank(s) ==
  CASE s = "CLOSE_AND_SWITCH_ROW" -> 7 [] s = "CLOSE_AND_SWITCH_ROW_2" -> 6
    [] s = "CLOSE_AND_SWITCH_ROW_3" -> 5 [] s = "CLOSE_AND_SWITCH_ROW_4" -> 4
    [] s = "ACTIVATE_WAIT" -> 3 [] s = "ACTIVATE_WAIT_1" -> 2 [] OTHER -> 1
ReadRank(s) ==
  IF s \in OpeningRow THEN RowRank(s) + 11
  ELSE CASE s = "READ_WAIT" -> 11 [] s = "READ_WAIT_2" -> 10 [] s = "READ_WAIT_3" -> 9
    [] s = "READ_WAIT_4" -> 8 [] s = "READ_0" -> 7 [] s = "READ_1" -> 6 [] s = "READ_2" -> 5
    [] s = "READ_3" -> 4 [] OTHER -> 3
WriteRank(s) == IF s \in OpeningRow THEN RowRank(s) + 2 ELSE 2

\* Where the machine goes from each state.
LEMMA FsmMoves ==
  ASSUME CtrlInv, Fsm, ~InitialisationPhase, ~NonRamWrite
  PROVE  /\ sdram_state = "IDLE" =>
              sdram_state' = IF refresh_due THEN IF active_row THEN "CLOSE_FOR_REFRESH"
                                                               ELSE "REFRESH_1"
                             ELSE IF Free THEN "IDLE"
                             ELSE IF ~active_row THEN "ACTIVATE_WAIT"
                             ELSE IF ~RowIsOpen THEN "CLOSE_AND_SWITCH_ROW"
                             ELSE IF write_latched THEN "WRITE_1" ELSE "READ_WAIT"
         /\ sdram_state = "CLOSE_AND_SWITCH_ROW_4" => sdram_state' = "ACTIVATE_WAIT"
         /\ sdram_state = "ACTIVATE_WAIT_2" =>
              sdram_state' = IF write_latched THEN "WRITE_1" ELSE "READ_WAIT"
         /\ sdram_state \in {"READ_4", "WRITE_2"} => sdram_state' = "IDLE"
         /\ sdram_state = "WRITE_1" => sdram_state' = "WRITE_2"
         /\ sdram_state = "REFRESH_1" => sdram_state' = "REFRESH_2"
         /\ sdram_state \notin {"IDLE", "CLOSE_AND_SWITCH_ROW_4", "ACTIVATE_WAIT_2", "READ_4",
                                "WRITE_1", "WRITE_2", "REFRESH_1"} =>
              \E p \in WaitStates : p[1] = sdram_state /\ sdram_state' = p[2]
         /\ active_row' = IF sdram_state = "REFRESH_1" THEN FALSE
                          ELSE IF sdram_state = "ACTIVATE_WAIT_2" THEN TRUE ELSE active_row
<1>1. /\ sdram_prepped = TRUE /\ sdram_state \in States /\ sdram_state # "NON_RAM_READ"
      /\ ~Free => AccessesRam
      /\ active_row \in BOOLEAN /\ refresh_due \in BOOLEAN
      /\ read_latched \in BOOLEAN /\ write_latched \in BOOLEAN
      /\ ~(read_latched /\ write_latched)
  BY DEF CtrlInv, InterruptInv, Uninterrupted, TypeInv, TypeOK
<1>2. \A s : At(s) <=> sdram_state = s
  BY <1>1 DEF At
<1>3. CASE sdram_state = "IDLE"
  <2>1. ~Wait /\ (RowIsOpen => active_row)
    BY <1>3 DEF Wait, WaitStates, RowIsOpen
  <2>2. /\ sdram_state' = IF refresh_due THEN IF active_row THEN "CLOSE_FOR_REFRESH"
                                                               ELSE "REFRESH_1"
                          ELSE IF Free THEN "IDLE"
                          ELSE IF ~active_row THEN "ACTIVATE_WAIT"
                          ELSE IF ~RowIsOpen THEN "CLOSE_AND_SWITCH_ROW"
                          ELSE IF write_latched THEN "WRITE_1" ELSE "READ_WAIT"
        /\ active_row' = active_row
    BY <1>1, <1>2, <1>3, <2>1
    DEF Fsm, RefreshClosed, CloseForRefresh, StayIdle, NonRamRead, PresentNonRam,
        ActivateRow, SwitchRow, ReadOpenRow, WriteOpenRow, OpenNewRow, RowActivated,
        LastBeat, WriteByte, WriteDone, RefreshStarted, Ready, Move, KeepRow, rowVars, Free
  <2> QED
    BY <1>3, <2>2
<1>4. CASE sdram_state \in {"CLOSE_AND_SWITCH_ROW_4", "ACTIVATE_WAIT_2", "READ_4",
                            "WRITE_1", "WRITE_2", "REFRESH_1"}
  <2>1. ~Wait /\ ~Ready
    BY <1>2, <1>4 DEF Wait, WaitStates, Ready
  <2>2. OpenNewRow \/ RowActivated \/ LastBeat \/ WriteByte \/ WriteDone \/ RefreshStarted
    BY <1>2, <1>4, <2>1
    DEF Fsm, RefreshClosed, CloseForRefresh, StayIdle, NonRamRead, PresentNonRam,
        ActivateRow, SwitchRow, ReadOpenRow, WriteOpenRow
  <2> QED
    BY <1>2, <1>4, <2>2
    DEF OpenNewRow, RowActivated, LastBeat, WriteByte, WriteDone, RefreshStarted, Move,
        KeepRow, rowVars
<1>5. CASE sdram_state \notin {"IDLE", "CLOSE_AND_SWITCH_ROW_4", "ACTIVATE_WAIT_2", "READ_4",
                               "WRITE_1", "WRITE_2", "REFRESH_1"}
  <2>1. Wait
    BY <1>1, <1>2, <1>5
    DEF Fsm, RefreshClosed, CloseForRefresh, StayIdle, NonRamRead, PresentNonRam,
        ActivateRow, SwitchRow, ReadOpenRow, WriteOpenRow, OpenNewRow, RowActivated,
        LastBeat, WriteByte, WriteDone, RefreshStarted, Ready
  <2>2. PICK p \in WaitStates : p[1] = sdram_state /\ Move(p[2])
    BY <2>1 DEF Wait
  <2>3. active_row' = active_row
    BY <2>1 DEF Wait, KeepRow, rowVars
  <2> QED
    BY <1>5, <2>2, <2>3 DEF Move
<1> QED
  BY <1>3, <1>4, <1>5

\* Each tick of a refresh or an access brings its end nearer.
LEMMA RefreshRankFalls ==
  ASSUME CtrlInv, Fsm, ~InitialisationPhase, ~NonRamWrite, sdram_state \in Resting
  PROVE  IF sdram_state = "REFRESH_9" THEN sdram_state' = "IDLE"
         ELSE /\ sdram_state' \in Resting
              /\ RefreshRank(sdram_state') = RefreshRank(sdram_state) - 1
<1>1. CASE sdram_state = "REFRESH_1"
  BY <1>1, FsmMoves DEF Resting, RefreshStates, RefreshRank
<1>2. CASE sdram_state # "REFRESH_1"
  <2>1. PICK p \in WaitStates : p[1] = sdram_state /\ sdram_state' = p[2]
    BY <1>2, FsmMoves DEF Resting, RefreshStates
  <2>2. \/ sdram_state = "CLOSE_FOR_REFRESH" /\ sdram_state' = "CLOSE_FOR_REFRESH_2"
        \/ sdram_state = "CLOSE_FOR_REFRESH_2" /\ sdram_state' = "CLOSE_FOR_REFRESH_3"
        \/ sdram_state = "CLOSE_FOR_REFRESH_3" /\ sdram_state' = "CLOSE_FOR_REFRESH_4"
        \/ sdram_state = "CLOSE_FOR_REFRESH_4" /\ sdram_state' = "REFRESH_1"
        \/ sdram_state = "REFRESH_2" /\ sdram_state' = "REFRESH_3"
        \/ sdram_state = "REFRESH_3" /\ sdram_state' = "REFRESH_4"
        \/ sdram_state = "REFRESH_4" /\ sdram_state' = "REFRESH_5"
        \/ sdram_state = "REFRESH_5" /\ sdram_state' = "REFRESH_6"
        \/ sdram_state = "REFRESH_6" /\ sdram_state' = "REFRESH_7"
        \/ sdram_state = "REFRESH_7" /\ sdram_state' = "REFRESH_8"
        \/ sdram_state = "REFRESH_8" /\ sdram_state' = "REFRESH_9"
        \/ sdram_state = "REFRESH_9" /\ sdram_state' = "IDLE"
    BY <2>1 DEF Resting, RefreshStates, WaitStates
  <2> QED
    BY <2>2 DEF Resting, RefreshStates, RefreshRank
<1> QED
  BY <1>1, <1>2

\* Opening a row takes up to seven ticks, an access follows.
LEMMA RowRankFalls ==
  ASSUME CtrlInv, Fsm, ~InitialisationPhase, ~NonRamWrite, sdram_state \in OpeningRow
  PROVE  IF sdram_state = "ACTIVATE_WAIT_2"
           THEN sdram_state' = IF write_latched THEN "WRITE_1" ELSE "READ_WAIT"
           ELSE sdram_state' \in OpeningRow /\ RowRank(sdram_state') = RowRank(sdram_state) - 1
<1>1. CASE sdram_state \in {"ACTIVATE_WAIT_2", "CLOSE_AND_SWITCH_ROW_4"}
  BY <1>1, FsmMoves DEF OpeningRow, RowRank
<1>2. CASE sdram_state \notin {"ACTIVATE_WAIT_2", "CLOSE_AND_SWITCH_ROW_4"}
  <2>1. PICK p \in WaitStates : p[1] = sdram_state /\ sdram_state' = p[2]
    BY <1>2, FsmMoves DEF OpeningRow
  <2>2. \/ sdram_state = "CLOSE_AND_SWITCH_ROW" /\ sdram_state' = "CLOSE_AND_SWITCH_ROW_2"
        \/ sdram_state = "CLOSE_AND_SWITCH_ROW_2" /\ sdram_state' = "CLOSE_AND_SWITCH_ROW_3"
        \/ sdram_state = "CLOSE_AND_SWITCH_ROW_3" /\ sdram_state' = "CLOSE_AND_SWITCH_ROW_4"
        \/ sdram_state = "ACTIVATE_WAIT" /\ sdram_state' = "ACTIVATE_WAIT_1"
        \/ sdram_state = "ACTIVATE_WAIT_1" /\ sdram_state' = "ACTIVATE_WAIT_2"
    BY <1>2, <2>1 DEF OpeningRow, WaitStates
  <2> QED
    BY <2>2 DEF OpeningRow, RowRank
<1> QED
  BY <1>1, <1>2

\* A read goes on until its last beat.
LEMMA ReadRankFalls ==
  ASSUME CtrlInv, Fsm, ~InitialisationPhase, ~NonRamWrite,
         sdram_state \in ReadStates \ {"READ_4"}, read_latched
  PROVE  sdram_state' \in ReadStates /\ ReadRank(sdram_state') <= ReadRank(sdram_state) - 1
<1>1. ~write_latched
  BY DEF CtrlInv, TypeInv, TypeOK
<1>2. CASE sdram_state = "ACTIVATE_WAIT_2"
  <2>1. sdram_state' = "READ_WAIT"
    BY <1>1, <1>2, RowRankFalls DEF OpeningRow
  <2> QED
    BY <1>2, <2>1 DEF ReadStates, OpeningRow, ReadRank, RowRank
<1>3. CASE sdram_state \in OpeningRow \ {"ACTIVATE_WAIT_2"}
  <2>1. sdram_state' \in OpeningRow /\ RowRank(sdram_state') = RowRank(sdram_state) - 1
    BY <1>3, RowRankFalls
  <2>2. RowRank(sdram_state) \in Nat
    BY DEF RowRank
  <2> QED
    BY <1>3, <2>1, <2>2 DEF ReadStates, ReadRank
<1>4. CASE sdram_state \notin OpeningRow
  <2>1. PICK p \in WaitStates : p[1] = sdram_state /\ sdram_state' = p[2]
    BY <1>4, FsmMoves DEF ReadStates, Reading
  <2>2. \/ sdram_state = "READ_WAIT" /\ sdram_state' = "READ_WAIT_2"
        \/ sdram_state = "READ_WAIT_2" /\ sdram_state' = "READ_WAIT_3"
        \/ sdram_state = "READ_WAIT_3" /\ sdram_state' \in {"READ_WAIT_4", "READ_0"}
        \/ sdram_state = "READ_WAIT_4" /\ sdram_state' = "READ_0"
        \/ sdram_state = "READ_0" /\ sdram_state' = "READ_1"
        \/ sdram_state = "READ_1" /\ sdram_state' = "READ_2"
        \/ sdram_state = "READ_2" /\ sdram_state' = "READ_3"
        \/ sdram_state = "READ_3" /\ sdram_state' = "READ_4"
    BY <1>4, <2>1 DEF ReadStates, Reading, WaitStates
  <2>3. sdram_state' \notin OpeningRow /\ sdram_state' \in ReadStates
    BY <2>2 DEF ReadStates, Reading, OpeningRow
  <2> QED
    BY <1>4, <2>2, <2>3 DEF ReadRank
<1> QED
  BY <1>2, <1>3, <1>4

\* A write goes on until its data is on the pins.
LEMMA WriteRankFalls ==
  ASSUME CtrlInv, Fsm, ~InitialisationPhase, ~NonRamWrite,
         sdram_state \in OpeningRow, write_latched
  PROVE  sdram_state' \in WriteStates /\ WriteRank(sdram_state') <= WriteRank(sdram_state) - 1
<1>1. CASE sdram_state = "ACTIVATE_WAIT_2"
  BY <1>1, RowRankFalls DEF WriteStates, WriteRank, OpeningRow, RowRank
<1>2. CASE sdram_state # "ACTIVATE_WAIT_2"
  <2>1. sdram_state' \in OpeningRow /\ RowRank(sdram_state') = RowRank(sdram_state) - 1
    BY <1>2, RowRankFalls
  <2>2. RowRank(sdram_state) \in Nat
    BY DEF RowRank
  <2> QED
    BY <2>1, <2>2 DEF WriteStates, WriteRank
<1> QED
  BY <1>1, <1>2

\* A refresh leaves no row open and time for an access before the next one; and a
\* controller that is busy has a request or is at a refresh.
RefreshInv ==
  /\ sdram_state \in RefreshStates \ {"REFRESH_1"} =>
       /\ ~active_row
       /\ refresh_due_countdown + 9 >= RefreshInterval + RefreshRank(sdram_state)
  /\ busy => ~Free \/ sdram_state \in Resting \/ expansionram_eternally_busy
  /\ sdram_state = "WRITE_2" => ~busy /\ ~read_latched

\* A latched request is being served, or waits for a refresh to begin or to end.
LEMMA WhereRequestsAre ==
  ASSUME CtrlInv, RefreshInv
  PROVE  /\ read_latched => sdram_state \in ReadStates \cup Resting \cup {"IDLE"}
         /\ write_latched => sdram_state \in WriteStates \cup Resting \cup {"IDLE", "WRITE_2"}
<1>1. /\ sdram_state \in States /\ sdram_state # "NON_RAM_READ"
      /\ ~(read_latched /\ write_latched)
  BY DEF CtrlInv, TypeInv, TypeOK
<1>2. /\ sdram_state = "WRITE_1" => write_latched
      /\ sdram_state \in Reading \cup {"READ_WAIT"} => read_latched
      /\ sdram_state = "WRITE_2" => ~read_latched
  BY DEF CtrlInv, DataInv, InterruptInv, AccessInProgress, RefreshInv
<1> QED
  BY <1>1, <1>2 DEF States, ReadStates, WriteStates, OpeningRow, Reading, Resting, RefreshStates

\* With an interval of nine ticks or more no refresh is due again when one ends.
LEMMA RefreshStep ==
  ASSUME SlowTypes, StrobeInv, CtrlInv, RefreshInv, Patient, PathNext
  PROVE  RefreshInv'
<1>1. CtrlTick /\ RefreshTimer /\ Fsm /\ ~InitialisationPhase /\ ~NonRamWrite /\ Edge
  BY PathEdgeIsCtrlTick, PathEdge
<1>2. /\ sdram_state \in States /\ sdram_state # "NON_RAM_READ" /\ sdram_prepped
      /\ refresh_due_countdown \in Nat /\ RefreshInterval \in Nat /\ RefreshInterval >= 9
      /\ busy \in BOOLEAN
  BY TimingAssumption DEF CtrlInv, InterruptInv, Uninterrupted, TypeInv, TypeOK, Patient
<1>3. ASSUME sdram_state' \in RefreshStates \ {"REFRESH_1"}
      PROVE  ~active_row' /\ refresh_due_countdown' + 9 >= RefreshInterval + RefreshRank(sdram_state')
  <2>1. sdram_state \in RefreshStates
    <3>1. \A p \in WaitStates : p[2] \in RefreshStates \ {"REFRESH_1"} => p[1] \in RefreshStates
      BY DEF WaitStates, RefreshStates
    <3> QED
      BY <1>1, <1>3, <3>1, FsmMoves DEF RefreshStates
  <2>2. CASE sdram_state = "REFRESH_1"
    <3>1. sdram_state' = "REFRESH_2" /\ ~active_row' /\ refresh_due_countdown' = RefreshInterval - 1
      BY <1>1, <1>2, <2>2, FsmMoves DEF RefreshTimer, At
    <3> QED
      BY <1>2, <3>1 DEF RefreshRank
  <2>3. CASE sdram_state # "REFRESH_1"
    <3>1. /\ RefreshRank(sdram_state') = RefreshRank(sdram_state) - 1
          /\ sdram_state # "REFRESH_9"
      BY <1>1, <1>3, <2>1, <2>3, RefreshRankFalls DEF Resting, RefreshStates
    <3>2. /\ ~active_row
          /\ refresh_due_countdown + 9 >= RefreshInterval + RefreshRank(sdram_state)
      BY <2>1, <2>3 DEF RefreshInv
    <3>3. active_row' = active_row
      BY <1>1, <2>1, <2>3, FsmMoves DEF RefreshStates
    <3>4. RefreshRank(sdram_state) \in Nat \ {0}
      BY DEF RefreshRank
    <3>5. refresh_due_countdown' = refresh_due_countdown - 1
      BY <1>1, <1>2, <2>3, <3>2, <3>4 DEF RefreshTimer, At
    <3> QED
      BY <1>2, <3>1, <3>2, <3>3, <3>4, <3>5
  <2> QED
    BY <2>2, <2>3
<1>4. ASSUME busy'
      PROVE  ~Free' \/ sdram_state' \in Resting \/ expansionram_eternally_busy'
  <2>1. CASE sdram_state = "IDLE" /\ refresh_due
    BY <1>1, <2>1, FsmMoves DEF Resting, RefreshStates
  <2>2. CASE TakesRead \/ TakesWrite
    <3>1. sdram_state \notin {"READ_4", "WRITE_1"}
      BY <2>2 DEF TakesRead, TakesWrite, Free, CtrlInv, DataInv, InterruptInv, AccessInProgress,
         Reading
    <3> QED
      BY <1>1, <2>2, <3>1 DEF CtrlTick, Free
  <2>3. CASE ~(sdram_state = "IDLE" /\ refresh_due) /\ ~(TakesRead \/ TakesWrite)
    <3>1. busy /\ sdram_state \notin {"READ_4", "WRITE_1", "REFRESH_9"}
      BY <1>1, <1>4, <2>3 DEF CtrlTick
    <3>2. ~Free => ~Free'
      BY <1>1, <3>1 DEF CtrlTick, Free
    <3>3. sdram_state \in Resting => sdram_state' \in Resting
      BY <1>1, <3>1, RefreshRankFalls
    <3>4. expansionram_eternally_busy => expansionram_eternally_busy'
      BY <1>1, <3>1 DEF Edge, BusRests, BusTick
    <3> QED
      BY <3>1, <3>2, <3>3, <3>4 DEF RefreshInv
  <2> QED
    BY <2>1, <2>2, <2>3
<1>5. ASSUME sdram_state' = "WRITE_2" PROVE ~busy' /\ ~read_latched'
  <2>1. sdram_state = "WRITE_1"
    <3>1. \A p \in WaitStates : p[2] # "WRITE_2"
      BY DEF WaitStates
    <3> QED
      BY <1>1, <1>5, <3>1, FsmMoves
  <2>2. write_latched /\ ~read_latched
    BY <2>1 DEF CtrlInv, DataInv, InterruptInv, AccessInProgress, TypeInv, TypeOK
  <2> QED
    BY <1>1, <2>1, <2>2 DEF CtrlTick, TakesRead, Free
<1> QED
  BY <1>3, <1>4, <1>5 DEF RefreshInv

ReadComing == read_latched \/ read_complete_strobe \/ read_publish_strobe

\* Ticks until a read that was taken is answered on the data toggle, at most.
AnswerLeft ==
  IF read_publish_strobe THEN 1 ELSE IF read_complete_strobe THEN 2
  ELSE IF sdram_state = "IDLE" THEN (IF refresh_due THEN 29 ELSE IF active_row THEN 19 ELSE 15)
  ELSE IF sdram_state \in Resting THEN RefreshRank(sdram_state) + 15 ELSE ReadRank(sdram_state)

\* Ticks until the bus sees that the controller is not busy, at most.
BusyLeft ==
  IF busy
    THEN IF sdram_state = "IDLE" THEN (IF refresh_due THEN 15 ELSE 10)
         ELSE IF sdram_state \in Resting THEN RefreshRank(sdram_state) + 1
         ELSE WriteRank(sdram_state)
    ELSE IF clock \in {1, 3} THEN 0
         ELSE IF sdram_state = "IDLE" /\ refresh_due THEN 15 ELSE 1

\* No answer takes more than 29 ticks, and no end of busy more than 15.
LEMMA RankBounds ==
  /\ \A s : RefreshRank(s) \in 1..13 /\ RowRank(s) \in 1..7
  /\ \A s : ReadRank(s) \in 3..18 /\ WriteRank(s) \in 2..9
  /\ AnswerLeft \in 1..29 /\ BusyLeft \in 0..15
<1>1. \A s : RefreshRank(s) \in 1..13
  BY DEF RefreshRank
<1>2. \A s : RowRank(s) \in 1..7
  BY DEF RowRank
<1>3. \A s : ReadRank(s) \in 3..18
  BY <1>2 DEF ReadRank
<1>4. \A s : WriteRank(s) \in 2..9
  BY <1>2 DEF WriteRank
<1>5. AnswerLeft \in 1..29
  BY <1>1, <1>3 DEF AnswerLeft
<1>6. BusyLeft \in 0..15
  BY <1>1, <1>4 DEF BusyLeft
<1> QED
  BY <1>1, <1>2, <1>3, <1>4, <1>5, <1>6

\* Where a machine that is free for a request goes.
LEMMA IdleStep ==
  ASSUME SlowTypes, CtrlInv, Fsm, ~InitialisationPhase, ~NonRamWrite,
         sdram_state = "IDLE", refresh_due
  PROVE  sdram_state' \in Resting /\ RefreshRank(sdram_state') <= 13 /\ sdram_state' # "IDLE"
  BY FsmMoves DEF Resting, RefreshStates, RefreshRank

\* After a refresh the machine is idle, with no row open, and goes on with a request.
LEMMA EndOfRefresh ==
  ASSUME CtrlInv, RefreshInv, Patient, RefreshTimer, Fsm, ~InitialisationPhase, ~NonRamWrite,
         sdram_state = "REFRESH_9"
  PROVE  sdram_state' = "IDLE" /\ ~refresh_due' /\ ~active_row'
<1>1. /\ ~active_row /\ refresh_due_countdown + 9 >= RefreshInterval + RefreshRank(sdram_state)
      /\ RefreshRank(sdram_state) = 1
  BY DEF RefreshInv, RefreshStates, RefreshRank
<1>2. refresh_due_countdown # 0
  BY <1>1, TimingAssumption DEF Patient
<1>3. sdram_state' = "IDLE" /\ active_row' = active_row
  BY FsmMoves, RefreshRankFalls DEF Resting, RefreshStates
<1> QED
  BY <1>1, <1>2, <1>3 DEF RefreshTimer

\* Each edge brings the answer of a read that was taken nearer, through the latch, the
\* states of the machine and the two strobes of the read pipeline.
LEMMA AnswerComesNearer ==
  ASSUME SlowTypes, StrobeInv, CtrlInv, RefreshInv, Patient, PathNext,
         ReadComing, ~read_publish_strobe, read_complete_strobe => ~read_latched,
         ~TakesRead, ~TakesWrite
  PROVE  /\ ReadComing' /\ AnswerLeft' <= AnswerLeft - 1 /\ latched_addr' = latched_addr
         /\ read_complete_strobe' => ~read_latched'
         /\ read_publish_strobe' => ~read_latched' /\ ~read_complete_strobe'
<1>1. CtrlTick /\ RefreshTimer /\ Fsm /\ ~InitialisationPhase /\ ~NonRamWrite
  BY PathEdgeIsCtrlTick
<1>2. /\ read_latched' = (read_latched /\ sdram_state # "READ_4")
      /\ read_complete_strobe' = (sdram_state = "READ_4")
      /\ read_publish_strobe' = read_complete_strobe /\ latched_addr' = latched_addr
      /\ sdram_state = "READ_4" => read_latched
  BY <1>1 DEF CtrlTick, CtrlInv, DataInv, InterruptInv, AccessInProgress, Reading
<1>3. CASE read_complete_strobe
  <2>1. read_publish_strobe' /\ ~read_latched' /\ ~read_complete_strobe'
    BY <1>2, <1>3
  <2>2. AnswerLeft = 2 /\ AnswerLeft' = 1
    BY <1>3, <2>1 DEF AnswerLeft
  <2> QED
    BY <1>2, <2>1, <2>2 DEF ReadComing
<1>4. CASE ~read_complete_strobe /\ read_latched
  <2>1. ~read_publish_strobe'
    BY <1>2, <1>4
  <2>2. CASE sdram_state = "READ_4"
    <3>1. AnswerLeft = 3
      BY <1>4, <2>2 DEF AnswerLeft, Resting, RefreshStates, ReadRank, OpeningRow
    <3>2. read_complete_strobe' /\ ~read_latched'
      BY <1>2, <2>2
    <3>3. AnswerLeft' = 2
      BY <2>1, <3>2 DEF AnswerLeft
    <3> QED
      BY <1>2, <2>1, <3>1, <3>2, <3>3 DEF ReadComing
  <2>3. CASE sdram_state # "READ_4"
    <3>1. read_latched' /\ ~read_complete_strobe'
      BY <1>2, <1>4, <2>3
    <3>2. CASE sdram_state = "IDLE"
      <4>1. CASE refresh_due
        <5>1. AnswerLeft = 29
          BY <1>4, <3>2, <4>1 DEF AnswerLeft
        <5>2. AnswerLeft' = RefreshRank(sdram_state') + 15
          BY <1>1, <2>1, <3>1, <3>2, <4>1, IdleStep DEF AnswerLeft
        <5>3. RefreshRank(sdram_state') <= 13 /\ RefreshRank(sdram_state') \in Nat
          BY <1>1, <3>2, <4>1, IdleStep, RankBounds
        <5> QED
          BY <1>2, <2>1, <3>1, <5>1, <5>2, <5>3 DEF ReadComing
      <4>2. CASE ~refresh_due
        <5>1. AnswerLeft = IF active_row THEN 19 ELSE 15
          BY <1>4, <3>2, <4>2 DEF AnswerLeft
        <5>2. ~Free /\ ~write_latched
          BY <1>4 DEF Free, CtrlInv, TypeInv, TypeOK
        <5>3. sdram_state' \in IF active_row THEN {"CLOSE_AND_SWITCH_ROW", "READ_WAIT"}
                                             ELSE {"ACTIVATE_WAIT"}
          BY <1>1, <3>2, <4>2, <5>2, FsmMoves
        <5>4. /\ sdram_state' # "IDLE" /\ sdram_state' \notin Resting
              /\ ReadRank(sdram_state') <= IF active_row THEN 18 ELSE 14
          BY <5>3 DEF Resting, RefreshStates, ReadRank, RowRank, OpeningRow
        <5>5. AnswerLeft' = ReadRank(sdram_state') /\ ReadRank(sdram_state') \in Nat
          BY <2>1, <3>1, <5>4, RankBounds DEF AnswerLeft
        <5> QED
          BY <1>2, <2>1, <3>1, <5>1, <5>4, <5>5 DEF ReadComing
      <4> QED
        BY <4>1, <4>2
    <3>3. CASE sdram_state \in Resting
      <4>1. AnswerLeft = RefreshRank(sdram_state) + 15
        BY <1>4, <3>3 DEF AnswerLeft, Resting, RefreshStates
      <4>2. AnswerLeft' <= AnswerLeft - 1
        <5>1. CASE sdram_state = "REFRESH_9"
          <6>1. sdram_state' = "IDLE" /\ ~refresh_due' /\ ~active_row'
            BY <1>1, <5>1, EndOfRefresh
          <6>2. AnswerLeft = 16
            BY <4>1, <5>1 DEF RefreshRank
          <6> QED
            BY <2>1, <3>1, <6>1, <6>2 DEF AnswerLeft
        <5>2. CASE sdram_state # "REFRESH_9"
          <6>1. /\ sdram_state' \in Resting
                /\ RefreshRank(sdram_state') = RefreshRank(sdram_state) - 1
            BY <1>1, <3>3, <5>2, RefreshRankFalls
          <6>2. AnswerLeft' = RefreshRank(sdram_state') + 15
            BY <2>1, <3>1, <6>1 DEF AnswerLeft, Resting, RefreshStates
          <6> QED
            BY <4>1, <6>1, <6>2, RankBounds
        <5> QED
          BY <5>1, <5>2
      <4> QED
        BY <1>2, <2>1, <3>1, <4>2 DEF ReadComing
    <3>4. CASE sdram_state \in ReadStates
      <4>1. AnswerLeft = ReadRank(sdram_state)
        BY <1>4, <3>4
        DEF AnswerLeft, ReadStates, OpeningRow, Reading, Resting, RefreshStates
      <4>2. /\ sdram_state' \in ReadStates
            /\ ReadRank(sdram_state') <= ReadRank(sdram_state) - 1
        BY <1>1, <1>4, <2>3, <3>4, ReadRankFalls
      <4>3. AnswerLeft' = ReadRank(sdram_state')
        BY <2>1, <3>1, <4>2
        DEF AnswerLeft, ReadStates, OpeningRow, Reading, Resting, RefreshStates
      <4> QED
        BY <1>2, <2>1, <3>1, <4>1, <4>2, <4>3 DEF ReadComing
    <3> QED
      BY <1>4, <3>2, <3>3, <3>4, WhereRequestsAre
  <2> QED
    BY <2>2, <2>3
<1> QED
  BY <1>3, <1>4 DEF ReadComing

\* Each edge brings the tick nearer in which the bus sees that the controller is ready.
LEMMA BusyEndsNearer ==
  ASSUME SlowTypes, StrobeInv, CtrlInv, RefreshInv, Patient, PathNext,
         ~expansionram_eternally_busy, ~read_publish_strobe, ~read_latched,
         ~TakesRead, ~TakesWrite, busy \/ clock \in {0, 2}
  PROVE  BusyLeft' <= BusyLeft - 1
<1>1. /\ CtrlTick /\ RefreshTimer /\ Fsm /\ ~InitialisationPhase /\ ~NonRamWrite
      /\ clock' = (clock + 1) % 4 /\ clock \in 0..3
  BY PathEdgeIsCtrlTick, PathEdge DEF Edge, SlowTypes
<1>2. /\ busy' = \/ sdram_state = "IDLE" /\ refresh_due
                 \/ sdram_state \notin {"READ_4", "WRITE_1", "REFRESH_9"} /\ busy
      /\ clock \in {0, 2} <=> clock' \in {1, 3}
      /\ clock \in {0, 2} <=> clock \notin {1, 3}
  BY <1>1 DEF CtrlTick
<1>3. CASE sdram_state = "IDLE" /\ refresh_due
  <2>1. busy' /\ sdram_state' # "IDLE" /\ sdram_state' \in Resting
    BY <1>1, <1>2, <1>3, IdleStep
  <2>2. BusyLeft' = RefreshRank(sdram_state') + 1
    BY <2>1 DEF BusyLeft
  <2>3. BusyLeft = 15
    BY <1>2, <1>3 DEF BusyLeft
  <2>4. RefreshRank(sdram_state') \in 1..13
    BY RankBounds
  <2> QED
    BY <2>2, <2>3, <2>4
<1>4. CASE ~busy /\ ~(sdram_state = "IDLE" /\ refresh_due)
  <2>1. ~busy' /\ clock' \in {1, 3} /\ clock \notin {1, 3}
    BY <1>2, <1>4
  <2>2. BusyLeft' = 0 /\ BusyLeft = 1
    BY <1>4, <2>1 DEF BusyLeft
  <2> QED
    BY <2>2
<1>5. CASE busy /\ ~(sdram_state = "IDLE" /\ refresh_due)
  <2>1. write_latched \/ sdram_state \in Resting
    BY <1>5 DEF RefreshInv, Free
  <2>2. CASE sdram_state = "IDLE"
    <3>1. write_latched /\ ~refresh_due /\ ~Free
      BY <1>5, <2>1, <2>2 DEF Resting, RefreshStates, Free
    <3>2. sdram_state' \in {"CLOSE_AND_SWITCH_ROW", "ACTIVATE_WAIT", "WRITE_1"}
      BY <1>1, <2>2, <3>1, FsmMoves
    <3>3. busy' /\ sdram_state' # "IDLE" /\ sdram_state' \notin Resting
      BY <1>2, <1>5, <2>2, <3>2 DEF Resting, RefreshStates
    <3>4. BusyLeft' = WriteRank(sdram_state') /\ WriteRank(sdram_state') \in 2..9
      BY <3>3, RankBounds DEF BusyLeft
    <3>5. BusyLeft = 10
      BY <1>5, <2>2, <3>1 DEF BusyLeft
    <3> QED
      BY <3>4, <3>5
  <2>3. CASE sdram_state = "REFRESH_9"
    <3>1. sdram_state' = "IDLE" /\ ~refresh_due' /\ ~busy'
      BY <1>1, <1>2, <2>3, EndOfRefresh
    <3>2. BusyLeft' <= 1 /\ BusyLeft' \in Nat
      BY <3>1 DEF BusyLeft
    <3>3. BusyLeft = 2
      BY <1>5, <2>3 DEF BusyLeft, Resting, RefreshStates, RefreshRank
    <3> QED
      BY <3>2, <3>3
  <2>4. CASE sdram_state \in Resting \ {"REFRESH_9"}
    <3>1. /\ sdram_state' \in Resting
          /\ RefreshRank(sdram_state') = RefreshRank(sdram_state) - 1
      BY <1>1, <2>4, RefreshRankFalls
    <3>2. busy'
      BY <1>2, <1>5, <2>4 DEF Resting, RefreshStates
    <3>3. /\ BusyLeft = RefreshRank(sdram_state) + 1
          /\ BusyLeft' = RefreshRank(sdram_state') + 1
      BY <1>5, <2>4, <3>1, <3>2 DEF BusyLeft, Resting, RefreshStates
    <3> QED
      BY <3>1, <3>3, RankBounds
  <2>5. CASE sdram_state = "WRITE_1"
    <3>1. sdram_state' = "WRITE_2" /\ ~busy'
      BY <1>1, <1>2, <2>5, FsmMoves
    <3>2. BusyLeft' <= 1 /\ BusyLeft' \in Nat
      BY <3>1 DEF BusyLeft
    <3>3. BusyLeft = 2
      BY <1>5, <2>5 DEF BusyLeft, Resting, RefreshStates, WriteRank, OpeningRow
    <3> QED
      BY <3>2, <3>3
  <2>6. CASE sdram_state \in OpeningRow
    <3>1. write_latched
      BY <2>1, <2>6 DEF OpeningRow, Resting, RefreshStates
    <3>2. sdram_state' \in WriteStates /\ WriteRank(sdram_state') <= WriteRank(sdram_state) - 1
      BY <1>1, <2>6, <3>1, WriteRankFalls
    <3>3. busy'
      BY <1>2, <1>5, <2>6 DEF OpeningRow
    <3>4. BusyLeft = WriteRank(sdram_state)
      BY <1>5, <2>6 DEF BusyLeft, OpeningRow, Resting, RefreshStates
    <3>5. BusyLeft' = WriteRank(sdram_state')
      BY <3>2, <3>3 DEF BusyLeft, WriteStates, OpeningRow, Resting, RefreshStates
    <3> QED
      BY <3>2, <3>4, <3>5
  <2>7. sdram_state # "WRITE_2"
    BY <1>5 DEF RefreshInv
  <2> QED
    BY <2>1, <2>2, <2>3, <2>4, <2>5, <2>6, <2>7, WhereRequestsAre DEF WriteStates
<1> QED
  BY <1>1, <1>2, <1>3, <1>4, <1>5

\* Ticks until the timeout of the bus runs out.
TimeLeft == 2 * expansionram_read_timeout + (IF clock \in {1, 3} THEN 0 ELSE 1)
NewAnswer == data_ready_toggle # last_expansionram_data_ready_toggle

\* A read that was taken is the one that the bus waits for, and has the time it needs.
ReadingInv ==
  /\ read_complete_strobe => ~read_latched
  /\ read_publish_strobe => ~read_latched /\ ~read_complete_strobe
  /\ ReadComing => Awaiting /\ latched_addr = Here /\ ~NewAnswer /\ AnswerLeft <= TimeLeft - 2
  /\ Strobe => ~read_complete_strobe /\ ~read_publish_strobe /\ ~NewAnswer
  /\ expansionram_read => /\ expansionram_read_timeout >= 16
                          /\ clock \in {0, 2} => ~read_latched
  /\ Asked => TimeLeft >= 34 + BusyLeft
  /\ NewAnswer => Awaiting /\ ~TimeIsUp
  /\ Awaiting => ~Acked

PatientInv == PathInv /\ RefreshInv /\ ReadingInv

\* The timeout of a request that is with the bus falls with the clock.
LEMMA TimeLeftFalls ==
  ASSUME SlowTypes, HandshakeInv, StrobeInv, Edge, ~Idle, ~Acked, ~Acked'
  PROVE  TimeLeft' = TimeLeft - 1
<1>1. /\ expansionram_read_timeout' =
            IF clock \in {1, 3} THEN expansionram_read_timeout - 1
                                ELSE expansionram_read_timeout
      /\ clock' = (clock + 1) % 4 /\ clock \in {0, 1, 2, 3} /\ expansionram_read_timeout \in Nat
  BY TimeoutRuns DEF Edge, SlowTypes
<1> QED
  BY <1>1 DEF TimeLeft

\* Facts that every case of the step needs.
LEMMA PatientFacts ==
  ASSUME PatientInv, PathNext
  PROVE  /\ CtrlTick /\ Edge
         /\ clock \in {0, 1, 2, 3} /\ clock' = (clock + 1) % 4
         /\ clock' \in {1, 3} <=> clock \in {0, 2}
         /\ expansionram_read_timeout \in Nat
         /\ data_ready_toggle \in BOOLEAN /\ last_expansionram_data_ready_toggle \in BOOLEAN
         /\ ~(read_latched /\ write_latched)
         /\ sdram_state = "READ_4" => read_latched
         /\ sdram_state = "WRITE_1" => write_latched
         /\ AnswerLeft \in 1..29 /\ AnswerLeft' \in 1..29
         /\ BusyLeft \in 0..15 /\ BusyLeft' \in 0..15
         /\ clock \in {0, 2} => BusRests /\ CpuRests
         /\ clock \in {1, 3} => BusTick
<1>1. SlowTypes /\ StrobeInv /\ CtrlInv
  BY DEF PatientInv, PathInv
<1>2. CtrlTick /\ Edge /\ clock \in {0, 1, 2, 3}
  BY <1>1, PathEdgeIsCtrlTick, PathEdge DEF SlowTypes
<1>3. clock' = (clock + 1) % 4
  BY <1>2 DEF Edge
<1>4. clock' \in {1, 3} <=> clock \in {0, 2}
  BY <1>2, <1>3
<1>5. /\ expansionram_read_timeout \in Nat
      /\ data_ready_toggle \in BOOLEAN /\ last_expansionram_data_ready_toggle \in BOOLEAN
      /\ ~(read_latched /\ write_latched)
  BY <1>1 DEF SlowTypes, CtrlInv, TypeInv, TypeOK
<1>6. /\ sdram_state = "READ_4" => read_latched
      /\ sdram_state = "WRITE_1" => write_latched
  BY <1>1 DEF CtrlInv, DataInv, InterruptInv, AccessInProgress, Reading
<1>7. AnswerLeft \in 1..29 /\ BusyLeft \in 0..15
  BY RankBounds
<1>8. AnswerLeft' \in 1..29 /\ BusyLeft' \in 0..15
  <2>1. /\ RefreshRank(sdram_state') \in 1..13 /\ ReadRank(sdram_state') \in 3..18
        /\ WriteRank(sdram_state') \in 2..9
    BY RankBounds
  <2> QED
    BY <2>1 DEF AnswerLeft, BusyLeft
<1>9. (clock \in {0, 2} => BusRests /\ CpuRests) /\ (clock \in {1, 3} => BusTick)
  BY <1>2 DEF Edge
<1> QED
  BY <1>2, <1>3, <1>4, <1>5, <1>6, <1>7, <1>8, <1>9

\* A read that was taken: nothing else is taken, and its answer comes in time.
LEMMA ReadIsComing ==
  ASSUME PatientInv, Patient, PathNext, ReadComing
  PROVE  /\ ReadingInv' /\ ~TakesRead /\ ~TakesWrite /\ ~TimeIsUp /\ ~Acked'
         /\ (ReadComing \/ NewAnswer)'
<1> USE DEF PatientInv, PathInv
<1>1. /\ Awaiting /\ latched_addr = Here /\ ~NewAnswer /\ AnswerLeft <= TimeLeft - 2
      /\ ~Acked /\ ~Idle /\ ~Asked /\ Seen /\ ~pins.write
  BY DEF ReadingInv, Awaiting, Asked, Idle, HandshakeInv
<1>2. ~TakesRead /\ ~TakesWrite
  <2>1. CASE read_latched
    BY <2>1 DEF TakesRead, TakesWrite, Free
  <2>2. CASE ~read_latched
    BY <2>2 DEF TakesRead, TakesWrite, ReadingInv, Strobe, ReadComing
  <2> QED
    BY <2>1, <2>2
<1>3. ~TimeIsUp /\ TimeLeft >= 3
  BY <1>1, PatientFacts DEF TimeLeft, TimeIsUp
<1>4. ~Strobe'
  <2>1. CASE clock \in {1, 3}
    BY <1>1, <2>1, PatientFacts, BusOutcome
  <2>2. CASE clock \in {0, 2}
    <3>1. ~Strobe
      BY <1>1, <2>2 DEF Strobe, ReadingInv, ReadComing, StrobeInv, Awaiting, Idle
    <3> QED
      BY <2>2, <3>1, PatientFacts DEF BusRests, Strobe
  <2> QED
    BY <2>1, <2>2, PatientFacts
<1>5. /\ Awaiting' /\ ~Idle' /\ ~Asked' /\ pins' = pins /\ ~Acked'
      /\ last_expansionram_data_ready_toggle' = data_ready_toggle
  <2>1. ~proceed /\ drive' = drive /\ pins' = pins
    BY <1>1, PatientFacts, TimeoutRuns
  <2>2. CASE clock \in {1, 3}
    <3>1. /\ NoAck /\ state' = "ExpansionRAMReadWait"
          /\ last_expansionram_data_ready_toggle' = data_ready_toggle
      BY <1>1, <1>3, <2>2, PatientFacts DEF BusTick, Awaiting, Idle, Asked, NewAnswer, GivenUpInTime
    <3> QED
      BY <1>1, <2>1, <3>1 DEF NoAck, Acked, Awaiting, Idle, Asked
  <2>3. CASE clock \in {0, 2}
    BY <1>1, <2>1, <2>3, PatientFacts DEF BusRests, Acked, Awaiting, Idle, Asked, NewAnswer
  <2> QED
    BY <2>2, <2>3, PatientFacts
<1>6. TimeLeft' = TimeLeft - 1
  BY <1>1, <1>5, PatientFacts, TimeLeftFalls
<1>7. CASE read_publish_strobe
  <2>1. ~read_latched' /\ ~read_complete_strobe' /\ ~read_publish_strobe' /\ ~ReadComing'
    <3>1. sdram_state # "READ_4" /\ ~read_latched /\ ~read_complete_strobe
      BY <1>7, PatientFacts DEF ReadingInv
    <3>2. CtrlTick
      BY PatientFacts
    <3>3. ~read_latched' /\ ~read_complete_strobe' /\ ~read_publish_strobe'
      BY <1>2, <3>1, <3>2 DEF CtrlTick
    <3> QED
      BY <3>3 DEF ReadComing
  <2>2. NewAnswer'
    BY <1>5, <1>7, PatientFacts DEF CtrlTick, NewAnswer
  <2>3. ~TimeIsUp'
    BY <1>3, <1>6, PatientFacts DEF TimeLeft, TimeIsUp
  <2> QED
    BY <1>2, <1>3, <1>4, <1>5, <2>1, <2>2, <2>3 DEF ReadingInv, Strobe
<1>8. CASE ~read_publish_strobe
  <2>1. read_complete_strobe => ~read_latched
    BY DEF ReadingInv
  <2>2. /\ ReadComing' /\ AnswerLeft' <= AnswerLeft - 1 /\ latched_addr' = latched_addr
        /\ read_complete_strobe' => ~read_latched'
        /\ read_publish_strobe' => ~read_latched' /\ ~read_complete_strobe'
    BY <1>2, <1>8, <2>1, AnswerComesNearer
  <2>3. ~NewAnswer'
    BY <1>5, <1>8, PatientFacts DEF CtrlTick, NewAnswer
  <2>4. AnswerLeft' <= TimeLeft' - 2
    BY <1>1, <1>3, <1>6, <2>2, PatientFacts DEF TimeLeft
  <2>5. latched_addr' = Here'
    BY <1>1, <1>5, <2>2 DEF Here
  <2> QED
    BY <1>2, <1>3, <1>4, <1>5, <2>2, <2>3, <2>4, <2>5 DEF ReadingInv, Strobe
<1> QED
  BY <1>7, <1>8

\* An answer that the bus has not seen is taken at its next edge.
LEMMA AnswerIsSeen ==
  ASSUME PatientInv, Patient, PathNext, NewAnswer
  PROVE  /\ ReadingInv' /\ ~TakesRead /\ ~TakesWrite /\ ~TimeIsUp /\ ~read_publish_strobe
         /\ (clock \in {1, 3} => Acked') /\ (clock \in {0, 2} => NewAnswer')
<1> USE DEF PatientInv, PathInv
<1>1. /\ Awaiting /\ ~ReadComing /\ ~Strobe /\ ~TimeIsUp
      /\ ~Acked /\ ~Idle /\ ~Asked /\ Seen
  BY DEF ReadingInv, Awaiting, Asked, Idle, HandshakeInv
<1>2. /\ ~TakesRead /\ ~TakesWrite /\ ~read_latched /\ ~read_complete_strobe
      /\ ~read_publish_strobe /\ sdram_state # "READ_4"
  BY <1>1, PatientFacts DEF TakesRead, TakesWrite, Strobe, ReadComing
<1>3. ~ReadComing' /\ data_ready_toggle' = data_ready_toggle
      /\ ~read_complete_strobe' /\ ~read_publish_strobe'
  <2>1. CtrlTick
    BY PatientFacts
  <2>2. ~read_latched' /\ ~read_complete_strobe' /\ ~read_publish_strobe'
    BY <1>2, <2>1 DEF CtrlTick
  <2> QED
    BY <1>2, <2>1, <2>2 DEF CtrlTick, ReadComing
<1>4. drive' = drive /\ pins' = pins
  BY <1>1, PatientFacts, TimeoutRuns
<1>5. CASE clock \in {1, 3}
  <2>1. /\ Ack /\ state' = "Idle" /\ last_expansionram_data_ready_toggle' = data_ready_toggle
    BY <1>1, <1>5, PatientFacts DEF BusTick, Awaiting, Idle, Asked, NewAnswer
  <2>2. ~Strobe' /\ ~Awaiting' /\ ~Asked' /\ ~NewAnswer' /\ Acked'
    BY <1>1, <1>3, <1>4, <1>5, <2>1, PatientFacts, BusOutcome
    DEF Awaiting, Asked, NewAnswer, Acked, Ack, Seen
  <2> QED
    BY <1>1, <1>2, <1>3, <1>5, <2>2, PatientFacts DEF ReadingInv, Strobe
<1>6. CASE clock \in {0, 2}
  <2>1. BusRests
    BY <1>6, PatientFacts
  <2>2. Awaiting' /\ ~TimeIsUp' /\ ~Acked' /\ ~Strobe' /\ NewAnswer' /\ ~Asked'
    BY <1>1, <1>3, <1>4, <2>1 DEF BusRests, Awaiting, TimeIsUp, Acked, Strobe, NewAnswer, Asked
  <2> QED
    BY <1>1, <1>2, <1>3, <1>6, <2>2 DEF ReadingInv, Strobe
<1> QED
  BY <1>5, <1>6, PatientFacts

\* A strobe: the request is taken at this edge, or not.
LEMMA StrobeIsSeen ==
  ASSUME PatientInv, Patient, PathNext, Strobe, ~ReadComing
  PROVE  /\ ReadingInv' /\ ~NewAnswer /\ (~TimeIsUp \/ expansionram_write)
         /\ (TakesRead => ReadComing')
<1> USE DEF PatientInv, PathInv
<1>1. /\ ~NewAnswer /\ ~read_latched /\ ~read_complete_strobe /\ ~read_publish_strobe
      /\ sdram_state # "READ_4"
  BY PatientFacts DEF ReadingInv, ReadComing
<1>2. /\ ~read_complete_strobe' /\ ~read_publish_strobe' /\ (read_latched' <=> TakesRead)
      /\ data_ready_toggle' = data_ready_toggle
      /\ TakesRead => latched_addr' = expansionram_address
      /\ ReadComing' <=> TakesRead
  <2>1. CtrlTick
    BY PatientFacts
  <2>2. ~read_complete_strobe' /\ ~read_publish_strobe' /\ (read_latched' <=> TakesRead)
    BY <1>1, <2>1 DEF CtrlTick
  <2>3. ReadComing' <=> TakesRead
    BY <2>2, Zenon DEF ReadComing
  <2>4. /\ data_ready_toggle' = data_ready_toggle
        /\ TakesRead => latched_addr' = expansionram_address
    BY <1>1, <2>1 DEF CtrlTick
  <2> QED
    BY <2>2, <2>3, <2>4
<1>3. ~NewAnswer'
  BY <1>1, <1>2, PatientFacts DEF NewAnswer, BusTick, BusRests
<1>4. CASE expansionram_read
  <2>1. /\ Awaiting /\ ~Acked /\ ~Idle /\ ~Asked /\ Seen /\ expansionram_read_timeout >= 16
        /\ ~expansionram_write /\ expansionram_address = Here
    BY <1>4 DEF StrobeInv, Strobe, Awaiting, Idle, Asked, ReadingInv, HandshakeInv
  <2>2. ~TimeIsUp /\ drive' = drive /\ pins' = pins
    BY <2>1, PatientFacts, TimeoutRuns DEF TimeIsUp
  <2>3. /\ Awaiting' /\ ~Asked' /\ ~Acked'
        /\ clock \in {1, 3} => ~Strobe'
        /\ clock \in {0, 2} => UNCHANGED <<expansionram_read, expansionram_write,
                                           expansionram_read_timeout>>
    <3>1. CASE clock \in {1, 3}
      <4>1. NoAck /\ state' = "ExpansionRAMReadWait" /\ ~Strobe'
        BY <1>1, <2>1, <2>2, <3>1, PatientFacts, BusOutcome
        DEF BusTick, Awaiting, Idle, Asked, NewAnswer, GivenUpInTime
      <4> QED
        BY <2>1, <2>2, <3>1, <4>1 DEF NoAck, Acked, Awaiting, Asked
    <3>2. CASE clock \in {0, 2}
      BY <2>1, <2>2, <3>2, PatientFacts DEF BusRests, Awaiting, Asked, Acked
    <3> QED
      BY <3>1, <3>2, PatientFacts
  <2>4. TimeLeft' = TimeLeft - 1
    BY <2>1, <2>3, PatientFacts, TimeLeftFalls
  <2>5. TimeLeft' - 2 >= 29
    BY <2>1, <2>4, PatientFacts DEF TimeLeft
  <2>6. ReadComing' => latched_addr' = Here' /\ AnswerLeft' <= TimeLeft' - 2
    <3>1. Here' = Here
      BY <2>2 DEF Here
    <3> HIDE DEF TimeLeft, AnswerLeft, Here
    <3>2. AnswerLeft' \in 1..29
      BY PatientFacts
    <3>3. TimeLeft' \in Nat
      BY <2>1, <2>4, PatientFacts DEF TimeLeft
    <3>4. AnswerLeft' <= TimeLeft' - 2
      <4>1. \A answer \in 1..29, time \in Nat : time - 2 >= 29 => answer <= time - 2
        OBVIOUS
      <4> QED
        BY <2>5, <3>2, <3>3, <4>1
    <3>5. TakesRead => latched_addr' = Here'
      BY <1>2, <2>1, <3>1
    <3> QED
      BY <1>2, <3>4, <3>5
  <2>7. expansionram_read' => expansionram_read_timeout' >= 16 /\ clock' \in {1, 3}
    BY <2>1, <2>3, PatientFacts DEF Strobe
  <2>8. clock' \in {1, 3} => clock' \notin {0, 2}
    BY PatientFacts
  <2> QED
    BY <1>1, <1>2, <1>3, <2>2, <2>3, <2>6, <2>7, <2>8 DEF ReadingInv
<1>5. CASE ~expansionram_read
  <2>1. expansionram_write /\ Idle /\ Acked /\ Noted /\ ~Asked /\ ~Awaiting
    BY <1>5 DEF StrobeInv, Strobe, HandshakeInv, Idle, Asked, Awaiting
  <2>2. ~TakesRead
    BY <1>5 DEF TakesRead
  <2>3. Idle' /\ ~Asked' /\ ~Awaiting' /\ ~expansionram_read'
    <3>1. CASE clock \in {1, 3}
      <4>1. BusTick
        BY <3>1, PatientFacts
      <4>2. state' = "Idle" /\ StrobesDropped
        BY <2>1, <4>1 DEF BusTick
      <4> QED
        BY <4>2 DEF Idle, Asked, Awaiting, StrobesDropped
    <3>2. CASE clock \in {0, 2}
      <4>1. state' = state /\ expansionram_read' = expansionram_read
        BY <3>2, PatientFacts DEF BusRests
      <4> QED
        BY <1>5, <2>1, <4>1 DEF Idle, Asked, Awaiting
    <3> QED
      BY <3>1, <3>2, PatientFacts
  <2> QED
    BY <1>2, <1>3, <2>1, <2>2, <2>3 DEF ReadingInv
<1> QED
  BY <1>4, <1>5

\* No strobe, no answer: the bus may begin to strobe.
LEMMA NothingIsComing ==
  ASSUME PatientInv, Patient, PathNext, ~Strobe, ~ReadComing, ~NewAnswer
  PROVE  /\ ReadingInv' /\ ~TakesRead /\ ~TakesWrite /\ ~(ReadComing \/ NewAnswer)'
         /\ (Asked => ~TimeIsUp)
<1> USE DEF PatientInv, PathInv
<1>1. /\ ~read_latched /\ ~read_complete_strobe /\ ~read_publish_strobe
      /\ sdram_state # "READ_4" /\ ~TakesRead /\ ~TakesWrite
  BY PatientFacts DEF ReadComing, TakesRead, TakesWrite, Strobe
<1>2. /\ ~ReadComing' /\ ~read_complete_strobe' /\ ~read_publish_strobe' /\ ~read_latched'
      /\ data_ready_toggle' = data_ready_toggle
  <2>1. CtrlTick
    BY PatientFacts
  <2>2. ~read_latched' /\ ~read_complete_strobe' /\ ~read_publish_strobe'
    BY <1>1, <2>1 DEF CtrlTick
  <2> QED
    BY <1>1, <2>1, <2>2 DEF CtrlTick, ReadComing
<1>3. ~NewAnswer'
  BY <1>2, PatientFacts DEF NewAnswer, BusTick, BusRests
<1>4. Asked => TimeLeft >= 34 + BusyLeft /\ expansionram_read_timeout >= 17
  BY PatientFacts DEF ReadingInv, TimeLeft
<1>5. Asked => ~TimeIsUp /\ ~Acked /\ Seen /\ ~expansionram_eternally_busy /\ ~Idle
  BY <1>4 DEF TimeIsUp, HandshakeInv, Asked, Idle
<1>6. Strobe' => expansionram_read_timeout' >= 16 /\ ~read_latched'
  <2>1. CASE clock \in {1, 3}
    <3>1. Strobe' => Asked
      BY <2>1, PatientFacts, BusOutcome
    <3>2. Asked => expansionram_read_timeout' = expansionram_read_timeout - 1
      BY <1>5, <2>1, PatientFacts DEF BusTick
    <3> QED
      BY <1>2, <1>4, <3>1, <3>2, PatientFacts
  <2>2. CASE clock \in {0, 2}
    BY <2>2, PatientFacts DEF BusRests, Strobe
  <2> QED
    BY <2>1, <2>2, PatientFacts
<1>7. ASSUME Asked' PROVE TimeLeft' >= 34 + BusyLeft'
  <2>1. CASE Asked
    <3>1. drive' = drive /\ pins' = pins
      BY <1>5, <2>1, PatientFacts, TimeoutRuns
    <3>2. ~Acked' /\ (busy \/ clock \in {0, 2})
      <4>1. CASE clock \in {1, 3}
        <5>1. NoAck /\ busy
          BY <1>5, <1>7, <2>1, <4>1, PatientFacts
          DEF BusTick, GivenUpInTime, Asked, Idle, Awaiting
        <5> QED
          BY <1>5, <2>1, <3>1, <5>1 DEF NoAck, Acked
      <4>2. CASE clock \in {0, 2}
        BY <1>5, <2>1, <3>1, <4>2, PatientFacts DEF BusRests, Acked
      <4> QED
        BY <4>1, <4>2, PatientFacts
    <3>3. TimeLeft' = TimeLeft - 1
      BY <1>5, <2>1, <3>2, PatientFacts, TimeLeftFalls
    <3>4. BusyLeft' <= BusyLeft - 1
      BY <1>1, <1>5, <2>1, <3>2, BusyEndsNearer
    <3>5. TimeLeft \in Nat /\ TimeLeft >= 34 + BusyLeft
      BY <1>4, <2>1, PatientFacts DEF TimeLeft
    <3> HIDE DEF TimeLeft, BusyLeft
    <3> QED
      BY <3>3, <3>4, <3>5, PatientFacts
  <2>2. CASE ~Asked
    <3>1. clock \in {1, 3}
      BY <1>7, <2>2, PatientFacts DEF BusRests, Asked
    <3>2. expansionram_read_timeout' = ReadTimeout
      BY <1>7, <2>2, <3>1, PatientFacts
      DEF BusTick, Asked, Idle, Awaiting, GivenUpInTime
    <3>3. clock' \notin {1, 3}
      BY <3>1, PatientFacts
    <3>4. TimeLeft' >= 49
      BY <3>2, <3>3, PathAssumption DEF TimeLeft, Patient
    <3>5. TimeLeft' \in Nat
      BY <3>2, PathAssumption DEF TimeLeft
    <3> HIDE DEF TimeLeft, BusyLeft
    <3> QED
      BY <3>4, <3>5, PatientFacts
  <2> QED
    BY <2>1, <2>2
<1>8. ASSUME Awaiting' PROVE ~Acked'
  <2>1. ~Idle /\ ~Acked /\ Seen
    <3>1. ~Idle
      BY <1>8, PatientFacts DEF BusTick, BusRests, Idle, Asked, Awaiting
    <3> QED
      BY <3>1 DEF ReadingInv, HandshakeInv, SlowTypes, Idle, Asked, Awaiting
  <2>2. drive' = drive /\ pins' = pins
    BY <2>1, PatientFacts, TimeoutRuns
  <2>3. CASE clock \in {1, 3}
    <3>1. NoAck
      BY <1>5, <1>8, <2>1, <2>3, PatientFacts
      DEF BusTick, Awaiting, Asked, Idle, GivenUpInTime
    <3> QED
      BY <2>1, <2>2, <3>1 DEF NoAck, Acked
  <2>4. CASE clock \in {0, 2}
    BY <2>1, <2>2, <2>4, PatientFacts DEF BusRests, Acked
  <2> QED
    BY <2>3, <2>4, PatientFacts
<1> QED
  BY <1>1, <1>2, <1>3, <1>5, <1>6, <1>7, <1>8 DEF ReadingInv, Strobe

\* Every state is in one of the four cases above.
LEMMA PatientInvNext ==
  ASSUME Patient, PatientInv, [PathNext]_pathVars
  PROVE  PatientInv'
<1>1. PathInv'
  BY PathInvNext DEF PatientInv
<1>2. CASE PathNext
  <2>1. RefreshInv'
    BY <1>2, RefreshStep DEF PatientInv, PathInv
  <2>2. ReadingInv'
    BY <1>2, ReadIsComing, AnswerIsSeen, StrobeIsSeen, NothingIsComing
  <2> QED
    BY <1>1, <2>1, <2>2 DEF PatientInv
<1>3. CASE UNCHANGED pathVars
  <2>1. UNCHANGED vars /\ UNCHANGED slowVars /\ UNCHANGED <<clock, pins, drive>>
    BY <1>3 DEF pathVars, cpuVars
  <2>2. UNCHANGED <<sdram_state, active_row, refresh_due, refresh_due_countdown, busy, latched_addr,
                    read_latched, write_latched, read_complete_strobe, read_publish_strobe,
                    data_ready_toggle>>
    BY <2>1 DEF vars, fsmVars, rowVars, refreshVars, requestVars, readVars
  <2>3. UNCHANGED <<state, slow_access_ready_toggle, expansionram_read, expansionram_write,
                    expansionram_read_timeout, expansionram_eternally_busy,
                    last_expansionram_data_ready_toggle>>
    BY <2>1 DEF slowVars
  <2>4. RefreshInv'
    BY <2>2, <2>3 DEF PatientInv, RefreshInv, Free
  <2>5. /\ AnswerLeft' = AnswerLeft /\ BusyLeft' = BusyLeft /\ TimeLeft' = TimeLeft
        /\ Here' = Here
    BY <2>1, <2>2, <2>3 DEF AnswerLeft, BusyLeft, TimeLeft, Here
  <2>6. ReadingInv'
    <3> HIDE DEF AnswerLeft, BusyLeft, TimeLeft, Here
    <3> QED
      BY <2>1, <2>2, <2>3, <2>5
      DEF PatientInv, ReadingInv, ReadComing, NewAnswer, Strobe, Awaiting, Asked, Acked, TimeIsUp
  <2> QED
    BY <1>1, <2>4, <2>6 DEF PatientInv
<1> QED
  BY <1>2, <1>3

LEMMA PatientInvInit == PathInit => PatientInv
<1> SUFFICES ASSUME PathInit PROVE PatientInv
  OBVIOUS
<1>1. Init /\ Slow!SlowInit
  BY DEF PathInit
<1>2. /\ sdram_state = "IDLE" /\ read_latched = FALSE /\ write_latched = FALSE
      /\ read_complete_strobe = FALSE /\ read_publish_strobe = FALSE
      /\ data_ready_toggle = FALSE
  BY <1>1 DEF Init
<1>3. /\ state = "Idle" /\ expansionram_read = FALSE /\ expansionram_write = FALSE
      /\ expansionram_eternally_busy = TRUE /\ last_expansionram_data_ready_toggle = FALSE
  BY <1>1 DEF Slow!SlowInit
<1>4. RefreshInv
  BY <1>2, <1>3 DEF RefreshInv, RefreshStates
<1>5. ~ReadComing /\ ~NewAnswer /\ ~Strobe /\ ~Awaiting /\ ~Asked
  BY <1>2, <1>3 DEF ReadComing, NewAnswer, Strobe, Awaiting, Asked
<1>6. ReadingInv
  BY <1>2, <1>3, <1>5 DEF ReadingInv, Strobe
<1> QED
  BY <1>4, <1>6, PathInvInit DEF PatientInv
-----------------------------------------------------------------------------
(* What the CPU takes.  A request that was acknowledged stays so; one that was given
   up was not taken; and the byte on its way to the CPU is the one in the RAM, for
   nothing is accepted between the burst and the edge at which the CPU takes it. *)

AnswerExpected == Acked /\ ~pins.write /\ ~aborted /\ (~proceed \/ taking)
ByteInRam == accepted[pins.address.line][pins.address.byte]

GaveUpInv ==
  /\ aborted => taken = 0 /\ Acked /\ ~Strobe
  /\ ~Acked /\ taken = 1 => ReadComing \/ NewAnswer
ValueInv ==
  /\ read_publish_strobe => rdata_buf = accepted[latched_addr.line][latched_addr.byte]
  /\ NewAnswer => rdata = ByteInRam
  /\ AnswerExpected => slow_access_rdata = ByteInRam

\* An acknowledged request is not touched until the next one.
LEMMA AckedStays ==
  ASSUME PatientInv, PathNext, Acked
  PROVE  /\ Idle /\ NoAck
         /\ drive'.toggle = drive.toggle => Acked' /\ (Strobe' => Strobe)
<1> USE DEF PatientInv, PathInv
<1>1. Idle
  BY DEF ReadingInv, HandshakeInv, SlowTypes, Idle, Asked, Awaiting
<1>2. CASE clock \in {1, 3}
  <2>1. NoAck /\ ~Strobe'
    BY <1>1, <1>2, PatientFacts, BusOutcome DEF Idle, Asked
  <2> QED
    BY <1>1, <2>1 DEF NoAck, Acked
<1>3. CASE clock \in {0, 2}
  <2>1. BusRests
    BY <1>3, PatientFacts
  <2> QED
    BY <1>1, <2>1 DEF BusRests, NoAck, Acked, Strobe
<1> QED
  BY <1>2, <1>3, PatientFacts

\* A request that is given up was with the bus, and with nothing else.
LEMMA GivenUpAlone ==
  ASSUME PatientInv, Patient, PathNext, ~Idle, TimeIsUp
  PROVE  Awaiting /\ ~Acked /\ ~ReadComing /\ ~NewAnswer /\ ~Strobe
<1>1. ~ReadComing
  BY ReadIsComing
<1>2. ~NewAnswer
  BY AnswerIsSeen
<1>3. ~Strobe
  <2>1. expansionram_write => Idle
    BY DEF PatientInv, PathInv, StrobeInv
  <2> QED
    BY <1>1, <2>1, StrobeIsSeen
<1>4. ~Asked
  BY <1>1, <1>2, <1>3, NothingIsComing
<1> QED
  BY <1>1, <1>2, <1>3, <1>4
  DEF PatientInv, PathInv, SlowTypes, ReadingInv, Idle, Asked, Awaiting

\* What was given up had not been taken, and is not strobed again.
LEMMA GaveUpStep ==
  ASSUME PatientInv, Patient, PathNext, GaveUpInv
  PROVE  GaveUpInv'
<1> USE DEF PatientInv, PathInv
<1>1. HistoryStep /\ Edge
  BY PathHistory, PatientFacts
<1>2. TakesRead \/ TakesWrite => Strobe
  BY DEF TakesRead, TakesWrite, Strobe
<1>3. taken \in Nat /\ taken <= 1
  BY DEF SlowTypes, TakenInv
<1>4. CASE drive'.toggle # drive.toggle
  <2>1. aborted' = FALSE /\ taken' = 0
    BY <1>1, <1>4 DEF HistoryStep
  <2> QED
    BY <2>1 DEF GaveUpInv
<1>5. CASE drive'.toggle = drive.toggle
  <2>1. aborted' = (aborted \/ (clock \in {1, 3} /\ ~Idle /\ TimeIsUp))
    BY <1>1, <1>5 DEF HistoryStep
  <2>2. taken' = IF TakesRead \/ TakesWrite THEN taken + 1 ELSE taken
    BY <1>1, <1>5 DEF HistoryStep
  <2>3. ASSUME aborted PROVE taken' = 0 /\ Acked' /\ ~Strobe'
    BY <1>2, <1>5, <2>2, <2>3, AckedStays DEF GaveUpInv
  <2>4. ASSUME clock \in {1, 3}, ~Idle, TimeIsUp PROVE taken' = 0 /\ Acked' /\ ~Strobe'
    <3>1. Awaiting /\ ~Acked /\ ~ReadComing /\ ~NewAnswer /\ ~Strobe
      BY <2>4, GivenUpAlone
    <3>2. taken' = 0
      BY <1>2, <1>3, <2>2, <3>1 DEF GaveUpInv
    <3>3. BusTick
      BY <2>4, PatientFacts
    <3>4. Ack /\ StrobesDropped
      BY <2>4, <3>1, <3>3 DEF BusTick, Awaiting, Asked, Idle, NewAnswer, GivenUpInTime
    <3>5. Acked'
      BY <1>5, <2>4, <3>4 DEF Acked, Ack, HandshakeInv, Seen
    <3>6. ~Strobe'
      BY <3>4 DEF StrobesDropped, Strobe
    <3> QED
      BY <3>2, <3>5, <3>6
  <2>5. ASSUME ~Acked', taken' = 1 PROVE (ReadComing \/ NewAnswer)'
    <3>1. ~Acked
      BY <1>5, <2>5, AckedStays
    <3>2. CASE ReadComing
      BY <3>2, ReadIsComing
    <3>3. CASE NewAnswer
      BY <2>5, <3>3, AnswerIsSeen, PatientFacts
    <3>4. CASE Strobe /\ ~ReadComing /\ ~NewAnswer
      <4>1. taken = 0
        BY <1>3, <3>1, <3>4 DEF GaveUpInv
      <4>2. ~TakesWrite
        BY <3>1 DEF TakesWrite, StrobeInv
      <4>3. TakesRead
        BY <2>2, <2>5, <4>1, <4>2
      <4> QED
        BY <3>4, <4>3, StrobeIsSeen
    <3>5. CASE ~Strobe /\ ~ReadComing /\ ~NewAnswer
      BY <1>2, <2>2, <2>5, <3>1, <3>5 DEF GaveUpInv
    <3> QED
      BY <3>2, <3>3, <3>4, <3>5
  <2> QED
    BY <2>1, <2>3, <2>4, <2>5 DEF GaveUpInv
<1> QED
  BY <1>4, <1>5

\* The RAM does not change while a read is on its way to the CPU.
LEMMA ByteStays ==
  ASSUME PatientInv, Patient, PathNext, ~TakesWrite, pins' = pins
  PROVE  accepted' = accepted /\ ByteInRam' = ByteInRam
<1>1. CtrlTick
  BY PatientFacts
<1>2. accepted' = accepted
  BY <1>1 DEF CtrlTick
<1> QED
  BY <1>2 DEF ByteInRam

\* The line that the last beat leaves is the line as the writes before it left it.
LEMMA LineIsCurrent ==
  ASSUME PatientInv, read_complete_strobe
  PROVE  rdata_line[latched_addr.byte] = accepted[latched_addr.line][latched_addr.byte]
<1>1. TypeInv /\ WriteInv /\ ReadInv
  BY DEF PatientInv, PathInv, CtrlInv, DataInv, InterruptInv
<1>2. latched_addr.byte \in Bytes
  BY <1>1 DEF TypeInv, TypeOK, Addresses
<1>3. /\ sdram_state = "IDLE" /\ Free /\ latched_addr.line \in RamLines
      /\ rdata_line = mem[latched_addr.line]
  BY <1>1 DEF ReadInv, AccessesRam, Line
<1>4. ~WritePending
  BY <1>3 DEF WritePending, Free
<1> QED
  BY <1>1, <1>2, <1>3, <1>4 DEF WriteInv

\* The pins of a request that is not answered yet do not move.
LEMMA PinsStay ==
  ASSUME PatientInv, PathNext, ~proceed, Seen
  PROVE  pins' = pins /\ drive'.toggle = drive.toggle
<1>1. Edge /\ pins = drive
  BY PatientFacts DEF PatientInv, PathInv, HandshakeInv
<1> QED
  BY <1>1 DEF Edge, CpuRests, CpuTick

\* The byte is handed on unchanged: the line, the buffer, the pins of the controller, the
\* register of the bus, while no write is accepted.
LEMMA ValueStep ==
  ASSUME PatientInv, Patient, PathNext, ValueInv
  PROVE  ValueInv'
<1> USE DEF PatientInv, PathInv
<1>1. CtrlTick /\ Edge /\ HistoryStep
  BY PathHistory, PatientFacts
<1>2. ASSUME read_publish_strobe'
      PROVE  rdata_buf' = accepted'[latched_addr'.line][latched_addr'.byte]
  <2>1. read_complete_strobe /\ rdata_buf' = rdata_line[latched_addr.byte]
    BY <1>1, <1>2 DEF CtrlTick
  <2>2. ~TakesRead /\ ~TakesWrite
    BY <2>1, ReadIsComing DEF ReadComing
  <2>3. latched_addr' = latched_addr /\ accepted' = accepted
    BY <1>1, <2>2 DEF CtrlTick
  <2> QED
    BY <2>1, <2>3, LineIsCurrent
<1>3. ASSUME NewAnswer' PROVE rdata' = ByteInRam'
  <2>1. read_publish_strobe \/ (NewAnswer /\ clock \in {0, 2})
    <3>1. data_ready_toggle' = data_ready_toggle \/ read_publish_strobe
      BY <1>1 DEF CtrlTick
    <3>2. CASE clock \in {1, 3}
      <4>1. last_expansionram_data_ready_toggle' = data_ready_toggle
        BY <3>2, PatientFacts DEF BusTick
      <4> QED
        BY <1>3, <3>1, <4>1 DEF NewAnswer
    <3>3. CASE clock \in {0, 2}
      <4>1. last_expansionram_data_ready_toggle' = last_expansionram_data_ready_toggle
        BY <3>3, PatientFacts DEF BusRests
      <4> QED
        BY <1>3, <3>1, <3>3, <4>1 DEF NewAnswer
    <3> QED
      BY <3>2, <3>3, PatientFacts
  <2>2. ReadComing \/ NewAnswer
    BY <2>1 DEF ReadComing
  <2>3. ~TakesWrite
    BY <2>2, ReadIsComing, AnswerIsSeen
  <2>4. Awaiting /\ ~Acked /\ ~proceed /\ Seen
    BY <2>2 DEF ReadingInv, HandshakeInv, Awaiting, Idle
  <2>5. ByteInRam' = ByteInRam
    BY <2>3, <2>4, PinsStay, ByteStays
  <2>6. CASE read_publish_strobe
    <3>1. rdata' = rdata_buf
      BY <1>1, <2>6 DEF CtrlTick
    <3>2. latched_addr = Here
      BY <2>6 DEF ReadingInv, ReadComing
    <3> QED
      BY <2>5, <2>6, <3>1, <3>2 DEF ValueInv, Here, ByteInRam
  <2>7. CASE NewAnswer
    <3>1. ~read_publish_strobe
      BY <2>7, AnswerIsSeen
    <3>2. rdata' = rdata
      BY <1>1, <3>1 DEF CtrlTick
    <3> QED
      BY <2>5, <2>7, <3>2 DEF ValueInv
  <2> QED
    BY <2>1, <2>6, <2>7
<1>4. ASSUME AnswerExpected' PROVE slow_access_rdata' = ByteInRam'
  <2>1. CASE proceed
    <3>1. Acked /\ Idle /\ NoAck
      BY <2>1, AckedStays DEF HandshakeInv
    <3>2. CpuRests
      <4>1. ASSUME CpuTick PROVE FALSE
        <5>1. /\ taking' = FALSE
              /\ proceed' = FALSE => drive'.toggle = ~drive.toggle
          BY <2>1, <4>1 DEF CpuTick
        <5>2. proceed' = FALSE
          BY <1>4, <5>1, EdgeTypes, <1>1 DEF AnswerExpected
        <5> QED
          BY <1>4, <3>1, <5>1, <5>2 DEF AnswerExpected, Acked, NoAck, SlowTypes, IsRequest,
             Requests
      <4> QED
        BY <1>1, <4>1 DEF Edge
    <3>3. pins' = pins /\ drive'.toggle = drive.toggle /\ ~aborted
      BY <1>1, <1>4, <3>2 DEF CpuRests, AnswerExpected, HistoryStep
    <3>4. AnswerExpected
      BY <1>4, <3>1, <3>2, <3>3 DEF AnswerExpected, CpuRests
    <3>5. ~TakesWrite
      BY <2>1 DEF TakesWrite, StrobeInv, Strobe
    <3>6. ByteInRam' = ByteInRam
      BY <3>3, <3>5, ByteStays
    <3> QED
      BY <3>1, <3>4, <3>6 DEF ValueInv, NoAck
  <2>2. CASE ~proceed /\ Acked
    <3>1. NoAck /\ Seen
      BY <2>2, AckedStays DEF HandshakeInv
    <3>2. pins' = pins /\ drive'.toggle = drive.toggle
      BY <2>2, <3>1, PinsStay
    <3>3. ~aborted /\ ~pins.write
      BY <1>1, <1>4, <3>2 DEF AnswerExpected, HistoryStep
    <3>4. AnswerExpected
      BY <2>2, <3>3 DEF AnswerExpected
    <3>5. ~TakesWrite
      BY <3>3 DEF TakesWrite, StrobeInv, Strobe
    <3>6. ByteInRam' = ByteInRam
      BY <3>2, <3>5, ByteStays
    <3> QED
      BY <3>1, <3>4, <3>6 DEF ValueInv, NoAck
  <2>3. CASE ~proceed /\ ~Acked
    <3>1. drive' = drive /\ ~NoAck
      <4>1. drive' = drive
        BY <1>1, <2>3, TimeoutRuns
      <4> QED
        BY <1>4, <2>3, <4>1 DEF AnswerExpected, Acked, NoAck
    <3>2. clock \in {1, 3} /\ BusTick /\ ~Idle
      <4>1. clock \in {1, 3}
        BY <3>1, PatientFacts DEF BusRests, NoAck
      <4> QED
        BY <3>1, <4>1, PatientFacts, BusOutcome
    <3>3. pins' = pins /\ ~TimeIsUp /\ ~pins.write
      <4>1. pins' = pins
        BY <2>3, <3>2, PinsStay DEF HandshakeInv
      <4>2. ~aborted'
        BY <1>4 DEF AnswerExpected
      <4>3. ~TimeIsUp
        BY <1>1, <3>1, <3>2, <4>2 DEF HistoryStep
      <4> QED
        BY <1>4, <4>1, <4>3 DEF AnswerExpected
    <3>4. NewAnswer /\ slow_access_rdata' = rdata
      <4>1. ~expansionram_eternally_busy
        BY <2>3 DEF HandshakeInv
      <4> QED
        BY <3>1, <3>2, <3>3, <4>1 DEF BusTick, GivenUpInTime, NewAnswer
    <3>5. ByteInRam' = ByteInRam
      BY <3>3, <3>4, AnswerIsSeen, ByteStays
    <3> QED
      BY <3>4, <3>5 DEF ValueInv
  <2> QED
    BY <2>1, <2>2, <2>3
<1> QED
  BY <1>2, <1>3, <1>4 DEF ValueInv
-----------------------------------------------------------------------------
AnswerInv == PatientInv /\ GaveUpInv /\ ValueInv

LEMMA AnswerInvInit == PathInit => AnswerInv
<1> SUFFICES ASSUME PathInit PROVE AnswerInv
  OBVIOUS
<1>1. Init /\ Slow!SlowInit /\ PatientInv
  BY PatientInvInit DEF PathInit
<1>2. /\ read_publish_strobe = FALSE /\ data_ready_toggle = FALSE
      /\ last_expansionram_data_ready_toggle = FALSE
      /\ slow_access_ready_toggle = FALSE /\ drive.toggle = FALSE
      /\ proceed = TRUE /\ taking = FALSE /\ aborted = FALSE
  BY <1>1 DEF PathInit, Init, Slow!SlowInit
<1>3. Acked /\ ~NewAnswer /\ ~AnswerExpected
  BY <1>2, Zenon DEF Acked, NewAnswer, AnswerExpected
<1> QED
  BY <1>1, <1>2, <1>3 DEF AnswerInv, GaveUpInv, ValueInv

LEMMA AnswerInvNext ==
  ASSUME Patient, AnswerInv, [PathNext]_pathVars
  PROVE  AnswerInv'
<1>1. PatientInv'
  BY PatientInvNext DEF AnswerInv
<1>2. CASE PathNext
  BY <1>1, <1>2, GaveUpStep, ValueStep DEF AnswerInv
<1>3. CASE UNCHANGED pathVars
  <2>1. /\ UNCHANGED <<read_publish_strobe, read_complete_strobe, read_latched, rdata_buf, rdata,
                       data_ready_toggle, latched_addr, accepted>>
        /\ UNCHANGED <<slow_access_rdata, slow_access_ready_toggle, expansionram_read,
                       expansionram_write, last_expansionram_data_ready_toggle>>
        /\ UNCHANGED <<proceed, drive, pins, taking, aborted, taken>>
    BY <1>3 DEF pathVars, vars, requestVars, readVars, slowVars, cpuVars
  <2>2. GaveUpInv'
    BY <2>1 DEF AnswerInv, GaveUpInv, Acked, Strobe, ReadComing, NewAnswer
  <2>3. ValueInv'
    BY <2>1 DEF AnswerInv, ValueInv, AnswerExpected, ByteInRam, Acked, NewAnswer
  <2> QED
    BY <1>1, <2>2, <2>3 DEF AnswerInv
<1> QED
  BY <1>2, <1>3

\* With a timeout and a refresh interval as long as an access and a refresh need, the
\* byte that the CPU takes for a read that was not given up is the one that the writes
\* the controller accepted have left there: never that of an earlier request, and no
\* refresh, write or answer comes between the RAM and the CPU.
THEOREM PathAnswerIsCurrent ==
  ASSUME Patient
  PROVE  PathSpec => []AnswerIsCurrent
<1>1. AnswerInv /\ [PathNext]_pathVars => AnswerInv'
  BY AnswerInvNext
<1>2. AnswerInv => AnswerIsCurrent
  <2>1. AnswerInv /\ taking /\ ~aborted => AnswerExpected
    BY DEF AnswerInv, PatientInv, PathInv, HandshakeInv, AnswerExpected
  <2> QED
    BY <2>1 DEF AnswerInv, ValueInv, AnswerIsCurrent, ByteInRam
<1> QED
  BY <1>1, <1>2, AnswerInvInit, PTL DEF PathSpec

\* With the same margins, a request that the bus has given up was never latched by the
\* controller, and is not strobed any more: it leaves no late answer and no late write.
THEOREM PathGivenUpIsForgotten ==
  ASSUME Patient
  PROVE  PathSpec => []GivenUpWasNeverTaken
<1>1. AnswerInv /\ [PathNext]_pathVars => AnswerInv'
  BY AnswerInvNext
<1>2. AnswerInv => GivenUpWasNeverTaken
  BY DEF AnswerInv, GaveUpInv, GivenUpWasNeverTaken
<1> QED
  BY <1>1, <1>2, AnswerInvInit, PTL DEF PathSpec
=============================================================================
