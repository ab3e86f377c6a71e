----------------------------- MODULE SlowBusProofs ----------------------------
(* Type correctness of the slow-device bus and who owns its request pins, for every
   requester that keeps to the toggle and for devices that do as they like, prompt
   or not; then the handshake of requesters that rest between two requests.  *)
EXTENDS SlowBus, TLAPS

\* What a request and the inputs of an edge are.
Reads(req, ram, cart, other) ==
  /\ req \in [toggle : BOOLEAN, write : BOOLEAN, address : Addresses, wdata : Data]
  /\ ram.rdata \in Data /\ ram.line_address \in Lines /\ ram.toggle \in BOOLEAN
  /\ ram.busy \in BOOLEAN /\ \A b \in 0..LastByte : ram.line[b] \in Data
  /\ cart.rdata \in Data /\ cart.accept \in BOOLEAN /\ other \in Data

\* Every edge of Next is one of SlowTick with such inputs.
LEMMA NextReads ==
  ASSUME TypeOK, NEW ram \in RamInputs, NEW cart \in CartInputs, NEW other \in Data
  PROVE  Reads(request, ram, cart, other)
<1>1. request \in [toggle : BOOLEAN, write : BOOLEAN, address : Addresses, wdata : Data]
  BY GapAssumption DEF TypeOK, Requests
<1>2. /\ ram.rdata \in Data /\ ram.line_address \in Lines
      /\ ram.toggle \in BOOLEAN /\ ram.busy \in BOOLEAN
  BY BusAssumption DEF RamInputs, WhenIn
<1>3. \A b \in 0..LastByte : ram.line[b] \in Data
  BY BusAssumption DEF RamInputs
<1>4. cart.rdata \in Data /\ cart.accept \in BOOLEAN
  BY BusAssumption DEF CartInputs, WhenIn
<1> QED
  BY <1>1, <1>2, <1>3, <1>4 DEF Reads

\* The address of a request, and that of the byte after it, are places of the RAM.
LEMMA PlaceType ==
  ASSUME NEW a \in Addresses
  PROVE  /\ a.line \in Lines /\ a.byte \in 0..LastByte
         /\ Place(a.line, a.byte) \in Places
         /\ a.byte # LastByte =>
              a.byte + 1 \in 0..LastByte /\ \A l \in Lines : Place(l, a.byte + 1) \in Places
<1>1. a.line \in Lines /\ a.byte \in 0..LastByte
  BY BusAssumption
<1>2. a.byte # LastByte => a.byte + 1 \in 0..LastByte
  BY <1>1, BusAssumption
<1> QED
  BY <1>1, <1>2 DEF Place, Places

\* A timeout that is running never runs below zero.
LEMMA CountDownType ==
  ASSUME SlowTypeOK, NEW req, NEW ram, CountDown(req, ram)
  PROVE  expansionram_read_timeout' \in 0..(ReadTimeout + CartTimeout)
<1>1. expansionram_read_timeout \in 0..(ReadTimeout + CartTimeout)
  BY DEF SlowTypeOK
<1> QED
  BY <1>1, BusAssumption DEF CountDown, TimedOut

\* The acknowledgement and the answer keep their types.
LEMMA AckType ==
  ASSUME SlowTypeOK, NEW req, NEW ram, NEW cart, NEW other, Reads(req, ram, cart, other),
         SlowTick(req, ram, cart, other)
  PROVE  slow_access_ready_toggle' \in BOOLEAN /\ slow_access_rdata' \in Data
<1>1. /\ slow_access_ready_toggle \in BOOLEAN /\ slow_access_rdata \in Data
      /\ last_expansionram_write_address = req.address => last_expansionram_write_data \in Data
      /\ req.toggle \in BOOLEAN /\ other \in Data /\ ram.rdata \in Data /\ cart.rdata \in Data
      /\ ram.line[req.address.byte] \in Data /\ last_expansionram_write_data \in Data
  BY PlaceType DEF SlowTypeOK, Reads
<1> QED
  BY <1>1 DEF SlowTick, Acknowledge, AcknowledgeWrite, LeaveToTimeout, ackVars, NothingNew,
     SfxControl, AnswerAtOnce, StartOpl, ReadCacheLine, StartRam, StartCartridge, OplLatched,
     OplDone, RamAbsent, RamBusy, RamWrite, RamRead, RamAnswer, RamSilent, CartridgeBusy,
     CartridgeWrite, CartridgeRead, CartridgeAnswer, CartridgeSilent

\* So do the state and the registers of the devices that hang on the bus.
LEMMA StateType ==
  ASSUME SlowTypeOK, NEW req, NEW ram, NEW cart, NEW other, Reads(req, ram, cart, other),
         SlowTick(req, ram, cart, other)
  PROVE  /\ state' \in {"Idle", "OPL2Request", "OPL2Read", "ExpansionRAMRequest",
                "ExpansionRAMReadWait", "CartridgePortRequest", "CartridgePortAcceptWait"}
         /\ sfx_emulation' \in BOOLEAN /\ opl_we' \in BOOLEAN
<1>1. sfx_emulation \in BOOLEAN /\ opl_we \in BOOLEAN /\ req.write \in BOOLEAN
  BY DEF SlowTypeOK, Reads
<1> QED
  BY <1>1 DEF SlowTypeOK, SlowTick, Stay, Idle, deviceVars, NothingNew,
     SfxControl, AnswerAtOnce, StartOpl, ReadCacheLine, StartRam, StartCartridge, OplLatched,
     OplDone, RamAbsent, RamBusy, RamWrite, RamRead, RamAnswer, RamSilent, Offered, CartridgeBusy,
     CartridgeWrite, CartridgeRead, CartridgeAnswer, CartridgeSilent

\* So do the registers on the pins of the RAM; a read and a write are never asked at once.
LEMMA RamPinsType ==
  ASSUME SlowTypeOK, NEW req, NEW ram, NEW cart, NEW other, Reads(req, ram, cart, other),
         SlowTick(req, ram, cart, other)
  PROVE  /\ expansionram_read' \in BOOLEAN /\ expansionram_write' \in BOOLEAN
         /\ ~(expansionram_read' /\ expansionram_write')
         /\ expansionram_address' \in Places \cup {NoAddress} /\ expansionram_wdata' \in Data
         /\ last_expansionram_write_address' \in Addresses \cup {NoAddress}
         /\ last_expansionram_write_data' \in Data
<1>1. req.write \in BOOLEAN /\ req.address \in Addresses /\ req.wdata \in Data
  BY DEF Reads
<1>2. Place(req.address.line, req.address.byte) \in Places
  BY <1>1, PlaceType
<1>3. CASE RamWrite(req, ram, other) \/ RamRead(req, ram, other)
  BY <1>1, <1>2, <1>3 DEF SlowTypeOK, RamWrite, RamRead, ToRamPins
<1>4. CASE UNCHANGED ramVars /\ ClearRam
  BY <1>4 DEF SlowTypeOK, ramVars, ClearRam
<1> QED
  BY <1>3, <1>4 DEF SlowTick, NothingNew,
     SfxControl, AnswerAtOnce, StartOpl, ReadCacheLine, StartRam, StartCartridge, OplLatched,
     OplDone, RamAbsent, RamBusy, RamAnswer, RamSilent, Offered, CartridgeBusy,
     CartridgeWrite, CartridgeRead, CartridgeAnswer, CartridgeSilent

\* So do the byte offered for the next read and the registers on the cartridge port.
LEMMA OfferType ==
  ASSUME SlowTypeOK, NEW req, NEW ram, NEW cart, NEW other, Reads(req, ram, cart, other),
         SlowTick(req, ram, cart, other)
  PROVE  /\ expansionram_current_cache_line_next_toggle' \in BOOLEAN
         /\ slow_prefetched_address' \in Places \cup {NoAddress}
         /\ slow_prefetched_data' \in Data
         /\ cart_access_request' \in BOOLEAN /\ cart_access_read' \in BOOLEAN
         /\ cart_access_address' \in Addresses \cup {NoAddress} /\ cart_access_wdata' \in Data
<1>1. /\ req.write \in BOOLEAN /\ req.address \in Addresses /\ req.wdata \in Data
      /\ ram.line_address \in Lines /\ cart.accept \in BOOLEAN
  BY DEF Reads
<1>2. ASSUME NEW l \in Lines, req.address.byte # LastByte, Offer(l, req.address.byte, ram)
      PROVE  /\ expansionram_current_cache_line_next_toggle' \in BOOLEAN
             /\ slow_prefetched_address' \in Places /\ slow_prefetched_data' \in Data
  BY <1>1, <1>2, PlaceType DEF Offer, Reads, SlowTypeOK
<1>3. /\ expansionram_current_cache_line_next_toggle' \in BOOLEAN
      /\ slow_prefetched_address' \in Places \cup {NoAddress}
      /\ slow_prefetched_data' \in Data
  <2>1. CASE ReadCacheLine(req, ram)
    BY <1>1, <1>2, <2>1, PlaceType DEF ReadCacheLine, SlowTypeOK
  <2>2. CASE RamAnswer(req, ram)
    BY <1>1, <1>2, <2>2 DEF RamAnswer, SlowTypeOK, prefetchedVars
  <2>3. CASE UNCHANGED prefetchedVars
    BY <2>3 DEF SlowTypeOK, prefetchedVars
  <2> QED
    BY <2>1, <2>2, <2>3 DEF SlowTick, NothingNew,
       SfxControl, AnswerAtOnce, StartOpl, StartRam, StartCartridge, OplLatched,
       OplDone, RamAbsent, RamBusy, RamWrite, RamRead, RamSilent, Offered, CartridgeBusy,
       CartridgeWrite, CartridgeRead, CartridgeAnswer, CartridgeSilent
<1>4. /\ cart_access_request' \in BOOLEAN /\ cart_access_read' \in BOOLEAN
      /\ cart_access_address' \in Addresses \cup {NoAddress} /\ cart_access_wdata' \in Data
  BY <1>1 DEF SlowTypeOK, SlowTick, cartVars, NothingNew,
     SfxControl, AnswerAtOnce, StartOpl, ReadCacheLine, StartRam, StartCartridge, OplLatched,
     OplDone, RamAbsent, RamBusy, RamWrite, RamRead, RamAnswer, RamSilent, Offered, CartridgeBusy,
     CartridgeWrite, CartridgeRead, CartridgeAnswer, CartridgeSilent
<1> QED
  BY <1>3, <1>4

\* A step of the bus keeps the types of its registers.
LEMMA SlowTickType ==
  ASSUME SlowTypeOK, NEW req, NEW ram, NEW cart, NEW other, Reads(req, ram, cart, other),
         SlowTick(req, ram, cart, other)
  PROVE  SlowTypeOK'
<1>1. /\ expansionram_read_timeout' \in 0..(ReadTimeout + CartTimeout)
      /\ expansionram_eternally_busy' \in BOOLEAN
      /\ last_expansionram_data_ready_toggle' \in BOOLEAN
      /\ slow_access_last_request_toggle' \in BOOLEAN
  BY CountDownType DEF SlowTypeOK, SlowTick, EveryTick, NoteRequest, Reads
<1> QED
  BY <1>1, AckType, StateType, RamPinsType, OfferType DEF SlowTypeOK
-----------------------------------------------------------------------------
LEMMA TypeInit == Init => TypeOK
<1> SUFFICES ASSUME Init PROVE TypeOK
  OBVIOUS
<1>1. SlowTypeOK
  <2>1. SlowInit /\ 0 \in 0..(ReadTimeout + CartTimeout)
    BY BusAssumption DEF Init
  <2> QED
    BY <2>1, BusAssumption DEF SlowInit, SlowTypeOK
<1>2. Limit \in Nat
  BY BusAssumption DEF Limit, Slowest
<1>3. request \in Requests
  <2>1. PICK a \in Addresses, d \in WriteData :
          request = [toggle |-> FALSE, write |-> FALSE, address |-> a, wdata |-> d]
    BY DEF Init
  <2> QED
    BY <2>1 DEF Requests
<1>4. /\ ram_toggle \in BOOLEAN /\ rest \in 0..RequestGap
      /\ waited \in 0..(Limit + 1) /\ performed \in Nat
  <2>1. ram_toggle = FALSE /\ rest = 0 /\ waited = 0 /\ performed = 1
    BY DEF Init
  <2>2. 0 \in 0..RequestGap /\ 0 \in 0..(Limit + 1) /\ 1 \in Nat
    BY <1>2, GapAssumption
  <2> QED
    BY <2>1, <2>2
<1> QED
  BY <1>1, <1>3, <1>4 DEF TypeOK

LEMMA TypeNext == TypeOK /\ [Next]_vars => TypeOK'
<1> SUFFICES ASSUME TypeOK, [Next]_vars PROVE TypeOK'
  OBVIOUS
<1>1. CASE Next
  <2>1. PICK ram \in RamInputs, cart \in CartInputs, other \in Data :
          /\ SlowTick(request, ram, cart, other)
          /\ ram_toggle' = ram.toggle
          /\ rest' = IF Waiting THEN 0 ELSE IF rest < RequestGap THEN rest + 1 ELSE rest
          /\ waited' = IF ~Waiting THEN 0 ELSE IF waited > Limit THEN waited ELSE waited + 1
          /\ \/ MakeRequest /\ performed' = 0
             \/ Linger /\ performed' = IF Performs(ram, cart) THEN performed + 1 ELSE performed
    BY <1>1 DEF Next
  <2>2. Reads(request, ram, cart, other)
    BY NextReads
  <2>3. SlowTypeOK'
    BY <2>1, <2>2, SlowTickType DEF TypeOK
  <2>4. request' \in Requests
    BY <2>1 DEF TypeOK, MakeRequest, Linger, Requests
  <2>5. rest' \in 0..RequestGap /\ ram_toggle' \in BOOLEAN /\ performed' \in Nat
    BY <2>1, <2>2, GapAssumption DEF TypeOK, Reads
  <2>6. Limit \in Nat
    BY BusAssumption DEF Limit, Slowest
  <2>7. waited' \in 0..(Limit + 1)
    BY <2>1, <2>6 DEF TypeOK
  <2> QED
    BY <2>3, <2>4, <2>5, <2>7 DEF TypeOK
<1>2. CASE UNCHANGED vars
  BY <1>2 DEF vars, slowVars, ackVars, ramVars, prefetchedVars, cartVars, deviceVars, TypeOK,
     SlowTypeOK
<1> QED
  BY <1>1, <1>2

\* The registers of the bus keep their types -- the timeout never runs below zero, the
\* byte after the last of a line is never offered -- whatever the devices answer.
THEOREM SlowBusTypeCorrect == Spec => []TypeOK
  BY TypeInit, TypeNext, PTL DEF Spec
-----------------------------------------------------------------------------
(* Who owns the request pins: the inductive invariant adds to the cartridge port's
   the RAM's, whose strobe belongs to the two states that withdraw it.      *)

RamStrobeIsOwned ==
  expansionram_read \/ expansionram_write => state \in {"Idle", "ExpansionRAMReadWait"}

PinsInv == CartRequestIsOwned /\ RamStrobeIsOwned

LEMMA PinsStep ==
  ASSUME PinsInv, NEW req, NEW ram, NEW cart, NEW other, SlowTick(req, ram, cart, other)
  PROVE  /\ PinsInv'
         /\ expansionram_read \/ expansionram_write => ~expansionram_read' /\ ~expansionram_write'
<1> USE DEF PinsInv, CartRequestIsOwned, RamStrobeIsOwned
<1>1. CASE RamWrite(req, ram, other) \/ RamRead(req, ram, other)
  BY <1>1 DEF RamWrite, RamRead, ToRamPins, Idle, cartVars
<1>2. CASE \/ CartridgeBusy(req, cart, other) \/ CartridgeWrite(req, cart, other)
           \/ CartridgeRead(req, cart, other)
  BY <1>2 DEF CartridgeBusy, CartridgeWrite, CartridgeRead, Offered, Idle, ClearRam
<1>3. CASE CartridgeAnswer(req, cart)
  BY <1>3 DEF CartridgeAnswer, Idle, ClearRam
<1>4. ASSUME UNCHANGED cartVars, state # "CartridgePortRequest", ClearRam
      PROVE  PinsInv' /\ (expansionram_read \/ expansionram_write =>
                            ~expansionram_read' /\ ~expansionram_write')
  BY <1>4 DEF cartVars, ClearRam
<1> QED
  BY <1>1, <1>2, <1>3, <1>4 DEF SlowTick, New, Triaged, ToRam, ToCartridge, NothingNew,
     SfxControl, AnswerAtOnce, StartOpl, ReadCacheLine, StartRam, StartCartridge, OplLatched,
     OplDone, RamAbsent, RamBusy, RamAnswer, RamSilent, CartridgeSilent

LEMMA PinsInit == Init => PinsInv
  BY DEF Init, SlowInit, PinsInv, CartRequestIsOwned, RamStrobeIsOwned

LEMMA PinsNext ==
  PinsInv /\ [Next]_vars =>
    /\ PinsInv'
    /\ expansionram_read \/ expansionram_write =>
         (~expansionram_read' /\ ~expansionram_write') \/ UNCHANGED vars
<1> SUFFICES ASSUME PinsInv, [Next]_vars
             PROVE  /\ PinsInv'
                    /\ expansionram_read \/ expansionram_write =>
                         (~expansionram_read' /\ ~expansionram_write') \/ UNCHANGED vars
  OBVIOUS
<1>1. CASE Next
  BY <1>1, PinsStep DEF Next
<1>2. CASE UNCHANGED vars
  BY <1>2 DEF vars, slowVars, cartVars, PinsInv, CartRequestIsOwned, RamStrobeIsOwned
<1> QED
  BY <1>1, <1>2

\* A request stands on the cartridge port's pins only while the bus is in its request
\* state, though neither reset nor timeout takes it down: also when the port is slow.
THEOREM CartPortIsOwned == Spec => []CartRequestIsOwned
  BY PinsInit, PinsNext, PTL DEF Spec, PinsInv

\* A strobe on the pins of the RAM lasts one tick of the bus, whatever the RAM and the
\* requester do; what two ticks of the controller make of it is TakenAtMostOnce of AtticRam.
THEOREM RamStrobeLastsOneTick ==
  Spec => [][expansionram_read \/ expansionram_write =>
               ~expansionram_read' /\ ~expansionram_write']_vars
<1>1. PinsInv /\ [Next]_vars =>
        [expansionram_read \/ expansionram_write =>
           ~expansionram_read' /\ ~expansionram_write']_vars
  BY PinsNext
<1> QED
  BY <1>1, PinsInit, PinsNext, PTL DEF Spec
-----------------------------------------------------------------------------
(* The handshake: a request is acknowledged in time, done exactly once with prompt
   devices, and its answer is left alone.  The requester rests for a tick at least
   between an acknowledgement and its next request (the CPU: four), and the
   cartridge port is prompt or has no address: a request that the port leaves
   waiting past its timeout stays on the port, where the requests after it are
   acknowledged by the timeout that has run out, until the port takes it as another
   request is made, which is then never seen.                                *)

\* No request ever goes to the cartridge port.
NoCartridge ==
  \A a \in Addresses : a.region \notin {"cart", "sfx_index", "sfx_data"}

Handshake == RequestGap >= 1 /\ (Prompt \/ NoCartridge)

CartStates == {"CartridgePortRequest", "CartridgePortAcceptWait"}

\* The toggle that the bus has noted is the requester's, but for a request that it
\* has not looked at yet; the bus is busy for a request that is not acknowledged, or
\* for the requester that rests.
TokenInv ==
  /\ state # "Idle" \/ ~Waiting => slow_access_last_request_toggle = request.toggle
  /\ state = "Idle" /\ Waiting => slow_access_last_request_toggle # request.toggle
  /\ state \in CartStates \cup {"ExpansionRAMRequest"} => Waiting
  /\ state = "ExpansionRAMReadWait" => Waiting \/ (TimedOut /\ rest = 0)
  /\ state = "OPL2Request" => ~Waiting /\ rest = 0
  /\ state = "OPL2Read" => ~Waiting
  /\ state \in CartStates => Prompt

\* What has been waited and what is left of the timeout.
TimeInv ==
  /\ state = "Idle" /\ Waiting => waited = 0
  /\ state # "Idle" /\ Waiting => waited + expansionram_read_timeout <= Slowest + 1
  /\ waited <= Limit

\* Prompt devices leave a tick of the timeout.
PromptInv ==
  /\ last_expansionram_data_ready_toggle = ram_toggle
  /\ Prompt => 
       /\ state \in {"ExpansionRAMRequest", "CartridgePortRequest"} =>
            expansionram_read_timeout >= 2
       /\ state \in {"ExpansionRAMReadWait", "CartridgePortAcceptWait"} =>
            expansionram_read_timeout >= 1
       /\ performed = IF \/ state = "Idle" /\ Waiting
                         \/ state \in {"ExpansionRAMRequest", "CartridgePortRequest"}
                        THEN 0 ELSE 1

AckInv == TokenInv /\ TimeInv /\ PromptInv
-----------------------------------------------------------------------------
(* One edge of the bus, state by state, in what it does to the state and to the
   acknowledgement.                                                         *)

Acks(req) == slow_access_ready_toggle' = req.toggle
Leaves == slow_access_ready_toggle' = slow_access_ready_toggle

\* In Idle a new request is answered, or goes to the RAM or to the cartridge port.
LEMMA FromIdle ==
  ASSUME NEW req, NEW ram, NEW cart, NEW other, SlowTick(req, ram, cart, other),
         state = "Idle"
  PROVE  /\ ~New(req) => state' = "Idle" /\ Leaves
         /\ ToRam(req, ram) => state' = "ExpansionRAMRequest" /\ Leaves
         /\ ToCartridge(req) => state' = "CartridgePortRequest" /\ Leaves
         /\ New(req) /\ ~ToRam(req, ram) /\ ~ToCartridge(req) =>
              state' \in {"Idle", "OPL2Request"} /\ Acks(req)
<1>1. \/ NothingNew(req)
      \/ SfxControl(req, other) \/ AnswerAtOnce(req, other) \/ StartOpl(req, other)
      \/ ReadCacheLine(req, ram) \/ StartRam(req, ram) \/ StartCartridge(req)
  BY DEF SlowTick, OplLatched, OplDone, RamAbsent, RamBusy, RamWrite, RamRead, RamAnswer,
     RamSilent, CartridgeBusy, CartridgeWrite, CartridgeRead, CartridgeAnswer, CartridgeSilent
<1> USE DEF Leaves, Acks, Triaged, ToRam, ToCartridge
<1>2. CASE NothingNew(req)
  BY <1>2 DEF NothingNew, Stay, TimedOut, ackVars, New
<1>3. CASE SfxControl(req, other) \/ AnswerAtOnce(req, other)
  BY <1>3 DEF SfxControl, AnswerAtOnce, Idle, Acknowledge
<1>4. CASE StartOpl(req, other)
  BY <1>4 DEF StartOpl, AcknowledgeWrite, Acknowledge
<1>5. CASE ReadCacheLine(req, ram)
  BY <1>5 DEF ReadCacheLine, Idle, Acknowledge, Cached
<1>6. CASE StartRam(req, ram) \/ StartCartridge(req)
  BY <1>6 DEF StartRam, StartCartridge, ackVars
<1> QED
  BY <1>1, <1>2, <1>3, <1>4, <1>5, <1>6

\* The two OPL states pass, whatever the timeout does.
LEMMA FromOpl ==
  ASSUME NEW req, NEW ram, NEW cart, NEW other, SlowTick(req, ram, cart, other)
  PROVE  /\ state = "OPL2Request" => state' = "OPL2Read" /\ (Leaves \/ Acks(req))
         /\ state = "OPL2Read" => state' = "Idle" /\ (Leaves \/ Acks(req))
<1>1. CASE state = "OPL2Request"
  <2>1. OplLatched(req, other)
    BY <1>1 DEF SlowTick, NothingNew, SfxControl, AnswerAtOnce, StartOpl, ReadCacheLine, StartRam,
       StartCartridge, Triaged, ToRam, ToCartridge, New, OplDone, RamAbsent, RamBusy, RamWrite,
       RamRead, RamAnswer, RamSilent, CartridgeBusy, CartridgeWrite, CartridgeRead,
       CartridgeAnswer, CartridgeSilent
  <2> QED
    BY <1>1, <2>1 DEF OplLatched, LeaveToTimeout, Acknowledge, ackVars, Leaves, Acks
<1>2. CASE state = "OPL2Read"
  <2>1. OplDone(req, other)
    BY <1>2 DEF SlowTick, NothingNew, SfxControl, AnswerAtOnce, StartOpl, ReadCacheLine, StartRam,
       StartCartridge, Triaged, ToRam, ToCartridge, New, OplLatched, RamAbsent, RamBusy, RamWrite,
       RamRead, RamAnswer, RamSilent, CartridgeBusy, CartridgeWrite, CartridgeRead,
       CartridgeAnswer, CartridgeSilent
  <2> QED
    BY <1>2, <2>1 DEF OplDone, LeaveToTimeout, Acknowledge, ackVars, Leaves, Acks, Idle
<1> QED
  BY <1>1, <1>2

\* A request to the RAM waits while it is busy, at most until the timeout.
LEMMA FromRamRequest ==
  ASSUME NEW req, NEW ram, NEW cart, NEW other, SlowTick(req, ram, cart, other),
         state = "ExpansionRAMRequest"
  PROVE  \/ /\ state' = "Idle" /\ Acks(req)
            /\ expansionram_eternally_busy \/ ~ram.busy \/ TimedOut
         \/ /\ state' = "ExpansionRAMReadWait" /\ ~ram.busy
            /\ IF TimedOut THEN Acks(req) ELSE Leaves
         \/ /\ state' = state /\ Leaves /\ ~TimedOut
            /\ ~expansionram_eternally_busy /\ ram.busy
<1>1. \/ RamAbsent(req, other) \/ RamBusy(req, ram, other)
      \/ RamWrite(req, ram, other) \/ RamRead(req, ram, other)
  BY DEF SlowTick, NothingNew, SfxControl, AnswerAtOnce, StartOpl, ReadCacheLine, StartRam,
     StartCartridge, Triaged, ToRam, ToCartridge, New, OplLatched, OplDone, RamAnswer,
     RamSilent, CartridgeBusy, CartridgeWrite, CartridgeRead, CartridgeAnswer, CartridgeSilent
<1> USE DEF Leaves, Acks, LeaveToTimeout, AcknowledgeWrite, Acknowledge, ackVars, Stay, Idle
<1>2. CASE RamAbsent(req, other) \/ RamWrite(req, ram, other)
  BY <1>2 DEF RamAbsent, RamWrite
<1>3. CASE RamBusy(req, ram, other)
  BY <1>3 DEF RamBusy
<1>4. CASE RamRead(req, ram, other)
  BY <1>4 DEF RamRead
<1> QED
  BY <1>1, <1>2, <1>3, <1>4

\* A read waits for the RAM's toggle, at most until the timeout.
LEMMA FromReadWait ==
  ASSUME NEW req, NEW ram, NEW cart, NEW other, SlowTick(req, ram, cart, other),
         state = "ExpansionRAMReadWait"
  PROVE  \/ state' = "Idle" /\ Acks(req)
         \/ /\ state' = state /\ Leaves /\ ~TimedOut
            /\ ram.toggle = last_expansionram_data_ready_toggle
<1>1. RamAnswer(req, ram) \/ RamSilent(req, ram, other)
  BY DEF SlowTick, NothingNew, SfxControl, AnswerAtOnce, StartOpl, ReadCacheLine, StartRam,
     StartCartridge, Triaged, ToRam, ToCartridge, New, OplLatched, OplDone, RamAbsent, RamBusy,
     RamWrite, RamRead, CartridgeBusy, CartridgeWrite, CartridgeRead, CartridgeAnswer,
     CartridgeSilent
<1> QED
  BY <1>1 DEF RamAnswer, RamSilent, Leaves, Acks, LeaveToTimeout, Acknowledge, ackVars, Stay, Idle

\* The cartridge port is waited for without end, for what the timeout does to the
\* state is overridden; the byte that it reads, until the timeout.
LEMMA FromCartridge ==
  ASSUME NEW req, NEW ram, NEW cart, NEW other, SlowTick(req, ram, cart, other)
  PROVE  /\ state = "CartridgePortRequest" =>
              \/ state' = "Idle" /\ Acks(req) /\ cart.accept
              \/ /\ state' = "CartridgePortAcceptWait" /\ cart.accept
                 /\ IF TimedOut THEN Acks(req) ELSE Leaves
              \/ /\ state' = state /\ ~cart.accept
                 /\ IF TimedOut THEN Acks(req) ELSE Leaves
         /\ state = "CartridgePortAcceptWait" =>
              \/ state' = "Idle" /\ Acks(req)
              \/ state' = state /\ Leaves /\ ~TimedOut /\ ~cart.read_strobe
<1> USE DEF Leaves, Acks, LeaveToTimeout, AcknowledgeWrite, Acknowledge, ackVars, Stay, Idle
<1>1. CASE state = "CartridgePortRequest"
  <2>1. \/ CartridgeBusy(req, cart, other) \/ CartridgeWrite(req, cart, other)
        \/ CartridgeRead(req, cart, other)
    BY <1>1 DEF SlowTick, NothingNew, SfxControl, AnswerAtOnce, StartOpl, ReadCacheLine, StartRam,
       StartCartridge, Triaged, ToRam, ToCartridge, New, OplLatched, OplDone, RamAbsent, RamBusy,
       RamWrite, RamRead, RamAnswer, RamSilent, CartridgeAnswer, CartridgeSilent
  <2> QED
    BY <1>1, <2>1 DEF CartridgeBusy, CartridgeWrite, CartridgeRead
<1>2. CASE state = "CartridgePortAcceptWait"
  <2>1. CartridgeAnswer(req, cart) \/ CartridgeSilent(req, cart, other)
    BY <1>2 DEF SlowTick, NothingNew, SfxControl, AnswerAtOnce, StartOpl, ReadCacheLine, StartRam,
       StartCartridge, Triaged, ToRam, ToCartridge, New, OplLatched, OplDone, RamAbsent, RamBusy,
       RamWrite, RamRead, RamAnswer, RamSilent, CartridgeBusy, CartridgeWrite, CartridgeRead
  <2> QED
    BY <1>2, <2>1 DEF CartridgeAnswer, CartridgeSilent
<1> QED
  BY <1>1, <1>2

\* What the requester does to its toggle.
LEMMA RequesterStep ==
  ASSUME TypeOK
  PROVE  /\ Linger => request'.toggle = request.toggle
         /\ MakeRequest => request'.toggle # request.toggle /\ ~Waiting /\ rest = RequestGap
<1>1. request \in Requests
  BY DEF TypeOK
<1>2. ASSUME Linger PROVE request'.toggle = request.toggle
  BY <1>1, <1>2 DEF Linger, Requests
<1>3. ASSUME MakeRequest PROVE request'.toggle # request.toggle /\ ~Waiting /\ rest = RequestGap
  BY <1>1, <1>3 DEF MakeRequest, Requests
<1> QED
  BY <1>2, <1>3
-----------------------------------------------------------------------------
(* The invariant.                                                           *)

LEMMA AckInvInit == Handshake /\ Init => AckInv
<1> SUFFICES ASSUME Init PROVE AckInv
  OBVIOUS
<1>1. /\ state = "Idle" /\ slow_access_ready_toggle = FALSE /\ request.toggle = FALSE
      /\ slow_access_last_request_toggle = FALSE /\ waited = 0 /\ performed = 1
      /\ last_expansionram_data_ready_toggle = FALSE /\ ram_toggle = FALSE
  BY DEF Init, SlowInit
<1>2. Limit >= 0
  BY BusAssumption DEF Limit, Slowest
<1> QED
  BY <1>1, <1>2 DEF AckInv, TokenInv, TimeInv, PromptInv, Waiting, CartStates

\* What one step of Next does to the parts of the state that the invariant is about.
Edge(ram, cart, other) ==
  /\ SlowTick(request, ram, cart, other) /\ Answers(ram, cart) /\ ram_toggle' = ram.toggle
  /\ rest' = IF Waiting THEN 0 ELSE IF rest < RequestGap THEN rest + 1 ELSE rest
  /\ waited' = IF ~Waiting THEN 0 ELSE IF waited > Limit THEN waited ELSE waited + 1
  /\ \/ MakeRequest /\ performed' = 0
     \/ Linger /\ performed' = IF Performs(ram, cart) THEN performed + 1 ELSE performed

\* With prompt devices the timeout never runs out while one of them is waited for.
LEMMA NotTimedOut ==
  ASSUME AckInv, Prompt,
         state \in CartStates \cup {"ExpansionRAMRequest", "ExpansionRAMReadWait"}
  PROVE  ~TimedOut
  BY DEF AckInv, PromptInv, TimedOut, CartStates

\* The cartridge port is waited for only if it is prompt or never reached.
LEMMA CartridgeIsPrompt ==
  ASSUME TypeOK, Handshake, ToCartridge(request)
  PROVE  Prompt
  BY GapAssumption DEF TypeOK, Requests, Handshake, NoCartridge, ToCartridge, Triaged

\* A busy bus in the next state, as the toggles see it.
LEMMA TokenStep ==
  ASSUME TypeOK, Handshake, AckInv, TypeOK',
         NEW ram, NEW cart, NEW other, Edge(ram, cart, other)
  PROVE  TokenInv'
<1> DEFINE asked == request.toggle
           ready == slow_access_ready_toggle
           noted == slow_access_last_request_toggle
<1>1. /\ asked \in BOOLEAN /\ ready \in BOOLEAN /\ noted \in BOOLEAN
      /\ asked' \in BOOLEAN /\ ready' \in BOOLEAN /\ noted' \in BOOLEAN
      /\ state \in {"Idle", "OPL2Request", "OPL2Read", "ExpansionRAMRequest",
                    "ExpansionRAMReadWait", "CartridgePortRequest", "CartridgePortAcceptWait"}
      /\ rest \in Nat
  BY GapAssumption DEF TypeOK, SlowTypeOK, Requests
<1>2. /\ SlowTick(request, ram, cart, other) /\ TokenInv
      /\ noted' = IF state = "Idle" THEN asked ELSE noted
      /\ Waiting => rest' = 0
  BY DEF Edge, SlowTick, EveryTick, NoteRequest, AckInv
<1>3. \/ asked' = asked
      \/ asked' # asked /\ ~Waiting /\ rest = RequestGap /\ RequestGap >= 1
  BY RequesterStep DEF Edge, Handshake
<1>4. state # "Idle" /\ ~TimedOut => expansionram_read_timeout' = expansionram_read_timeout - 1
  BY <1>2 DEF SlowTick, EveryTick, CountDown, ToRam, ToCartridge, Triaged, New
<1>5. state # "Idle" /\ TimedOut => expansionram_read_timeout' = 0
  BY <1>2 DEF SlowTick, EveryTick, CountDown, ToRam, ToCartridge, Triaged, New, TimedOut
<1> HIDE DEF asked, ready, noted
<1> USE DEF TokenInv, CartStates
<1>6. Waiting = (asked # ready) /\ Waiting' = (asked' # ready')
  BY DEF Waiting, asked, ready
<1>7. noted = slow_access_last_request_toggle /\ noted' = slow_access_last_request_toggle'
      /\ (Acks(request) <=> ready' = asked) /\ (Leaves <=> ready' = ready)
      /\ (noted = asked <=> slow_access_last_request_toggle = request.toggle)
      /\ (noted' = asked' <=> slow_access_last_request_toggle' = request'.toggle)
  BY DEF Acks, Leaves, asked, ready, noted
<1>8. CASE state = "Idle" /\ ~Waiting
  <2>1. state' = "Idle" /\ ready' = ready /\ noted = asked
    BY <1>2, <1>6, <1>7, <1>8, FromIdle DEF New
  <2> QED
    BY <1>1, <1>2, <1>3, <1>6, <1>7, <1>8, <2>1
<1>9. CASE state = "Idle" /\ Waiting
  <2>1. asked' = asked /\ noted' = asked /\ rest' = 0
    BY <1>2, <1>3, <1>9
  <2>2. \/ state' = "ExpansionRAMRequest" /\ ready' = ready
        \/ state' = "CartridgePortRequest" /\ ready' = ready /\ Prompt
        \/ state' \in {"Idle", "OPL2Request"} /\ ready' = asked
    BY <1>2, <1>7, <1>9, FromIdle, CartridgeIsPrompt DEF New
  <2> QED
    BY <1>1, <1>6, <1>7, <1>9, <2>1, <2>2
<1>10. CASE state \in {"OPL2Request", "OPL2Read"}
  <2>1. /\ ready' = ready /\ noted' = asked
        /\ \/ state = "OPL2Request" /\ state' = "OPL2Read" /\ asked' = asked
           \/ state = "OPL2Read" /\ state' = "Idle"
    BY <1>1, <1>2, <1>3, <1>6, <1>7, <1>10, FromOpl
  <2> QED
    BY <1>1, <1>6, <1>7, <1>10, <1>2, <2>1
<1>11. CASE state = "ExpansionRAMRequest"
  <2>1. asked' = asked /\ noted' = asked /\ rest' = 0 /\ Waiting
    BY <1>2, <1>3, <1>7, <1>11
  <2>2. \/ state' = "Idle" /\ ready' = asked
        \/ state' = "ExpansionRAMReadWait" /\ ready' = ready
        \/ state' = "ExpansionRAMReadWait" /\ ready' = asked /\ TimedOut
        \/ state' = state /\ ready' = ready
    BY <1>2, <1>7, <1>11, FromRamRequest
  <2>3. TimedOut /\ state' = "ExpansionRAMReadWait" => TimedOut'
    BY <1>5, <1>11 DEF TimedOut
  <2> QED
    BY <1>1, <1>6, <1>7, <1>11, <2>1, <2>2, <2>3
<1>12. CASE state = "ExpansionRAMReadWait"
  <2>1. asked' = asked /\ noted' = asked
    BY <1>1, <1>2, <1>3, <1>7, <1>12
  <2>2. \/ state' = "Idle" /\ ready' = asked
        \/ state' = state /\ ready' = ready /\ Waiting
    BY <1>2, <1>7, <1>12, FromReadWait
  <2> QED
    BY <1>1, <1>6, <1>7, <1>12, <2>1, <2>2
<1>13. CASE state \in {"CartridgePortRequest", "CartridgePortAcceptWait"}
  <2>1. asked' = asked /\ noted' = asked /\ Waiting /\ ~TimedOut /\ Prompt
    BY <1>2, <1>3, <1>7, <1>13, NotTimedOut
  <2>2. \/ state' = "Idle" /\ ready' = asked
        \/ state' \in {"CartridgePortRequest", "CartridgePortAcceptWait"} /\ ready' = ready
    BY <1>2, <1>7, <1>13, <2>1, FromCartridge
  <2> QED
    BY <1>1, <1>6, <1>7, <1>13, <2>1, <2>2
<1> QED
  BY <1>1, <1>8, <1>9, <1>10, <1>11, <1>12, <1>13

\* The requester that waits keeps its toggle, and the one that does not makes a request
\* only while the bus returns to Idle.
LEMMA ToggleStep ==
  ASSUME TypeOK, Handshake, AckInv,
         NEW ram, NEW cart, NEW other, Edge(ram, cart, other)
  PROVE  /\ Waiting => Linger /\ request'.toggle = request.toggle
         /\ Waiting /\ Waiting' => Leaves /\ ~Acks(request)
         /\ ~Waiting /\ Waiting' => MakeRequest /\ state' = "Idle"
<1>1. /\ SlowTick(request, ram, cart, other) /\ TokenInv
      /\ MakeRequest \/ Linger
      /\ RequestGap >= 1
      /\ state \in {"Idle", "OPL2Request", "OPL2Read", "ExpansionRAMRequest",
                    "ExpansionRAMReadWait", "CartridgePortRequest", "CartridgePortAcceptWait"}
  BY DEF Edge, AckInv, Handshake, TypeOK, SlowTypeOK
<1>2. /\ Linger => request'.toggle = request.toggle
      /\ MakeRequest => request'.toggle # request.toggle /\ ~Waiting /\ rest = RequestGap
  BY RequesterStep
<1>3. CASE Waiting
  <2>1. /\ request.toggle \in BOOLEAN /\ slow_access_ready_toggle \in BOOLEAN
        /\ Leaves \/ Acks(request)
    BY <1>1, FromIdle, FromOpl, FromRamRequest, FromReadWait, FromCartridge
    DEF TypeOK, SlowTypeOK, Requests, New
  <2> QED
    BY <1>1, <1>2, <1>3, <2>1 DEF Waiting, Leaves, Acks
<1>4. CASE ~Waiting
  <2>1. state = "Idle" => state' = "Idle" /\ Leaves
    BY <1>1, <1>4, FromIdle DEF TokenInv, New
  <2>2. state \notin {"Idle", "OPL2Read"} => rest = 0 /\ ~MakeRequest
    BY <1>1, <1>2, <1>4 DEF TokenInv, CartStates
  <2>3. state = "OPL2Read" => state' = "Idle"
    BY <1>1, FromOpl
  <2>4. Leaves \/ Acks(request)
    BY <1>1, FromIdle, FromOpl, FromRamRequest, FromReadWait, FromCartridge
    DEF TypeOK, SlowTypeOK, Requests, New
  <2>5. ~MakeRequest => ~Waiting'
    BY <1>1, <1>2, <1>4, <2>4 DEF Waiting, Leaves, Acks
  <2> QED
    BY <1>4, <2>1, <2>2, <2>3, <2>5
<1> QED
  BY <1>3, <1>4

LEMMA TimeStep ==
  ASSUME TypeOK, Handshake, AckInv, TypeOK',
         NEW ram, NEW cart, NEW other, Edge(ram, cart, other)
  PROVE  TimeInv'
<1>1. /\ waited \in Nat /\ expansionram_read_timeout \in Nat
      /\ state \in {"Idle", "OPL2Request", "OPL2Read", "ExpansionRAMRequest",
                    "ExpansionRAMReadWait", "CartridgePortRequest", "CartridgePortAcceptWait"}
  BY BusAssumption DEF TypeOK, SlowTypeOK
<1>2. /\ Slowest \in Nat /\ ReadTimeout \in 0..Slowest /\ CartTimeout \in 0..Slowest
      /\ Limit = Slowest + 4
  BY BusAssumption DEF Slowest, Limit
<1>3. /\ SlowTick(request, ram, cart, other) /\ TokenInv /\ TimeInv
      /\ waited' = IF ~Waiting THEN 0 ELSE IF waited > Limit THEN waited ELSE waited + 1
  BY DEF Edge, AckInv
<1>4. CASE ~Waiting
  BY <1>2, <1>3, <1>4, ToggleStep DEF TimeInv
<1>5. CASE Waiting /\ state = "Idle"
  <2>1. waited' = 1
    BY <1>2, <1>3, <1>5 DEF TimeInv
  <2>2. CASE Waiting'
    <3>1. ToRam(request, ram) \/ ToCartridge(request)
      BY <1>3, <1>5, <2>2, ToggleStep, FromIdle DEF New, TokenInv
    <3>2. state' # "Idle"
      BY <1>3, <1>5, <3>1, FromIdle
    <3>3. PICK given \in {ReadTimeout, CartTimeout} : expansionram_read_timeout' = given
      BY <1>3, <3>1 DEF SlowTick, EveryTick, CountDown
    <3>4. 1 + given <= Slowest + 1 /\ 1 <= Limit
      BY <1>2
    <3>5. Slowest' = Slowest /\ Limit' = Limit
      BY DEF Slowest, Limit
    <3> QED
      BY <2>1, <3>2, <3>3, <3>4, <3>5 DEF TimeInv
  <2> QED
    BY <1>2, <2>1, <2>2 DEF TimeInv
<1>6. CASE Waiting /\ state # "Idle"
  <2>1. waited' = waited + 1 /\ waited <= Slowest + 1
    BY <1>1, <1>2, <1>3, <1>6 DEF TimeInv
  <2>2. CASE Waiting'
    <3>1. Leaves /\ ~Acks(request)
      BY <1>6, <2>2, ToggleStep
    <3>2. state \in {"ExpansionRAMRequest", "ExpansionRAMReadWait"} \cup CartStates
      BY <1>1, <1>3, <1>6 DEF TokenInv, CartStates
    <3>3. state' # "Idle" /\ ~TimedOut
      <4>1. CASE state \in CartStates
        <5>1. Prompt
          BY <1>3, <4>1 DEF TokenInv
        <5> QED
          BY <1>3, <3>1, <4>1, <5>1, NotTimedOut, FromCartridge DEF CartStates
      <4>2. CASE state \in {"ExpansionRAMRequest", "ExpansionRAMReadWait"}
        BY <1>3, <3>1, <4>2, FromRamRequest, FromReadWait
      <4> QED
        BY <3>2, <4>1, <4>2
    <3>4. expansionram_read_timeout' = expansionram_read_timeout - 1
      BY <1>3, <1>6, <3>3 DEF SlowTick, EveryTick, CountDown, ToRam, ToCartridge, Triaged, New
    <3> QED
      BY <1>1, <1>2, <1>3, <1>6, <2>1, <3>3, <3>4 DEF TimeInv
  <2> QED
    BY <1>1, <1>2, <2>1, <2>2 DEF TimeInv
<1> QED
  BY <1>4, <1>5, <1>6

LEMMA PromptStep ==
  ASSUME TypeOK, Handshake, AckInv, TypeOK',
         NEW ram, NEW cart, NEW other, Edge(ram, cart, other)
  PROVE  PromptInv'
<1> DEFINE left == expansionram_read_timeout
<1>1. /\ left \in Nat /\ performed \in Nat
      /\ state \in {"Idle", "OPL2Request", "OPL2Read", "ExpansionRAMRequest",
                    "ExpansionRAMReadWait", "CartridgePortRequest", "CartridgePortAcceptWait"}
  BY BusAssumption DEF TypeOK, SlowTypeOK
<1>2. /\ SlowTick(request, ram, cart, other) /\ TokenInv /\ PromptInv
      /\ Answers(ram, cart)
      /\ \/ MakeRequest /\ performed' = 0
         \/ Linger /\ performed' = IF Performs(ram, cart) THEN performed + 1 ELSE performed
  BY DEF Edge, AckInv
<1>3. last_expansionram_data_ready_toggle' = ram_toggle'
  BY DEF Edge, SlowTick, EveryTick
<1> SUFFICES ASSUME Prompt
             PROVE  /\ state' \in {"ExpansionRAMRequest", "CartridgePortRequest"} => left' >= 2
                    /\ state' \in {"ExpansionRAMReadWait", "CartridgePortAcceptWait"} => left' >= 1
                    /\ performed' = IF (state' = "Idle" /\ Waiting')
                                        \/ state' \in {"ExpansionRAMRequest", "CartridgePortRequest"}
                                       THEN 0 ELSE 1
  BY <1>3 DEF PromptInv
<1>4. /\ Waiting => Linger
      /\ Waiting /\ Waiting' => Leaves /\ ~Acks(request)
      /\ ~Waiting /\ Waiting' => MakeRequest /\ state' = "Idle"
  BY ToggleStep
<1>5. /\ Linger => request'.toggle = request.toggle
      /\ MakeRequest => request'.toggle # request.toggle /\ ~Waiting /\ rest = RequestGap
  BY RequesterStep
<1>6. CASE state = "Idle" /\ ~Waiting
  <2>1. ~New(request) /\ ~Performs(ram, cart) /\ performed = 1
    BY <1>2, <1>6 DEF TokenInv, New, Performs, PromptInv
  <2>2. state' = "Idle" /\ Leaves
    BY <1>2, <1>6, <2>1, FromIdle
  <2>3. MakeRequest <=> Waiting'
    BY <1>4, <1>5, <1>6, <2>2, <1>2 DEF Waiting, Leaves, TypeOK, SlowTypeOK, Requests
  <2> QED
    BY <1>2, <1>5, <2>1, <2>2, <2>3 DEF Waiting, Leaves
<1>7. CASE state = "Idle" /\ Waiting
  <2>1. New(request) /\ performed = 0
    BY <1>2, <1>7 DEF TokenInv, New, PromptInv
  <2>2. CASE ToRam(request, ram) \/ ToCartridge(request)
    <3>1. state' \in {"ExpansionRAMRequest", "CartridgePortRequest"}
      BY <1>2, <1>7, <2>2, FromIdle
    <3>2. ~Performs(ram, cart)
      BY <1>7, <2>2 DEF Performs
    <3>3. left' >= 2
      BY <1>2, <2>2, BusAssumption DEF SlowTick, EveryTick, CountDown
    <3> QED
      BY <1>2, <1>4, <1>5, <1>7, <2>1, <3>1, <3>2, <3>3
  <2>3. CASE ~ToRam(request, ram) /\ ~ToCartridge(request)
    <3>1. state' \in {"Idle", "OPL2Request"} /\ Acks(request) /\ Performs(ram, cart)
      BY <1>2, <1>7, <2>1, <2>3, FromIdle DEF Performs
    <3>2. ~Waiting' /\ performed' = 1
      BY <1>2, <1>4, <1>5, <1>7, <2>1, <3>1
    <3> QED
      BY <3>1, <3>2
  <2> QED
    BY <2>2, <2>3
<1>8. CASE state \in {"OPL2Request", "OPL2Read"}
  <2>1. ~Waiting /\ ~Performs(ram, cart) /\ performed = 1
    BY <1>2, <1>8 DEF TokenInv, Performs, New, PromptInv
  <2>2. state' \in {"OPL2Read", "Idle"} /\ (Leaves \/ Acks(request))
    BY <1>2, <1>8, FromOpl
  <2>3. MakeRequest <=> Waiting'
    BY <1>2, <1>4, <1>5, <2>1, <2>2 DEF Waiting, Leaves, Acks
  <2> QED
    BY <1>2, <1>4, <1>5, <2>1, <2>2, <2>3
<1>9. CASE state \in {"ExpansionRAMRequest", "ExpansionRAMReadWait"} \cup CartStates
  <2>1. ~TimedOut /\ Waiting
    BY <1>2, <1>9, NotTimedOut DEF TokenInv, CartStates
  <2>2. left' = left - 1
    BY <1>2, <1>9, <2>1 DEF SlowTick, EveryTick, CountDown, ToRam, ToCartridge, Triaged, New,
                            CartStates
  <2>3. performed' = IF Performs(ram, cart) THEN performed + 1 ELSE performed
    BY <1>2, <1>5, <2>1
  <2>4. state' = "Idle" /\ Acks(request) => ~Waiting'
    BY <1>4, <2>1
  <2>5. CASE state = "ExpansionRAMRequest"
    <3>1. performed = 0 /\ left >= 2 /\ (left <= 2 => ~ram.busy)
          /\ (Performs(ram, cart) <=> expansionram_eternally_busy \/ ~ram.busy)
      BY <1>2, <2>5 DEF PromptInv, Answers, Performs, New
    <3>2. \/ state' = "Idle" /\ Acks(request) /\ Performs(ram, cart)
          \/ state' = "ExpansionRAMReadWait" /\ Performs(ram, cart)
          \/ state' = state /\ left > 2 /\ ~Performs(ram, cart)
      BY <1>1, <1>2, <2>1, <2>5, <3>1, FromRamRequest
    <3> QED
      BY <1>1, <2>2, <2>3, <2>4, <2>5, <3>1, <3>2
  <2>6. CASE state = "ExpansionRAMReadWait"
    <3>1. performed = 1 /\ left >= 1 /\ ~Performs(ram, cart)
      BY <1>2, <2>6 DEF PromptInv, Performs, New
    <3>2. \/ state' = "Idle" /\ Acks(request)
          \/ state' = state /\ left > 1
      BY <1>1, <1>2, <2>6, FromReadWait DEF Answers, PromptInv
    <3> QED
      BY <1>1, <2>2, <2>3, <2>4, <2>6, <3>1, <3>2
  <2>7. CASE state = "CartridgePortRequest"
    <3>1. performed = 0 /\ left >= 2 /\ (left <= 2 => cart.accept)
          /\ (Performs(ram, cart) <=> cart.accept)
      BY <1>2, <2>7 DEF PromptInv, Answers, Performs, New
    <3>2. \/ state' = "Idle" /\ Acks(request) /\ Performs(ram, cart)
          \/ state' = "CartridgePortAcceptWait" /\ Performs(ram, cart)
          \/ state' = state /\ left > 2 /\ ~Performs(ram, cart)
      BY <1>1, <1>2, <2>7, <3>1, FromCartridge
    <3> QED
      BY <1>1, <2>2, <2>3, <2>4, <2>7, <3>1, <3>2
  <2>8. CASE state = "CartridgePortAcceptWait"
    <3>1. performed = 1 /\ left >= 1 /\ ~Performs(ram, cart)
      BY <1>2, <2>8 DEF PromptInv, Performs, New
    <3>2. \/ state' = "Idle" /\ Acks(request)
          \/ state' = state /\ left > 1
      BY <1>1, <1>2, <2>8, FromCartridge DEF Answers
    <3> QED
      BY <1>1, <2>2, <2>3, <2>4, <2>8, <3>1, <3>2
  <2> QED
    BY <1>9, <2>5, <2>6, <2>7, <2>8 DEF CartStates
<1> QED
  BY <1>1, <1>6, <1>7, <1>8, <1>9 DEF CartStates

LEMMA NextIsEdge ==
  ASSUME Next
  PROVE  \E ram \in RamInputs, cart \in CartInputs, other \in Data : Edge(ram, cart, other)
  BY DEF Next, Edge

LEMMA AckInvNext ==
  ASSUME Handshake
  PROVE  TypeOK /\ AckInv /\ [Next]_vars => AckInv'
<1> SUFFICES ASSUME TypeOK, AckInv, [Next]_vars PROVE AckInv'
  OBVIOUS
<1>1. CASE Next
  <2>1. PICK ram \in RamInputs, cart \in CartInputs, other \in Data : Edge(ram, cart, other)
    BY <1>1, NextIsEdge
  <2>2. TypeOK'
    BY TypeNext
  <2> QED
    BY <2>1, <2>2, TokenStep, TimeStep, PromptStep DEF AckInv
<1>2. CASE UNCHANGED vars
  BY <1>2 DEF vars, slowVars, ackVars, AckInv, TokenInv, TimeInv, PromptInv, Waiting, TimedOut
<1> QED
  BY <1>1, <1>2

LEMMA AckInvariant ==
  ASSUME Handshake
  PROVE  Spec => [](TypeOK /\ AckInv)
<1>1. Init => TypeOK /\ AckInv
  BY TypeInit, AckInvInit
<1>2. TypeOK /\ AckInv /\ [Next]_vars => (TypeOK /\ AckInv)'
  BY TypeNext, AckInvNext
<1> QED
  BY <1>1, <1>2, PTL DEF Spec
-----------------------------------------------------------------------------
(* The theorems.                                                            *)

\* With devices that answer within their timeouts, and without a cartridge port even
\* with a RAM that never answers, the CPU waits no longer than the longer timeout and
\* the ticks around it: no toggle is ever missed, and no timeout is left running for
\* the request before.
THEOREM SlowBusAnswersInTime ==
  ASSUME Handshake
  PROVE  Spec => []AcknowledgedInTime
<1>1. TypeOK /\ AckInv => AcknowledgedInTime
  BY DEF AckInv, TimeInv, AcknowledgedInTime
<1> QED
  BY <1>1, AckInvariant, PTL

\* With devices that answer within their timeouts each request is done once: it is not
\* dropped by the timeout, not started again for the same toggle, and not acknowledged
\* before a device has it.
THEOREM SlowBusPerformsOnce ==
  ASSUME Handshake, Prompt
  PROVE  Spec => []PerformedExactlyOnce
<1>1. TypeOK /\ AckInv => PerformedExactlyOnce
  BY DEF AckInv, TokenInv, PromptInv, PerformedExactlyOnce, TypeOK, SlowTypeOK, CartStates
<1> QED
  BY <1>1, AckInvariant, PTL

\* The byte that was acknowledged stays on the bus until the next request: what the OPL
\* states, and a late answer of the RAM, do after the acknowledgement leaves it alone.
THEOREM SlowBusAnswerIsStable ==
  ASSUME Handshake
  PROVE  Spec => AnswerIsStable
<1>1. TypeOK /\ AckInv /\ [Next]_vars =>
        [~Waiting /\ ~TimedOut => slow_access_rdata' = slow_access_rdata]_vars
  <2> SUFFICES ASSUME TypeOK, AckInv, Next, ~Waiting, ~TimedOut
               PROVE  slow_access_rdata' = slow_access_rdata
    OBVIOUS
  <2>1. PICK ram \in RamInputs, cart \in CartInputs, other \in Data : Edge(ram, cart, other)
    BY NextIsEdge
  <2>2. SlowTick(request, ram, cart, other)
    BY <2>1 DEF Edge
  <2>3. state \in {"Idle", "OPL2Request", "OPL2Read"} /\ ~New(request)
    BY DEF AckInv, TokenInv, CartStates, TypeOK, SlowTypeOK, New
  <2>4. NothingNew(request) \/ OplLatched(request, other) \/ OplDone(request, other)
    BY <2>2, <2>3 DEF SlowTick, SfxControl, AnswerAtOnce, StartOpl, ReadCacheLine,
       StartRam, StartCartridge, Triaged, ToRam, ToCartridge, RamAbsent, RamBusy, RamWrite,
       RamRead, RamAnswer, RamSilent, CartridgeBusy, CartridgeWrite, CartridgeRead,
       CartridgeAnswer, CartridgeSilent
  <2> QED
    BY <2>4 DEF NothingNew, OplLatched, OplDone, LeaveToTimeout, ackVars
<1> QED
  BY <1>1, AckInvariant, PTL DEF Spec, AnswerIsStable
=============================================================================
