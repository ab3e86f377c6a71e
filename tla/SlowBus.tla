------------------------------- MODULE SlowBus -------------------------------
(* The slow-device bus between any requester and any devices.

   The requester (gs4510.vhdl) toggles request.toggle for a request and leaves its
   pins alone until the toggle comes back; then it drops the write pin, and may
   move the address for a read that its cache line answers.  The devices answer
   as they like or, with Prompt, before the timeout of the request runs out.  *)
EXTENDS SlowDevices

CONSTANTS
  Prompt,      \* the devices answer within their timeouts
  WriteData,   \* bytes that are written
  LineValid,   \* values of the exported line's valid flag: {FALSE} on the R6 board
  RequestGap   \* ticks from an acknowledgement to the next request at least: the CPU runs
               \* at half of pixelclock and drives a request two of its cycles after it
               \* has seen the answer, four ticks

ASSUME GapAssumption ==
  Prompt \in BOOLEAN /\ WriteData \subseteq Data /\ LineValid \subseteq BOOLEAN /\ RequestGap \in Nat

VARIABLES
  request,    \* the requester's pins: toggle, write, address, wdata
  ram_toggle, \* the memory controller's data-ready toggle
  rest,       \* ticks since the last acknowledgement, up to RequestGap
  waited,     \* history: ticks since the requester began to wait
  performed   \* history: operations done since the last request was made

vars == <<slowVars, request, ram_toggle, rest, waited, performed>>

\* No request takes longer than its timeout and the ticks around it.
Slowest == IF ReadTimeout > CartTimeout THEN ReadTimeout ELSE CartTimeout
Limit == Slowest + 4

Requests == [toggle : BOOLEAN, write : BOOLEAN, address : Addresses, wdata : WriteData]
\* What the devices drive at an edge.  An input that the bus does not look at in
\* this state has one value.
WhenIn(s, values, default) == IF state = s THEN values ELSE {default}
RamInputs ==
  [busy : BOOLEAN, toggle : BOOLEAN, rdata : WhenIn("ExpansionRAMReadWait", Data, Blank),
   line_valid : IF New(request) THEN LineValid ELSE {FALSE}, line_address : Lines,
   line : [0..LastByte -> IF New(request) THEN Data ELSE {Blank}]]
CartInputs ==
  [accept : WhenIn("CartridgePortRequest", BOOLEAN, FALSE),
   read_strobe : WhenIn("CartridgePortAcceptWait", BOOLEAN, FALSE),
   rdata : WhenIn("CartridgePortAcceptWait", Data, Blank)]

Waiting == request.toggle # slow_access_ready_toggle

Init ==
  /\ SlowInit
  /\ \E a \in Addresses, d \in WriteData :   \* any, for no request has been made yet
       request = [toggle |-> FALSE, write |-> FALSE, address |-> a, wdata |-> d]
  /\ ram_toggle = FALSE
  /\ rest = 0 /\ waited = 0 /\ performed = 1

\* What the devices may do at this edge.  A RAM toggles only for a read it was given.
Answers(ram, cart) ==
  Prompt => /\ ram.toggle # ram_toggle => state = "ExpansionRAMReadWait"
            /\ state = "ExpansionRAMRequest" /\ expansionram_read_timeout <= 2 => ~ram.busy
            /\ state = "ExpansionRAMReadWait" /\ expansionram_read_timeout <= 1 =>
                 ram.toggle # ram_toggle
            /\ state = "CartridgePortRequest" /\ expansionram_read_timeout <= 2 => cart.accept
            /\ state = "CartridgePortAcceptWait" /\ expansionram_read_timeout <= 1 =>
                 cart.read_strobe

\* The requester makes a request, or leaves its pins alone, or drops the write pin, or
\* moves the address for a read of the expansion RAM that needs no request.
MakeRequest ==
  /\ ~Waiting /\ rest = RequestGap
  /\ \E r \in Requests : r.toggle = ~request.toggle /\ request' = r
Linger ==
  \/ UNCHANGED request
  \/ ~Waiting /\ request' = [request EXCEPT !.write = FALSE]
  \/ ~Waiting /\ \E a \in Addresses :
       a.region = "ram" /\ request' = [request EXCEPT !.write = FALSE, !.address = a]

\* An operation on a device is done at this edge.
Performs(ram, cart) ==
  \/ New(request) /\ ~ToRam(request, ram) /\ ~ToCartridge(request)
  \/ state = "ExpansionRAMRequest" /\ (expansionram_eternally_busy \/ ~ram.busy)
  \/ state = "CartridgePortRequest" /\ cart.accept

Next ==
  \E ram \in RamInputs, cart \in CartInputs, other \in Data :
    /\ Answers(ram, cart)
    /\ SlowTick(request, ram, cart, other)
    /\ ram_toggle' = ram.toggle
    /\ rest' = IF Waiting THEN 0 ELSE IF rest < RequestGap THEN rest + 1 ELSE rest
    /\ waited' = IF ~Waiting THEN 0 ELSE IF waited > Limit THEN waited ELSE waited + 1
    /\ \/ MakeRequest /\ performed' = 0
       \/ Linger /\ performed' = IF Performs(ram, cart) THEN performed + 1 ELSE performed

Spec == Init /\ [][Next]_vars /\ WF_vars(Next)
-----------------------------------------------------------------------------
\* The bus registers have their types, and the requester's pins are those of a request.
TypeOK ==
  /\ SlowTypeOK
  /\ request \in Requests /\ ram_toggle \in BOOLEAN
  /\ rest \in 0..RequestGap /\ waited \in 0..(Limit + 1) /\ performed \in Nat

\* The CPU does not wait for ever: a request is acknowledged at the latest when its
\* timeout has run out ("Time out if stuck for too long"), unless the cartridge port
\* held an earlier one past its timeout.
AcknowledgedInTime == waited <= Limit

\* With devices that answer in time, a request is done exactly once: at most once
\* while the requester waits, and neither lost nor repeated when it is acknowledged.
PerformedExactlyOnce ==
  performed <= 1 /\ (~Waiting => performed = 1)

\* With devices that answer in time, the byte read is left alone from its
\* acknowledgement to the next request, except by the timeout (the CPU takes it one
\* of its cycles after it has seen the acknowledgement).
AnswerIsStable ==
  [][~Waiting /\ ~TimedOut => slow_access_rdata' = slow_access_rdata]_vars

\* The cartridge port is asked only while the bus is in its request state: a timeout
\* leaves no request behind on the pins of the port.
CartRequestIsOwned == cart_access_request => state = "CartridgePortRequest"
=============================================================================
