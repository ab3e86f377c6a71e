---------------------------- MODULE BufferedUart ----------------------------
(* The buffered UARTs (src/vhdl/buffereduart.vhdl): a receive and a transmit ring for
   each UART, all in one memory with one read and one write port, behind the registers
   $D0E0-$D0EF.  One step is one rising edge of cpuclock.

   At an edge the memory serves the byte the CPU has just written, else the byte
   to be shown to the CPU, else the UART whose turn it is.  The flags lag the
   pointers by one tick, and what is read from the memory is used one tick later.
   The line drivers (UART_TX_CTRL, uart_rx) are external: sending takes any time, and
   a byte may arrive at any time after the one before it has been acknowledged.  The
   bit rates and the interrupt enables have no effect on the rings and are left out. *)
EXTENDS Naturals, Sequences

CONSTANTS
  Uarts, First,  \* 0..7 in the code, and 0
  Turn,          \* the UART served after each
  NoUart,        \* a selection above 7
  RingSize,      \* 256
  Inhibit,       \* 7: polls of a UART that are skipped after it was served
  Data,
  Unset,         \* the registers at power-up
  AccessGap,     \* ticks from one access of the CPU to the next: 4, the cycles of LDA $D0E2
  Selections,    \* UARTs the program selects, with NoUart
  SendUarts, ReceiveUarts,  \* UARTs that the program sends to; whose lines receive
  Resets         \* values of the reset pin: {FALSE}, or BOOLEAN

Slots == 0 .. RingSize - 1
Places == Uarts \X {"rx", "tx"} \X Slots
Targets == Uarts \X {"rx", "tx"}
Nothing == <<>>

ASSUME UartAssumption ==
  /\ First \in Uarts /\ Turn \in [Uarts -> Uarts] /\ NoUart \notin Uarts
  /\ RingSize \in Nat \ {0, 1} /\ Inhibit \in Nat /\ Unset \in Data
  /\ AccessGap \in Nat \ {0}
  /\ Selections \subseteq Uarts \cup {NoUart} /\ SendUarts \subseteq Uarts /\ ReceiveUarts \subseteq Uarts /\ Resets \subseteq BOOLEAN

VARIABLES
  selected_uart, last_selected_uart, cycled_uart_id,
  tx_byte_written, last_tx_byte_written, rx_byte_stale, rx_data_for_reading,
  uart_rx_buffer_pointer_write, uart_rx_buffer_pointer_read,
  uart_tx_buffer_pointer_write, uart_tx_buffer_pointer_read,
  uart_rx_empty, uart_rx_full, uart_tx_empty, uart_tx_full,
  tx_inhibit, rx_inhibit,
  read_target,        \* what is read, or Nothing (read_scheduled is 0)
  buffer_readaddress,
  buffer_write,       \* <<place, byte>> on the write port, or Nothing
  ram,
  tx_trigger, rx_acknowledge, tx_data,   \* the first two as sets of UARTs
  tx_ready, rx_ready, rx_data,           \* the line drivers
  since,              \* ticks since the last access of the CPU, up to AccessGap
  tx_queue, rx_queue, \* history: the bytes each ring should hold
  collided            \* history: a byte came in while the memory was read to show it

cpuSide == <<selected_uart, last_selected_uart, tx_byte_written, last_tx_byte_written,
             rx_byte_stale, rx_data_for_reading, since>>
pointers == <<uart_rx_buffer_pointer_write, uart_rx_buffer_pointer_read,
              uart_tx_buffer_pointer_write, uart_tx_buffer_pointer_read>>
flags == <<uart_rx_empty, uart_rx_full, uart_tx_empty, uart_tx_full>>
memory == <<read_target, buffer_readaddress, buffer_write, ram>>
polling == <<cycled_uart_id, tx_inhibit, rx_inhibit>>
lines == <<tx_trigger, rx_acknowledge, tx_data, tx_ready, rx_ready, rx_data>>
history == <<tx_queue, rx_queue, collided>>
vars == <<cpuSide, pointers, flags, memory, polling, lines, history>>

Each(value) == [u \in Uarts |-> value]

Init ==
  /\ selected_uart = First /\ last_selected_uart = First /\ cycled_uart_id = First
  /\ tx_byte_written = FALSE /\ rx_byte_stale = FALSE
  /\ last_tx_byte_written = Each(Unset) /\ rx_data_for_reading = Each(Unset)
  /\ uart_rx_buffer_pointer_write = Each(0) /\ uart_rx_buffer_pointer_read = Each(0)
  /\ uart_tx_buffer_pointer_write = Each(0) /\ uart_tx_buffer_pointer_read = Each(0)
  /\ uart_rx_empty = Each(TRUE) /\ uart_rx_full = Each(FALSE)
  /\ uart_tx_empty = Each(TRUE) /\ uart_tx_full = Each(FALSE)
  /\ tx_inhibit = Each(0) /\ rx_inhibit = Each(0)
  /\ read_target = Nothing /\ buffer_readaddress = <<First, "rx", 0>>
  /\ buffer_write = Nothing /\ ram = [p \in Places |-> Unset]
  /\ tx_trigger = {} /\ rx_acknowledge = {} /\ tx_data = Each(Unset)
  /\ tx_ready = Each(TRUE) /\ rx_ready = Each(FALSE) /\ rx_data = Each(Unset)
  /\ since = AccessGap
  /\ tx_queue = Each(<<>>) /\ rx_queue = Each(<<>>) /\ collided = FALSE
-----------------------------------------------------------------------------
(* What happens at an edge.  cpu is the register write of the CPU, if any.  *)

Accesses ==
  [op : {"select"}, uart : Selections] \cup [op : {"advance"}]
    \cup [op : {"send"}, byte : Data]
None == [op |-> "none"]

Advances(cpu, u) == cpu.op = "advance" /\ u = selected_uart /\ ~uart_rx_empty[u]
Sends(cpu) == cpu.op = "send" /\ selected_uart # NoUart

Committing == tx_byte_written
\* Mutant: a full ring takes another byte.
CommitsThoughFull(u) == Committing /\ u = selected_uart
Commits(u) == Committing /\ u = selected_uart /\ ~uart_tx_full[u]
Refreshing == ~tx_byte_written /\ rx_byte_stale
Polling == ~tx_byte_written /\ ~rx_byte_stale

\* Mutant: a UART that was just served may be served again.
DispatchesAtOnce(u) == Polling /\ u = cycled_uart_id /\ tx_ready[u] /\ ~uart_tx_empty[u]

Dispatches(u) ==
  /\ Polling /\ u = cycled_uart_id
  /\ tx_ready[u] /\ ~uart_tx_empty[u] /\ tx_inhibit[u] = 0

Receives(u) ==
  /\ Polling /\ u = cycled_uart_id /\ ~Dispatches(u)
  /\ rx_ready[u] /\ ~uart_rx_full[u] /\ rx_inhibit[u] = 0

Advanced(cpu) == {u \in Uarts : Advances(cpu, u)}
Committed == {u \in Uarts : Commits(u)}
Dispatched == {u \in Uarts : Dispatches(u)}
Received == {u \in Uarts : Receives(u)}

\* A read of the memory ends at this edge.
Shows(u) == read_target = <<u, "rx">>
Starts(u) == read_target = <<u, "tx">>
buffer_rdata == ram[buffer_readaddress]

\* Mutant: the pointer does not wrap.
AfterUnwrapped(slot) == slot + 1
After(slot) == (slot + 1) % RingSize
-----------------------------------------------------------------------------
Registers(cpu) ==
  /\ selected_uart' = IF cpu.op = "select" THEN cpu.uart ELSE selected_uart
  /\ last_selected_uart' = selected_uart
  /\ tx_byte_written' = (Sends(cpu) /\ ~Committing)
  /\ last_tx_byte_written' =
       IF Sends(cpu) THEN [last_tx_byte_written EXCEPT ![selected_uart] = cpu.byte]
                     ELSE last_tx_byte_written
  /\ rx_byte_stale' = /\ ~Refreshing
                      /\ \/ rx_byte_stale \/ last_selected_uart # selected_uart
                         \/ Advanced(cpu) # {}
  /\ since' = IF cpu # None THEN 1 ELSE IF since < AccessGap THEN since + 1 ELSE since

\* Mutant: a byte that comes into an empty ring is not presented.
ShownByteFromMemory ==
  rx_data_for_reading' =
    [u \in Uarts |-> IF u = selected_uart /\ \E v \in Uarts : Shows(v) THEN buffer_rdata
                     ELSE rx_data_for_reading[u]]

\* The byte shown is the one read from the memory, whatever came in at this edge.
ShownByte ==
  rx_data_for_reading' =
    [u \in Uarts |->
       IF u = selected_uart /\ \E v \in Uarts : Shows(v) THEN buffer_rdata
       ELSE IF Receives(u) /\ uart_rx_empty[u] THEN rx_data[u]
       ELSE rx_data_for_reading[u]]

\* The pointers of the UARTs in moving go on by one.
Moved(pointer, moving, reset) ==
  [u \in Uarts |-> IF reset THEN 0 ELSE IF u \in moving THEN After(pointer[u]) ELSE pointer[u]]

Pointers(cpu, reset) ==
  /\ uart_rx_buffer_pointer_write' = Moved(uart_rx_buffer_pointer_write, Received, reset)
  /\ uart_rx_buffer_pointer_read' = Moved(uart_rx_buffer_pointer_read, Advanced(cpu), reset)
  /\ uart_tx_buffer_pointer_write' = Moved(uart_tx_buffer_pointer_write, Committed, reset)
  /\ uart_tx_buffer_pointer_read' = Moved(uart_tx_buffer_pointer_read, Dispatched, reset)

\* From the pointers before the edge: the flags lag by a tick.
SamePlace(w, r, reset) == [u \in Uarts |-> reset \/ w[u] = r[u]]
OneBehind(w, r, reset) == [u \in Uarts |-> ~reset /\ After(w[u]) = r[u]]

Flags(reset) ==
  /\ uart_rx_empty' = SamePlace(uart_rx_buffer_pointer_write, uart_rx_buffer_pointer_read, reset)
  /\ uart_rx_full' = OneBehind(uart_rx_buffer_pointer_write, uart_rx_buffer_pointer_read, reset)
  /\ uart_tx_empty' = SamePlace(uart_tx_buffer_pointer_write, uart_tx_buffer_pointer_read, reset)
  /\ uart_tx_full' = OneBehind(uart_tx_buffer_pointer_write, uart_tx_buffer_pointer_read, reset)

ReadPort ==
  \/ /\ Refreshing /\ selected_uart # NoUart
     /\ buffer_readaddress' =
          <<selected_uart, "rx", uart_rx_buffer_pointer_read[selected_uart]>>
     /\ read_target' = IF uart_rx_empty[selected_uart] THEN Nothing
                                                       ELSE <<selected_uart, "rx">>
  \/ \E u \in Uarts :
       /\ Dispatches(u)
       /\ buffer_readaddress' = <<u, "tx", uart_tx_buffer_pointer_read[u]>>
       /\ read_target' = <<u, "tx">>
  \/ /\ ~(Refreshing /\ selected_uart # NoUart) /\ Dispatched = {}
     /\ read_target' = Nothing /\ UNCHANGED buffer_readaddress

\* The memory writes one tick after the port was set up.
WritePort ==
  /\ ram' = IF buffer_write = Nothing THEN ram
                                      ELSE [ram EXCEPT ![buffer_write[1]] = buffer_write[2]]
  /\ \/ \E u \in Uarts :
          \/ /\ Commits(u)
             /\ buffer_write' = << <<u, "tx", uart_tx_buffer_pointer_write[u]>>,
                                   last_tx_byte_written[u] >>
          \/ /\ Receives(u)
             /\ buffer_write' = << <<u, "rx", uart_rx_buffer_pointer_write[u]>>, rx_data[u] >>
     \/ Committed \cup Received = {} /\ buffer_write' = Nothing

\* Mutant: the polls to skip are not counted down.
CountedNever(inhibit, served, reset) ==
  [u \in Uarts |-> IF reset THEN 0 ELSE IF u \in served THEN Inhibit ELSE inhibit[u]]

\* The turn passes on when the UART has nothing to send or to receive.
Counted(inhibit, served, reset) ==
  [u \in Uarts |-> IF reset THEN 0 ELSE IF u \in served THEN Inhibit
                   ELSE IF u = cycled_uart_id /\ inhibit[u] # 0 THEN inhibit[u] - 1
                   ELSE inhibit[u]]
Rotation(reset) ==
  /\ cycled_uart_id' = IF Polling /\ Dispatched \cup Received = {}
                         THEN Turn[cycled_uart_id] ELSE cycled_uart_id
  /\ tx_inhibit' = Counted(tx_inhibit, Dispatched, reset)
  /\ rx_inhibit' = Counted(rx_inhibit, Received, reset)

\* The pins to the line drivers.
Pins ==
  /\ rx_acknowledge' = Received
  /\ tx_trigger' = {u \in Uarts : Starts(u)}
  /\ tx_data' = [u \in Uarts |-> IF Starts(u) THEN buffer_rdata ELSE tx_data[u]]

\* UART_TX_CTRL is ready until it is triggered, and again when the byte is out; a trigger
\* while it sends is ignored.  uart_rx holds its byte until it is acknowledged.
Lines ==
  /\ tx_ready' \in {r \in [Uarts -> BOOLEAN] :
                      \A u \in Uarts : tx_ready[u] => r[u] = (u \notin tx_trigger)}
  /\ rx_ready' \in {r \in [Uarts -> BOOLEAN] :
                      \A u \in Uarts : /\ rx_ready[u] => r[u] = (u \notin rx_acknowledge)
                                       /\ ~rx_ready[u] /\ r[u] => u \in ReceiveUarts}
  /\ rx_data' \in {d \in [Uarts -> Data] :
                     \A u \in Uarts : /\ rx_ready[u] /\ rx_ready'[u] => d[u] = rx_data[u]
                                      /\ ~rx_ready'[u] => d[u] = Unset}

\* The byte of u has left its ring, and is not yet with the line driver.
InFlight(u) == Dispatches(u) \/ Starts(u)

History(cpu, reset) ==
  /\ tx_queue' =
       [u \in Uarts |->
          LET left == IF u \in tx_trigger THEN Tail(tx_queue[u]) ELSE tx_queue[u]
          IN IF reset THEN SubSeq(left, 1, IF InFlight(u) THEN 1 ELSE 0)
             ELSE IF Sends(cpu) /\ u = selected_uart /\ ~(uart_tx_full[u] /\ uart_tx_full'[u])
                    THEN Append(left, cpu.byte) ELSE left]
  /\ rx_queue' =
       [u \in Uarts |->
          LET left == IF Advances(cpu, u) THEN Tail(rx_queue[u]) ELSE rx_queue[u]
          IN IF reset THEN <<>> ELSE IF Receives(u) THEN Append(left, rx_data[u]) ELSE left]
  /\ collided' = /\ ~Refreshing
                 /\ collided \/ \E u \in Uarts : Shows(u) /\ Receives(u) /\ uart_rx_empty[u]

Tick(cpu, reset) ==
  /\ Registers(cpu) /\ ShownByte /\ Pointers(cpu, reset) /\ Flags(reset)
  /\ ReadPort /\ WritePort /\ Rotation(reset) /\ Pins /\ Lines /\ History(cpu, reset)

\* The program accesses a register when it likes, but not before AccessGap; a CPU in reset
\* does not.
Next ==
  \E cpu \in Accesses \cup {None}, reset \in Resets :
    /\ cpu # None => since = AccessGap /\ ~reset
    /\ cpu.op = "send" => selected_uart \in SendUarts \cup {NoUart}
    /\ Tick(cpu, reset)

\* The clock runs, and a line driver that sends a byte is ready again some time.
Spec == Init /\ [][Next]_vars /\ WF_vars(Next) /\ \A u \in Uarts : []<>tx_ready[u]
-----------------------------------------------------------------------------
\* The registers, rings and lines have their types.
UartTypeOK ==
  /\ {selected_uart, last_selected_uart} \subseteq Uarts \cup {NoUart} /\ cycled_uart_id \in Uarts
  /\ tx_byte_written \in BOOLEAN /\ rx_byte_stale \in BOOLEAN
  /\ {last_tx_byte_written, rx_data_for_reading, tx_data, rx_data} \subseteq [Uarts -> Data]
  /\ {uart_rx_buffer_pointer_write, uart_rx_buffer_pointer_read,
      uart_tx_buffer_pointer_write, uart_tx_buffer_pointer_read} \subseteq [Uarts -> Slots]
  /\ {uart_rx_empty, uart_rx_full, uart_tx_empty, uart_tx_full, tx_ready, rx_ready}
       \subseteq [Uarts -> BOOLEAN]
  /\ {tx_inhibit, rx_inhibit} \subseteq [Uarts -> 0..Inhibit]
  /\ read_target \in Targets \cup {Nothing} /\ buffer_readaddress \in Places
  /\ buffer_write \in (Places \X Data) \cup {Nothing} /\ ram \in [Places -> Data]
  /\ tx_trigger \in SUBSET Uarts /\ rx_acknowledge \in SUBSET Uarts
  /\ since \in 1..AccessGap /\ collided \in BOOLEAN
  /\ {tx_queue, rx_queue} \subseteq [Uarts -> Seq(Data)]

Distance(w, r) == (w + RingSize - r) % RingSize
Count(happens) == IF happens THEN 1 ELSE 0

\* The bytes written to $D0E3 while its ring was not full go to the line driver in
\* their order, none lost and none twice, and only when the driver is ready ("Should
\* not be asserted unless READY is high", UART_TX_CTRL.vhdl).
SentInOrder ==
  \A u \in tx_trigger :
    tx_ready[u] /\ tx_queue[u] # <<>> /\ tx_data[u] = Head(tx_queue[u])

\* "We are receiving a byte, and our RX buffer is empty, so we should present this byte
\* to the CPU immediately": what $D0E2 reads while the ring is not empty is its first
\* byte, unless that came into an empty ring in the very tick in which the memory was
\* read to show the byte before it.  No other order of selections, acknowledgements,
\* arrivals and transmissions shows a wrong byte or loses one.
FirstByteIsShownUnlessCollided ==
  since = AccessGap /\ selected_uart # NoUart /\ ~collided =>
    uart_rx_empty[selected_uart] \/
      /\ rx_queue[selected_uart] # <<>>
      /\ rx_data_for_reading[selected_uart] = Head(rx_queue[selected_uart])

\* The pointers account for every byte: a ring holds as many as have come in and not
\* gone out, but for the one being put in and the one on its way to the line driver.
RingsHoldTheirQueues ==
  \A u \in Uarts :
    /\ Len(rx_queue[u]) = Distance(uart_rx_buffer_pointer_write[u], uart_rx_buffer_pointer_read[u])
    /\ Len(tx_queue[u]) =
         Distance(uart_tx_buffer_pointer_write[u], uart_tx_buffer_pointer_read[u])
           + Count(Commits(u)) + Count(Starts(u)) + Count(u \in tx_trigger)

\* A byte that has arrived is taken, unless its ring is full.
ArrivedBytesAreTaken ==
  \A u \in Uarts : rx_ready[u] ~> (u \in rx_acknowledge \/ uart_rx_full[u])
=============================================================================
