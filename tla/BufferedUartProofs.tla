------------------------- MODULE BufferedUartProofs -------------------------
(* Proofs about the buffered UARTs, for any number of UARTs, any turn among them and
   any ring size.  The first invariant says how long what the CPU asked for takes to
   reach the pointers and the flags; on it rest two invariants of each ring, that its
   lagging flags are right whenever they are acted on, and that it holds its queue.  *)
EXTENDS BufferedUart, SequenceTheorems, TLAPS

\* The CPU leaves the three ticks that a byte it wrote, or a selection, needs, and a
\* UART that was served is skipped until its flags and its line driver show it.
Paced == AccessGap >= 4 /\ Inhibit >= 2

rx_write == uart_rx_buffer_pointer_write
rx_read == uart_rx_buffer_pointer_read
tx_write == uart_tx_buffer_pointer_write
tx_read == uart_tx_buffer_pointer_read

\* The memory once the byte on the write port is in it.
Stored == IF buffer_write = Nothing THEN ram
                                    ELSE [ram EXCEPT ![buffer_write[1]] = buffer_write[2]]
Contents(u, side) == [s \in Slots |-> Stored[<<u, side, s>>]]

PaceInv ==
  /\ tx_byte_written => since = 1 /\ selected_uart \in Uarts
  /\ rx_byte_stale => since <= 2 /\ ~tx_byte_written
  /\ last_selected_uart # selected_uart => since = 1 /\ ~rx_byte_stale

\* The flags of the transmit ring of u are right when they are acted on, and u is
\* dispatched again only after its line driver has begun to send.
TxInv(u) ==
  /\ ~uart_tx_empty[u] /\ tx_inhibit[u] = 0 => tx_write[u] # tx_read[u]
  /\ (tx_byte_written \/ since >= 3) /\ ~uart_tx_full[u] => After(tx_write[u]) # tx_read[u]
  /\ Starts(u) => /\ tx_ready[u] /\ u \notin tx_trigger
                  /\ tx_inhibit[u] >= 2 \/ (uart_tx_empty[u] /\ tx_write[u] = tx_read[u])
  /\ u \in tx_trigger => tx_ready[u] /\ (tx_inhibit[u] >= 1 \/ uart_tx_empty[u])

\* The same of its receive ring.
RxInv(u) ==
  /\ ~uart_rx_empty[u] => rx_write[u] # rx_read[u] \/ (since = 1 /\ rx_byte_stale)
  /\ uart_rx_empty[u] /\ rx_inhibit[u] = 0 => rx_write[u] = rx_read[u]
  /\ ~uart_rx_full[u] /\ rx_inhibit[u] = 0 => After(rx_write[u]) # rx_read[u]

\* The slots from r up to w hold the bytes of q after the first few.
Held(q, few, w, r, bytes) ==
  \A s \in Slots : Distance(s, r) < Distance(w, r) => q[few + Distance(s, r) + 1] = bytes[s]

\* The bytes of u that are between its ring and its line driver.
Leaving(u) == Count(Starts(u)) + Count(u \in tx_trigger)

TxHeld(u) ==
  /\ Len(tx_queue[u]) = Distance(tx_write[u], tx_read[u]) + Count(Commits(u)) + Leaving(u)
  /\ Held(tx_queue[u], Leaving(u), tx_write[u], tx_read[u], Contents(u, "tx"))
  /\ Commits(u) => tx_queue[u][Len(tx_queue[u])] = last_tx_byte_written[u]
  /\ Starts(u) => tx_queue[u][1] = buffer_rdata
  /\ u \in tx_trigger => tx_queue[u][1] = tx_data[u]

RxHeld(u) ==
  /\ Len(rx_queue[u]) = Distance(rx_write[u], rx_read[u])
  /\ Held(rx_queue[u], 0, rx_write[u], rx_read[u], Contents(u, "rx"))

RingInv ==
  /\ UartTypeOK /\ PaceInv
  /\ \A u \in Uarts : TxInv(u) /\ RxInv(u) /\ TxHeld(u) /\ RxHeld(u)
-----------------------------------------------------------------------------
(* Rings of any size.                                                       *)

LEMMA ModSmall == ASSUME NEW n \in Nat \ {0}, NEW x \in 0 .. (n - 1) PROVE x % n = x
  OBVIOUS

LEMMA ModOnce == ASSUME NEW n \in Nat \ {0}, NEW x \in n .. (2 * n - 1) PROVE x % n = x - n
  OBVIOUS

\* The slot after the last one is the first.
LEMMA AfterIs ==
  ASSUME NEW s \in Slots
  PROVE  After(s) = IF s = RingSize - 1 THEN 0 ELSE s + 1
  BY UartAssumption, ModSmall, ModOnce DEF Slots, After

LEMMA AfterIsSlot == ASSUME NEW s \in Slots PROVE After(s) \in Slots
  BY UartAssumption, AfterIs DEF Slots

\* After, and with it the full flag, tells two slots apart.
LEMMA AfterTellsApart ==
  ASSUME NEW s \in Slots, NEW t \in Slots
  PROVE  (After(s) = After(t)) = (s = t) /\ After(s) # s
  BY UartAssumption, AfterIs DEF Slots

LEMMA DistanceIs ==
  ASSUME NEW w \in Slots, NEW r \in Slots
  PROVE  Distance(w, r) = IF w >= r THEN w - r ELSE w + RingSize - r
  BY UartAssumption, ModSmall, ModOnce DEF Slots, Distance

LEMMA DistanceInRing ==
  ASSUME NEW w \in Slots, NEW r \in Slots
  PROVE  /\ Distance(w, r) \in 0 .. RingSize - 1
         /\ (Distance(w, r) = 0) = (w = r)
  BY UartAssumption, DistanceIs DEF Slots

LEMMA DistanceOfMove ==
  ASSUME NEW w \in Slots, NEW r \in Slots
  PROVE  /\ After(w) # r => Distance(After(w), r) = Distance(w, r) + 1
         /\ w # r => Distance(w, After(r)) = Distance(w, r) - 1
         /\ Distance(r, After(r)) = RingSize - 1
<1>1. /\ After(w) \in Slots /\ After(w) = IF w = RingSize - 1 THEN 0 ELSE w + 1
      /\ After(r) \in Slots /\ After(r) = IF r = RingSize - 1 THEN 0 ELSE r + 1
  BY AfterIs, AfterIsSlot
<1>2. Distance(w, r) = IF w >= r THEN w - r ELSE w + RingSize - r
  BY DistanceIs
<1>3. ASSUME After(w) # r PROVE Distance(After(w), r) = Distance(w, r) + 1
  <2>1. Distance(After(w), r) = IF After(w) >= r THEN After(w) - r ELSE After(w) + RingSize - r
    BY <1>1, DistanceIs
  <2> QED  BY <1>1, <1>2, <1>3, <2>1, UartAssumption DEF Slots
<1>4. ASSUME w # r PROVE Distance(w, After(r)) = Distance(w, r) - 1
  <2>1. Distance(w, After(r)) = IF w >= After(r) THEN w - After(r) ELSE w + RingSize - After(r)
    BY <1>1, DistanceIs
  <2> QED  BY <1>1, <1>2, <1>4, <2>1, UartAssumption DEF Slots
<1>5. Distance(r, After(r)) = RingSize - 1
  <2>1. Distance(r, After(r)) = IF r >= After(r) THEN r - After(r) ELSE r + RingSize - After(r)
    BY <1>1, DistanceIs
  <2> QED  BY <1>1, <2>1, UartAssumption DEF Slots
<1> QED  BY <1>3, <1>4, <1>5

LEMMA DistanceTellsApart ==
  ASSUME NEW w \in Slots, NEW s \in Slots, NEW r \in Slots, Distance(s, r) = Distance(w, r)
  PROVE  s = w
  BY UartAssumption, DistanceIs DEF Slots

\* A byte put in at w goes on the queue after those that are held.
LEMMA HeldWithOneMore ==
  ASSUME NEW few \in Nat, NEW w \in Slots, NEW r \in Slots, After(w) # r,
         NEW bytes \in [Slots -> Data], NEW q, NEW byte \in Data,
         Held(q, few, w, r, bytes), q[few + Distance(w, r) + 1] = byte
  PROVE  Held(q, few, After(w), r, [bytes EXCEPT ![w] = byte])
<1> SUFFICES ASSUME NEW s \in Slots, Distance(s, r) < Distance(After(w), r)
             PROVE  q[few + Distance(s, r) + 1] = [bytes EXCEPT ![w] = byte][s]
  BY DEF Held
<1>1. Distance(s, r) < Distance(w, r) + 1
  BY DistanceOfMove
<1>2. CASE Distance(s, r) = Distance(w, r)
  <2>1. s = w
    BY <1>2, DistanceTellsApart
  <2> QED  BY <2>1
<1>3. CASE Distance(s, r) < Distance(w, r)
  <2>1. s # w
    BY <1>3, DistanceInRing
  <2>2. q[few + Distance(s, r) + 1] = bytes[s]
    BY <1>3 DEF Held
  <2> QED  BY <2>1, <2>2
<1>4. Distance(s, r) \in Nat /\ Distance(w, r) \in Nat
  BY DistanceInRing, UartAssumption
<1> QED  BY <1>1, <1>2, <1>3, <1>4

\* A byte taken from r is the first one held, and the queue holds one fewer behind it.
LEMMA HeldWithOneLess ==
  ASSUME NEW w \in Slots, NEW r \in Slots, w # r, NEW bytes, NEW q, Held(q, 0, w, r, bytes)
  PROVE  /\ q[1] = bytes[r]
         /\ Held(q, 1, w, After(r), bytes)
<1>1. Distance(r, r) = 0 /\ Distance(w, r) \in Nat \ {0}
  BY DistanceInRing, UartAssumption
<1>2. q[1] = bytes[r]
  BY <1>1 DEF Held
<1>3. ASSUME NEW s \in Slots, Distance(s, After(r)) < Distance(w, After(r))
      PROVE  q[1 + Distance(s, After(r)) + 1] = bytes[s]
  <2>1. After(r) \in Slots /\ Distance(w, After(r)) = Distance(w, r) - 1
    BY AfterIsSlot, DistanceOfMove
  <2>2. s # r
    <3>1. Distance(r, After(r)) = RingSize - 1 /\ Distance(w, After(r)) \in 0 .. RingSize - 1
      BY <2>1, DistanceOfMove, DistanceInRing
    <3> QED  BY <1>3, <3>1, UartAssumption
  <2>3. Distance(s, After(r)) = Distance(s, r) - 1
    BY <2>2, DistanceOfMove
  <2>4. Distance(s, r) \in Nat
    BY DistanceInRing, UartAssumption
  <2>5. Distance(s, r) < Distance(w, r)
    BY <1>1, <1>3, <2>1, <2>3, <2>4
  <2>6. q[0 + Distance(s, r) + 1] = bytes[s]
    BY <2>5 DEF Held
  <2>7. 1 + Distance(s, After(r)) + 1 = 0 + Distance(s, r) + 1
    BY <2>3, <2>4
  <2> QED  BY <2>6, <2>7
<1> QED  BY <1>2, <1>3 DEF Held

\* Dropping the first byte of the queue, or adding one to it, leaves those that are held.
LEMMA HeldByTail ==
  ASSUME NEW few \in Nat, NEW w \in Slots, NEW r \in Slots, NEW bytes, NEW q \in Seq(Data),
         Held(q, few + 1, w, r, bytes), Len(q) >= few + 1 + Distance(w, r)
  PROVE  Held(Tail(q), few, w, r, bytes)
<1> SUFFICES ASSUME NEW s \in Slots, Distance(s, r) < Distance(w, r)
             PROVE  Tail(q)[few + Distance(s, r) + 1] = bytes[s]
  BY DEF Held
<1>1. Distance(s, r) \in Nat /\ Distance(w, r) \in Nat
  BY DistanceInRing, UartAssumption
<1>2. Len(q) \in Nat /\ q # <<>>
  BY <1>1
<1>3. few + Distance(s, r) + 1 \in 1 .. Len(q) - 1
  BY <1>1, <1>2
<1>4. Tail(q)[few + Distance(s, r) + 1] = q[few + Distance(s, r) + 1 + 1]
  BY <1>2, <1>3, HeadTailProperties
<1>5. q[few + 1 + Distance(s, r) + 1] = bytes[s]
  BY DEF Held
<1>6. few + Distance(s, r) + 1 + 1 = few + 1 + Distance(s, r) + 1
  BY <1>1
<1> QED  BY <1>4, <1>5, <1>6

LEMMA HeldByAppend ==
  ASSUME NEW few \in Nat, NEW w \in Slots, NEW r \in Slots, NEW bytes, NEW q \in Seq(Data),
         NEW byte \in Data, Held(q, few, w, r, bytes), Len(q) >= few + Distance(w, r)
  PROVE  Held(Append(q, byte), few, w, r, bytes)
<1> SUFFICES ASSUME NEW s \in Slots, Distance(s, r) < Distance(w, r)
             PROVE  Append(q, byte)[few + Distance(s, r) + 1] = bytes[s]
  BY DEF Held
<1>1. Distance(s, r) \in Nat /\ Distance(w, r) \in Nat /\ Len(q) \in Nat
  BY DistanceInRing, UartAssumption
<1>2. few + Distance(s, r) + 1 \in 1 .. Len(q)
  BY <1>1
<1>3. Append(q, byte)[few + Distance(s, r) + 1] = q[few + Distance(s, r) + 1]
  BY <1>2, AppendProperties
<1> QED  BY <1>3 DEF Held
-----------------------------------------------------------------------------
(* What a tick does to one UART.                                            *)

Permitted(cpu, reset) ==
  /\ cpu \in Accesses \cup {None} /\ reset \in Resets
  /\ cpu # None => since = AccessGap /\ ~reset

LEMMA TypeParts ==
  ASSUME UartTypeOK
  PROVE  /\ selected_uart \in Uarts \cup {NoUart} /\ last_selected_uart \in Uarts \cup {NoUart}
         /\ last_tx_byte_written \in [Uarts -> Data] /\ rx_data_for_reading \in [Uarts -> Data]
         /\ tx_data \in [Uarts -> Data] /\ rx_data \in [Uarts -> Data]
         /\ rx_write \in [Uarts -> Slots] /\ rx_read \in [Uarts -> Slots]
         /\ tx_write \in [Uarts -> Slots] /\ tx_read \in [Uarts -> Slots]
         /\ uart_rx_empty \in [Uarts -> BOOLEAN] /\ uart_rx_full \in [Uarts -> BOOLEAN]
         /\ uart_tx_empty \in [Uarts -> BOOLEAN] /\ uart_tx_full \in [Uarts -> BOOLEAN]
         /\ tx_ready \in [Uarts -> BOOLEAN] /\ rx_ready \in [Uarts -> BOOLEAN]
         /\ tx_inhibit \in [Uarts -> 0 .. Inhibit] /\ rx_inhibit \in [Uarts -> 0 .. Inhibit]
         /\ tx_queue \in [Uarts -> Seq(Data)] /\ rx_queue \in [Uarts -> Seq(Data)]
         /\ since \in 1 .. AccessGap
  BY DEF UartTypeOK, rx_write, rx_read, tx_write, tx_read

LEMMA AccessParts ==
  ASSUME NEW cpu \in Accesses \cup {None}
  PROVE  /\ cpu.op = "select" => cpu.uart \in Selections /\ cpu # None
         /\ cpu.op = "send" => cpu.byte \in Data /\ cpu # None
         /\ cpu.op = "advance" => cpu # None
  BY DEF Accesses, None

\* A byte written is committed one tick later, a selection or an advance seen within two,
\* and the CPU does nothing else before.
LEMMA PaceStep ==
  ASSUME UartTypeOK, PaceInv, Paced, NEW cpu, NEW reset, Permitted(cpu, reset), Tick(cpu, reset)
  PROVE  PaceInv'
<1> USE DEF PaceInv, Permitted
<1>1. Registers(cpu)
  BY DEF Tick
<1>2. since \in 1 .. AccessGap /\ AccessGap \in Nat /\ AccessGap >= 4
  BY UartAssumption DEF UartTypeOK, Paced
<1>3. selected_uart \in Uarts \cup {NoUart}
  BY TypeParts
<1>4. CASE cpu = None
  <2>1. cpu.op = "none"
    BY <1>4 DEF None
  <2>2. Advanced(cpu) = {}
    BY <2>1 DEF Advanced, Advances
  <2>3. ~tx_byte_written' /\ selected_uart' = selected_uart /\ last_selected_uart' = selected_uart
    BY <1>1, <2>1 DEF Registers, Sends
  <2>4. rx_byte_stale' => since = 1
    BY <1>1, <2>2 DEF Registers, Refreshing
  <2>5. since = 1 => since' = 2
    BY <1>1, <1>2, <1>4 DEF Registers
  <2> QED  BY <2>3, <2>4, <2>5
<1>5. CASE cpu # None
  <2>1. since' = 1
    BY <1>1, <1>5 DEF Registers
  <2>2. ~rx_byte_stale /\ last_selected_uart = selected_uart
    BY <1>2, <1>5
  <2>3. rx_byte_stale' => Advanced(cpu) # {}
    BY <1>1, <2>2 DEF Registers
  <2>4. rx_byte_stale' => cpu.op = "advance"
    BY <2>3 DEF Advanced, Advances
  <2>5. /\ tx_byte_written' => cpu.op = "send" /\ selected_uart \in Uarts
        /\ cpu.op # "select" => selected_uart' = selected_uart
        /\ last_selected_uart' = selected_uart
    BY <1>1, <1>3 DEF Registers, Sends
  <2>6. selected_uart' # selected_uart => cpu.op = "select"
    BY <2>5
  <2> QED  BY <2>1, <2>4, <2>5, <2>6
<1> QED  BY <1>4, <1>5

\* One use of the memory at an edge.
LEMMA OneUse ==
  ASSUME NEW u, NEW v
  PROVE  /\ Commits(u) => ~Refreshing /\ ~Dispatches(v) /\ ~Receives(v) /\ (Commits(v) => u = v)
         /\ Dispatches(u) => ~Refreshing /\ ~Receives(v) /\ (Dispatches(v) => u = v)
         /\ Receives(u) => ~Refreshing /\ ~Dispatches(v) /\ (Receives(v) => u = v)
  BY DEF Commits, Dispatches, Receives, Committing, Refreshing, Polling

\* What is read is for the UART being dispatched, or for the CPU.
LEMMA ReadPortStep ==
  ASSUME ReadPort, NEW u \in Uarts, NoUart \notin Uarts
  PROVE  /\ Starts(u)' <=> Dispatches(u)
         /\ Dispatches(u) => buffer_readaddress' = <<u, "tx", tx_read[u]>>
         /\ Shows(u)' <=> (Refreshing /\ u = selected_uart /\ ~uart_rx_empty[u])
         /\ Refreshing /\ u = selected_uart => buffer_readaddress' = <<u, "rx", rx_read[u]>>
<1> USE DEF Starts, Shows, tx_read, rx_read
<1>1. CASE /\ Refreshing /\ selected_uart # NoUart
           /\ buffer_readaddress' = <<selected_uart, "rx", rx_read[selected_uart]>>
           /\ read_target' = IF uart_rx_empty[selected_uart] THEN Nothing ELSE <<selected_uart, "rx">>
  <2>1. ~Dispatches(u)
    BY <1>1, OneUse
  <2> QED  BY <1>1, <2>1 DEF Nothing
<1>2. CASE \E v \in Uarts : /\ Dispatches(v) /\ read_target' = <<v, "tx">>
                            /\ buffer_readaddress' = <<v, "tx", tx_read[v]>>
  <2> PICK v \in Uarts : /\ Dispatches(v) /\ read_target' = <<v, "tx">>
                         /\ buffer_readaddress' = <<v, "tx", tx_read[v]>>
    BY <1>2
  <2>1. ~Refreshing /\ (Dispatches(u) => u = v)
    BY OneUse
  <2> QED  BY <2>1
<1>3. CASE ~(Refreshing /\ selected_uart # NoUart) /\ Dispatched = {} /\ read_target' = Nothing
  <2>1. ~Dispatches(u) /\ ~(Refreshing /\ u = selected_uart)
    BY <1>3 DEF Dispatched
  <2> QED  BY <1>3, <2>1 DEF Nothing
<1> QED  BY <1>1, <1>2, <1>3 DEF ReadPort

\* What is in the memory, or on its way there, changes by the byte put in at this edge.
LEMMA StoredStep ==
  ASSUME UartTypeOK, WritePort, NEW u \in Uarts
  PROVE  /\ ram' = Stored
         /\ Contents(u, "tx")' =
              IF Commits(u) THEN [Contents(u, "tx") EXCEPT ![tx_write[u]] = last_tx_byte_written[u]]
                            ELSE Contents(u, "tx")
         /\ Contents(u, "rx")' =
              IF Receives(u) THEN [Contents(u, "rx") EXCEPT ![rx_write[u]] = rx_data[u]]
                             ELSE Contents(u, "rx")
<1> USE DEF tx_write, rx_write
<1>1. ram' = Stored
  BY DEF WritePort, Stored
<1>2. Stored \in [Places -> Data]
  BY DEF UartTypeOK, Stored
<1>3. \A s \in Slots : <<u, "tx", s>> \in Places /\ <<u, "rx", s>> \in Places
  BY DEF Places
<1>4. ASSUME NEW v \in Uarts, Commits(v),
             buffer_write' = << <<v, "tx", tx_write[v]>>, last_tx_byte_written[v] >>
      PROVE  /\ Contents(u, "tx")' =
                   IF u = v THEN [Contents(u, "tx") EXCEPT ![tx_write[u]] = last_tx_byte_written[u]]
                            ELSE Contents(u, "tx")
             /\ Contents(u, "rx")' = Contents(u, "rx")
  <2>1. buffer_write' # Nothing
    BY <1>4 DEF Nothing
  <2>2. Stored' = [Stored EXCEPT ![<<v, "tx", tx_write[v]>>] = last_tx_byte_written[v]]
    BY <1>1, <1>4, <2>1 DEF Stored
  <2> QED  BY <1>2, <1>3, <2>2 DEF Contents
<1>5. ASSUME NEW v \in Uarts, Receives(v),
             buffer_write' = << <<v, "rx", rx_write[v]>>, rx_data[v] >>
      PROVE  /\ Contents(u, "rx")' =
                   IF u = v THEN [Contents(u, "rx") EXCEPT ![rx_write[u]] = rx_data[u]]
                            ELSE Contents(u, "rx")
             /\ Contents(u, "tx")' = Contents(u, "tx")
  <2>1. buffer_write' # Nothing
    BY <1>5 DEF Nothing
  <2>2. Stored' = [Stored EXCEPT ![<<v, "rx", rx_write[v]>>] = rx_data[v]]
    BY <1>1, <1>5, <2>1 DEF Stored
  <2> QED  BY <1>2, <1>3, <2>2 DEF Contents
<1>6. ASSUME Committed \cup Received = {}, buffer_write' = Nothing
      PROVE  /\ Contents(u, "tx")' = Contents(u, "tx") /\ Contents(u, "rx")' = Contents(u, "rx")
             /\ ~Commits(u) /\ ~Receives(u)
  BY <1>1, <1>6 DEF Contents, Stored, Committed, Received
<1>7. CASE \E v \in Uarts : /\ Commits(v)
                            /\ buffer_write' = << <<v, "tx", tx_write[v]>>, last_tx_byte_written[v] >>
  <2> PICK v \in Uarts : /\ Commits(v)
                         /\ buffer_write' = << <<v, "tx", tx_write[v]>>, last_tx_byte_written[v] >>
    BY <1>7
  <2>1. ~Receives(u) /\ (Commits(u) <=> u = v)
    BY OneUse
  <2> QED  BY <1>1, <1>4, <2>1
<1>8. CASE \E v \in Uarts : /\ Receives(v)
                            /\ buffer_write' = << <<v, "rx", rx_write[v]>>, rx_data[v] >>
  <2> PICK v \in Uarts : /\ Receives(v)
                         /\ buffer_write' = << <<v, "rx", rx_write[v]>>, rx_data[v] >>
    BY <1>8
  <2>1. ~Commits(u) /\ (Receives(u) <=> u = v)
    BY OneUse
  <2> QED  BY <1>1, <1>5, <2>1
<1> QED  BY <1>1, <1>6, <1>7, <1>8 DEF WritePort

\* The transmit side of u after the tick.
LEMMA TxTick ==
  ASSUME UartTypeOK, NEW cpu, NEW reset, Tick(cpu, reset), NEW u \in Uarts
  PROVE  /\ tx_write'[u] = IF reset THEN 0 ELSE IF Commits(u) THEN After(tx_write[u]) ELSE tx_write[u]
         /\ tx_read'[u] = IF reset THEN 0 ELSE IF Dispatches(u) THEN After(tx_read[u]) ELSE tx_read[u]
         /\ uart_tx_empty'[u] = (reset \/ tx_write[u] = tx_read[u])
         /\ uart_tx_full'[u] = (~reset /\ After(tx_write[u]) = tx_read[u])
         /\ tx_inhibit'[u] = IF reset THEN 0 ELSE IF Dispatches(u) THEN Inhibit
                              ELSE IF u = cycled_uart_id /\ tx_inhibit[u] # 0 THEN tx_inhibit[u] - 1
                              ELSE tx_inhibit[u]
         /\ (u \in tx_trigger') <=> Starts(u)
         /\ tx_ready[u] => tx_ready'[u] = (u \notin tx_trigger)
         /\ tx_data'[u] = IF Starts(u) THEN buffer_rdata ELSE tx_data[u]
<1> USE DEF tx_write, tx_read
<1>1. Pointers(cpu, reset) /\ Flags(reset) /\ Rotation(reset) /\ Pins /\ Lines
  BY DEF Tick
<1>2. (u \in Committed <=> Commits(u)) /\ (u \in Dispatched <=> Dispatches(u))
  BY DEF Committed, Dispatched
<1>3. tx_ready[u] => tx_ready'[u] = (u \notin tx_trigger)
  BY <1>1 DEF Lines
<1> QED  BY <1>1, <1>2, <1>3 DEF Pointers, Moved, Flags, SamePlace, OneBehind, Rotation, Counted, Pins

\* The receive side of u after the tick.
LEMMA RxTick ==
  ASSUME UartTypeOK, NEW cpu, NEW reset, Tick(cpu, reset), NEW u \in Uarts
  PROVE  /\ rx_write'[u] = IF reset THEN 0 ELSE IF Receives(u) THEN After(rx_write[u]) ELSE rx_write[u]
         /\ rx_read'[u] = IF reset THEN 0 ELSE IF Advances(cpu, u) THEN After(rx_read[u]) ELSE rx_read[u]
         /\ uart_rx_empty'[u] = (reset \/ rx_write[u] = rx_read[u])
         /\ uart_rx_full'[u] = (~reset /\ After(rx_write[u]) = rx_read[u])
         /\ rx_inhibit'[u] = IF reset THEN 0 ELSE IF Receives(u) THEN Inhibit
                              ELSE IF u = cycled_uart_id /\ rx_inhibit[u] # 0 THEN rx_inhibit[u] - 1
                              ELSE rx_inhibit[u]
<1> USE DEF rx_write, rx_read
<1>1. Pointers(cpu, reset) /\ Flags(reset) /\ Rotation(reset)
  BY DEF Tick
<1>2. (u \in Received <=> Receives(u)) /\ (u \in Advanced(cpu) <=> Advances(cpu, u))
  BY DEF Received, Advanced
<1> QED  BY <1>1, <1>2 DEF Pointers, Moved, Flags, SamePlace, OneBehind, Rotation, Counted
-----------------------------------------------------------------------------
(* The lagging flags are right when they are acted on.                      *)

LEMMA TxStep ==
  ASSUME UartTypeOK, PaceInv, Paced, NEW cpu, NEW reset, Permitted(cpu, reset), Tick(cpu, reset),
         NEW u \in Uarts, TxInv(u)
  PROVE  TxInv(u)'
<1> DEFINE w == tx_write[u]
           r == tx_read[u]
<1>1. /\ w \in Slots /\ r \in Slots /\ 0 \in Slots /\ tx_inhibit[u] \in 0 .. Inhibit
      /\ uart_tx_empty[u] \in BOOLEAN /\ Inhibit \in Nat /\ Inhibit >= 2 /\ tx_ready[u] \in BOOLEAN
      /\ since \in 1 .. AccessGap /\ AccessGap \in Nat /\ AccessGap >= 4 /\ reset \in BOOLEAN
  <2>1. 0 \in Slots /\ Inhibit \in Nat /\ AccessGap \in Nat /\ Resets \subseteq BOOLEAN
    BY UartAssumption DEF Slots
  <2> QED  BY <2>1, TypeParts DEF Paced, Permitted
<1>2. Starts(u)' <=> Dispatches(u)
  BY ReadPortStep, UartAssumption DEF Tick
<1>3. After(0) # 0 /\ (After(w) = After(r) <=> w = r)
  BY <1>1, AfterTellsApart
<1>4. (tx_byte_written' \/ since' >= 3) => ~Commits(u)
  <2>1. cpu # None => since # 1
    BY <1>1 DEF Permitted
  <2>2. tx_byte_written' => cpu # None
    BY AccessParts DEF Tick, Registers, Sends, Permitted
  <2>3. since = 1 => since' <= 2
    BY <1>1, <2>1 DEF Tick, Registers
  <2>4. since' \in Nat
    BY <1>1 DEF Tick, Registers
  <2>5. Commits(u) => since = 1
    BY DEF Commits, Committing, PaceInv
  <2>6. PICK t \in Nat : since' = t
    BY <2>4
  <2> QED  BY <2>1, <2>2, <2>3, <2>5, <2>6
<1>5. Commits(u) => After(w) # r
  BY DEF Commits, Committing, TxInv
<1>6. /\ Dispatches(u) => tx_ready[u] /\ ~uart_tx_empty[u] /\ tx_inhibit[u] = 0
      /\ Dispatches(u) => w # r /\ ~Starts(u) /\ u \notin tx_trigger
  BY <1>1 DEF Dispatches, TxInv
<1>7. Starts(u) => tx_ready[u] /\ u \notin tx_trigger /\ (tx_inhibit[u] >= 2 \/ w = r)
  BY DEF TxInv
<1>8. PICK i \in 0 .. Inhibit : tx_inhibit'[u] = i
  BY <1>1, TxTick
<1>9. /\ tx_write'[u] = IF reset THEN 0 ELSE IF Commits(u) THEN After(w) ELSE w
      /\ tx_read'[u] = IF reset THEN 0 ELSE IF Dispatches(u) THEN After(r) ELSE r
      /\ uart_tx_empty'[u] = (reset \/ w = r)
      /\ uart_tx_full'[u] = (~reset /\ After(w) = r)
      /\ i = IF reset THEN 0 ELSE IF Dispatches(u) THEN Inhibit
            ELSE IF u = cycled_uart_id /\ tx_inhibit[u] # 0 THEN tx_inhibit[u] - 1 ELSE tx_inhibit[u]
      /\ (u \in tx_trigger') <=> Starts(u)
      /\ tx_ready[u] => tx_ready'[u] = (u \notin tx_trigger)
  BY <1>8, TxTick
<1>10. ~uart_tx_empty'[u] /\ i = 0 => tx_write'[u] # tx_read'[u]
  <2> HAVE ~uart_tx_empty'[u] /\ i = 0
  <2>1. ~reset /\ w # r
    BY <1>1, <1>9
  <2>2. ~Dispatches(u)
    BY <1>1, <1>9, <2>1
  <2> QED  BY <1>5, <1>9, <2>1, <2>2
<1>11. (tx_byte_written' \/ since' >= 3) /\ ~uart_tx_full'[u] => After(tx_write'[u]) # tx_read'[u]
  BY <1>3, <1>4, <1>6, <1>9
<1>12. Dispatches(u) =>
         /\ tx_ready'[u] /\ u \notin tx_trigger'
         /\ i >= 2 \/ (uart_tx_empty'[u] /\ tx_write'[u] = tx_read'[u])
  BY <1>1, <1>6, <1>9
<1>13. u \in tx_trigger' => tx_ready'[u] /\ (i >= 1 \/ uart_tx_empty'[u])
  BY <1>1, <1>7, <1>9
<1> HIDE DEF w, r
<1> QED  BY <1>2, <1>8, <1>10, <1>11, <1>12, <1>13 DEF TxInv

LEMMA RxStep ==
  ASSUME UartTypeOK, PaceInv, Paced, NEW cpu, NEW reset, Permitted(cpu, reset), Tick(cpu, reset),
         NEW u \in Uarts, RxInv(u)
  PROVE  RxInv(u)'
<1> DEFINE w == rx_write[u]
           r == rx_read[u]
<1>1. /\ w \in Slots /\ r \in Slots /\ rx_inhibit[u] \in 0 .. Inhibit /\ 0 \in Slots
      /\ uart_rx_empty[u] \in BOOLEAN /\ Inhibit \in Nat /\ Inhibit >= 2
      /\ since \in 1 .. AccessGap /\ AccessGap \in Nat /\ AccessGap >= 4 /\ reset \in BOOLEAN
  <2>1. 0 \in Slots /\ Inhibit \in Nat /\ AccessGap \in Nat /\ Resets \subseteq BOOLEAN
    BY UartAssumption DEF Slots
  <2> QED  BY <2>1, TypeParts DEF Paced, Permitted
<1>2. After(0) # 0 /\ (After(w) = After(r) <=> w = r)
  BY <1>1, AfterTellsApart
<1>3. Advances(cpu, u) => /\ ~reset /\ w # r /\ since' = 1 /\ rx_byte_stale'
  <2> HAVE Advances(cpu, u)
  <2>1. cpu # None /\ since = AccessGap /\ ~reset /\ Advanced(cpu) # {}
    BY AccessParts DEF Advances, Advanced, Permitted
  <2>2. ~rx_byte_stale /\ w # r
    BY <1>1, <2>1 DEF PaceInv, RxInv, Advances
  <2> QED  BY <2>1, <2>2 DEF Tick, Registers, Refreshing
<1>4. Receives(u) => w = r \/ ~uart_rx_empty[u]
  BY <1>1 DEF Receives, RxInv
<1>5. Receives(u) => After(w) # r /\ ~rx_byte_stale
  BY DEF Receives, RxInv, Polling
<1>6. PICK i \in 0 .. Inhibit : rx_inhibit'[u] = i
  BY <1>1, RxTick
<1>7. /\ rx_write'[u] = IF reset THEN 0 ELSE IF Receives(u) THEN After(w) ELSE w
      /\ rx_read'[u] = IF reset THEN 0 ELSE IF Advances(cpu, u) THEN After(r) ELSE r
      /\ uart_rx_empty'[u] = (reset \/ w = r)
      /\ uart_rx_full'[u] = (~reset /\ After(w) = r)
      /\ i = IF reset THEN 0 ELSE IF Receives(u) THEN Inhibit
            ELSE IF u = cycled_uart_id /\ rx_inhibit[u] # 0 THEN rx_inhibit[u] - 1 ELSE rx_inhibit[u]
  BY <1>6, RxTick
<1>8. ~uart_rx_empty'[u] => rx_write'[u] # rx_read'[u] \/ (since' = 1 /\ rx_byte_stale')
  BY <1>3, <1>5, <1>7
<1>9. uart_rx_empty'[u] /\ i = 0 => rx_write'[u] = rx_read'[u]
  BY <1>1, <1>3, <1>7
<1>10. ~uart_rx_full'[u] /\ i = 0 => After(rx_write'[u]) # rx_read'[u]
  <2>1. CASE reset
    BY <1>2, <1>7, <2>1
  <2>2. CASE ~reset
    <3> HAVE ~uart_rx_full'[u] /\ i = 0
    <3>1. After(w) # r
      BY <1>1, <1>7, <2>2
    <3>2. ~Receives(u)
      BY <1>1, <1>7, <2>2
    <3> QED  BY <1>2, <1>3, <1>7, <2>2, <3>1, <3>2
  <2> QED  BY <2>1, <2>2
<1> HIDE DEF w, r
<1> QED  BY <1>6, <1>8, <1>9, <1>10 DEF RxInv
-----------------------------------------------------------------------------
(* Each ring holds its queue.                                               *)

\* A byte sent is put at the end of the queue exactly when it will be committed.
LEMMA SendIsCommitted ==
  ASSUME UartTypeOK, PaceInv, Paced, NEW cpu, NEW reset, Permitted(cpu, reset), Tick(cpu, reset),
         NEW u \in Uarts, TxInv(u)
  PROVE  /\ Commits(u)' <=> Sends(cpu) /\ u = selected_uart /\ ~(uart_tx_full[u] /\ uart_tx_full'[u])
         /\ Sends(cpu) /\ u = selected_uart =>
              ~reset /\ cpu.byte \in Data /\ last_tx_byte_written'[u] = cpu.byte
<1>1. /\ tx_write[u] \in Slots /\ tx_read[u] \in Slots /\ uart_tx_full[u] \in BOOLEAN
      /\ since \in 1 .. AccessGap /\ AccessGap \in Nat /\ AccessGap >= 4
      /\ last_tx_byte_written \in [Uarts -> Data]
  BY TypeParts, UartAssumption DEF Paced
<1>2. Sends(cpu) => cpu.op = "send" /\ cpu # None /\ cpu.byte \in Data /\ since = AccessGap /\ ~reset
  BY AccessParts DEF Sends, Permitted
<1>3. Sends(cpu) => ~Committing
  BY <1>1, <1>2 DEF PaceInv, Committing
<1>4. (tx_byte_written' <=> Sends(cpu)) /\ (Sends(cpu) => selected_uart' = selected_uart)
  BY <1>2, <1>3 DEF Tick, Registers
<1>5. Sends(cpu) /\ uart_tx_full'[u] => uart_tx_full[u]
  <2>1. uart_tx_full'[u] = (~reset /\ After(tx_write[u]) = tx_read[u])
    BY TxTick
  <2> QED  BY <1>1, <1>2, <2>1 DEF TxInv
<1>6. Sends(cpu) /\ u = selected_uart => last_tx_byte_written'[u] = cpu.byte
  BY <1>1, <1>2 DEF Tick, Registers
<1> QED  BY <1>2, <1>4, <1>5, <1>6 DEF Commits, Committing

\* The queue of u once the line driver has the byte it was triggered for: what leaves it
\* at this edge is at most the byte read from the memory, which is its first one.
LeftToSend(u) == IF u \in tx_trigger THEN Tail(tx_queue[u]) ELSE tx_queue[u]

LEMMA LeftToSendIs ==
  ASSUME UartTypeOK, NEW u \in Uarts, TxInv(u), TxHeld(u)
  PROVE  /\ LeftToSend(u) \in Seq(Data)
         /\ Len(LeftToSend(u)) =
              Distance(tx_write[u], tx_read[u]) + Count(Commits(u)) + Count(Starts(u))
         /\ Held(LeftToSend(u), Count(Starts(u)), tx_write[u], tx_read[u], Contents(u, "tx"))
         /\ Commits(u) => LeftToSend(u)[Len(LeftToSend(u))] = last_tx_byte_written[u]
         /\ Starts(u) => LeftToSend(u)[1] = buffer_rdata
<1> DEFINE q == tx_queue[u]
           w == tx_write[u]
           r == tx_read[u]
<1>1. q \in Seq(Data) /\ w \in Slots /\ r \in Slots
  BY TypeParts
<1>2. Distance(w, r) \in Nat /\ Count(Commits(u)) \in 0 .. 1 /\ Count(Starts(u)) \in 0 .. 1
  BY <1>1, DistanceInRing, UartAssumption DEF Count
<1>3. Commits(u) => Count(Commits(u)) = 1
  BY DEF Count
<1>4. CASE u \in tx_trigger
  <2>1. ~Starts(u) /\ Count(Starts(u)) = 0 /\ Count(u \in tx_trigger) = 1 /\ Leaving(u) = 1
    BY <1>4 DEF TxInv, Count, Leaving
  <2>2. Len(q) = Distance(w, r) + Count(Commits(u)) + 1 /\ Held(q, 0 + 1, w, r, Contents(u, "tx"))
    BY <2>1 DEF TxHeld
  <2>3. q # <<>> /\ Len(q) >= 0 + 1 + Distance(w, r) /\ Len(q) \in Nat
    BY <1>1, <1>2, <2>2
  <2>4. /\ Tail(q) \in Seq(Data) /\ Len(Tail(q)) = Len(q) - 1
        /\ \A i \in 1 .. Len(Tail(q)) : Tail(q)[i] = q[i + 1]
    BY <1>1, <2>3, HeadTailProperties
  <2>5. Held(Tail(q), 0, w, r, Contents(u, "tx"))
    BY <1>1, <2>2, <2>3, HeldByTail
  <2>6. Len(Tail(q)) = Distance(w, r) + Count(Commits(u))
    BY <1>2, <2>2, <2>4
  <2> HIDE DEF q, w, r
  <2>7. Commits(u) => Tail(q)[Len(Tail(q))] = q[Len(q)]
    <3> HAVE Commits(u)
    <3>1. Len(Tail(q)) = Distance(w, r) + 1
      BY <1>3, <2>6
    <3>2. Len(Tail(q)) \in 1 .. Len(Tail(q)) /\ Len(Tail(q)) + 1 = Len(q)
      BY <1>2, <2>3, <2>4, <3>1
    <3> QED  BY <2>4, <3>2
  <2>8. LeftToSend(u) = Tail(q)
    BY <1>4 DEF LeftToSend, q
  <2>9. Len(LeftToSend(u)) = Distance(w, r) + Count(Commits(u)) + Count(Starts(u))
    BY <1>2, <2>1, <2>6, <2>8
  <2>10. Commits(u) => q[Len(q)] = last_tx_byte_written[u]
    BY DEF TxHeld, q
  <2> QED  BY <2>1, <2>4, <2>5, <2>7, <2>8, <2>9, <2>10 DEF w, r
<1>5. CASE u \notin tx_trigger
  <2>1. Leaving(u) = Count(Starts(u)) /\ LeftToSend(u) = q
    BY <1>2, <1>5 DEF Leaving, Count, LeftToSend
  <2> QED  BY <1>1, <2>1 DEF TxHeld
<1> QED  BY <1>4, <1>5

\* What is put in the ring or read from it at this edge, against that queue.
LEMMA LeftIsHeld ==
  ASSUME UartTypeOK, PaceInv, NEW cpu, Tick(cpu, FALSE), NEW u \in Uarts, TxInv(u), TxHeld(u)
  PROVE  /\ Len(LeftToSend(u)) = Distance(tx_write'[u], tx_read'[u]) + Leaving(u)'
         /\ Leaving(u)' \in Nat /\ (Starts(u)' \/ u \in tx_trigger' => Leaving(u)' >= 1)
         /\ Held(LeftToSend(u), Leaving(u)', tx_write'[u], tx_read'[u], Contents(u, "tx")')
         /\ Starts(u)' => LeftToSend(u)[1] = buffer_rdata'
         /\ u \in tx_trigger' => LeftToSend(u)[1] = tx_data'[u]
<1> DEFINE q == LeftToSend(u)
           w == tx_write[u]
           r == tx_read[u]
           few == Count(Starts(u))
           bytes == Contents(u, "tx")
<1>1. /\ w \in Slots /\ r \in Slots /\ uart_tx_empty[u] \in BOOLEAN
      /\ last_tx_byte_written[u] \in Data
  BY TypeParts
<1>2. bytes \in [Slots -> Data]
  BY DEF Contents, Stored, UartTypeOK, Places
<1>3. /\ Len(q) = Distance(w, r) + Count(Commits(u)) + few /\ Held(q, few, w, r, bytes)
      /\ Commits(u) => q[Len(q)] = last_tx_byte_written[u]
      /\ Starts(u) => q[1] = buffer_rdata
  BY LeftToSendIs
<1>4. /\ (Starts(u)' <=> Dispatches(u)) /\ (u \in tx_trigger' <=> Starts(u))
      /\ Dispatches(u) => buffer_readaddress' = <<u, "tx", r>>
      /\ tx_write'[u] = (IF Commits(u) THEN After(w) ELSE w)
      /\ tx_read'[u] = (IF Dispatches(u) THEN After(r) ELSE r)
      /\ ram' = Stored
      /\ bytes' = IF Commits(u) THEN [bytes EXCEPT ![w] = last_tx_byte_written[u]] ELSE bytes
      /\ Starts(u) => tx_data'[u] = buffer_rdata
  BY TxTick, ReadPortStep, StoredStep, UartAssumption DEF Tick
<1>5. Leaving(u)' = Count(Dispatches(u)) + few
  BY <1>4 DEF Leaving, Count
<1>6. few \in 0 .. 1 /\ Distance(w, r) \in Nat
  BY <1>1, DistanceInRing, UartAssumption DEF Count
<1>7. u \in tx_trigger' => q[1] = tx_data'[u] /\ few = 1
  BY <1>3, <1>4 DEF Count
<1> HIDE DEF q, w, r, few, bytes
<1>8. CASE Commits(u)
  <2>1. ~Dispatches(u) /\ After(w) # r /\ Count(Commits(u)) = 1 /\ Count(Dispatches(u)) = 0
    BY <1>8, OneUse DEF TxInv, Commits, Committing, Count, w, r
  <2>2. Leaving(u)' = few
    BY <1>5, <1>6, <2>1
  <2>3. Distance(After(w), r) = Distance(w, r) + 1
    BY <1>1, <2>1, DistanceOfMove
  <2>4. Len(q) = few + Distance(w, r) + 1 /\ Len(q) = Distance(After(w), r) + few
    BY <1>3, <1>6, <2>1, <2>3
  <2>5. Held(q, few, After(w), r, [bytes EXCEPT ![w] = last_tx_byte_written[u]])
    <3>1. q[Len(q)] = last_tx_byte_written[u] /\ Len(q) = few + Distance(w, r) + 1
      BY <1>3, <1>8, <2>4
    <3>2. few \in Nat
      BY <1>6
    <3>3. q[few + Distance(w, r) + 1] = last_tx_byte_written[u]
      BY <3>1, Zenon
    <3> QED  BY <1>1, <1>2, <1>3, <2>1, <3>2, <3>3, HeldWithOneMore
  <2>6. tx_write'[u] = After(w) /\ tx_read'[u] = r
    BY <1>4, <1>8, <2>1
  <2> QED  BY <1>4, <1>6, <1>7, <1>8, <2>1, <2>2, <2>4, <2>5, <2>6 DEF q, bytes
<1>9. CASE Dispatches(u)
  <2>1. ~Commits(u) /\ ~Starts(u) /\ w # r
    BY <1>1, <1>9, OneUse DEF Dispatches, TxInv, w, r
  <2>2. few = 0 /\ Count(Commits(u)) = 0 /\ Count(Dispatches(u)) = 1
    BY <1>9, <2>1 DEF Count, few
  <2>3. Leaving(u)' = 1
    BY <1>5, <2>2
  <2>4. /\ q[1] = bytes[r] /\ Held(q, 1, w, After(r), bytes)
        /\ Distance(w, After(r)) = Distance(w, r) - 1
    BY <1>1, <1>3, <2>1, <2>2, HeldWithOneLess, DistanceOfMove
  <2>5. tx_write'[u] = w /\ tx_read'[u] = After(r) /\ bytes' = bytes
    BY <1>4, <1>9, <2>1
  <2>6. Len(q) = Distance(tx_write'[u], tx_read'[u]) + 1
    BY <1>3, <1>6, <2>2, <2>4, <2>5
  <2>7. buffer_rdata' = bytes[r]
    BY <1>1, <1>4, <1>9 DEF bytes, Contents, buffer_rdata
  <2> QED  BY <1>4, <1>7, <2>3, <2>4, <2>5, <2>6, <2>7 DEF q, bytes
<1>10. CASE ~Commits(u) /\ ~Dispatches(u)
  <2>1. Count(Commits(u)) = 0 /\ Count(Dispatches(u)) = 0
    BY <1>10 DEF Count
  <2>2. Leaving(u)' = few /\ Len(q) = Distance(w, r) + few
    BY <1>3, <1>5, <1>6, <2>1
  <2>3. tx_write'[u] = w /\ tx_read'[u] = r /\ bytes' = bytes
    BY <1>4, <1>10
  <2> QED  BY <1>3, <1>4, <1>6, <1>7, <1>10, <2>2, <2>3 DEF q, bytes
<1> QED  BY <1>8, <1>9, <1>10

\* A reset empties the ring; the byte that has left it is still sent.
LEMMA TxHeldByReset ==
  ASSUME UartTypeOK, PaceInv, Paced, NEW cpu, Permitted(cpu, TRUE), Tick(cpu, TRUE),
         NEW u \in Uarts, TxInv(u), TxHeld(u)
  PROVE  TxHeld(u)' /\ tx_queue'[u] \in Seq(Data)
<1> DEFINE left == LeftToSend(u)
           gone == IF InFlight(u) THEN 1 ELSE 0
<1>1. /\ left \in Seq(Data)
      /\ Starts(u) => left[1] = buffer_rdata
      /\ Len(left) = Distance(tx_write[u], tx_read[u]) + Count(Commits(u)) + Count(Starts(u))
      /\ Held(left, Count(Starts(u)), tx_write[u], tx_read[u], Contents(u, "tx"))
  BY LeftToSendIs
<1>2. tx_queue'[u] = SubSeq(left, 1, gone)
  BY DEF Tick, History, LeftToSend
<1>3. /\ tx_write[u] \in Slots /\ tx_read[u] \in Slots /\ uart_tx_empty[u] \in BOOLEAN
      /\ Distance(tx_write[u], tx_read[u]) \in Nat
      /\ (Distance(tx_write[u], tx_read[u]) = 0 <=> tx_write[u] = tx_read[u])
  <2>1. tx_write[u] \in Slots /\ tx_read[u] \in Slots /\ uart_tx_empty[u] \in BOOLEAN
    BY TypeParts
  <2> QED  BY <2>1, DistanceInRing, UartAssumption
<1>4. /\ (Starts(u)' <=> Dispatches(u)) /\ (u \in tx_trigger' <=> Starts(u))
      /\ Dispatches(u) => buffer_readaddress' = <<u, "tx", tx_read[u]>>
      /\ tx_write'[u] = 0 /\ tx_read'[u] = 0 /\ ram' = Stored
      /\ Starts(u) => tx_data'[u] = buffer_rdata
  BY TxTick, ReadPortStep, StoredStep, UartAssumption DEF Tick
<1>5. ~Commits(u)'
  <2>1. cpu = None
    BY DEF Permitted
  <2> QED  BY <2>1 DEF None, Tick, Registers, Sends, Commits, Committing
<1>6. Distance(0, 0) = 0 /\ 0 \in Slots
  BY DistanceInRing, UartAssumption DEF Slots
<1>7. Held(tx_queue[u], Leaving(u), tx_write[u], tx_read[u], Contents(u, "tx"))'
  <2> SUFFICES ASSUME NEW s \in Slots, Distance(s, 0) < 0 PROVE FALSE
    BY <1>4, <1>6 DEF Held
  <2> QED  BY <1>6, DistanceInRing, UartAssumption
<1>8. Dispatches(u) => /\ ~Starts(u) /\ Len(left) >= 1 /\ left[1] = Contents(u, "tx")[tx_read[u]]
  <2> HAVE Dispatches(u)
  <2>1. ~Starts(u) /\ tx_write[u] # tx_read[u] /\ ~Commits(u)
    BY <1>3, OneUse DEF Dispatches, TxInv
  <2>2. Count(Starts(u)) = 0 /\ Count(Commits(u)) = 0
    BY <2>1 DEF Count
  <2>3. left[1] = Contents(u, "tx")[tx_read[u]]
    BY <1>1, <1>3, <2>1, <2>2, HeldWithOneLess
  <2> HIDE DEF left
  <2>4. Len(left) >= 1
    BY <1>1, <1>3, <2>1, <2>2
  <2> QED  BY <2>1, <2>3, <2>4
<1>9. Starts(u) => Len(left) >= 1
  <2> HAVE Starts(u)
  <2>1. Count(Starts(u)) = 1 /\ Count(Commits(u)) \in 0 .. 1
    BY DEF Count
  <2> HIDE DEF left
  <2>2. Len(left) = Distance(tx_write[u], tx_read[u]) + Count(Commits(u)) + 1
    BY <1>1, <2>1
  <2> QED  BY <1>3, <2>1, <2>2
<1>10. CASE InFlight(u)
  <2>1. gone = 1 /\ Len(left) >= 1 /\ Leaving(u)' = 1
    BY <1>4, <1>8, <1>9, <1>10 DEF InFlight, Leaving, Count
  <2> HIDE DEF left, gone
  <2>2. Len(left) \in Nat /\ \A i \in 1 .. gone : left[i] \in Data
    <3>1. Len(left) \in Nat /\ \A i \in 1 .. Len(left) : left[i] \in Data
      BY <1>1, LenProperties, ElementOfSeq
    <3> QED  BY <2>1, <3>1
  <2>3. /\ SubSeq(left, 1, 1) \in Seq(Data) /\ Len(SubSeq(left, 1, 1)) = 1
        /\ SubSeq(left, 1, 1)[1] = left[1]
    <3>1. \A i \in 1 .. 1 - 1 + 1 : SubSeq(left, 1, 1)[i] = left[1 + i - 1]
      BY <2>1, <2>2, SubSeqProperties
    <3>2. 1 \in 1 .. 1 - 1 + 1 /\ 1 + 1 - 1 = 1
      OBVIOUS
    <3> QED  BY <2>1, <2>2, <3>1, <3>2, SubSeqProperties
  <2>4. tx_queue'[u] = SubSeq(left, 1, 1)
    BY <1>2, <2>1
  <2>5. Starts(u)' => tx_queue'[u][1] = buffer_rdata'
    BY <1>3, <1>4, <1>8, <2>3, <2>4 DEF Contents, buffer_rdata
  <2>6. u \in tx_trigger' => tx_queue'[u][1] = tx_data'[u]
    <3> HAVE u \in tx_trigger'
    <3>1. Starts(u)
      BY <1>4
    <3>2. left[1] = buffer_rdata /\ tx_data'[u] = buffer_rdata
      BY <1>1, <1>4, <3>1
    <3> QED  BY <2>3, <2>4, <3>2
  <2>7. Len(tx_queue'[u]) = Distance(tx_write'[u], tx_read'[u]) + Count(Commits(u)') + Leaving(u)'
    BY <1>4, <1>5, <1>6, <2>1, <2>3, <2>4 DEF Count
  <2> QED  BY <1>5, <1>7, <2>3, <2>4, <2>5, <2>6, <2>7 DEF TxHeld
<1>11. CASE ~InFlight(u)
  <2>1. gone = 0 /\ ~Starts(u)' /\ u \notin tx_trigger' /\ Leaving(u)' = 0
    BY <1>4, <1>11 DEF InFlight, Leaving, Count
  <2>2. SubSeq(left, 1, 0) = <<>>
    BY SubSeqEmpty
  <2>3. tx_queue'[u] = <<>> /\ <<>> \in Seq(Data) /\ Len(<<>>) = 0
    BY <1>2, <2>1, <2>2, EmptySeq
  <2>4. Len(tx_queue'[u]) = Distance(tx_write'[u], tx_read'[u]) + Count(Commits(u)') + Leaving(u)'
    BY <1>4, <1>5, <1>6, <2>1, <2>3 DEF Count
  <2> QED  BY <1>5, <1>7, <2>1, <2>3, <2>4 DEF TxHeld
<1> QED  BY <1>10, <1>11

LEMMA TxHeldByTick ==
  ASSUME UartTypeOK, PaceInv, Paced, NEW cpu, Permitted(cpu, FALSE), Tick(cpu, FALSE),
         NEW u \in Uarts, TxInv(u), TxHeld(u)
  PROVE  TxHeld(u)' /\ tx_queue'[u] \in Seq(Data)
<1> DEFINE left == LeftToSend(u)
           few == Leaving(u)'
           room == Distance(tx_write'[u], tx_read'[u])
           bytes == Contents(u, "tx")'
<1>1. left \in Seq(Data)
  BY LeftToSendIs
<1>2. /\ Len(left) = room + few
      /\ Held(left, few, tx_write'[u], tx_read'[u], bytes)
      /\ Starts(u)' => left[1] = buffer_rdata'
      /\ u \in tx_trigger' => left[1] = tx_data'[u]
      /\ few \in Nat
      /\ Starts(u)' \/ u \in tx_trigger' => few >= 1
  BY LeftIsHeld
<1>3. tx_write'[u] \in Slots /\ tx_read'[u] \in Slots
  <2>1. tx_write[u] \in Slots /\ tx_read[u] \in Slots
    BY TypeParts
  <2>2. After(tx_write[u]) \in Slots /\ After(tx_read[u]) \in Slots
    BY <2>1, AfterIsSlot
  <2> QED  BY <2>1, <2>2, TxTick
<1>4. room \in Nat
  BY <1>3, DistanceInRing, UartAssumption
<1>5. /\ Commits(u)' <=> Sends(cpu) /\ u = selected_uart /\ ~(uart_tx_full[u] /\ uart_tx_full'[u])
      /\ Sends(cpu) /\ u = selected_uart => cpu.byte \in Data /\ last_tx_byte_written'[u] = cpu.byte
  BY SendIsCommitted
<1>6. tx_queue'[u] = IF Sends(cpu) /\ u = selected_uart /\ ~(uart_tx_full[u] /\ uart_tx_full'[u])
                       THEN Append(left, cpu.byte) ELSE left
  BY DEF Tick, History, LeftToSend
<1>7. Held(tx_queue[u], Leaving(u), tx_write[u], tx_read[u], Contents(u, "tx"))'
        <=> Held(tx_queue'[u], few, tx_write'[u], tx_read'[u], bytes)
  BY DEF Held
<1> HIDE DEF left, few, room, bytes
<1>8. CASE Commits(u)'
  <2>1. /\ tx_queue'[u] = Append(left, cpu.byte) /\ cpu.byte \in Data
        /\ last_tx_byte_written'[u] = cpu.byte
    BY <1>5, <1>6, <1>8
  <2>2. /\ Append(left, cpu.byte) \in Seq(Data) /\ Len(Append(left, cpu.byte)) = Len(left) + 1
        /\ Append(left, cpu.byte)[Len(left) + 1] = cpu.byte
        /\ \A i \in 1 .. Len(left) : Append(left, cpu.byte)[i] = left[i]
    BY <1>1, <2>1, AppendProperties
  <2>3. Held(tx_queue'[u], few, tx_write'[u], tx_read'[u], bytes)
    <3>1. Len(left) >= few + Distance(tx_write'[u], tx_read'[u])
      BY <1>2, <1>4 DEF room
    <3> QED  BY <1>1, <1>2, <1>3, <2>1, <3>1, HeldByAppend
  <2>4. Starts(u)' \/ u \in tx_trigger' => tx_queue'[u][1] = left[1]
    <3> HAVE Starts(u)' \/ u \in tx_trigger'
    <3>1. 1 \in 1 .. Len(left)
      BY <1>2, <1>4
    <3> QED  BY <2>1, <2>2, <3>1
  <2>5. Count(Commits(u)') = 1
    BY <1>8 DEF Count
  <2>6. Len(tx_queue'[u]) = room + Count(Commits(u)') + few
    <3>1. Len(tx_queue'[u]) = Len(left) + 1
      BY <2>1, <2>2
    <3> QED  BY <1>2, <1>4, <2>5, <3>1
  <2>7. tx_queue'[u][Len(tx_queue'[u])] = last_tx_byte_written'[u]
    BY <2>1, <2>2
  <2> QED  BY <1>2, <1>7, <2>1, <2>2, <2>3, <2>4, <2>6, <2>7 DEF TxHeld, room, few
<1>9. CASE ~Commits(u)'
  <2>1. tx_queue'[u] = left
    BY <1>5, <1>6, <1>9
  <2>2. Count(Commits(u)') = 0
    BY <1>9 DEF Count
  <2>3. Len(tx_queue'[u]) = room + Count(Commits(u)') + few
    BY <1>2, <1>4, <2>1, <2>2
  <2> QED  BY <1>1, <1>2, <1>7, <1>9, <2>1, <2>3 DEF TxHeld, room, few
<1> QED  BY <1>8, <1>9

\* A byte that has come in, and one the CPU is done with, leave the ring holding its queue.
LEMMA RxHeldStep ==
  ASSUME UartTypeOK, PaceInv, Paced, NEW cpu, NEW reset, Permitted(cpu, reset), Tick(cpu, reset),
         NEW u \in Uarts, RxInv(u), RxHeld(u)
  PROVE  RxHeld(u)' /\ rx_queue'[u] \in Seq(Data)
<1> DEFINE q == rx_queue[u]
           w == rx_write[u]
           r == rx_read[u]
           bytes == Contents(u, "rx")
           left == IF Advances(cpu, u) THEN Tail(q) ELSE q
           next == IF Advances(cpu, u) THEN After(r) ELSE r
<1>1. /\ w \in Slots /\ r \in Slots /\ q \in Seq(Data) /\ uart_rx_empty[u] \in BOOLEAN
      /\ rx_data[u] \in Data
  BY TypeParts
<1>2. bytes \in [Slots -> Data]
  BY DEF Contents, Stored, UartTypeOK, Places
<1>3. Len(q) = Distance(w, r) /\ Held(q, 0, w, r, bytes)
  BY DEF RxHeld
<1>4. Advances(cpu, u) => w # r
  <2> HAVE Advances(cpu, u)
  <2>1. cpu # None /\ since = AccessGap /\ AccessGap \in Nat /\ AccessGap >= 4
    BY AccessParts, UartAssumption DEF Advances, Permitted, Paced
  <2> QED  BY <2>1 DEF RxInv, Advances
<1>5. /\ left \in Seq(Data) /\ Len(left) = Distance(w, next) /\ next \in Slots
      /\ Held(left, 0, w, next, bytes)
  <2>1. CASE Advances(cpu, u)
    <3>1. /\ Held(q, 0 + 1, w, After(r), bytes) /\ Distance(w, After(r)) = Distance(w, r) - 1
          /\ Distance(w, r) \in Nat \ {0} /\ After(r) \in Slots
      <4> HIDE DEF q, w, r, bytes
      <4>1. w # r /\ Held(q, 1, w, After(r), bytes)
        BY <1>1, <1>3, <1>4, <2>1, HeldWithOneLess
      <4>2. Distance(w, After(r)) = Distance(w, r) - 1 /\ After(r) \in Slots
        BY <1>1, <4>1, DistanceOfMove, AfterIsSlot
      <4>3. Distance(w, r) \in Nat \ {0}
        BY <1>1, <4>1, DistanceInRing, UartAssumption
      <4> QED  BY <4>1, <4>2, <4>3
    <3>2. q # <<>> /\ Len(q) >= 0 + 1 + Distance(w, After(r))
      BY <1>1, <1>3, <3>1
    <3>3. Tail(q) \in Seq(Data) /\ Len(Tail(q)) = Len(q) - 1
      BY <1>1, <3>2, HeadTailProperties
    <3>4. Held(Tail(q), 0, w, After(r), bytes)
      BY <1>1, <3>1, <3>2, HeldByTail
    <3> QED  BY <1>3, <2>1, <3>1, <3>3, <3>4
  <2>2. CASE ~Advances(cpu, u)
    BY <1>1, <1>3, <2>2
  <2> QED  BY <2>1, <2>2
<1>6. /\ rx_write'[u] = IF reset THEN 0 ELSE IF Receives(u) THEN After(w) ELSE w
      /\ rx_read'[u] = IF reset THEN 0 ELSE next
  BY RxTick
<1>7. rx_queue'[u] = IF reset THEN <<>> ELSE IF Receives(u) THEN Append(left, rx_data[u]) ELSE left
  BY DEF Tick, History
<1>8. bytes' = IF Receives(u) THEN [bytes EXCEPT ![w] = rx_data[u]] ELSE bytes
  BY StoredStep DEF Tick
<1>9. Receives(u) => After(w) # next
  <2> HAVE Receives(u)
  <2>1. After(w) # r
    BY DEF Receives, RxInv
  <2>2. After(w) = After(r) => w = r
    BY <1>1, AfterTellsApart
  <2> QED  BY <1>4, <2>1, <2>2
<1>10. Held(rx_queue[u], 0, rx_write[u], rx_read[u], Contents(u, "rx"))'
         <=> Held(rx_queue'[u], 0, rx_write'[u], rx_read'[u], bytes')
  BY DEF Held
<1>11. reset \in BOOLEAN
  BY UartAssumption DEF Permitted
<1> HIDE DEF q, w, r, bytes, left, next
<1>12. CASE reset
  <2>1. Distance(0, 0) = 0 /\ 0 \in Slots
    BY DistanceInRing, UartAssumption DEF Slots
  <2>2. rx_queue'[u] = <<>> /\ <<>> \in Seq(Data) /\ Len(<<>>) = 0
    BY <1>7, <1>12, EmptySeq
  <2>3. Held(rx_queue'[u], 0, 0, 0, bytes')
    <3> SUFFICES ASSUME NEW s \in Slots, Distance(s, 0) < 0 PROVE FALSE
      BY <2>1 DEF Held
    <3> QED  BY <2>1, DistanceInRing, UartAssumption
  <2>4. rx_write'[u] = 0 /\ rx_read'[u] = 0
    BY <1>6, <1>12
  <2> QED  BY <1>10, <2>1, <2>2, <2>3, <2>4 DEF RxHeld
<1>13. CASE ~reset /\ Receives(u)
  <2>1. /\ rx_queue'[u] = Append(left, rx_data[u]) /\ rx_write'[u] = After(w) /\ rx_read'[u] = next
        /\ bytes' = [bytes EXCEPT ![w] = rx_data[u]]
    BY <1>6, <1>7, <1>8, <1>13
  <2>2. /\ Append(left, rx_data[u]) \in Seq(Data) /\ Len(Append(left, rx_data[u])) = Len(left) + 1
        /\ Append(left, rx_data[u])[Len(left) + 1] = rx_data[u]
    BY <1>1, <1>5, AppendProperties
  <2>3. Distance(After(w), next) = Distance(w, next) + 1 /\ Distance(w, next) \in Nat
    BY <1>1, <1>5, <1>9, <1>13, DistanceOfMove, DistanceInRing, UartAssumption
  <2>4. Held(Append(left, rx_data[u]), 0, w, next, bytes)
    <3>1. Len(left) >= 0 + Distance(w, next)
      BY <1>5, <2>3
    <3> QED  BY <1>1, <1>5, <3>1, HeldByAppend
  <2>5. Append(left, rx_data[u])[0 + Distance(w, next) + 1] = rx_data[u]
    <3>1. 0 + Distance(w, next) + 1 = Len(left) + 1
      BY <1>5, <2>3
    <3> QED  BY <2>2, <3>1
  <2>6. Held(Append(left, rx_data[u]), 0, After(w), next, [bytes EXCEPT ![w] = rx_data[u]])
    BY <1>1, <1>2, <1>5, <1>9, <1>13, <2>4, <2>5, HeldWithOneMore
  <2>7. Len(rx_queue'[u]) = Distance(rx_write'[u], rx_read'[u])
    BY <1>5, <2>1, <2>2, <2>3
  <2> QED  BY <1>10, <2>1, <2>2, <2>6, <2>7 DEF RxHeld
<1>14. CASE ~reset /\ ~Receives(u)
  <2>1. rx_queue'[u] = left /\ rx_write'[u] = w /\ rx_read'[u] = next /\ bytes' = bytes
    BY <1>6, <1>7, <1>8, <1>14
  <2> QED  BY <1>5, <1>10, <2>1 DEF RxHeld
<1> QED  BY <1>11, <1>12, <1>13, <1>14
-----------------------------------------------------------------------------
(* The types, and the invariant as a whole.                                 *)

LEMMA TypeStep ==
  ASSUME UartTypeOK, PaceInv, NEW cpu, NEW reset, Permitted(cpu, reset), Tick(cpu, reset),
         \A u \in Uarts : tx_queue'[u] \in Seq(Data) /\ rx_queue'[u] \in Seq(Data)
  PROVE  UartTypeOK'
<1>1. reset \in BOOLEAN /\ Inhibit \in Nat /\ 0 \in Slots /\ Turn \in [Uarts -> Uarts]
  BY UartAssumption DEF Permitted, Slots
<1>2. {selected_uart', last_selected_uart'} \subseteq Uarts \cup {NoUart}
  BY TypeParts, AccessParts, UartAssumption DEF Permitted, Tick, Registers
<1>3. tx_byte_written' \in BOOLEAN /\ rx_byte_stale' \in BOOLEAN /\ collided' \in BOOLEAN
  BY DEF Tick, Registers, History
<1>4. cycled_uart_id' \in Uarts
  BY <1>1 DEF Tick, Rotation, UartTypeOK
<1>5. since' \in 1 .. AccessGap
  BY UartAssumption DEF Tick, Registers, UartTypeOK
<1>6. buffer_rdata \in Data
  BY DEF UartTypeOK, buffer_rdata
<1>7. {last_tx_byte_written', rx_data_for_reading', tx_data', rx_data'} \subseteq [Uarts -> Data]
  <2>1. last_tx_byte_written' \in [Uarts -> Data]
    BY TypeParts, AccessParts DEF Permitted, Tick, Registers, Sends
  <2>2. rx_data_for_reading' \in [Uarts -> Data]
    <3>1. \A u \in Uarts : rx_data_for_reading[u] \in Data /\ rx_data[u] \in Data
      BY TypeParts
    <3> QED  BY <1>6, <3>1 DEF Tick, ShownByte
  <2>3. tx_data' \in [Uarts -> Data]
    <3>1. \A u \in Uarts : tx_data[u] \in Data
      BY TypeParts
    <3> QED  BY <1>6, <3>1 DEF Tick, Pins
  <2>4. rx_data' \in [Uarts -> Data]
    BY DEF Tick, Lines
  <2> QED  BY <2>1, <2>2, <2>3, <2>4
<1>8. ASSUME NEW p, p \in [Uarts -> Slots], NEW moving
      PROVE  Moved(p, moving, reset) \in [Uarts -> Slots]
  <2>1. \A u \in Uarts : p[u] \in Slots /\ After(p[u]) \in Slots
    BY <1>8, AfterIsSlot
  <2> QED  BY <1>1, <2>1 DEF Moved
<1>9. {uart_rx_buffer_pointer_write', uart_rx_buffer_pointer_read',
       uart_tx_buffer_pointer_write', uart_tx_buffer_pointer_read'} \subseteq [Uarts -> Slots]
  <2>1. /\ uart_rx_buffer_pointer_write \in [Uarts -> Slots]
        /\ uart_rx_buffer_pointer_read \in [Uarts -> Slots]
        /\ uart_tx_buffer_pointer_write \in [Uarts -> Slots]
        /\ uart_tx_buffer_pointer_read \in [Uarts -> Slots]
    BY TypeParts DEF rx_write, rx_read, tx_write, tx_read
  <2>2. /\ Moved(uart_rx_buffer_pointer_write, Received, reset) \in [Uarts -> Slots]
        /\ Moved(uart_rx_buffer_pointer_read, Advanced(cpu), reset) \in [Uarts -> Slots]
        /\ Moved(uart_tx_buffer_pointer_write, Committed, reset) \in [Uarts -> Slots]
        /\ Moved(uart_tx_buffer_pointer_read, Dispatched, reset) \in [Uarts -> Slots]
    BY <1>8, <2>1
  <2> QED  BY <2>2 DEF Tick, Pointers
<1>10. {uart_rx_empty', uart_rx_full', uart_tx_empty', uart_tx_full', tx_ready', rx_ready'}
         \subseteq [Uarts -> BOOLEAN]
  <2>1. /\ uart_rx_empty' \in [Uarts -> BOOLEAN] /\ uart_rx_full' \in [Uarts -> BOOLEAN]
        /\ uart_tx_empty' \in [Uarts -> BOOLEAN] /\ uart_tx_full' \in [Uarts -> BOOLEAN]
    BY <1>1 DEF Tick, Flags, SamePlace, OneBehind
  <2>2. tx_ready' \in [Uarts -> BOOLEAN] /\ rx_ready' \in [Uarts -> BOOLEAN]
    BY DEF Tick, Lines
  <2> QED  BY <2>1, <2>2
<1>11. {tx_inhibit', rx_inhibit'} \subseteq [Uarts -> 0 .. Inhibit]
  <2>1. ASSUME NEW i \in [Uarts -> 0 .. Inhibit], NEW served
        PROVE  Counted(i, served, reset) \in [Uarts -> 0 .. Inhibit]
    BY <1>1 DEF Counted
  <2>2. tx_inhibit \in [Uarts -> 0 .. Inhibit] /\ rx_inhibit \in [Uarts -> 0 .. Inhibit]
    BY TypeParts
  <2>3. /\ Counted(tx_inhibit, Dispatched, reset) \in [Uarts -> 0 .. Inhibit]
        /\ Counted(rx_inhibit, Received, reset) \in [Uarts -> 0 .. Inhibit]
    BY <2>1, <2>2
  <2> QED  BY <2>3 DEF Tick, Rotation
<1>12. read_target' \in Targets \cup {Nothing} /\ buffer_readaddress' \in Places
  <2>1. \A u \in Uarts : tx_read[u] \in Slots /\ rx_read[u] \in Slots
    BY TypeParts
  <2>2. selected_uart # NoUart => selected_uart \in Uarts
    BY TypeParts
  <2>3. buffer_readaddress \in Places
    BY DEF UartTypeOK
  <2> QED  BY <2>1, <2>2, <2>3 DEF Tick, ReadPort, Targets, Places, Nothing, tx_read, rx_read
<1>13. ram' \in [Places -> Data] /\ buffer_write' \in (Places \X Data) \cup {Nothing}
  <2>1. ram' \in [Places -> Data]
    BY DEF Tick, WritePort, UartTypeOK
  <2>2. \A u \in Uarts : /\ tx_write[u] \in Slots /\ rx_write[u] \in Slots
                          /\ last_tx_byte_written[u] \in Data /\ rx_data[u] \in Data
    BY TypeParts
  <2>3. buffer_write' \in (Places \X Data) \cup {Nothing}
    BY <2>2 DEF Tick, WritePort, Places, tx_write, rx_write
  <2> QED  BY <2>1, <2>3
<1>14. tx_trigger' \in SUBSET Uarts /\ rx_acknowledge' \in SUBSET Uarts
  BY DEF Tick, Pins, Received
<1>15. {tx_queue', rx_queue'} \subseteq [Uarts -> Seq(Data)]
  <2> DEFINE sent == tx_queue'
             received == rx_queue'
  <2>1. sent = [u \in Uarts |-> sent[u]] /\ received = [u \in Uarts |-> received[u]]
    BY DEF Tick, History
  <2>2. \A u \in Uarts : sent[u] \in Seq(Data) /\ received[u] \in Seq(Data)
    OBVIOUS
  <2> HIDE DEF sent, received
  <2>3. sent \in [Uarts -> Seq(Data)] /\ received \in [Uarts -> Seq(Data)]
    BY <2>1, <2>2
  <2> QED  BY <2>3 DEF sent, received
<1> QED  BY <1>2, <1>3, <1>4, <1>5, <1>7, <1>9, <1>10, <1>11, <1>12, <1>13, <1>14, <1>15 DEF UartTypeOK

LEMMA RingInvInit == ASSUME Init, Paced PROVE RingInv
<1> USE DEF Init, Each
<1>1. UartTypeOK
  <2>1. /\ 0 \in Slots /\ Inhibit \in Nat /\ First \in Uarts /\ Unset \in Data
        /\ AccessGap \in 1 .. AccessGap /\ <<>> \in Seq(Data)
    BY UartAssumption, EmptySeq DEF Slots
  <2>2. /\ [u \in Uarts |-> 0] \in [Uarts -> Slots] /\ [u \in Uarts |-> 0] \in [Uarts -> 0 .. Inhibit]
        /\ [u \in Uarts |-> Unset] \in [Uarts -> Data]
        /\ [u \in Uarts |-> TRUE] \in [Uarts -> BOOLEAN] /\ [u \in Uarts |-> FALSE] \in [Uarts -> BOOLEAN]
        /\ [p \in Places |-> Unset] \in [Places -> Data] /\ <<First, "rx", 0>> \in Places
    BY <2>1 DEF Places
  <2>3. [u \in Uarts |-> <<>>] \in [Uarts -> Seq(Data)]
    BY <2>1
  <2> QED  BY <2>1, <2>2, <2>3 DEF UartTypeOK
<1>2. PaceInv
  BY DEF PaceInv
<1>3. ASSUME NEW u \in Uarts PROVE TxInv(u) /\ RxInv(u) /\ TxHeld(u) /\ RxHeld(u)
  <2>1. 0 \in Slots /\ Distance(0, 0) = 0 /\ After(0) # 0
    BY UartAssumption, DistanceInRing, AfterTellsApart DEF Slots
  <2>2. ~Starts(u) /\ ~Commits(u) /\ u \notin tx_trigger
    BY DEF Starts, Nothing, Commits, Committing
  <2>3. Leaving(u) = 0 /\ Count(Commits(u)) = 0
    BY <2>2 DEF Leaving, Count
  <2>4. \A s \in Slots : ~(Distance(s, 0) < 0)
    BY <2>1, DistanceInRing, UartAssumption
  <2>5. TxInv(u) /\ RxInv(u)
    BY <2>1, <2>2 DEF TxInv, RxInv, tx_write, tx_read, rx_write, rx_read
  <2>6. Len(<<>>) = 0
    BY EmptySeq
  <2>7. TxHeld(u) /\ RxHeld(u)
    BY <2>1, <2>2, <2>3, <2>4, <2>6 DEF TxHeld, RxHeld, Held, tx_write, tx_read, rx_write, rx_read
  <2> QED  BY <2>5, <2>7
<1> QED  BY <1>1, <1>2, <1>3 DEF RingInv

LEMMA RingInvStep == ASSUME RingInv, Paced, [Next]_vars PROVE RingInv'
<1>1. CASE Next
  <2> PICK cpu \in Accesses \cup {None}, reset \in Resets :
        Permitted(cpu, reset) /\ Tick(cpu, reset)
    BY <1>1 DEF Next, Permitted
  <2> UartTypeOK /\ PaceInv
    BY DEF RingInv
  <2>1. PaceInv'
    BY PaceStep
  <2>2. ASSUME NEW u \in Uarts
        PROVE  /\ TxInv(u)' /\ RxInv(u)' /\ TxHeld(u)' /\ RxHeld(u)'
               /\ tx_queue'[u] \in Seq(Data) /\ rx_queue'[u] \in Seq(Data)
    <3> TxInv(u) /\ RxInv(u) /\ TxHeld(u) /\ RxHeld(u)
      BY DEF RingInv
    <3>1. TxInv(u)' /\ RxInv(u)'
      BY TxStep, RxStep
    <3>2. RxHeld(u)' /\ rx_queue'[u] \in Seq(Data)
      BY RxHeldStep
    <3>3. TxHeld(u)' /\ tx_queue'[u] \in Seq(Data)
      <4>1. reset = TRUE \/ reset = FALSE
        BY UartAssumption
      <4> QED  BY <4>1, TxHeldByReset, TxHeldByTick
    <3> QED  BY <3>1, <3>2, <3>3
  <2>3. UartTypeOK'
    BY <2>2, TypeStep
  <2> QED  BY <2>1, <2>2, <2>3 DEF RingInv
<1>2. CASE UNCHANGED vars
  <2>1. UartTypeOK' /\ PaceInv'
    BY <1>2 DEF RingInv, UartTypeOK, PaceInv, vars, cpuSide, pointers, flags, memory, polling, lines, history
  <2>2. ASSUME NEW u \in Uarts PROVE (TxInv(u) /\ RxInv(u))' /\ (TxHeld(u) /\ RxHeld(u))'
    <3>1. (TxInv(u) /\ RxInv(u))'
      BY <1>2 DEF RingInv, TxInv, RxInv, Starts, tx_write, tx_read, rx_write, rx_read,
                  vars, cpuSide, pointers, flags, memory, polling, lines, history
    <3>2. (TxHeld(u) /\ RxHeld(u))'
      BY <1>2 DEF RingInv, TxHeld, RxHeld, Held, Contents, Stored, Leaving, Commits, Committing, Starts,
                  buffer_rdata, tx_write, tx_read, rx_write, rx_read,
                  vars, cpuSide, pointers, flags, memory, polling, lines, history
    <3> QED  BY <3>1, <3>2
  <2> QED  BY <2>1, <2>2 DEF RingInv
<1> QED  BY <1>1, <1>2

\* Every state reached has its types, right flags where they count, and rings that hold
\* their queues.
THEOREM RingsAreKept == ASSUME Paced PROVE Spec => []RingInv
<1>1. Init => RingInv
  BY RingInvInit
<1>2. RingInv /\ [Next]_vars => RingInv'
  BY RingInvStep
<1> QED  BY <1>1, <1>2, PTL DEF Spec
-----------------------------------------------------------------------------
(* What the runs check of the rings.                                        *)

\* The registers, rings and lines have their types, for any number of UARTs.
THEOREM UartTypeCorrect == ASSUME Paced PROVE Spec => []UartTypeOK
<1>1. RingInv => UartTypeOK
  BY DEF RingInv
<1> QED  BY <1>1, RingsAreKept, PTL

\* The pointers account for every byte: a byte put in a ring whose lagging flag still says
\* that there is room never laps the one that is read.
THEOREM UartRingsHoldTheirQueues == ASSUME Paced PROVE Spec => []RingsHoldTheirQueues
<1>1. RingInv => RingsHoldTheirQueues
  <2> SUFFICES ASSUME RingInv, NEW u \in Uarts
               PROVE  /\ Len(rx_queue[u]) = Distance(rx_write[u], rx_read[u])
                      /\ Len(tx_queue[u]) = Distance(tx_write[u], tx_read[u]) + Count(Commits(u))
                                              + Count(Starts(u)) + Count(u \in tx_trigger)
    BY DEF RingsHoldTheirQueues, rx_write, rx_read, tx_write, tx_read
  <2>1. tx_write[u] \in Slots /\ tx_read[u] \in Slots
    BY TypeParts DEF RingInv
  <2>2. Distance(tx_write[u], tx_read[u]) \in Nat
    BY <2>1, DistanceInRing, UartAssumption
  <2>3. Count(Commits(u)) \in Nat /\ Count(Starts(u)) \in Nat /\ Count(u \in tx_trigger) \in Nat
    BY DEF Count
  <2>4. Len(tx_queue[u]) = Distance(tx_write[u], tx_read[u]) + Count(Commits(u))
                             + (Count(Starts(u)) + Count(u \in tx_trigger))
    BY DEF RingInv, TxHeld, Leaving
  <2>5. Len(rx_queue[u]) = Distance(rx_write[u], rx_read[u])
    BY DEF RingInv, RxHeld
  <2> QED  BY <2>2, <2>3, <2>4, <2>5
<1> QED  BY <1>1, RingsAreKept, PTL

\* The line driver of a UART is triggered only when it is ready, and then with the first
\* byte of those written to it that it has not sent.
THEOREM UartSendsInOrder == ASSUME Paced PROVE Spec => []SentInOrder
<1>1. RingInv => SentInOrder
  <2> SUFFICES ASSUME RingInv, NEW u \in Uarts, u \in tx_trigger
               PROVE  tx_ready[u] /\ tx_queue[u] # <<>> /\ tx_data[u] = Head(tx_queue[u])
    BY DEF SentInOrder, RingInv, UartTypeOK
  <2>1. tx_ready[u] /\ tx_data[u] = tx_queue[u][1]
    BY DEF RingInv, TxInv, TxHeld
  <2>2. tx_queue[u] \in Seq(Data)
    BY TypeParts DEF RingInv
  <2>3. Len(tx_queue[u]) >= 1
    <3>1. tx_write[u] \in Slots /\ tx_read[u] \in Slots
      BY TypeParts DEF RingInv
    <3>2. Distance(tx_write[u], tx_read[u]) \in Nat /\ Count(Commits(u)) \in Nat
      BY <3>1, DistanceInRing, UartAssumption DEF Count
    <3>3. Leaving(u) \in Nat \ {0}
      BY DEF Leaving, Count
    <3>4. Len(tx_queue[u]) = Distance(tx_write[u], tx_read[u]) + Count(Commits(u)) + Leaving(u)
      BY DEF RingInv, TxHeld
    <3> QED  BY <3>2, <3>3, <3>4
  <2>4. tx_queue[u] # <<>>
    BY <2>3, EmptySeq
  <2> QED  BY <2>1, <2>2, <2>4
<1> QED  BY <1>1, RingsAreKept, PTL
=============================================================================
