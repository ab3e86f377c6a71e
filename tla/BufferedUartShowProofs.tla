----------------------- MODULE BufferedUartShowProofs -----------------------
(* Proofs of what $D0E2 reads, on the invariant of the rings: the byte shown follows the
   first byte of the ring through selections, acknowledgements and arrivals, but for the
   one collision of an arrival with a read of the memory.                            *)
EXTENDS BufferedUartProofs

\* The byte shown is still being looked for.
Settling ==
  \/ rx_byte_stale \/ last_selected_uart # selected_uart
  \/ read_target = <<selected_uart, "rx">>

\* What is shown of u, or is being read to be shown, is its first byte.  While its byte
\* is stale and its ring was empty one tick ago, only a byte that has just come in can
\* be in it, and that one is shown already.
ShowInv(u) ==
  /\ Shows(u) => since \in 2 .. 3 /\ u = selected_uart /\ ~rx_byte_stale
  /\ Shows(u) /\ rx_queue[u] # <<>> => buffer_rdata = Head(rx_queue[u])
  /\ u = selected_uart /\ ~Settling /\ ~collided /\ rx_queue[u] # <<>> =>
       rx_data_for_reading[u] = Head(rx_queue[u])
  /\ u = selected_uart /\ rx_byte_stale /\ uart_rx_empty[u] /\ rx_queue[u] # <<>> =>
       rx_data_for_reading[u] = Head(rx_queue[u])

DisplayInv == RingInv /\ \A u \in Uarts : ShowInv(u)
-----------------------------------------------------------------------------
\* A ring whose pointers meet has nothing in its queue.
LEMMA EmptyRing ==
  ASSUME RingInv, NEW u \in Uarts
  PROVE  (rx_queue[u] = <<>>) <=> (rx_write[u] = rx_read[u])
<1>1. rx_write[u] \in Slots /\ rx_read[u] \in Slots /\ rx_queue[u] \in Seq(Data)
  BY TypeParts DEF RingInv
<1>2. Len(rx_queue[u]) = Distance(rx_write[u], rx_read[u])
  BY DEF RingInv, RxHeld
<1>3. Distance(rx_write[u], rx_read[u]) = 0 <=> rx_write[u] = rx_read[u]
  BY <1>1, DistanceInRing
<1>4. Len(rx_queue[u]) = 0 <=> rx_queue[u] = <<>>
  BY <1>1, EmptySeq
<1> QED  BY <1>2, <1>3, <1>4

\* The empty flag is right when a byte comes in, and when the CPU is done with one.
LEMMA EmptyFlag ==
  ASSUME RingInv, Paced, NEW u \in Uarts, ~rx_byte_stale
  PROVE  /\ Receives(u) => (uart_rx_empty[u] <=> rx_queue[u] = <<>>)
         /\ ~uart_rx_empty[u] => rx_queue[u] # <<>>
<1>1. uart_rx_empty[u] \in BOOLEAN
  BY TypeParts DEF RingInv
<1>2. RxInv(u) /\ ((rx_queue[u] = <<>>) <=> (rx_write[u] = rx_read[u]))
  BY EmptyRing DEF RingInv
<1> QED  BY <1>1, <1>2 DEF RxInv, Receives

\* What a tick does to the byte shown and to its queue.
LEMMA ShowTick ==
  ASSUME RingInv, Paced, NEW cpu, NEW reset, Permitted(cpu, reset), Tick(cpu, reset),
         NEW u \in Uarts, \A v \in Uarts : ShowInv(v)
  PROVE  /\ Shows(u)' <=> (Refreshing /\ u = selected_uart /\ ~uart_rx_empty[u])
         /\ Shows(u)' => buffer_readaddress' = <<u, "rx", rx_read[u]>>
         /\ rx_data_for_reading'[u] =
              IF Shows(u) THEN buffer_rdata
              ELSE IF Receives(u) /\ uart_rx_empty[u] THEN rx_data[u] ELSE rx_data_for_reading[u]
         /\ reset => rx_queue'[u] = <<>>
         /\ ~reset /\ ~Advances(cpu, u) =>
              rx_queue'[u] = IF Receives(u) THEN Append(rx_queue[u], rx_data[u]) ELSE rx_queue[u]
         /\ rx_queue[u] \in Seq(Data) /\ rx_data[u] \in Data
         /\ last_selected_uart' = selected_uart
         /\ Refreshing => /\ cpu = None /\ since' \in 2 .. 3 /\ ~rx_byte_stale' /\ ~Advances(cpu, u)
                          /\ selected_uart' = selected_uart /\ since <= 2
         /\ ~Refreshing => ~rx_byte_stale
         /\ ~Refreshing /\ last_selected_uart # selected_uart => rx_byte_stale'
         /\ Advances(cpu, u) => rx_byte_stale'
<1>1. /\ UartTypeOK /\ PaceInv /\ Registers(cpu) /\ ReadPort /\ ShownByte /\ History(cpu, reset)
      /\ NoUart \notin Uarts /\ since \in 1 .. AccessGap /\ AccessGap \in Nat /\ AccessGap >= 4
      /\ reset \in BOOLEAN
  BY UartAssumption DEF RingInv, Tick, UartTypeOK, Paced, Permitted
<1>2. /\ Shows(u)' <=> (Refreshing /\ u = selected_uart /\ ~uart_rx_empty[u])
      /\ Refreshing /\ u = selected_uart => buffer_readaddress' = <<u, "rx", rx_read[u]>>
  BY <1>1, ReadPortStep
<1>3. (u = selected_uart /\ \E v \in Uarts : Shows(v)) <=> Shows(u)
  BY DEF ShowInv, Shows
<1>4. rx_data_for_reading'[u] =
        IF Shows(u) THEN buffer_rdata
        ELSE IF Receives(u) /\ uart_rx_empty[u] THEN rx_data[u] ELSE rx_data_for_reading[u]
  BY <1>1, <1>3 DEF ShownByte
<1>5. /\ reset => rx_queue'[u] = <<>>
      /\ ~reset /\ ~Advances(cpu, u) =>
           rx_queue'[u] = IF Receives(u) THEN Append(rx_queue[u], rx_data[u]) ELSE rx_queue[u]
  BY <1>1 DEF History
<1>6. rx_queue[u] \in Seq(Data) /\ rx_data[u] \in Data
  BY <1>1, TypeParts
<1>7. Refreshing => /\ cpu = None /\ since' \in 2 .. 3 /\ ~rx_byte_stale' /\ ~Advances(cpu, u)
                    /\ selected_uart' = selected_uart /\ since <= 2
  <2> HAVE Refreshing
  <2>1. since <= 2
    BY <1>1 DEF PaceInv, Refreshing
  <2>2. cpu = None
    BY <1>1, <2>1 DEF Permitted
  <2>3. cpu.op = "none" /\ since' = since + 1
    BY <1>1, <2>1, <2>2 DEF None, Registers
  <2>4. since' \in 2 .. 3
    BY <1>1, <2>1, <2>3
  <2> QED  BY <1>1, <2>1, <2>2, <2>3, <2>4 DEF Registers, Advances
<1>8. /\ last_selected_uart' = selected_uart
      /\ ~Refreshing => ~rx_byte_stale
      /\ ~Refreshing /\ last_selected_uart # selected_uart => rx_byte_stale'
  BY <1>1 DEF Registers, Refreshing, PaceInv
<1>9. Advances(cpu, u) => rx_byte_stale'
  <2> HAVE Advances(cpu, u)
  <2>1. ~Refreshing /\ Advanced(cpu) # {}
    BY <1>7 DEF Advanced
  <2> QED  BY <1>1, <2>1 DEF Registers
<1> QED  BY <1>2, <1>4, <1>5, <1>6, <1>7, <1>8, <1>9

LEMMA ShowStep ==
  ASSUME RingInv, Paced, NEW cpu, NEW reset, Permitted(cpu, reset), Tick(cpu, reset),
         NEW u \in Uarts, \A v \in Uarts : ShowInv(v)
  PROVE  ShowInv(u)'
<1>1. ASSUME Shows(u)'
      PROVE  since' \in 2 .. 3 /\ u = selected_uart' /\ ~rx_byte_stale'
  BY <1>1, ShowTick
<1>2. ASSUME Shows(u)', rx_queue'[u] # <<>> PROVE buffer_rdata' = Head(rx_queue'[u])
  <2>1. /\ Refreshing /\ u = selected_uart /\ ~uart_rx_empty[u] /\ ~reset /\ ~Advances(cpu, u)
        /\ buffer_readaddress' = <<u, "rx", rx_read[u]>>
    BY <1>2, ShowTick
  <2>2. ~Receives(u)
    BY <2>1, OneUse
  <2>3. rx_queue'[u] = rx_queue[u]
    BY <2>1, <2>2, ShowTick
  <2>4. rx_write[u] # rx_read[u]
    BY <1>2, <2>3, EmptyRing
  <2>5. rx_write[u] \in Slots /\ rx_read[u] \in Slots
    BY TypeParts DEF RingInv
  <2>6. rx_queue[u][1] = Contents(u, "rx")[rx_read[u]]
    BY <2>4, <2>5, HeldWithOneLess DEF RingInv, RxHeld
  <2>7. ram' = Stored
    BY StoredStep DEF RingInv, Tick
  <2>8. buffer_rdata' = rx_queue[u][1]
    BY <2>1, <2>5, <2>6, <2>7 DEF buffer_rdata, Contents
  <2>9. Head(rx_queue[u]) = rx_queue[u][1]
    BY <1>2, <2>3, ShowTick
  <2> QED  BY <2>3, <2>8, <2>9
<1>3. ASSUME u = selected_uart', ~Settling', ~collided', rx_queue'[u] # <<>>
      PROVE  rx_data_for_reading'[u] = Head(rx_queue'[u])
  <2>1. /\ ~reset /\ u = selected_uart /\ ~rx_byte_stale' /\ ~Shows(u)' /\ ~Advances(cpu, u)
    BY <1>3, ShowTick DEF Settling, Shows
  <2>2. rx_queue'[u] = IF Receives(u) THEN Append(rx_queue[u], rx_data[u]) ELSE rx_queue[u]
    BY <2>1, ShowTick
  <2>3. CASE Refreshing
    <3>1. uart_rx_empty[u] /\ rx_byte_stale /\ ~Shows(u) /\ ~Receives(u)
      BY <2>1, <2>3, ShowTick, OneUse DEF Refreshing, ShowInv
    <3> QED  BY <1>3, <2>1, <2>2, <3>1, ShowTick DEF ShowInv
  <2>4. CASE ~Refreshing /\ rx_queue[u] = <<>>
    <3>1. Receives(u) /\ ~rx_byte_stale
      BY <1>3, <2>2, <2>4, ShowTick
    <3>2. uart_rx_empty[u]
      BY <2>4, <3>1, EmptyFlag
    <3>3. ~Shows(u)
      BY <1>3, <2>4, <3>1, <3>2 DEF Tick, History
    <3>4. rx_data_for_reading'[u] = rx_data[u]
      BY <3>1, <3>2, <3>3, ShowTick
    <3>5. rx_queue'[u] = Append(<<>>, rx_data[u])
      BY <2>2, <2>4, <3>1
    <3>6. <<>> \in Seq(Data) /\ Head(Append(<<>>, rx_data[u])) = rx_data[u]
      BY EmptySeq, HeadTailAppend
    <3> QED  BY <3>4, <3>5, <3>6
  <2>5. CASE ~Refreshing /\ rx_queue[u] # <<>>
    <3>1. ~rx_byte_stale /\ last_selected_uart = selected_uart
      BY <2>1, <2>5, ShowTick
    <3>2. ~(Receives(u) /\ uart_rx_empty[u])
      BY <2>5, <3>1, EmptyFlag
    <3>3. Head(rx_queue'[u]) = Head(rx_queue[u])
      <4>1. Head(Append(rx_queue[u], rx_data[u])) = Head(rx_queue[u])
        BY <2>5, ShowTick, HeadTailAppend
      <4> QED  BY <2>2, <4>1
    <3>4. CASE Shows(u)
      <4>1. buffer_rdata = Head(rx_queue[u])
        BY <2>5, <3>4 DEF ShowInv
      <4> QED  BY <3>3, <3>4, <4>1, ShowTick
    <3>5. CASE ~Shows(u)
      <4>1. ~Settling /\ ~collided
        BY <1>3, <2>1, <2>5, <3>1, <3>5 DEF Settling, Shows, Tick, History
      <4>2. rx_data_for_reading[u] = Head(rx_queue[u])
        BY <2>1, <2>5, <4>1 DEF ShowInv
      <4> QED  BY <3>2, <3>3, <3>5, <4>2, ShowTick
    <3> QED  BY <3>4, <3>5
  <2> QED  BY <2>3, <2>4, <2>5
<1>4. ASSUME u = selected_uart', rx_byte_stale', uart_rx_empty'[u], rx_queue'[u] # <<>>
      PROVE  rx_data_for_reading'[u] = Head(rx_queue'[u])
  <2>1. ~reset /\ ~Refreshing /\ ~rx_byte_stale
    BY <1>4, ShowTick
  <2>2. rx_write[u] = rx_read[u]
    <3>1. uart_rx_empty'[u] = (reset \/ rx_write[u] = rx_read[u])
      BY RxTick DEF RingInv
    <3> QED  BY <1>4, <2>1, <3>1
  <2>3. rx_queue[u] = <<>>
    BY <2>2, EmptyRing
  <2>4. ~Advances(cpu, u)
    BY <2>1, <2>3, EmptyFlag DEF Advances
  <2>5. rx_queue'[u] = IF Receives(u) THEN Append(rx_queue[u], rx_data[u]) ELSE rx_queue[u]
    BY <2>1, <2>4, ShowTick
  <2>6. Receives(u) /\ rx_queue'[u] = Append(<<>>, rx_data[u])
    BY <1>4, <2>3, <2>5
  <2>7. uart_rx_empty[u]
    BY <2>1, <2>3, <2>6, EmptyFlag
  <2>8. ~Shows(u)
    <3> SUFFICES ASSUME Shows(u) PROVE FALSE
      OBVIOUS
    <3>1. since \in 2 .. 3 /\ AccessGap >= 4
      BY DEF ShowInv, Paced
    <3>2. last_selected_uart = selected_uart
      BY <3>1 DEF RingInv, PaceInv
    <3>3. cpu = None
      BY <3>1 DEF Permitted
    <3>4. Advanced(cpu) = {}
      BY <3>3 DEF Advanced, Advances, None
    <3> QED  BY <1>4, <2>1, <3>2, <3>4 DEF Tick, Registers
  <2>9. <<>> \in Seq(Data) /\ Head(Append(<<>>, rx_data[u])) = rx_data[u]
    <3>1. rx_data[u] \in Data
      BY ShowTick
    <3> QED  BY <3>1, EmptySeq, HeadTailAppend
  <2>10. rx_data_for_reading'[u] = rx_data[u]
    BY <2>6, <2>7, <2>8, ShowTick
  <2> QED  BY <2>6, <2>9, <2>10
<1> QED  BY <1>1, <1>2, <1>3, <1>4 DEF ShowInv
-----------------------------------------------------------------------------
LEMMA DisplayInvInit == ASSUME Init, Paced PROVE DisplayInv
<1>1. RingInv
  BY RingInvInit
<1>2. ASSUME NEW u \in Uarts PROVE ShowInv(u)
  BY DEF Init, Each, ShowInv, Shows, Nothing, Settling
<1> QED  BY <1>1, <1>2 DEF DisplayInv

LEMMA DisplayInvStep == ASSUME DisplayInv, Paced, [Next]_vars PROVE DisplayInv'
<1>1. RingInv'
  BY RingInvStep DEF DisplayInv
<1>2. CASE Next
  <2> PICK cpu \in Accesses \cup {None}, reset \in Resets :
        Permitted(cpu, reset) /\ Tick(cpu, reset)
    BY <1>2 DEF Next, Permitted
  <2>1. ASSUME NEW u \in Uarts PROVE ShowInv(u)'
    BY ShowStep DEF DisplayInv
  <2> QED  BY <1>1, <2>1 DEF DisplayInv
<1>3. CASE UNCHANGED vars
  <2>1. ASSUME NEW u \in Uarts PROVE ShowInv(u)'
    BY <1>3 DEF DisplayInv, ShowInv, Shows, Settling, buffer_rdata,
                vars, cpuSide, pointers, flags, memory, polling, lines, history
  <2> QED  BY <1>1, <2>1 DEF DisplayInv
<1> QED  BY <1>2, <1>3

\* $D0E2 shows the first byte of the ring selected, whenever its empty flag is clear and
\* the CPU can read it, unless a byte came into an empty ring as the memory was read.
THEOREM UartShowsTheFirstByte == ASSUME Paced PROVE Spec => []FirstByteIsShownUnlessCollided
<1>1. Init => DisplayInv
  BY DisplayInvInit
<1>2. DisplayInv /\ [Next]_vars => DisplayInv'
  BY DisplayInvStep
<1>3. DisplayInv => FirstByteIsShownUnlessCollided
  <2> SUFFICES ASSUME DisplayInv, since = AccessGap, selected_uart # NoUart, ~collided,
                      ~uart_rx_empty[selected_uart]
               PROVE  /\ rx_queue[selected_uart] # <<>>
                      /\ rx_data_for_reading[selected_uart] = Head(rx_queue[selected_uart])
    BY DEF FirstByteIsShownUnlessCollided
  <2>1. selected_uart \in Uarts /\ since >= 4 /\ since \in Nat
    BY TypeParts, UartAssumption DEF DisplayInv, RingInv, Paced
  <2>2. ~rx_byte_stale /\ last_selected_uart = selected_uart
    BY <2>1 DEF DisplayInv, RingInv, PaceInv
  <2>3. ~Shows(selected_uart)
    BY <2>1 DEF DisplayInv, ShowInv
  <2>4. rx_queue[selected_uart] # <<>>
    BY <2>1, <2>2, EmptyFlag DEF DisplayInv
  <2>5. ~Settling
    BY <2>2, <2>3 DEF Settling, Shows
  <2> QED  BY <2>1, <2>4, <2>5 DEF DisplayInv, ShowInv
<1> QED  BY <1>1, <1>2, <1>3, PTL DEF Spec
=============================================================================
