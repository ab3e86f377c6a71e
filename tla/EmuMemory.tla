----------------------------- MODULE EmuMemory -----------------------------
(***************************************************************************)
(* The memory of the emulated MEGA65 in src/tools/hyppotest.c: the four    *)
(* RAMs and the last instruction that wrote each byte of them, the         *)
(* translation of 16-bit addresses, and the DMA controller behind the      *)
(* registers at $D700.  A machine is a record; every operator takes one    *)
(* and gives the machine (or the value read) that the C function leaves.   *)
(*                                                                         *)
(* The RAMs are one partial function on the 28-bit addresses that were     *)
(* ever written; the other bytes are as the program starts with them.  The *)
(* C program keeps pc and addresses in unsigned ints and only asks whether *)
(* they are above $FFFF, so an integer outside 0..$FFFF stands for every   *)
(* such value, and -1 for the address addr_to_28bit gives back for them.   *)
(***************************************************************************)
EXTENDS Integers, Sequences, FiniteSets, TLC, Bitwise

CONSTANT MAX_SYMBOLS    \* room in the table of symbols

ASSUME SymbolsAssumption == MAX_SYMBOLS \in Nat \ {0}

Byte == 0..255
Address16 == 0..\hFFFF
Flag == {"C", "Z", "I", "D", "B", "E", "V", "N"}

Bit(v, n) == (v \div 2^n) % 2 = 1
Word(lo, hi) == lo + 256 * hi

(* The flags register as the byte that is pushed and pulled. *)
BitOf == [C |-> 1, Z |-> 2, I |-> 4, D |-> 8, B |-> 16, E |-> 32, V |-> 64, N |-> 128]
FlagsByte(fs) ==
  LET on(f) == IF f \in fs THEN BitOf[f] ELSE 0
  IN on("C") + on("Z") + on("I") + on("D") + on("B") + on("E") + on("V") + on("N")
FlagsOf(v) == {f \in Flag : (v \div BitOf[f]) % 2 = 1}

-----------------------------------------------------------------------------
(* Where an address lies, and what is read there. *)

ChipRam   == 0..(384 * 1024 - 1)
HyppoRam  == \hFFF8000..\hFFFBFFF
ColourRam == \hFF80000..(\hFF80000 + 32 * 1024 - 1)
IoSpace   == \hFFD0000..\hFFDFFFF

Region(addr) == CASE addr \in HyppoRam  -> "hyppo"
                  [] addr \in ChipRam   -> "chip"
                  [] addr \in ColourRam -> "colour"
                  [] addr \in IoSpace   -> "io"
                  [] OTHER              -> "unmapped"

(* The VIC-IV registers as machine_init sets them. *)
viciv_regs ==
  << 0, 0, 0, 0, 0, 0, 0, 0, 0, 0, 0, 0, 0, 0, 0, 0,
     0, 155, 55, 0, 0, 0, 200, 0, 20, 113, 224, 0, 0, 0, 0, 0,
     14, 6, 1, 2, 3, 4, 0, 1, 2, 3, 4, 5, 6, 7, 12, 0,
     0, 32, 0, 0, 0, 0, 0, 0, 0, 0, 0, 0, 0, 0, 0, 0,
     255, 255, 255, 255, 255, 255, 255, 255, 104, 0, 248, 1, 80, 0, 104, 0,
     12, 131, 233, 129, 5, 0, 0, 0, 80, 0, 120, 1, 80, 192, 40, 0,
     0, 184, 0, 0, 0, 0, 0, 0, 0, 144, 0, 0, 248, 7, 0, 0,
     255, 0, 0, 1, 0, 0, 0, 0, 0, 55, 129, 24, 194, 0, 0, 127 >>

(* A byte of one of the arrays that was not written since the start. *)
Initial(addr) == CASE addr = 0 -> \h3F
                   [] addr = 1 -> \h27
                   [] addr \in \hFFD3000..\hFFD307F -> viciv_regs[addr - \hFFD3000 + 1]
                   [] OTHER -> 0

Stored(ram, addr) == IF addr \in DOMAIN ram THEN ram[addr] ELSE Initial(addr)

read_memory28(m, addr) ==
  IF Region(addr) = "unmapped" THEN \hBD ELSE Stored(m.ram, addr)

(* The banking of the C64 by the port at $00 and $01. *)
Port(m) == (read_memory28(m, 1) % 8) | (7 - (read_memory28(m, 0) % 8))

Banked(lnc, addr, writeP) ==
  LET bank == addr \div \h1000
  IN CASE bank = 13 /\ lnc \in 5..7                             -> \hFFD3000 + (addr % \h1000)
       [] bank = 13 /\ lnc \in 1..3 /\ ~writeP                  -> \h2D000 + (addr % \h1000)
       [] bank \in {10, 11} /\ lnc \in {3, 7} /\ ~writeP        -> \h2A000 + (addr % \h2000)
       [] bank \in {14, 15} /\ lnc \in {2, 3, 6, 7} /\ ~writeP  -> \h2E000 + (addr % \h2000)
       [] OTHER                                                 -> addr

(* MAP takes priority: each 8 KiB zone is moved by the offset of its half. *)
addr_to_28bit(m, addr, writeP) ==
  LET zone == addr \div \h2000
      map  == IF zone < 4 THEN m.r.maplo ELSE m.r.maphi
      mb   == IF zone < 4 THEN m.r.maplomb ELSE m.r.maphimb
  IN IF addr \notin Address16 THEN -1
     ELSE IF Bit(map, 12 + (zone % 4)) THEN addr + ((map % \h1000) * 256) + mb * \h100000
     ELSE Banked(Port(m), addr, writeP)

read_memory(m, addr) == read_memory28(m, addr_to_28bit(m, addr, FALSE))

(* Translating an address above $FFFF is an error of the test. *)
Checked(m, addrs) == [m EXCEPT !.t.error = @ \/ \E a \in addrs : a \notin Address16]

(* The index in the log of the instruction that last wrote an address. *)
Blamed(m, addr) ==
  IF addr \in DOMAIN m.blame THEN m.blame[addr] ELSE 0
memory_blame(m, addr) == Blamed(m, addr_to_28bit(m, addr, FALSE))

-----------------------------------------------------------------------------
(* The DMA lists.  The settings made by option bytes outlive a chained job, *)
(* all but the count and the steps.  Positions are in bytes and 256ths.     *)

NoSide == [mb |-> 0, skip |-> 256, x8 |-> 0, y8 |-> 0, slope |-> 0, toggle |-> 0,
           frac |-> 0, line |-> FALSE, xory |-> FALSE, neg |-> FALSE]
NoOptions == [src |-> NoSide, dst |-> NoSide, f011b |-> FALSE, count |-> 0,
              spiral |-> FALSE, len |-> 0, left |-> 0, phase |-> 0]

(* The options that are or-ed into a setting: of which side, which, where. *)
OrOption ==
  \h82 :> <<"src", "skip", 1>>  @@ \h83 :> <<"src", "skip", 256>> @@
  \h84 :> <<"dst", "skip", 1>>  @@ \h85 :> <<"dst", "skip", 256>> @@
  \h87 :> <<"dst", "x8", 1>>    @@ \h88 :> <<"dst", "x8", 256>>   @@
  \h89 :> <<"dst", "y8", 1>>    @@ \h8A :> <<"dst", "y8", 256>>   @@
  \h8B :> <<"dst", "slope", 1>> @@ \h8C :> <<"dst", "slope", 256>> @@
  \h8D :> <<"dst", "frac", 1>>  @@ \h8E :> <<"dst", "frac", 256>> @@
  \h97 :> <<"src", "x8", 1>>    @@ \h98 :> <<"src", "x8", 256>>   @@
  \h99 :> <<"src", "y8", 1>>    @@ \h9A :> <<"src", "y8", 256>>   @@
  \h9B :> <<"src", "slope", 1>> @@ \h9C :> <<"src", "slope", 256>> @@
  \h9D :> <<"src", "frac", 1>>  @@ \h9E :> <<"src", "frac", 256>>

(* Transparency and the floppy modes are remembered but never looked at. *)
IdleOption == {\h06, \h07, \h0D, \h0E, \h0F, \h86}

KnownOption == DOMAIN OrOption \cup IdleOption
               \cup {\h0A, \h0B, \h53, \h80, \h81, \h8F, \h90, \h9F}

SetOption(o, option, arg) ==
  CASE option \in DOMAIN OrOption ->
         LET t == OrOption[option] IN [o EXCEPT ![t[1]][t[2]] = @ | (arg * t[3])]
    [] option \in {\h8F, \h9F} ->
         [o EXCEPT ![IF option = \h8F THEN "dst" ELSE "src"] =
            [@ EXCEPT !.line = Bit(arg, 7), !.xory = Bit(arg, 6), !.neg = Bit(arg, 5)]]
    [] option = \h80 -> [o EXCEPT !.src.mb = arg]
    [] option = \h81 -> [o EXCEPT !.dst.mb = arg]
    [] option = \h90 -> [o EXCEPT !.count = @ | (arg * \h10000)]
    [] option = \h0A -> [o EXCEPT !.f011b = FALSE]
    [] option = \h0B -> [o EXCEPT !.f011b = TRUE]
    [] option = \h53 -> [o EXCEPT !.spiral = TRUE, !.len = 39, !.left = 38]
    [] OTHER -> o

(* The option bytes up to the zero that ends them; an option with bit 7 is  *)
(* followed by its argument.  An unknown option is an error and is skipped. *)
RECURSIVE ReadOptions(_, _, _)
ReadOptions(m, o, addr) ==
  LET option == read_memory28(m, addr)
      long   == option >= \h80
      arg    == IF long THEN read_memory28(m, addr + 1) ELSE 0
      next   == addr + (IF long THEN 2 ELSE 1)
      m1     == [m EXCEPT !.t.error = @ \/ option \notin KnownOption]
  IN IF option = 0 THEN [m |-> m, o |-> o, addr |-> addr + 1]
     ELSE ReadOptions(m1, SetOption(o, option, arg), next)

(* The list proper: direction and hold are bits of the command with the     *)
(* F011B format, and of the addresses without.  A count of 0 is 64 KiB.     *)
ReadList(m, o, addr) ==
  LET at(i)  == read_memory28(m, addr + i)
      cmd    == at(0) + (IF o.f011b THEN 256 * at(9) ELSE 0)
      n      == o.count | Word(at(1), at(2))
      src    == Word(at(3), at(4)) + \h10000 * at(5)
      dst    == Word(at(6), at(7)) + \h10000 * at(8)
  IN [cmd   |-> cmd % 4,
      more  |-> Bit(cmd, 2),
      count |-> IF n = 0 THEN \h10000 ELSE n,
      s     |-> [w |-> (src % \h100000) + o.src.mb * \h100000, f |-> 0,
                 back |-> IF o.f011b THEN Bit(cmd, 4) ELSE Bit(src, 22),
                 hold |-> IF o.f011b THEN Bit(cmd, 9) ELSE Bit(src, 20)],
      d     |-> [w |-> (dst % \h100000) + o.dst.mb * \h100000, f |-> 0,
                 back |-> IF o.f011b THEN Bit(cmd, 5) ELSE Bit(dst, 22),
                 hold |-> IF o.f011b THEN Bit(cmd, 11) ELSE Bit(dst, 20)],
      next  |-> addr + (IF o.f011b THEN 12 ELSE 11)]

-----------------------------------------------------------------------------
(* The symbols follow the memory they name. *)

InBlock(addr, first, n) == addr \in first..(first + n - 1)

(* A copy clones the symbols of the source, which share their names.  With  *)
(* the table full the job ends there, the clones made so far staying.       *)
RECURSIVE CloneSymbols(_, _, _, _)
CloneSymbols(m, job, i, last) ==
  IF i > last THEN m
  ELSE LET s == m.symbols[i]
           clone == [s EXCEPT !.addr = job.d.w + (s.addr - job.s.w)]
       IN IF ~InBlock(s.addr, job.s.w, job.count) THEN CloneSymbols(m, job, i + 1, last)
          ELSE IF Len(m.symbols) >= MAX_SYMBOLS
          THEN [m EXCEPT !.t.error = TRUE, !.t.done = TRUE, !.aborted = TRUE]
          ELSE CloneSymbols([m EXCEPT !.symbols = Append(@, clone)], job, i + 1, last)

(* A fill erases a symbol by moving the last one into its place, and goes on *)
(* with the next place: the symbol that was moved is not looked at.          *)
RECURSIVE EraseSymbols(_, _, _)
EraseSymbols(m, job, i) ==
  LET n == Len(m.symbols)
      last == m.symbols[n]
  IN IF i > n THEN m
     ELSE IF ~InBlock(m.symbols[i].addr, job.d.w, job.count) THEN EraseSymbols(m, job, i + 1)
     ELSE EraseSymbols([m EXCEPT !.symbols = SubSeq([@ EXCEPT ![i] = last], 1, n - 1),
                                 !.freed = @ \cup {m.symbols[i].name}], job, i + 1)

-----------------------------------------------------------------------------
(* The next position of a side. *)

Moved(p, delta) == LET t == p.f + delta
                   IN [p EXCEPT !.w = @ + t \div 256, !.f = t % 256]

(* One pixel in a bitmap of 8 by 8 cards, dx and dy in -1..1: x8 and y8 are *)
(* added when the step leaves the card.                                     *)
CardStep(w, dx, dy, x8, y8) ==
  LET col == w % 8
      row == (w \div 8) % 8
      in  == w % 64
  IN CASE dx = 0 /\ dy = 1  -> w | (8 + IF row = 7 THEN y8 ELSE 0)
       [] dx = 0 /\ dy = -1 -> w - 8 - (IF row = 0 THEN y8 ELSE 0)
       [] dx = 1 /\ dy = 0  -> w + 1 + (IF col = 7 THEN x8 ELSE 0)
       [] dx = -1 /\ dy = 0 -> w - 1 - (IF col = 0 THEN x8 ELSE 0)
       [] dx = 1 /\ dy = 1  -> w + 9 + (CASE in = 63 -> x8 + y8 [] in = 56 -> y8
                                          [] in = 7 -> x8 [] OTHER -> 0)
       [] dx = 1 /\ dy = -1 -> LET v == w + (CASE in = 7 -> x8 - y8 - 7 [] in < 7 -> -y8 - 7
                                               [] OTHER -> 0)
                               IN v - 7 + (IF v % 8 = 7 THEN x8 ELSE 0)
       [] dx = -1 /\ dy = 1 -> w + 7 + (CASE in = 56 -> y8 - x8 [] row = 7 -> y8
                                          [] col = 0 -> -x8 [] OTHER -> 0)
       [] OTHER             -> w - 9 - (CASE in = 0 -> x8 + y8 [] row = 0 -> y8
                                          [] col = 0 -> x8 [] OTHER -> 0)

(* In line mode the overflow is tested with "/=": the toggle is divided by   *)
(* the overflow bit.  Without an overflow that is a division by zero, which  *)
(* ends the program; with one the quotient is 0, and only the major axis     *)
(* advances unless a toggle was set before.                                  *)
LineStep(side, p) ==
  LET frac  == side.frac + side.slope
      over  == IF Bit(frac, 16) THEN \h10000 ELSE 0
      minor == over # 0 /\ side.toggle \div over # 0
      slip  == IF ~minor THEN 0 ELSE IF side.neg THEN -1 ELSE 1
      dx    == IF side.xory THEN slip ELSE 1
      dy    == IF side.xory THEN 1 ELSE slip
  IN [side  |-> [side EXCEPT !.frac = frac, !.toggle = IF minor THEN over ELSE 0],
      p     |-> [p EXCEPT !.w = CardStep(@, dx, dy, side.x8, side.y8)],
      undefined |-> over = 0]

(* Mutant: the direction is ignored. *)
LinearForward(side, p) ==
  [side |-> side, undefined |-> FALSE, p |-> IF p.hold THEN p ELSE Moved(p, side.skip)]
Linear(side, p) ==
  [side |-> side, undefined |-> FALSE,
   p |-> IF p.hold THEN p ELSE Moved(p, IF p.back THEN -side.skip ELSE side.skip)]

SideStep(side, p) == IF side.line THEN LineStep(side, p) ELSE Linear(side, p)

(* The spiral of 40 columns: right, down, left, up; the phase changes with   *)
(* every byte.                                                               *)
SpiralStep(o, p) ==
  [o |-> [o EXCEPT !.left = IF o.left # 0 THEN o.left - 1
                            ELSE IF o.phase % 2 = 0 THEN o.len - 16 ELSE o.len,
                   !.len = IF o.left = 0 /\ o.len # 0 THEN @ - 1 ELSE @,
                   !.phase = (@ + 1) % 4],
   p |-> [p EXCEPT !.w = @ + <<1, 40, -1, -40>>[o.phase + 1]]]

-----------------------------------------------------------------------------
(* Writing a byte, which may start a DMA job, which writes bytes. *)

Store(m, addr, v) == [m EXCEPT !.ram = (addr :> v) @@ @, !.blame = (addr :> m.count) @@ @]

(* $00 is not written with the two values that only set the speed. *)
IsSpeed(addr, v) == addr = 0 /\ v \in {\h40, \h41}

ListAddress(m) ==
  LET reg(n) == read_memory28(m, \hFFD3700 + n)
  IN (Word(reg(0), reg(1)) + \h10000 * (reg(2) % \h80)) | (\h100000 * reg(4))

RECURSIVE write_mem28(_, _, _)
RECURSIVE Transfer(_, _, _)
RECURSIVE Jobs(_, _, _, _)

(* What is left of a job once a byte was written: s and d are the steps. *)
OptionsAfter(o, s, d) == IF o.spiral THEN [SpiralStep(o, [w |-> 0]).o EXCEPT !.src = s.side]
                         ELSE [o EXCEPT !.src = s.side, !.dst = d.side]
JobAfter(o, job, s, d) ==
  [job EXCEPT !.count = @ - 1, !.s = s.p, !.d = IF o.spiral THEN SpiralStep(o, @).p ELSE d.p]
WasUndefined(o, s, d) == s.undefined \/ (~o.spiral /\ d.undefined)

(* The bytes of a job, one after the other. *)
Value(m, job) == IF job.cmd = 0 THEN read_memory28(m, job.s.w) ELSE job.s.w % 256
ByteDone(m, o, job, s, d) ==
  Transfer([m EXCEPT !.undefined = @ \/ WasUndefined(o, s, d)], OptionsAfter(o, s, d), JobAfter(o, job, s, d))
Transfer(m, o, job) ==
  IF job.count = 0 \/ m.undefined THEN [m |-> m, o |-> o]
  ELSE ByteDone(write_mem28(m, job.d.w, Value(m, job)), o, job, SideStep(o.src, job.s), SideStep(o.dst, job.d))

(* The jobs of a list, as long as each says that another follows. *)
OnSymbols(m, job) == CASE job.cmd = 0 -> CloneSymbols(m, job, 1, Len(m.symbols))
                       [] job.cmd = 3 -> EraseSymbols(m, job, 1)
                       [] OTHER -> [m EXCEPT !.t.error = TRUE, !.t.done = TRUE, !.aborted = TRUE]
More(moved, eDMA, job) ==
  IF job.more /\ ~moved.m.undefined THEN Jobs(moved.m, moved.o, eDMA, job.next) ELSE moved.m
Perform(m, o, eDMA, job) ==
  IF m.aborted THEN [m EXCEPT !.aborted = FALSE] ELSE More(Transfer(m, o, job), eDMA, job)
WithList(read, eDMA, job) == Perform(OnSymbols(read.m, job), read.o, eDMA, job)
AfterOptions(read, eDMA) == WithList(read, eDMA, ReadList(read.m, read.o, read.addr))
Jobs(m, options, eDMA, addr) ==
  LET fresh == [options EXCEPT !.count = 0, !.src.skip = 256, !.dst.skip = 256]
  IN AfterOptions(IF eDMA THEN ReadOptions(m, fresh, addr) ELSE [m |-> m, o |-> fresh, addr |-> addr], eDMA)

do_dma(m, eDMA, addr) == Jobs(m, NoOptions, eDMA, addr)

(* The register that triggers a plain or an enhanced job sets the other too. *)
Triggered(m, addr, v) ==
  LET m1 == Store(m, IF addr = \hFFD3700 THEN \hFFD3705 ELSE \hFFD3700, v)
  IN do_dma(m1, addr = \hFFD3705, ListAddress(m1))

write_mem28(m, addr, v) ==
  LET m1 == Store(m, addr, v)
      hi == (Stored(m.ram, \hFFD3704) & \hF1) | ((v \div 16) % 8)
  IN CASE Region(addr) = "unmapped" -> [m EXCEPT !.t.error = TRUE]
       [] IsSpeed(addr, v)          -> m
       [] addr \in {\hFFD3700, \hFFD3705} -> Triggered(m1, addr, v)
       [] addr = \hFFD3702 -> Store(m1, \hFFD3704, hi)
       [] OTHER -> m1

write_mem16(m, addr, v) == write_mem28(m, addr_to_28bit(m, addr, TRUE), v)
=============================================================================
