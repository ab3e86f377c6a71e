----------------------------- MODULE EmuScreen -----------------------------
(***************************************************************************)
(* The screen that src/tools/hyppotest.c puts into the log of a failed     *)
(* test: the text screen of the VIC-IV as its registers describe it.       *)
(*                                                                         *)
(* The screen and colour RAM are copied into buffers, and characters are   *)
(* taken from these.  A shorter copy leaves what an earlier one left, so   *)
(* the buffers are given by the sequence of the copies: each is the state  *)
(* of the video chip and the memory as it was.  Beyond the end of the      *)
(* buffers (MAX_SCREEN_SIZE) the C program reads what lies there.          *)
(***************************************************************************)
EXTENDS EmuListing

MAX_SCREEN_SIZE == 128 * 1024

VicReg(ram, i)  == Stored(ram, \hFFD3000 + i)
VicWord(ram, i) == Word(VicReg(ram, i), VicReg(ram, i + 1))

(* What a text screen needs; the geometry of pixels and borders is left out. *)
get_video_state(ram) ==
  LET on(reg, bit) == Bit(VicReg(ram, reg), bit)
      bytes == IF on(\h54, 0) THEN 2 ELSE 1
      rows  == 1 + VicReg(ram, \h7B)
      step  == VicWord(ram, \h58)
  IN [screen |-> VicWord(ram, \h60) + \h10000 * VicReg(ram, \h62), colour |-> \hFF80000 + VicWord(ram, \h64),
      bytes |-> bytes, step |-> step, rows |-> rows, width |-> VicReg(ram, \h5E), size |-> step * rows * bytes,
      upper |-> ~on(\h18, 1), extended |-> on(\h11, 6), attribs |-> on(\h31, 5) /\ ~on(\h16, 4),
      background |-> VicReg(ram, \h21), fullLow |-> on(\h54, 1), fullHigh |-> on(\h54, 2)]

(* The program exits when the screen does not fit into its buffers. *)
TooLarge(v) == v.size > MAX_SCREEN_SIZE

fetch_ram(shots, ram) == Append(shots, [v |-> get_video_state(ram), ram |-> ram])

(* Mutant: the buffers are filled once. *)
BufferedFirst(shots, area, i) ==
  LET copies == {k \in DOMAIN shots : i < shots[k].v.size}
      first  == shots[CHOOSE k \in copies : \A other \in copies : k <= other]
  IN IF copies = {} THEN 0 ELSE read_memory28(first, first.v[area] + i)

(* A byte of a buffer: of the last copy that went so far. *)
Buffered(shots, area, i) ==
  LET copies == {k \in DOMAIN shots : i < shots[k].v.size}
      last   == shots[CHOOSE k \in copies : \A other \in copies : other <= k]
  IN IF copies = {} THEN 0 ELSE read_memory28(last, last.v[area] + i)

(* The code points that stand for the graphics from $60 on; $68 has none. *)
Graphics == <<\hA0, \h258C, \h2584, \h2594, \h2581, \h258E, \h2592, \h258A,
              \h7F, \h25E4, \h258A, \h2523, \h2597, \h2517, \h2513, \h2582>>

print_screencode(c, upper) ==
  LET code == c % 128
  IN [rev |-> c > 127,
      char |-> CASE code < 32                     -> code + (IF upper THEN 64 ELSE 96)
                 [] code \in 32..63               -> code
                 [] code \in 64..95 /\ ~upper     -> code
                 [] code \in 96..111              -> Graphics[code - 95]
                 [] OTHER                         -> 63]

(* The nybbles of the palette are swapped. *)
mega65_rgb(ram, colour) ==
  [rgb \in 1..3 |-> LET entry == VicReg(ram, 256 * rgb + colour) IN (entry % 16) * 16 + entry \div 16]

(* A character of the screen.  In extended background mode the bits that    *)
(* choose the colour are masked off first, so it is always background.      *)
(* Full-colour characters are shown as question marks.                      *)
do_screen_shot_ascii(shots, x, y) ==
  LET shot == shots[Len(shots)]
      v    == shot.v
      Held(area) ==
        LET i == y * v.step + x * v.bytes
        IN Word(Buffered(shots, area, i), IF v.bytes = 2 THEN Buffered(shots, area, i + 1) ELSE 0)
      colour == Held("colour")
      id     == Held("screen") % (IF v.extended THEN 64 ELSE \h2000)
      fg     == (colour % 256) | (IF v.attribs /\ Bit(colour, 6) THEN 16 ELSE 0)
      swaps  == v.attribs /\ Bit(colour, 5)
      full   == Bit(colour, 11) \/ IF id < 256 THEN v.fullLow ELSE v.fullHigh
  IN [full |-> full, text |-> print_screencode(id % 256, v.upper),
      ink   |-> mega65_rgb(shot.ram, IF swaps THEN v.background ELSE fg),
      paper |-> mega65_rgb(shot.ram, IF swaps THEN fg ELSE v.background)]
=============================================================================
