------------------------------- MODULE JoyFlash -------------------------------
(***************************************************************************)
(* The flasher that is used with a joystick (src/utilities/joyflash.c and  *)
(* qspijoy.c).  It writes core files into the slots above 0, by way of the *)
(* expansion RAM.  One step is one joystick press, one sector read or one  *)
(* routine that changes the flash chip.                                    *)
(*                                                                         *)
(* The chip is external: erase blocks of PagesPerBlock pages, a status     *)
(* register, and a protection of each block that is on at power-up.  A     *)
(* page that was programmed holds a part of the file, [core, part, page].  *)
(* pc is "hung" where a loop of the program has no way out.                *)
(***************************************************************************)
EXTENDS JoyCard, FiniteSets

CONSTANTS Core,           \* the core files: name, length, magic, mega, model ("ours", "other", "missing")
          SlotCount, SlotBlocks, PagesPerBlock,
          MaxTries,       \* 10 in the code
          Boards,         \* jtag, low and high (bits of the expansion RAM that stay so), answers,
                          \* probed, protected (by a pin), shift, locked, cards
          Flashes,        \* what may be in the chip at first
          Reads,          \* how many sectors may be read before the card fails
          Mishaps, Jobs   \* bounds: failures and power cuts, slots reflashed

ASSUME JoyFlashAssumption == /\ SlotCount \in Nat \ {0} /\ SlotBlocks \in Nat \ {0}
                             /\ PagesPerBlock \in Nat \ {0} /\ MaxTries \in Nat \ {0}
                             /\ \A count \in Reads : count \in Nat /\ count < NeverFails

VARIABLES
  mem,     \* what the chip holds
  chip,    \* its registers, and what the program last read of them (reg_sr1)
  attic,   \* a slot's worth of expansion RAM
  sd,      \* the library that reads the card
  slots,   \* slot_core_valid
  job,     \* where the program is
  board,   \* the board
  left     \* what the bounds leave

vars == <<mem, chip, attic, sd, slots, job, board, left>>

Slots  == 0..(SlotCount - 1)
Blocks == 0..(SlotCount * SlotBlocks - 1)
Pages  == 0..(PagesPerBlock - 1)
InSlot(k) == job.slot * SlotBlocks + k

\* A part of a core, as big as a block, in a sector of its file.
CorePart(c, part) == [kind |-> "file", core |-> c, part |-> part]
Parts == [kind : {"file"}, core : DOMAIN Core \cup {"junk"}, part : Nat]

\* The cores have names of their own.  On a card a name in the chooser leads to
\* the core of that name, and the parts of a core follow each other.
ASSUME CoreAssumption ==
  /\ {"blank", "junk"} \cap DOMAIN Core = {}
  /\ \A c \in DOMAIN Core : Core[c].length \in Nat
  /\ \A c, d \in DOMAIN Core : Core[c].name = Core[d].name => c = d
ASSUME CoresOnCards ==
  \A bus \in {0, 1} :
    LET card == Card[bus]
    IN \A cluster \in Clusters(bus), k \in 1..SectorsPerCluster :
         LET sector == card.sectors[cluster][k]
         IN /\ sector.kind = "file" =>
                 /\ sector \in Parts
                 /\ sector.core \in DOMAIN Core /\ sector.part + 1 < Core[sector.core].length =>
                      IF k < SectorsPerCluster
                        THEN card.sectors[cluster][k + 1] = CorePart(sector.core, sector.part + 1)
                        ELSE /\ card.next[cluster] # 0
                             /\ card.sectors[card.next[cluster]][1] = CorePart(sector.core, sector.part + 1)
            /\ sector.kind = "dir" =>
                 \A e \in DOMAIN sector.entries :
                   LET entry == sector.entries[e]
                   IN ~entry.gone /\ entry.name \in CoreNames =>
                        \A c \in DOMAIN Core :
                          Core[c].name = entry.name <=>
                            entry.ino # 0 /\ card.sectors[entry.ino][1] = CorePart(c, 0)

PageValues == [core : DOMAIN Core \cup {"blank", "junk"}, part : Nat, page : Nat]
ASSUME FlashAssumption == Flashes \subseteq [Blocks -> [Pages -> PageValues]]

Blank == [core |-> "blank", part |-> 0, page |-> 0]
Junk  == [Blank EXCEPT !.core = "junk"]
\* Some bits of a page are programmed; programming it again finishes it.
Some(x) == [x EXCEPT !.page = @ + PagesPerBlock]
PageOf(sector, p) == [core |-> sector.core, part |-> sector.part, page |-> p]
JunkSector == CorePart("junk", 0)
FileSector(x) == IF x.kind = "file" THEN x ELSE JunkSector
BlockOf(sector) == [p \in Pages |-> IF sector.core = "junk" THEN Junk ELSE PageOf(sector, p)]
BlankBlock == [p \in Pages |-> Blank]

At(pc)   == job.pc = pc
Goes(pc) == job' = [job EXCEPT !.pc = pc]

ChipFails == left.mishaps > 0 /\ left' = [left EXCEPT !.mishaps = @ - 1]
ChipWorks == UNCHANGED left

-----------------------------------------------------------------------------
(* The commands.  They take the registers c of the chip and return them.    *)
(* sr1 is the copy in the program, and most loops look at it before they    *)
(* send anything.  A chip with an error set is busy until it is cleared.    *)

\* The array is read and compared by the hardware, 512 bytes at a time.
read_data(b, p) == mem[b][p]
verify_data_in_place(b, p, new) == mem[b][p] = new

\* A chip that is not there reads as ones.
fetch_rdid == IF board.answers \/ left.mishaps = 0 THEN "id" ELSE "ones"

Off(locked) == [wel |-> FALSE, errors |-> {}, quad |-> FALSE, locked |-> locked, sr1 |-> {}]

StatusOf(c) == c.errors \cup (IF c.wel THEN {"wel"} ELSE {})
                        \cup (IF c.errors # {} THEN {"busy"} ELSE {})
read_sr1(c) == [c EXCEPT !.sr1 = StatusOf(c)]

spi_clear_sr1(c) ==
  IF c.sr1 \cap {"program", "erase"} = {} THEN c ELSE read_sr1([c EXCEPT !.errors = {}])
spi_write_enable(c) == IF "wel" \in c.sr1 THEN c ELSE read_sr1([c EXCEPT !.wel = c.errors = {}])
spi_write_disable(c) == read_sr1([c EXCEPT !.wel = @ /\ c.errors # {}])

\* A write to the registers turns on quad mode; a pin may protect the chip.
enable_quad_mode(c) == read_sr1([c EXCEPT !.quad = TRUE, !.wel = FALSE])

\* The number of the block is shifted into the address of a 256 KB block,
\* whatever the size: shift is how far that is too much.
Addressed(b) == (b * board.shift) % Cardinality(Blocks)
Unlock(c, b) == read_sr1([c EXCEPT !.locked = @ \ {Addressed(b)}, !.wel = FALSE])
unprotect_flash(c, b) == Unlock(spi_write_enable(read_sr1(c)), b)

-----------------------------------------------------------------------------
(* Switching on.                                                            *)

Idle == [pc |-> "menu", slot |-> 0, at |-> 0, page |-> 0, tries |-> 0, file |-> "", files |-> <<>>,
         failed |-> FALSE]
NoAttic == [k \in 0..(SlotBlocks - 1) |-> JunkSector]

\* A chip that answers but cannot be made sense of stops the program, and so
\* does one that a pin protects.  One that does not answer is reset and asked
\* again.
probe_qspi_flash ==
  /\ At("start") /\ fetch_rdid = "id"
  /\ chip' = IF board.probed THEN enable_quad_mode(chip) ELSE chip
  /\ Goes(IF board.probed /\ ~board.protected THEN "warn" ELSE "hung")
  /\ UNCHANGED <<mem, attic, sd, slots, board, left>>
flash_reset ==
  /\ At("start") /\ fetch_rdid = "ones"
  /\ chip' = Off(board.locked)
  /\ left' = [left EXCEPT !.mishaps = @ - 1]
  /\ UNCHANGED <<mem, attic, sd, slots, job, board>>

\* Some patterns are written into the expansion RAM and read again; the last
\* one stays.  A board that was started over JTAG cannot start another core.
Patterns == {{0, 2, 4, 6}, {1, 3, 5, 7}, 0..7, {}}
lpeek(stored) == (stored \ board.low) \cup board.high
atticram_bad == \E pattern \in Patterns : lpeek(pattern) # pattern
reconfig_disabled == board.jtag

\* A warning waits for the button.
PressFire ==
  /\ At("warning")
  /\ Goes("scan")
  /\ UNCHANGED <<mem, chip, attic, sd, slots, board, left>>
Warn ==
  /\ At("warn")
  /\ Goes(IF reconfig_disabled \/ atticram_bad THEN "warning" ELSE "scan")
  /\ UNCHANGED <<mem, chip, attic, sd, slots, board, left>>

HasMagic(b) == LET page == read_data(b, 0)
               IN page.core \in DOMAIN Core /\ page.part = 0 /\ page.page = 0 /\ Core[page.core].magic
\* Slot 0 is always shown as a core.
Scanned(slot) ==
  CASE slot = 0 \/ HasMagic(slot * SlotBlocks) -> "valid"
    [] slot > 0 /\ mem[slot * SlotBlocks] = BlankBlock -> "empty"
    [] OTHER -> "unknown"
scan_bitstream_information == slots' = [slot \in Slots |-> Scanned(slot)]

\* Before the menu, and after a slot was reflashed or was not: the cursor is
\* where it was.
Scan ==
  /\ At("scan") \/ At("back") \/ At("updated")
  /\ scan_bitstream_information
  /\ job' = [Idle EXCEPT !.slot = job.slot]
  /\ UNCHANGED <<mem, chip, attic, sd, board, left>>

-----------------------------------------------------------------------------
(* The menu.                                                                *)

\* Up or left, and down: the cursor goes round.
MoveSlot == \E step \in {1, SlotCount - 1} :
  /\ At("menu")
  /\ job' = [job EXCEPT !.slot = (@ + step) % SlotCount]
  /\ UNCHANGED <<mem, chip, attic, sd, slots, board, left>>

\* The button starts anything but an empty slot, unless the board came up over
\* JTAG.
reconfig_fpga ==
  /\ At("menu") /\ ~reconfig_disabled
  /\ job.slot = 0 \/ slots[job.slot] # "empty"
  /\ Goes("core")
  /\ UNCHANGED <<mem, chip, attic, sd, slots, board, left>>

\* To the right the card is listed, unless the cursor is on slot 0.
SelectSlot ==
  /\ At("menu") /\ job.slot > 0 /\ ~atticram_bad /\ left.jobs > 0
  /\ left' = [left EXCEPT !.jobs = @ - 1]
  /\ sd' = hy_opendir(sd)
  /\ job' = [job EXCEPT !.pc = IF sd'.up = "hung" THEN "hung" ELSE "list",
                        !.files = <<"-erase slot-">>, !.at = 1]
  /\ UNCHANGED <<mem, chip, attic, slots, board>>

\* The core files, behind the entry that stands for erasing the slot.
IsListed(entry) == ~entry.gone /\ entry.name \in CoreNames
select_bitstream_file ==
  /\ At("list")
  /\ LET read == hy_readdir(sd)
     IN /\ sd' = read.s
        /\ \/ read.s.up = "hung" /\ Goes("hung")
           \/ read.s.up # "hung" /\ ~read.some /\ Goes("select")
           \/ /\ read.s.up # "hung" /\ read.some
              /\ job' = IF IsListed(read.entry) THEN [job EXCEPT !.files = Append(@, read.entry.name)]
                        ELSE job
  /\ UNCHANGED <<mem, chip, attic, slots, board, left>>

\* The cursor goes round.
Move == \E step \in {1, Len(job.files) - 1} :
  /\ At("select")
  /\ job' = [job EXCEPT !.at = 1 + ((@ - 1 + step) % Len(job.files))]
  /\ UNCHANGED <<mem, chip, attic, sd, slots, board, left>>

\* There is no way out but to choose.  Erasing asks for a key that nothing can
\* press, so it does not happen.
Choose ==
  /\ At("select")
  /\ job' = [job EXCEPT !.pc = IF job.at = 1 THEN "back" ELSE "open", !.file = job.files[job.at]]
  /\ UNCHANGED <<mem, chip, attic, sd, slots, board, left>>

-----------------------------------------------------------------------------
(* Loading a core.                                                          *)

\* A mutant: a core for another board is no reason to refuse.
AcceptedOfAnyModel(sector, megaonly) ==
  /\ sector.core \in DOMAIN Core /\ sector.part = 0
  /\ Core[sector.core].magic
  /\ megaonly => Core[sector.core].mega

\* A header without a model would need a key to be pressed.
Accepted(sector, megaonly) ==
  /\ sector.core \in DOMAIN Core /\ sector.part = 0
  /\ Core[sector.core].magic
  /\ megaonly => Core[sector.core].mega
  /\ Core[sector.core].model = "ours"

\* A read failed, which the program does not notice.
FailedIn(before, after) == before.good # NeverFails /\ after.good = NeverFails

\* The header is looked at in a buffer that was cleared.
OpenCore ==
  /\ At("open")
  /\ sd' = hy_opendir([sd EXCEPT !.buffer = NoSector])
  /\ Goes("find")
  /\ UNCHANGED <<mem, chip, attic, slots, board, left>>

\* The directory is searched, the second time after the header was looked at.
\* Whether the file was found that time is not asked: one that is not found
\* leaves the position in the file as it was.
Searching == At("find") \/ At("refind")
Found(read) == read.some /\ ~read.entry.gone /\ read.entry.name = job.file
Searched(read) ==
  \/ /\ read.s.up = "hung"
     /\ sd' = read.s /\ Goes("hung")
  \/ /\ read.s.up # "hung" /\ Found(read)
     /\ sd' = Positioned(read.s, read.entry)
     /\ job' = [job EXCEPT !.pc = IF At("find") THEN "check" ELSE "load", !.failed = @ \/ FailedIn(sd, read.s)]
  \/ /\ read.s.up # "hung" /\ ~read.some
     /\ sd' = read.s
     /\ job' = [job EXCEPT !.pc = IF At("find") THEN "back" ELSE "load", !.failed = @ \/ FailedIn(sd, read.s)]
  \/ /\ read.s.up # "hung" /\ read.some /\ ~Found(read)
     /\ sd' = read.s
     /\ job' = [job EXCEPT !.failed = @ \/ FailedIn(sd, read.s)]
hy_open ==
  /\ Searching
  /\ Searched(hy_readdir(sd))
  /\ UNCHANGED <<mem, chip, attic, slots, board, left>>

IsHeader(read) == read.some /\ Accepted(FileSector(read.s.buffer), job.slot = 0)
Checked(read) ==
  \/ read.s.up = "hung" /\ sd' = read.s /\ Goes("hung")
  \/ read.s.up # "hung" /\ ~IsHeader(read) /\ sd' = read.s /\ Goes("back")
  \/ /\ read.s.up # "hung" /\ IsHeader(read)
     /\ sd' = hy_opendir(read.s)
     /\ job' = [job EXCEPT !.pc = "refind", !.at = 0, !.failed = FALSE]
check_model_id_field ==
  /\ At("check")
  /\ Checked(hy_read512(sd))
  /\ UNCHANGED <<mem, chip, attic, slots, board, left>>

\* The file ends, or the slot is full.  What the buffer has is taken as the
\* sector.
LoadSector ==
  /\ At("load") /\ job.at < SlotBlocks
  /\ LET read == hy_read512(sd)
     IN /\ sd' = read.s
        /\ \/ read.s.up = "hung" /\ Goes("hung") /\ UNCHANGED attic
           \/ /\ read.s.up # "hung" /\ read.some
              /\ attic' = [attic EXCEPT ![job.at] = FileSector(read.s.buffer)]
              /\ job' = [job EXCEPT !.at = @ + 1, !.failed = @ \/ FailedIn(sd, read.s)]
           \/ /\ read.s.up # "hung" /\ ~read.some
              /\ job' = [job EXCEPT !.at = SlotBlocks] /\ UNCHANGED attic
  /\ UNCHANGED <<mem, chip, slots, board, left>>
Loaded ==
  /\ At("load") /\ job.at = SlotBlocks
  /\ job' = [job EXCEPT !.pc = "verify", !.at = 0]
  /\ UNCHANGED <<mem, chip, attic, sd, slots, board, left>>

-----------------------------------------------------------------------------
(* Writing the slot, from its first block up: every block that differs from *)
(* the expansion RAM is erased and programmed, and looked at again.         *)

Writes == UNCHANGED <<attic, sd, slots, board>>

flash_region_differs(k) ==
  \E p \in Pages : ~verify_data_in_place(InSlot(k), p, BlockOf(attic[k])[p])

\* The next block, or the end.
BlockDone == job' = IF job.at + 1 < SlotBlocks THEN [job EXCEPT !.at = @ + 1, !.tries = 0]
                    ELSE [job EXCEPT !.pc = "updated"]

\* A mutant: the last try is not looked at.
DiffersUnverified == IF job.tries + 1 = MaxTries THEN BlockDone
                     ELSE job' = [job EXCEPT !.pc = "erase", !.tries = @ + 1]

\* After the last try the program only asks to be switched off.
Differs == job' = IF job.tries = MaxTries THEN [job EXCEPT !.pc = "stuck"]
                  ELSE [job EXCEPT !.pc = "erase", !.tries = @ + 1]
Verify ==
  /\ At("verify")
  /\ \/ ChipWorks /\ IF flash_region_differs(job.at) THEN Differs ELSE BlockDone
     \/ ChipFails /\ Differs
  /\ UNCHANGED <<mem, chip>> /\ Writes

\* A block that is still protected, or fails to be erased, makes an error, and
\* the wait for it has no end.  One that is not erased well shows later.
Erased(c, b)  == IF c.wel THEN [mem EXCEPT ![b] = BlankBlock] ELSE mem
Spoilt(b, p)  == mem' = [mem EXCEPT ![b][p] = Junk]
Error(c, e)   == chip' = read_sr1([c EXCEPT !.wel = FALSE, !.errors = {e}])
Completes(c)  == chip' = read_sr1([c EXCEPT !.wel = FALSE])
Erases(c, b) ==
  \/ b \in c.locked    /\ Error(c, "erase") /\ Goes("hung") /\ UNCHANGED mem /\ ChipWorks
  \/ /\ b \notin c.locked
     /\ \/ /\ job' = [job EXCEPT !.pc = "program", !.page = 0]
           /\ Completes(c)
           /\ \/ ChipWorks /\ mem' = Erased(c, b)
              \/ ChipFails /\ Spoilt(b, 0)
        \/ ChipFails /\ Error(c, "erase") /\ Goes("hung") /\ Spoilt(b, 0)
erase_sector ==
  /\ At("erase")
  /\ Erases(spi_clear_sr1(spi_write_enable(unprotect_flash(chip, InSlot(job.at)))), InSlot(job.at))
  /\ Writes

\* One pass over a page: errors are cleared, the latch is set.  An error makes
\* another pass, as often as there is one; a page can also go wrong unnoticed.
\* A page that is not blank loses bits.
Prepared(c) == spi_write_enable(spi_write_disable(spi_clear_sr1(c)))
Combined(old, new) == IF old \in {Blank, Some(new), new} THEN new ELSE Junk
Programmed(c, b, new) ==
  IF c.wel /\ c.quad THEN [mem EXCEPT ![b][job.page] = Combined(@, new)] ELSE mem
PartOf(old, new) == IF old = Blank /\ new # Junk THEN Some(new) ELSE old
PageDone == job' = IF job.page + 1 < PagesPerBlock THEN [job EXCEPT !.page = @ + 1]
                   ELSE [job EXCEPT !.pc = "verify"]
Programs(c, b, new) ==
  \/ ChipWorks /\ Completes(c) /\ PageDone /\ mem' = Programmed(c, b, new)
  \/ ChipFails /\ Completes(c) /\ PageDone /\ Spoilt(b, job.page)
  \/ /\ ChipFails /\ Error(c, "program") /\ UNCHANGED job
     /\ mem' = [mem EXCEPT ![b][job.page] = PartOf(@, new)]
program_page ==
  /\ At("program")
  /\ Programs(Prepared(chip), InSlot(job.at), BlockOf(attic[job.at])[job.page])
  /\ Writes

-----------------------------------------------------------------------------
(* Failures of the card, and switching off.                                 *)

CardFails ==
  /\ sd.up = "yes" /\ sd.good = NeverFails /\ left.mishaps > 0
  /\ At("menu") \/ At("list") \/ Searching \/ At("check") \/ At("load")
  /\ left' = [left EXCEPT !.mishaps = @ - 1]
  /\ \E reads \in Reads, asks \in BOOLEAN, stray \in Clusters(sd.bus) \cup {0} :
       sd' = [sd EXCEPT !.good = reads, !.asks = asks, !.stray = stray]
  /\ UNCHANGED <<mem, chip, attic, slots, job, board>>

Changing == At("erase") \/ At("program")
PowerCycle ==
  /\ ~At("start") /\ left.mishaps > 0
  /\ left' = [left EXCEPT !.mishaps = @ - 1]
  /\ UNCHANGED mem \/ (Changing /\ mem' = [mem EXCEPT ![InSlot(job.at)][0] = Junk])
  /\ chip' = Off(board.locked)
  /\ attic' = NoAttic
  /\ sd' = NotSetUp(board.cards)
  /\ slots' = [slot \in Slots |-> "empty"]
  /\ job' = [Idle EXCEPT !.pc = "start"]
  /\ UNCHANGED board

Init ==
  /\ mem \in Flashes
  /\ board \in Boards
  /\ chip = Off(board.locked)
  /\ attic = NoAttic
  /\ sd = NotSetUp(board.cards)
  /\ slots = [slot \in Slots |-> "empty"]
  /\ job = [Idle EXCEPT !.pc = "start"]
  /\ left = [mishaps |-> Mishaps, jobs |-> Jobs]

Next == \/ probe_qspi_flash \/ flash_reset \/ Warn \/ PressFire \/ Scan
        \/ MoveSlot \/ reconfig_fpga \/ SelectSlot \/ select_bitstream_file \/ Move \/ Choose
        \/ OpenCore \/ hy_open \/ check_model_id_field \/ LoadSector \/ Loaded
        \/ Verify \/ erase_sector \/ program_page
        \/ CardFails \/ PowerCycle
Spec == Init /\ [][Next]_vars

-----------------------------------------------------------------------------
(* Properties.                                                              *)

\* The core file that the user chose.
Chosen == CHOOSE c \in DOMAIN Core : Core[c].name = job.file

\* When the program says "Flash slot successfully updated" the slot holds what
\* was loaded, page by page, whatever went wrong on the chip in between: wrong
\* pages, errors, retries.  Where no read of the card failed either, that is
\* the core file, as far as it goes.
UpdatedIsWritten ==
  At("updated") =>
    /\ \A k \in 0..(SlotBlocks - 1) : mem[InSlot(k)] = BlockOf(attic[k])
    /\ ~job.failed => \A k \in 0..(SlotBlocks - 1) :
         k < Core[Chosen].length => attic[k] = CorePart(Chosen, k)

\* The flash changes only in the slot that was chosen, which is never slot 0,
\* and only when the file that was chosen is a core for this board: no stale
\* buffer and no fall-back to the other card passes check_model_id_field.
OnlyForThisBoard ==
  [][\A b \in Blocks : mem'[b] # mem[b] =>
       /\ job.slot # 0 /\ b \in {InSlot(k) : k \in 0..(SlotBlocks - 1)}
       /\ Core[Chosen].magic /\ Core[Chosen].model = "ours"]_vars
=============================================================================
