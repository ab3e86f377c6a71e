----------------------------- MODULE CoreFlasher -----------------------------
(***************************************************************************)
(* The core flasher (src/utilities/megaflash): it starts a core when the   *)
(* board is switched on, and writes core files into the slots of the flash *)
(* chip.  One step is one operation on the chip, one sector read from the  *)
(* card or one key.                                                        *)
(*                                                                         *)
(* The flash is in erase blocks, SlotBlocks to a slot.  A block holds a    *)
(* part of a core, whole or without its first sector, which is programmed  *)
(* last; or it is blank; or it is junk.  Part 0 has the flags of the core. *)
(* There are three builds: attic and disk, which are part of a core and    *)
(* keep a core file in the expansion RAM or read it again from the card,   *)
(* and solo, a program that can do either.                                 *)
(***************************************************************************)
EXTENDS CoreFiles, FiniteSets

CONSTANTS SlotCount, MAX_RETRY,
          EditBlocks,         \* erase blocks in the 256 KB that hold a header
          PagesPerBlock,      \* an erase list counts pages of 64 KB
          Boards,             \* how a board may be set when it is switched on
          Models,             \* the slot size of each model, in erase blocks (MB in the code)
          NoBlock,            \* the erase block that never holds what is written
          Flashes,            \* what may be in the flash at first
          Unset,              \* what a variable that was not initialised may hold
          Reads,              \* how many sectors may be read before the card fails
          Mishaps, Jobs       \* bounds: failures and power cycles, edited slots

ASSUME FlasherAssumption == /\ SlotCount \in Nat /\ SlotCount > 1
                            /\ MAX_RETRY \in Nat \ {0}
                            /\ EditBlocks \in Nat /\ PagesPerBlock \in Nat
                            /\ EditBlocks * PagesPerBlock = 4
                            /\ EditBlocks <= SlotBlocks

VARIABLES
  flash,   \* the chip
  attic,   \* a slot's worth of expansion RAM
  sd,      \* the library that reads the card
  hdr,     \* mfsc_corehdr_*
  slots,   \* slot_core
  erase0,  \* mfhf_slot0_erase_list
  ui,      \* what the user chose
  job,     \* where the program is
  board,   \* how the board is set
  left     \* what the bounds leave

vars == <<flash, attic, sd, hdr, slots, erase0, ui, job, board, left>>

Slots    == 0..(SlotCount - 1)
Blocks   == 0..(SlotCount * SlotBlocks - 1)
InSlot(b) == job.slot * SlotBlocks + b

Blank == [core |-> "blank", part |-> 0, flags |-> {}, whole |-> TRUE]
Junk  == [Blank EXCEPT !.core = "junk"]
\* What is of no core is junk.
Part(x) == IF x.core \notin DOMAIN Core THEN Junk
           ELSE [core |-> x.core, part |-> x.part, whole |-> TRUE,
                 flags |-> IF x.part = 0 THEN Core[x.core].flags ELSE {}]

IsBlock(x) == /\ DOMAIN x = DOMAIN Blank /\ x.whole \in BOOLEAN
              /\ x.core \in DOMAIN Core \cup {"blank", "junk"}

\* The flash that a board comes with: headers are of cores that were checked,
\* and above slot 0 the rest of the core follows.
ASSUME FlashAssumption ==
  \A f \in Flashes :
    /\ DOMAIN f = Blocks /\ \A b \in Blocks : IsBlock(f[b])
    /\ \A slot \in Slots :
         LET c == f[slot * SlotBlocks].core
         IN f[slot * SlotBlocks].whole /\ c \in DOMAIN Core =>
            /\ Core[c].crc /\ HeaderOk(Core[c], slot = 0)
            /\ slot > 0 => \A k \in 1..(Core[c].length - 1) :
                            f[slot * SlotBlocks + k] = Part([core |-> c, part |-> k])

\* Without its first sector a block looks empty.
HasCore(b)   == flash[b].whole /\ flash[b].core \in DOMAIN Core
LooksBlank(b) == flash[b] = Blank \/ ~flash[b].whole

\* Where the program is.  at is the erase block in the slot, el the place in
\* the erase list, chain the positions in the file of the blocks of the core.
Idle == [pc |-> "menu", slot |-> 0, at |-> 0, tries |-> 0, el |-> 0, back |-> "next",
         chain |-> <<>>, bringup |-> FALSE]
NoChoice == [file |-> "none", disabled |-> FALSE, dir |-> NothingListed, at |-> 0, shown |-> FALSE]
NotScanned(slot) == [valid |-> IF slot = 0 THEN "valid" ELSE "empty", caps |-> {}, flags |-> {},
                     real |-> {}, length |-> IF slot = 0 THEN SlotBlocks ELSE 0]

IsSolo   == board.build = "solo"
FromDisk == board.build = "disk" \/ (IsSolo /\ ui.disabled)
At(pc)   == job.pc = pc
Goes(pc) == job' = IF pc = "menu" THEN Idle ELSE [job EXCEPT !.pc = pc]

\* The chip may fail, and the power may, as often as the bound leaves.
ChipFails == left.mishaps > 0 /\ left' = [left EXCEPT !.mishaps = @ - 1]
ChipWorks == UNCHANGED left

-----------------------------------------------------------------------------
(* Finding out about the board.  chip has the number of the model, the size *)
(* of the flash in erase blocks, and which KB can be erased at once.        *)

\* The high half of the number is a minor version.
hw_model_id(b) == b.chip.model % 16
mfut_probe_hardware_version(b) == hw_model_id(b) \in DOMAIN Models

EraseSizes == {4, 32, 64, 256}
Supported(b) == b.chip.erases \cap EraseSizes
max_erase_block_size(b) == CHOOSE size \in Supported(b) : \A other \in Supported(b) : other <= size

mfhf_init(b) == Supported(b) # {}
slot_count(b) == b.chip.size \div Models[hw_model_id(b)]

ASSUME SwitchAssumption == \A b \in Boards : 1 + b.switch \in Slots

ASSUME ChipAssumption ==
  \A b \in Boards : mfut_probe_hardware_version(b) /\ mfhf_init(b) =>
    /\ slot_count(b) = SlotCount /\ Models[hw_model_id(b)] = SlotBlocks
    /\ max_erase_block_size(b) = 64 * PagesPerBlock

-----------------------------------------------------------------------------
(* The chip: the commands of qspiflash.c that change it.  What a failed     *)
(* erase leaves is anything; a byte that is not blank cannot be programmed. *)

Erased(b)     == flash' = [flash EXCEPT ![b] = IF b = board.defect THEN Junk ELSE Blank]
Spoilt(b)     == flash' = [flash EXCEPT ![b] = Junk]
SpoiltOrKept(b) == Spoilt(b) \/ UNCHANGED flash
Programs(b, from, to) ==
  flash' = [flash EXCEPT ![b] = IF @ = from /\ b # board.defect THEN to ELSE Junk]

-----------------------------------------------------------------------------
(* Looking at the slots.                                                    *)

\* The core flags of a slot count only where no slot before has them.
FlagsOf(slot, bad) ==
  flash[slot * SlotBlocks].flags
    \ UNION {flash[k * SlotBlocks].flags : k \in {k \in Slots \ bad : k < slot /\ HasCore(k * SlotBlocks)}}

\* What is known of a slot after its header was read, or could not be (bad).
\* A search for a slot to start does not look at lengths.
Scanned(slot, bad, searching) ==
  LET header == slot * SlotBlocks
      length == IF searching THEN slots[slot].length
                ELSE IF slot \in bad \/ ~HasCore(header) THEN 0 ELSE Core[flash[header].core].length
  IN CASE slot \in bad -> [slots[slot] EXCEPT !.valid = "fail", !.length = length]
       [] slot \notin bad /\ HasCore(header) ->
            [valid |-> "valid", caps |-> Core[flash[header].core].caps, real |-> flash[header].flags,
             flags |-> FlagsOf(slot, bad), length |-> length]
       [] OTHER ->
            [valid |-> IF LooksBlank(header) THEN "empty" ELSE "invalid", caps |-> {}, flags |-> {},
             real |-> slots[slot].real, length |-> length]

\* The first slot with the flag that is looked for, else with the default
\* flag, else the slot that the switch says.
FirstWith(flag, bad) ==
  LET with == {k \in Slots \ bad : HasCore(k * SlotBlocks) /\ flag \in FlagsOf(k, bad)}
  IN IF with = {} THEN SlotCount ELSE CHOOSE k \in with : \A l \in with : k <= l
Selected(search, bad) ==
  IF FirstWith(search, bad) < SlotCount THEN FirstWith(search, bad)
  ELSE IF FirstWith("default", bad) < SlotCount THEN FirstWith("default", bad)
  ELSE 1 + board.switch

Looks(bad, searching) ==
  /\ IF bad = {} THEN ChipWorks ELSE ChipFails
  /\ slots' = [slot \in Slots |-> Scanned(slot, bad, searching)]
  /\ erase0' = IF searching \/ 0 \in bad \/ ~HasCore(0) THEN erase0 ELSE Core[flash[0].core].list
Unreadable == {{}} \cup {{k} : k \in Slots}
scan_core_information == \E bad \in Unreadable : Looks(bad, FALSE)

-----------------------------------------------------------------------------
(* Switching on.                                                            *)

\* A core or the hypervisor takes over: what the program had is gone.
NoAttic == [k \in 0..(SlotBlocks - 1) |-> Junk]
Fresh ==
  /\ attic' = NoAttic
  /\ sd' = NotInitialised(NeverFails)
  /\ hdr' = NoHeader
  /\ slots' = [slot \in Slots |-> NotScanned(slot)]
  /\ erase0' = <<>>
  /\ ui' = NoChoice
HandsOver(pc, slot) == job' = [Idle EXCEPT !.pc = pc, !.slot = slot]
                       /\ UNCHANGED <<flash, board>> /\ Fresh

\* A cartridge is known by its marks, else by the lines it pulls.
check_cartridge(cart) == IF cart.m65 THEN "m65"
                         ELSE IF cart.cbm80 \/ cart.low THEN "c64"
                         ELSE IF cart.cbm THEN "c128" ELSE "default"

hard_exit == HandsOver("hyppo", 0)

\* An unknown board, ESC, or a flash chip that cannot be reset or erased.
Inits == mfut_probe_hardware_version(board) /\ mfhf_init(board)
LeaveAtOnce ==
  /\ At("start")
  /\ \/ ~Inits /\ ChipWorks
     \/ ~IsSolo /\ board.esc /\ ChipWorks
     \/ ChipFails
  /\ hard_exit

\* A board that was started over JTAG may find a file to write to slot 0.
FoundFile == IF board.jtag THEN mfsc_findcorefile(sd, hdr, 0) ELSE [s |-> sd, h |-> hdr, ok |-> FALSE]

Brings == FoundFile.ok /\ FoundFile.h.auto
BringUp ==
  /\ sd' = FoundFile.s /\ hdr' = FoundFile.h
  /\ job' = [job EXCEPT !.pc = "open", !.bringup = TRUE, !.slot = 0]
  /\ ui' = [ui EXCEPT !.file = "valid"]
  /\ UNCHANGED <<flash, attic, slots, erase0, board, left>>

\* The slot that was selected is started, left alone when it is empty, or
\* warned about.
StartSelected(bad) ==
  LET slot  == Selected(check_cartridge(board.cart), bad)
      valid == Scanned(slot, bad, TRUE).valid
  IN /\ valid \in {"valid", "empty"}
     /\ IF bad = {} THEN ChipWorks ELSE ChipFails
     /\ HandsOver(IF valid = "valid" THEN "core" ELSE "hyppo", slot)
WarnsOf(bad) ==
  /\ Scanned(Selected(check_cartridge(board.cart), bad), bad, TRUE).valid \in {"invalid", "fail"}
  /\ Looks(bad, TRUE)
  /\ sd' = FoundFile.s /\ hdr' = FoundFile.h /\ Goes("interactive")
  /\ UNCHANGED <<flash, attic, ui, board>>

StartUp ==
  /\ At("start") /\ Inits /\ ~IsSolo /\ ~board.esc /\ ~board.noscroll
  /\ \/ Brings /\ BringUp
     \/ ~Brings /\ board.reconfigured /\ hard_exit /\ ChipWorks
     \/ ~Brings /\ ~board.reconfigured /\ \E bad \in Unreadable : StartSelected(bad) \/ WarnsOf(bad)

\* The menu comes up with NO SCROLL held, after a warning, or on its own.
Interactive ==
  /\ \/ At("interactive")
     \/ At("start") /\ Inits /\ (IsSolo \/ (board.noscroll /\ ~board.esc))
  /\ scan_core_information
  /\ job' = Idle
  /\ ui' = [ui EXCEPT !.disabled = IsSolo /\ board.atticbad]
  /\ UNCHANGED <<flash, attic, sd, hdr, board>>

-----------------------------------------------------------------------------
(* The menu and the slot editor.                                            *)

Key(pc) == At(pc) /\ UNCHANGED <<flash, attic, board>>

\* Starts any slot that is not empty, and slot 0 in any case.
perhaps_reconfig == \E slot \in Slots :
  /\ At("menu") /\ ~board.jtag
  /\ slot = 0 \/ slots[slot].valid # "empty"
  /\ HandsOver("core", slot)
  /\ ChipWorks

Leave == At("menu") /\ hard_exit /\ ChipWorks

\* A part of a core shows which slot it would start, and looks for it.
display_version == /\ Key("menu") /\ ~IsSolo
                   /\ \E bad \in Unreadable : Looks(bad, TRUE)
                   /\ UNCHANGED <<sd, hdr, ui, job>>

EditSlot == \E slot \in Slots :
  /\ Key("menu") /\ left.jobs > 0
  /\ left' = [left EXCEPT !.jobs = @ - 1]
  /\ job' = [Idle EXCEPT !.pc = "edit", !.slot = slot]
  /\ ui' = [ui EXCEPT !.file = "none"]
  /\ hdr' = [hdr EXCEPT !.flags = slots[slot].real, !.caps = slots[slot].caps, !.length = slots[slot].length]
  /\ UNCHANGED <<sd, slots, erase0>>

Cancel == Key("edit") /\ Goes("menu") /\ UNCHANGED <<sd, hdr, slots, erase0, ui, left>>

ToggleFlag == \E flag \in hdr.caps :
  /\ Key("edit") /\ job.slot > 0
  /\ hdr' = [hdr EXCEPT !.flags = (@ \ {flag}) \cup ({flag} \ @)]
  /\ UNCHANGED <<sd, slots, erase0, ui, job, left>>

ToggleAttic == /\ Key("edit") /\ IsSolo /\ ~board.atticbad
               /\ ui' = [ui EXCEPT !.disabled = ~@]
               /\ UNCHANGED <<sd, hdr, slots, erase0, job, left>>

\* Slot 0 can be erased only with another core in the FPGA.
ChooseErase == /\ Key("edit") /\ (IsSolo \/ job.slot > 0 \/ board.jtag)
               /\ ui' = [ui EXCEPT !.file = "erase"]
               /\ UNCHANGED <<sd, hdr, slots, erase0, job, left>>

-----------------------------------------------------------------------------
(* The chooser of core files.                                               *)

SlotsStay == UNCHANGED <<slots, erase0, left>>

\* The chooser ends, and lists anew when it is used again.
Chosen(file) == [ui EXCEPT !.file = file, !.dir = NothingListed, !.at = 0, !.shown = FALSE]

\* A directory was read, or the chooser ends without a file.
Lists(loaded) ==
  /\ sd' = loaded.s
  /\ ui' = IF loaded.d.ok THEN [ui EXCEPT !.dir = loaded.d, !.at = 1, !.shown = FALSE]
            ELSE Chosen("none")
  /\ Goes(IF loaded.d.ok THEN "select" ELSE "edit")
  /\ UNCHANGED hdr /\ SlotsStay

\* F3 begins with the directory CORE of the external card.
ChooseCore == \E unset \in Unset :
  Key("edit") /\ Lists(mfsc_load_dir(sd, ui.dir, 1, TRUE, TRUE, unset))
SwitchDisk == \E unset \in Unset :
  Key("select") /\ Lists(mfsc_load_dir(sd, ui.dir, 1 - ui.dir.bus, TRUE, FALSE, unset))
SwitchDir == \E unset \in Unset :
  Key("select") /\ Lists(mfsc_load_dir(sd, ui.dir, ui.dir.bus, ~ui.dir.core, FALSE, unset))

\* The cursor stays in the list, and before it when the list is empty.
Move == \E at \in {1, Len(ui.dir.files), ui.at - 1, ui.at + 1} :
  /\ Key("select")
  /\ at = 1 \/ at \in DOMAIN ui.dir.files \/ (at = 0 /\ ui.dir.files = <<>>)
  /\ ui' = [ui EXCEPT !.at = at, !.shown = FALSE]
  /\ UNCHANGED <<sd, hdr, job>> /\ SlotsStay

\* Past the list the table of inodes is clear; before it there is anything.
InodeAt == CASE ui.at \in DOMAIN ui.dir.files -> {ui.dir.files[ui.at]}
             [] ui.at = 0                     -> {0} \cup Card[sd.bus].files
             [] OTHER                         -> {0}
CheckedAt(ino) == mfsc_checkcore(sd, [hdr EXCEPT !.ino = ino], job.slot = 0)

\* Left alone for a while the chooser shows the header of the file.
Preview == \E ino \in InodeAt :
  /\ Key("select") /\ ~ui.shown
  /\ sd' = CheckedAt(ino).s /\ hdr' = CheckedAt(ino).h
  /\ ui' = [ui EXCEPT !.shown = TRUE]
  /\ UNCHANGED job /\ SlotsStay

Pick == \E ino \in InodeAt :
  /\ Key("select")
  /\ sd' = CheckedAt(ino).s /\ hdr' = CheckedAt(ino).h
  /\ IF CheckedAt(ino).ok /\ ino # 0
     THEN ui' = Chosen("valid") /\ Goes("edit")
     ELSE ui' = [ui EXCEPT !.shown = FALSE] /\ UNCHANGED job
  /\ SlotsStay

Abort == /\ Key("select") /\ Goes("edit")
         /\ ui' = Chosen("none")
         /\ UNCHANGED <<sd, hdr>> /\ SlotsStay

\* F8 does what was chosen, or changes the flags when nothing was.
Flash ==
  /\ Key("edit")
  /\ \/ ui.file = "erase" /\ Goes("begin")
     \/ ui.file = "valid" /\ Goes("open")
     \/ ui.file = "none" /\ slots[job.slot].real # hdr.flags /\ ~FromDisk /\ Goes("reread")
  /\ UNCHANGED <<sd, hdr, slots, erase0, ui, left>>

-----------------------------------------------------------------------------
(* Loading a core.                                                          *)

Works == UNCHANGED <<slots, erase0, board>>

\* Back to the menu, or a board that is brought up waits to be switched off.
GivesUp == Goes(IF job.bringup THEN "off" ELSE "menu")

OpenCore ==
  /\ At("open")
  /\ IF CannotOpen(sd) THEN GivesUp /\ UNCHANGED sd
     ELSE /\ sd' = nhsd_open(sd, hdr.ino)
          /\ job' = [job EXCEPT !.pc = "load", !.at = 0, !.chain = <<>>]
  /\ UNCHANGED <<flash, attic, hdr, ui, left>> /\ Works

\* Bad expansion RAM does not keep what is stored.
InAttic(x) == IF board.atticbad THEN Junk ELSE x
Loads(read) ==
  /\ sd' = read.s
  /\ IF read.err # "ok" THEN GivesUp /\ UNCHANGED attic
     ELSE /\ attic' = IF FromDisk THEN attic ELSE [attic EXCEPT ![job.at] = InAttic(Part(read.s.sector))]
          /\ job' = [job EXCEPT !.at = @ + 1,
                                !.chain = Append(@, [cluster |-> sd.cluster, within |-> sd.within])]
LoadSector ==
  /\ At("load") /\ job.at < hdr.length
  /\ Loads(nhsd_read(sd))
  /\ UNCHANGED <<flash, hdr, ui, left>> /\ Works

\* The key leaves the file open, but the checksum comes after it was closed.
AbortLoad == /\ At("load") /\ job.at > 0 /\ ~(FromDisk /\ job.at >= hdr.length)
             /\ sd' = IF job.at < hdr.length THEN sd ELSE nhsd_close(sd)
             /\ GivesUp
             /\ UNCHANGED <<flash, attic, hdr, ui, left>> /\ Works

\* What is written in the block: from the expansion RAM or from the card.
OnCard(k) == Card[sd.bus].sectors[job.chain[k + 1].cluster][job.chain[k + 1].within + 1]
Source(k) == IF FromDisk THEN Part(OnCard(k)) ELSE attic[k]

\* A mutant: the checksum in the header is not compared.
get_crc32Ignored == \E c \in DOMAIN Core : /\ Core[c].length = hdr.length
                                           /\ \A k \in 0..(hdr.length - 1) :
                                                Source(k) = Part([core |-> c, part |-> k])

\* The checksum is right when the blocks are those of one good core.
get_crc32 == \E c \in DOMAIN Core : /\ Core[c].crc /\ Core[c].length = hdr.length
                                    /\ \A k \in 0..(hdr.length - 1) :
                                         Source(k) = Part([core |-> c, part |-> k])

\* The flags that were set, over those of what was loaded.
Patched(x) == [(IF x.whole /\ x.core \in DOMAIN Core /\ x.part = 0 THEN x ELSE Junk)
                 EXCEPT !.flags = hdr.flags]
CheckCrc ==
  /\ At("load") /\ job.at >= hdr.length
  /\ sd' = nhsd_close(sd)
  /\ attic' = IF FromDisk THEN attic ELSE [attic EXCEPT ![0] = Patched(@)]
  /\ IF hdr.length > 0 /\ get_crc32 THEN Goes("begin") ELSE GivesUp
  /\ UNCHANGED <<flash, hdr, ui, left>> /\ Works

\* To change the flags of a slot the start of it is loaded from the chip.
load_core_from_flash ==
  /\ At("reread")
  /\ \/ /\ ChipWorks
        /\ attic' = [k \in DOMAIN attic |->
                       CASE k = 0          -> InAttic(Patched(flash[InSlot(0)]))
                         [] k \in 1..(EditBlocks - 1) -> InAttic(flash[InSlot(k)])
                         [] OTHER          -> attic[k]]
        /\ hdr' = [hdr EXCEPT !.length = EditBlocks]
        /\ ui' = [ui EXCEPT !.file = "valid"] /\ Goes("begin")
     \/ ChipFails /\ Goes("menu") /\ UNCHANGED <<attic, hdr, ui>>
  /\ UNCHANGED <<flash, sd>> /\ Works

-----------------------------------------------------------------------------
(* Writing a slot.                                                          *)

Writes == UNCHANGED <<attic, hdr, ui>> /\ Works
ListBlock(page) == (page \div PagesPerBlock) % SlotBlocks

begin ==
  /\ At("begin")
  /\ IF FromDisk /\ ui.file = "valid"
     THEN sd' = nhsd_open(sd, hdr.ino) ELSE UNCHANGED sd
  /\ IF FromDisk /\ ui.file = "valid" /\ CannotOpen(sd) THEN Goes("rescan")
     ELSE job' = [job EXCEPT !.pc = IF job.slot = 0 /\ erase0 # <<>> THEN "list0" ELSE "header",
                             !.at = 0, !.el = IF job.slot = 0 THEN Len(hdr.list) ELSE 0]
  /\ UNCHANGED <<flash, left>> /\ Writes

\* Of the blocks on the erase list of slot 0 only the first one is erased.
EraseList0 ==
  /\ At("list0")
  /\ \/ ChipWorks /\ Erased(ListBlock(erase0[1])) /\ Goes("header")
     \/ ChipFails /\ SpoiltOrKept(ListBlock(erase0[1])) /\ Goes("rescan")
  /\ UNCHANGED sd /\ Writes

\* The whole slot is erased, or the block with the header.  A block of slot 0
\* that cannot be erased ends the erasing, and that is all.
\* A mutant: the last block of the slot is left.
ToEraseButLast == IF ui.file = "erase" THEN SlotBlocks - 1 ELSE 1

ToErase == IF ui.file = "erase" THEN SlotBlocks ELSE 1
HeaderIsErased ==
  job' = [job EXCEPT !.pc = IF ui.file = "erase" THEN "finish" ELSE "next", !.at = SlotBlocks]
EraseHeader ==
  /\ At("header")
  /\ \/ /\ ChipWorks /\ Erased(InSlot(job.at))
        /\ IF job.at + 1 < ToErase THEN job' = [job EXCEPT !.at = @ + 1] ELSE HeaderIsErased
     \/ /\ ChipFails /\ SpoiltOrKept(InSlot(job.at))
        /\ IF job.slot = 0 THEN HeaderIsErased ELSE Goes("rescan")
  /\ UNCHANGED sd /\ Writes

\* The blocks are written from the top of the slot down; those past the end
\* of the core are skipped, and those on the erase list of the new core.
WriteBlock(b, back) ==
  job' = [job EXCEPT !.pc = "verify", !.at = b, !.tries = 0, !.back = back]
\* A mutant: the last block of the core is taken for one past it.
SkippedTooEarly(b) == b + 1 >= hdr.length

Skipped(b) == b >= hdr.length
OnList(b) == job.el > 0 /\ ListBlock(hdr.list[job.el]) = b
NextBlock ==
  /\ At("next")
  /\ LET b == job.at - 1
     IN CASE job.at = 0  -> job' = [job EXCEPT !.pc = IF job.slot = 0 THEN "list" ELSE "finish",
                                               !.el = Len(hdr.list)]
          [] job.at > 0 /\ Skipped(b) -> job' = [job EXCEPT !.at = b]
          [] job.at > 0 /\ ~Skipped(b) /\ OnList(b) -> job' = [job EXCEPT !.at = b, !.el = @ - 1]
          [] OTHER -> WriteBlock(b, "next")
  /\ UNCHANGED <<flash, sd, left>> /\ Writes

\* Last the blocks on that list, but not the one with the header.
NextListed ==
  /\ At("list")
  /\ CASE job.el = 0                        -> Goes("finish")
       [] job.el > 0 /\ hdr.list[job.el] = 0 -> job' = [job EXCEPT !.el = @ - 1]
       [] OTHER -> job' = [job EXCEPT !.pc = "verify", !.at = ListBlock(hdr.list[job.el]),
                                      !.tries = 0, !.back = "list", !.el = @ - 1]
  /\ UNCHANGED <<flash, sd, left>> /\ Writes

\* From the card a block is read again from where it begins in the file.
Reread == IF FromDisk THEN nhsd_read([sd EXCEPT !.cluster = job.chain[job.at + 1].cluster,
                                                !.within = job.chain[job.at + 1].within])
          ELSE Result(sd, "ok")

\* A mutant: one try too many.
DiffersTooLong == Goes(IF job.tries <= MAX_RETRY THEN "erase" ELSE IF IsSolo THEN "rescan" ELSE "stuck")

\* A program that has no flash inspector stops after the last try.
Differs == Goes(IF job.tries < MAX_RETRY THEN "erase" ELSE IF IsSolo THEN "rescan" ELSE "stuck")
GiveUp == At("verify") /\ job.tries = MAX_RETRY /\ Differs
          /\ UNCHANGED <<flash, sd, left>> /\ Writes
qspi_flash_verify(k) == flash[InSlot(k)] = Source(k)
Verify ==
  /\ At("verify") /\ job.tries < MAX_RETRY
  /\ sd' = Reread.s
  /\ \/ /\ ChipWorks
        /\ IF Reread.err \in {"ok", "eof"} /\ qspi_flash_verify(job.at)
           THEN Goes(job.back) ELSE Differs
     \/ ChipFails /\ Differs
  /\ UNCHANGED flash /\ Writes

\* Whether the block was erased is seen when it is programmed and verified.
EraseBlock ==
  /\ At("erase") /\ Goes("body")
  /\ \/ ChipWorks /\ Erased(InSlot(job.at))
     \/ ChipFails /\ SpoiltOrKept(InSlot(job.at))
  /\ UNCHANGED sd /\ Writes

\* A mutant: the tries are not counted.
TriesForever == Goes("verify")

TriesAgain == job' = [job EXCEPT !.pc = "verify", !.tries = @ + 1]
BodyOf(x) == [x EXCEPT !.whole = FALSE]
ProgramBody ==
  /\ At("body")
  /\ sd' = Reread.s
  /\ IF Reread.err \notin {"ok", "eof"} THEN Goes("rescan") /\ UNCHANGED <<flash, left>>
     ELSE \/ ChipWorks /\ Programs(InSlot(job.at), Blank, BodyOf(Source(job.at))) /\ Goes("head")
          \/ ChipFails /\ Spoilt(InSlot(job.at)) /\ TriesAgain
  /\ Writes
ProgramHead ==
  /\ At("head") /\ TriesAgain
  /\ \/ ChipWorks /\ Programs(InSlot(job.at), BodyOf(Source(job.at)), Source(job.at))
     \/ ChipFails /\ Spoilt(InSlot(job.at))
  /\ UNCHANGED sd /\ Writes

\* A mutant: only success makes the program look again.
RescanFinished ==
  /\ At("finish") \/ At("rescan")
  /\ CASE job.bringup  -> Goes("off") /\ UNCHANGED <<slots, erase0, left>>
       [] ~job.bringup /\ At("finish") -> Goes("menu") /\ scan_core_information
       [] OTHER -> Goes("menu") /\ UNCHANGED <<slots, erase0, left>>
  /\ UNCHANGED <<flash, attic, sd, hdr, ui, board>>

\* Success or not, the slots are looked at again; a board that is brought up
\* waits to be switched off.
Rescan ==
  /\ At("finish") \/ At("rescan")
  /\ IF job.bringup THEN Goes("off") /\ UNCHANGED <<slots, erase0, left>>
     ELSE Goes("menu") /\ scan_core_information
  /\ UNCHANGED <<flash, attic, sd, hdr, ui, board>>

-----------------------------------------------------------------------------
(* Switching off at any time.                                               *)

\* The block that is being erased or programmed is not what it was.
Changing == CASE At("list0")                       -> {ListBlock(erase0[1])}
              [] At("header") \/ At("erase") \/ At("body") \/ At("head") -> {InSlot(job.at)}
              [] OTHER                             -> {}

\* The card fails, at the next sector or while a directory is read.
CardFails ==
  /\ At("edit") \/ At("select") \/ At("load") \/ At("verify") \/ At("body")
  /\ sd.good = NeverFails /\ left.mishaps > 0
  /\ left' = [left EXCEPT !.mishaps = @ - 1]
  /\ \E reads \in Reads : sd' = [sd EXCEPT !.good = reads]
  /\ UNCHANGED <<flash, attic, hdr, slots, erase0, ui, job, board>>

PowerCycle ==
  /\ ~At("start") /\ left.mishaps > 0
  /\ left' = [left EXCEPT !.mishaps = @ - 1]
  /\ \/ UNCHANGED flash
     \/ \E b \in Changing : Spoilt(b)
  /\ board' \in {b \in Boards : b.defect = board.defect /\ b.chip = board.chip}
  /\ job' = [Idle EXCEPT !.pc = "start"]
  /\ Fresh

Init ==
  /\ flash \in Flashes
  /\ board \in Boards
  /\ attic = NoAttic
  /\ sd = NotInitialised(NeverFails)
  /\ hdr = NoHeader
  /\ slots = [slot \in Slots |-> NotScanned(slot)]
  /\ erase0 = <<>>
  /\ ui = NoChoice
  /\ job = [Idle EXCEPT !.pc = "start"]
  /\ left = [mishaps |-> Mishaps, jobs |-> Jobs]

\* What the program does on its own and what the user does.  Loading and
\* writing wait for nothing, so they go on.
Flashing == \/ OpenCore \/ LoadSector \/ CheckCrc \/ load_core_from_flash
            \/ begin \/ EraseList0 \/ EraseHeader \/ NextBlock \/ NextListed
            \/ Verify \/ GiveUp \/ EraseBlock \/ ProgramBody \/ ProgramHead \/ Rescan
User == \/ perhaps_reconfig \/ Leave \/ display_version \/ EditSlot
        \/ Cancel \/ ToggleFlag \/ ToggleAttic \/ ChooseErase \/ Flash
        \/ ChooseCore \/ SwitchDisk \/ SwitchDir \/ Move \/ Preview \/ Pick \/ Abort
        \/ AbortLoad \/ CardFails \/ PowerCycle
Next == LeaveAtOnce \/ StartUp \/ Interactive \/ Flashing \/ User
Spec == Init /\ [][Next]_vars /\ WF_vars(Flashing)

-----------------------------------------------------------------------------
(* Properties.                                                              *)

Places == {"start", "hyppo", "core", "off", "stuck", "interactive", "menu", "edit", "select",
           "open", "load", "reread", "begin", "list0", "header", "next", "list", "verify",
           "erase", "body", "head", "finish", "rescan"}

\* What a block holds, the state of the slots and of the program have their
\* types, and a slot that the table shows as started has a place in the chip.
FlasherTypeOK ==
  /\ DOMAIN flash = Blocks /\ DOMAIN attic = 0..(SlotBlocks - 1)
  /\ \A b \in Blocks : flash[b].core \in DOMAIN Core \cup {"blank", "junk"}
  /\ job.pc \in Places /\ job.slot \in Slots
  /\ job.at \in 0..SlotBlocks /\ job.tries \in 0..MAX_RETRY
  /\ hdr.length \in Nat /\ ui.file \in {"none", "valid", "erase"}
  /\ \A slot \in Slots : slots[slot].valid \in {"valid", "empty", "invalid", "fail"}

\* The header is what makes the board start a slot.  Above slot 0 it is in
\* the flash only with every block of its core, whenever the board is switched
\* off, the chip fails, or the user gives up: mfhf_flash_core erases it first
\* and its sector is the last to be programmed.
Complete(slot) ==
  LET c == flash[slot * SlotBlocks].core
  IN \A k \in 1..(Core[c].length - 1) : flash[slot * SlotBlocks + k] = Part([core |-> c, part |-> k])
BootableIsWhole ==
  \A slot \in Slots \ {0} : HasCore(slot * SlotBlocks) => Complete(slot)

\* No slot gets a core whose checksum is wrong, that is for another board or
\* too long, or in slot 0 one that is not a factory core, however the chooser
\* was used: what mfsc_checkcore saw is what mfhf_load_core checks and writes.
OnlyCheckedCores ==
  \A slot \in Slots : HasCore(slot * SlotBlocks) =>
    LET c == Core[flash[slot * SlotBlocks].core]
    IN c.crc /\ HeaderOk(c, slot = 0)

\* When the program says that it has finished, the slot holds what was loaded,
\* block by block, or nothing when it was erased.  A block that cannot be
\* erased is only noticed above slot 0 (mfhf_flash_core).
FinishedIsWritten ==
  At("finish") =>
    CASE ui.file = "valid" -> \A k \in 0..(hdr.length - 1) : flash[InSlot(k)] = Source(k)
      [] ui.file = "erase" -> job.slot > 0 =>
           \A k \in 0..(SlotBlocks - 1) : InSlot(k) # board.defect => flash[InSlot(k)] = Blank

\* In the menu the table of the slots is what the flash holds, except where it
\* could not be read: every way back from changing the flash reads it again.
ScanIsCurrent ==
  At("menu") => \A slot \in Slots : slots[slot].valid # "fail" =>
    /\ slots[slot].valid = "valid" <=> HasCore(slot * SlotBlocks)
    /\ slots[slot].valid = "valid" => slots[slot].real = flash[slot * SlotBlocks].flags

\* Loading and flashing come to an end, also on a block that never holds what
\* is written to it: the tries of mfhf_flash_sector are counted.
Busy == {"open", "load", "reread", "begin", "list0", "header", "next", "list", "verify", "erase",
         "body", "head", "finish", "rescan"}
FlashingEnds == [](job.pc \in Busy => <>(job.pc \notin Busy))
=============================================================================
