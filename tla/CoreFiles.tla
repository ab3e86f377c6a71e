------------------------------ MODULE CoreFiles ------------------------------
(***************************************************************************)
(* The chooser of core files of the flasher                                *)
(* (src/utilities/megaflash/mf_selectcore.c): the directories it lists and *)
(* what it takes from the header of a core file.  How the entries of a     *)
(* directory are read is a parameter, which Directories.tla defines.       *)
(*                                                                         *)
(* Cores are named; Core[c] says what the header of c holds and what is    *)
(* true of the file: magic, length (in erase blocks), model (it is for     *)
(* this board), mega (a MEGA65 core marked FACTORY), caps, flags, auto     *)
(* (marked FACTORY, AUTO and FORCE), list (its erase list, up to the first *)
(* $FF) and crc (the checksum of the header is that of the file).  A       *)
(* sector of a file is [core, part], the part that fills one erase block.  *)
(***************************************************************************)
EXTENDS NohySd

CONSTANTS Core,              \* the cores, and what the header of each says
          SlotBlocks,        \* erase blocks in a slot
          Bringup,           \* the name BRINGUP.COR, as chunks
          ReadDirectory(_, _, _, _), FindFile(_, _, _)   \* Scan and nhsd_findfile of Directories

ASSUME CoreAssumption == /\ SlotBlocks \in Nat \ {0}
                         /\ {"blank", "junk"} \cap DOMAIN Core = {}
                         /\ \A c \in DOMAIN Core : Core[c].length \in Nat /\ Core[c].list \in Seq(Nat)

\* The globals mfsc_corehdr_* and mfsc_corefile_inode, as the program starts.
NoHeader == [flags |-> {}, caps |-> {}, list |-> [k \in 1..16 |-> 0], length |-> 0, auto |-> FALSE,
             ino |-> 0]

-----------------------------------------------------------------------------
\* What the globals are after a header was looked at.  The length is taken
\* before the checks that follow it, the rest only when all of them passed.
HeaderOk(c, mega) == /\ c.magic
                     /\ c.length <= SlotBlocks
                     /\ c.model
                     /\ mega => c.mega
Accepted(h, c) == [h EXCEPT !.flags = c.flags, !.caps = c.caps, !.list = c.list,
                            !.auto = c.auto, !.length = c.length]
\* Only the first sector of the file of a core can be a header.
IsHeader(sector) == sector.core \in DOMAIN Core /\ sector.part = 0
Looked(h, sector, mega) ==
  IF ~IsHeader(sector) THEN h
  ELSE LET c == Core[sector.core]
       IN IF HeaderOk(c, mega) THEN Accepted(h, c)
          ELSE IF c.magic THEN [h EXCEPT !.length = c.length] ELSE h

Checked(read, h, mega) ==
  IF read.err = "ok"
  THEN [s |-> nhsd_close(read.s), h |-> Looked(h, read.s.sector, mega),
        ok |-> IsHeader(read.s.sector) /\ HeaderOk(Core[read.s.sector.core], mega)]
  ELSE [s |-> nhsd_close(read.s), h |-> h, ok |-> FALSE]

\* mega is asked of the cores of slot 0.
mfsc_checkcore(s, h, mega) ==
  IF CannotOpen(s) THEN [s |-> s, h |-> h, ok |-> FALSE]
  ELSE Checked(nhsd_read(nhsd_open(s, h.ino)), h, mega)

-----------------------------------------------------------------------------
(* Directories: of which card, and the root or CORE.                        *)

NothingListed == [bus |-> 0, core |-> FALSE, coredir |-> 0, files |-> <<>>, ok |-> FALSE]
\* Reading a directory moves in the card that is mounted and uses up reads.
MovedAs(s, t) == [s EXCEPT !.open = t.open, !.cluster = t.cluster, !.within = t.within,
                           !.entry = t.entry, !.dir = t.dir, !.sector = t.sector,
                           !.good = t.good, !.name = t.name, !.ino = t.ino]
Listing(s, d, wanted, unset) ==
  LET read == ReadDirectory(s, d, wanted, unset) IN [s |-> MovedAs(s, read.s), d |-> read.d]
FileNamed(s, name, unset) ==
  LET read == FindFile(s, name, unset) IN Result(MovedAs(s, read.s), read.err)

\* The card is initialised when it has to be, which may fall back to the
\* other slot, and forgets the directory CORE.
AfterInit(s, d, wanted, unset) ==
  IF s.up THEN Listing(s, [d EXCEPT !.coredir = 0], wanted, unset)
  ELSE [s |-> s, d |-> [d EXCEPT !.ok = FALSE]]
mfsc_load_dir(s, d, bus, wanted, force, unset) ==
  IF force \/ ~s.up \/ s.bus # bus THEN AfterInit(nhsd_init(s, bus, TRUE), d, wanted, unset)
  ELSE Listing(s, d, wanted, unset)

-----------------------------------------------------------------------------
\* Looks for the file to bring a board up with, on the internal card.  Once
\* the file is found the answer is yes, whatever its header.
AfterFind(found, h) ==
  IF found.err # "ok" THEN [s |-> found.s, h |-> h, ok |-> FALSE]
  ELSE [mfsc_checkcore(found.s, [h EXCEPT !.ino = found.s.ino], TRUE) EXCEPT !.ok = TRUE]
AfterMount(s, h, unset) ==
  IF s.up THEN AfterFind(FileNamed(s, Bringup, unset), h) ELSE [s |-> s, h |-> h, ok |-> FALSE]
mfsc_findcorefile(s, h, unset) == AfterMount(nhsd_init(s, 0, FALSE), h, unset)
=============================================================================
