------------------------------- MODULE NohySd -------------------------------
(***************************************************************************)
(* Reading an SD card without the hypervisor, as the core flasher does     *)
(* (src/utilities/megaflash/nohysdc.c).  One directory or one file is open *)
(* at a time, and a position is a cluster and a sector in it.              *)
(* Directories.tla reads the entries of a directory.                       *)
(*                                                                         *)
(* A card is external: per cluster the next one (0 ends a chain) and its   *)
(* sectors.  A sector of a directory is a sequence of entries.             *)
(* The functions take the state of the library and return the next one.    *)
(* good counts the sector reads that succeed before one fails for good.    *)
(***************************************************************************)
EXTENDS Naturals, Sequences

CONSTANTS Card,                \* what is in the internal slot 0 and in the external slot 1
          NoCard,
          SectorsPerCluster,
          NeverFails           \* a count of good reads that is never used up

ASSUME SdAssumption == SectorsPerCluster \in Nat \ {0}

ROOT_INODE == 2

\* The state before nhsd_init.  name is what nhsd_dirent.d_name holds, in
\* chunks of 13 characters that "" ends.
NotInitialised(good) ==
  [up |-> FALSE, bus |-> 0, open |-> "no", cluster |-> 0, within |-> 0, entry |-> 0,
   dir |-> ROOT_INODE, sector |-> <<>>, good |-> good,
   name |-> [chunk \in 1..3 |-> ""], ino |-> 0]

-----------------------------------------------------------------------------
\* A read that failed ten times in a row leaves the buffer as it was.
Fails(s) == s.good = 0
nhsd_readsector(s, sector) ==
  CASE Fails(s)            -> [s EXCEPT !.good = NeverFails]
    [] s.good = NeverFails -> [s EXCEPT !.sector = sector]
    [] OTHER               -> [s EXCEPT !.sector = sector, !.good = @ - 1]

\* Only what goes on reading the same card: the MBR, then the FAT partition.
Down(s) == [s EXCEPT !.up = FALSE, !.bus = 0, !.open = "no"]
Mounted(s, bus) ==
  LET mbr  == nhsd_readsector(s, <<>>)
      part == nhsd_readsector(mbr, <<>>)
  IN IF Fails(s) \/ ~Card[bus].mbr \/ ~Card[bus].fat THEN Down(mbr)
     ELSE IF Fails(mbr) THEN Down(part)
     ELSE [part EXCEPT !.up = TRUE, !.bus = bus, !.open = "no", !.dir = ROOT_INODE]

\* A slot resets only with a card in it; the other one is tried if allowed.
nhsd_init(s, bus, fallback) ==
  IF Card[bus] # NoCard THEN Mounted(s, bus)
  ELSE IF fallback /\ Card[1 - bus] # NoCard THEN Mounted(s, 1 - bus)
  ELSE Down(s)

nhsd_open_inode(s, inode, mode) ==
  [s EXCEPT !.open = mode, !.cluster = inode, !.within = 0]
CannotOpen(s) == ~s.up \/ s.open # "no"
nhsd_open(s, inode) == nhsd_open_inode(s, inode, "file")

\* What was read is not looked at once the file is closed.
nhsd_close(s) ==
  IF ~s.up THEN s
  ELSE [s EXCEPT !.open = "no", !.cluster = 0, !.within = 0, !.entry = 0, !.sector = <<>>,
                 !.name = [chunk \in DOMAIN @ |-> ""]]

-----------------------------------------------------------------------------
(* Reading on: the position moves first, and a FAT that cannot be read ends *)
(* the file.                                                                *)

nhsd_fat32_nextcluster(s) ==
  IF Fails(s) THEN 0 ELSE Card[s.bus].next[s.cluster]
Onward(s) ==
  IF s.within + 1 < SectorsPerCluster THEN [s EXCEPT !.within = @ + 1]
  ELSE [nhsd_readsector(s, s.sector) EXCEPT !.within = 0, !.cluster = nhsd_fat32_nextcluster(s)]

AtEnd(s)    == s.cluster = 0
SectorAt(s) == Card[s.bus].sectors[s.cluster][s.within + 1]

\* The result of a read: the state and how it went.
Result(s, err) == [s |-> s, err |-> err]
nhsd_read(s) ==
  IF s.open = "no" THEN Result(s, "not open")
  ELSE IF AtEnd(s) THEN Result(s, "eof")
  ELSE LET moved == Onward(s)
       IN Result(nhsd_readsector(moved, SectorAt(s)), IF Fails(moved) THEN "error" ELSE "ok")

=============================================================================
