------------------------------- MODULE JoyCard -------------------------------
(***************************************************************************)
(* Reading an SD card as the joystick flasher does                         *)
(* (src/utilities/qspijoy.c): one directory position, one file position,   *)
(* and a sector buffer that every read goes through, of the FAT as well.   *)
(*                                                                         *)
(* A card is external to the code: the clusters of its root directory, per *)
(* cluster the next one (0 ends a chain) and its sectors.  A sector is of  *)
(* a directory, [kind, entries], an entry being [name, ino, gone], or of a *)
(* file, [kind, core, part].  No function here can report that a read      *)
(* failed; one that cannot return sets up to "hung".                       *)
(***************************************************************************)
EXTENDS Naturals, Sequences

CONSTANTS Card,                \* what may be in the internal slot 0 and the external slot 1
          SectorsPerCluster,
          EntriesPerSector,
          CoreNames,           \* the names that end in .COR and begin with neither ~ nor _
          NeverFails           \* a count of good reads that is never used up

ASSUME JoyCardAssumption == /\ SectorsPerCluster \in Nat \ {0}
                            /\ EntriesPerSector \in Nat \ {0}
                            /\ NeverFails \in Nat \ {0}

\* Clusters count from 2, where the root directory begins.
Clusters(bus) == DOMAIN Card[bus].next \ {1}
CardSectors(bus) ==
  {Card[bus].sectors[cluster][k] : cluster \in Clusters(bus), k \in 1..SectorsPerCluster}

\* A card is formatted well: chains lead to clusters, and the root directory
\* is one of them and has all the entries there are.
ASSUME CardAssumption ==
  \A bus \in {0, 1} :
    LET card == Card[bus]
    IN /\ Clusters(bus) \subseteq Nat \ {0}
       /\ \A cluster \in Clusters(bus) : card.next[cluster] \in Clusters(bus) \cup {0}
       /\ \A sector \in CardSectors(bus) : sector.kind \in {"dir", "file"}
       /\ card.root \in Seq(Clusters(bus)) /\ card.root # <<>> /\ card.root[1] = 2
       /\ \A i \in 1..(Len(card.root) - 1) : card.next[card.root[i]] = card.root[i + 1]
       /\ \A cluster \in Clusters(bus), k \in 1..SectorsPerCluster :
            LET sector == card.sectors[cluster][k]
            IN sector.kind = "dir" =>
                 /\ \E i \in 1..Len(card.root) : card.root[i] = cluster
                 /\ DOMAIN sector.entries \subseteq 1..EntriesPerSector
                 /\ \A e \in DOMAIN sector.entries :
                      sector.entries[e].gone \/ sector.entries[e].ino \in Clusters(bus) \cup {0}

\* buffer has what the last good read brought.  good counts the reads until
\* one fails, asks says whether the failing one resets the card, and stray is
\* the cluster that bytes which are not of the FAT happen to name.
NoSector  == [kind |-> "zeros"]
FatSector == [kind |-> "fat"]
NotSetUp(inserted) ==
  [up |-> "no", inserted |-> inserted, internal |-> FALSE, bus |-> 1, buffer |-> NoSector,
   good |-> NeverFails, asks |-> FALSE, stray |-> 0,
   dir |-> [cluster |-> 0, within |-> 0, entry |-> 0], file |-> [cluster |-> 0, within |-> 0]]
Hangs(s) == [s EXCEPT !.up = "hung"]

\* The external slot comes first.  internal (sdbus) says that the other one
\* was fallen back on, which is done once: after that a wait does not end.
sdcard_reset(s) ==
  CASE 1 \in s.inserted           -> [s EXCEPT !.bus = 1]
    [] s.inserted = {0} /\ ~s.internal -> [s EXCEPT !.bus = 0, !.internal = TRUE]
    [] OTHER                       -> Hangs(s)

\* A read that fails leaves the buffer as it was, at once or after the card
\* was reset and the read tried ten times.
Failed(s) == LET t == [s EXCEPT !.good = NeverFails, !.asks = FALSE, !.stray = 0]
             IN IF s.asks THEN sdcard_reset(t) ELSE t
sdcard_readsector(s, sector) ==
  CASE s.up = "hung"      -> s
    [] s.up # "hung" /\ s.good = NeverFails -> [s EXCEPT !.buffer = sector]
    [] s.up # "hung" /\ s.good = 0          -> Failed(s)
    [] OTHER -> [s EXCEPT !.buffer = sector, !.good = @ - 1]

\* The partition table and the FAT partition have to be good.
Mounts(s) == IF s.up # "hung" /\ Card[s.bus].mbr /\ Card[s.bus].fat THEN [s EXCEPT !.up = "yes"]
             ELSE Hangs(s)
setup_sdcard(s) == Mounts(sdcard_reset(s))
Ready(s) == IF s.up = "no" THEN setup_sdcard(s) ELSE s

\* The next cluster is taken from the buffer, whether or not the FAT was read
\* into it.
fat32_nextclusterinchain(s, cluster) ==
  LET read == sdcard_readsector(s, FatSector)
  IN [s |-> read,
      next |-> IF read.buffer = FatSector THEN Card[s.bus].next[cluster] ELSE s.stray]

SectorAt(s, at) == Card[s.bus].sectors[at.cluster][at.within + 1]

-----------------------------------------------------------------------------
(* Directories.                                                             *)

NoEntry == [name |-> "", ino |-> 0, gone |-> TRUE]
hy_opendir(s) == [Ready(s) EXCEPT !.dir = [cluster |-> 2, within |-> 0, entry |-> 0]]

\* The position goes on past a sector, and past a cluster.
PastCluster(s) ==
  LET chained == fat32_nextclusterinchain(s, s.dir.cluster)
  IN [chained.s EXCEPT !.dir = [cluster |-> chained.next, within |-> 0, entry |-> 0]]
PastSector(s) ==
  LET d == s.dir
  IN CASE d.entry < EntriesPerSector         -> s
       [] d.entry = EntriesPerSector /\ d.within + 1 < SectorsPerCluster ->
            [s EXCEPT !.dir = [d EXCEPT !.within = @ + 1, !.entry = 0]]
       [] OTHER -> PastCluster(s)

\* An entry of a sector that is not of a directory has no name.
EntryIn(sector, k) == IF sector.kind = "dir" /\ k \in DOMAIN sector.entries THEN sector.entries[k] ELSE NoEntry

\* One turn of its loop.  An entry that is gone makes another, and the end of
\* the directory brings none.
hy_readdir(s) ==
  LET at   == PastSector(s)
      read == sdcard_readsector(at, SectorAt(at, at.dir))
  IN IF at.dir.cluster = 0 \/ at.up = "hung" THEN [s |-> at, some |-> FALSE, entry |-> NoEntry]
     ELSE [s |-> [read EXCEPT !.dir.entry = @ + 1], some |-> TRUE,
           entry |-> EntryIn(read.buffer, at.dir.entry + 1)]

-----------------------------------------------------------------------------
(* Files.                                                                   *)

\* The file of an entry, from its start.
Positioned(s, entry) == [s EXCEPT !.file = [cluster |-> entry.ino, within |-> 0]]

\* The position moves on before the sector is read.
FilePastCluster(s) ==
  LET chained == fat32_nextclusterinchain(s, s.file.cluster)
  IN [chained.s EXCEPT !.file = [cluster |-> chained.next, within |-> 0]]
FileOnward(s) == IF s.file.within + 1 < SectorsPerCluster THEN [s EXCEPT !.file.within = @ + 1]
                 ELSE FilePastCluster(s)
hy_read512(s) == IF s.file.cluster = 0 THEN [s |-> s, some |-> FALSE]
                 ELSE [s |-> sdcard_readsector(FileOnward(s), SectorAt(s, s.file)), some |-> TRUE]
=============================================================================
