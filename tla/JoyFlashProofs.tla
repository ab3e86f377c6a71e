---------------------------- MODULE JoyFlashProofs ----------------------------
(* Proofs about the flasher that is used with a joystick, for any well-formatted
   cards, cores and chips, and any number of failures.  The card library cannot
   report a failure, so the invariant follows what its one buffer and its two
   positions hold (SdInv, CheckInv); that the search which is not asked for its
   result comes upon the file when no read fails (SearchInv); then the file on its
   way to the expansion RAM (LoadInv) and from there to the chip (ChipInv).   *)
EXTENDS JoyFlash, SequenceTheorems, TLAPS

SdFields  == DOMAIN NotSetUp({})
DirFields == {"cluster", "within", "entry"}
BufferSectors(bus) == {NoSector, FatSector} \cup CardSectors(bus)
InCluster == 0..(SectorsPerCluster - 1)

\* A library that has a card: its positions are on the card, and a reset leaves
\* it with that card.
CardKept(s) == IF 1 \in s.inserted THEN s.bus = 1 ELSE s.internal
ReaderOK(s) ==
  /\ DOMAIN s = SdFields /\ s.up = "yes" /\ s.bus \in {0, 1} /\ CardKept(s)
  /\ s.good \in 0..NeverFails
  /\ s.buffer \in BufferSectors(s.bus) /\ s.stray \in Clusters(s.bus) \cup {0}
  /\ DOMAIN s.dir = DirFields /\ s.dir.within \in InCluster
  /\ s.dir.cluster \in Clusters(s.bus) \cup {0} /\ s.dir.entry \in 0..EntriesPerSector
  /\ DOMAIN s.file = {"cluster", "within"} /\ s.file.within \in InCluster
  /\ s.file.cluster \in Clusters(s.bus) \cup {0}

Listing   == {"list", "find", "refind"}
Choosing  == {"select", "open", "check", "load"} \cup Listing
Loading   == {"verify", "erase", "program", "updated"}
Places    == {"start", "warn", "warning", "scan", "back", "menu", "core", "hung", "stuck"}
               \cup Choosing \cup Loading

\* The registers, the chip and the expansion RAM have their types.
ChipOK  == mem \in [Blocks -> [Pages -> PageValues]]
AtticOK == attic \in [0..(SlotBlocks - 1) -> Parts]
FileNames == CoreNames \cup {"-erase slot-"}
FilesOK == /\ job.files \in Seq(FileNames) /\ Len(job.files) > 0
           /\ \A i \in 2..Len(job.files) : job.files[i] \in CoreNames
JobOK   == /\ DOMAIN job = DOMAIN Idle
           /\ job.pc \in Places /\ job.slot \in Slots /\ job.failed \in BOOLEAN
           /\ job.at \in Nat /\ job.page \in Nat /\ job.tries \in Nat
TypeInv == ChipOK /\ AtticOK /\ JobOK

SdInv == /\ DOMAIN sd = SdFields /\ sd.up \in {"no", "yes", "hung"}
         /\ sd.up = "no" => sd = NotSetUp(board.cards)
         /\ sd.up = "yes" => ReaderOK(sd)
         /\ job.pc \in Choosing => sd.up = "yes"
         /\ job.pc \in Listing => sd.dir.cluster # 0

StageInv ==
  /\ job.pc \in Choosing \cup Loading => job.slot # 0
  /\ job.pc \in {"list", "select"} => FilesOK
  /\ At("list") => job.at = 1
  /\ At("select") => job.at \in 1..Len(job.files)
  /\ job.pc \in {"open", "find", "check", "refind"} => job.file \in CoreNames
  /\ At("refind") => job.at = 0
  /\ At("load") => job.at \in 0..SlotBlocks
  /\ job.pc \in {"verify", "erase", "program"} => job.at \in 0..(SlotBlocks - 1)
  /\ At("program") => job.page \in Pages

\* The entry e of a sector has the name n.
Names(sector, e, n) == /\ sector.kind = "dir" /\ e \in DOMAIN sector.entries
                       /\ ~sector.entries[e].gone /\ sector.entries[e].name = n

\* An entry with the name n is still to come, in the order of the directory.
Ahead(s, n) ==
  \E i, j \in 1..Len(Card[s.bus].root), w \in InCluster, e \in 1..EntriesPerSector :
    /\ Names(Card[s.bus].sectors[Card[s.bus].root[j]][w + 1], e, n)
    /\ s.dir.cluster = Card[s.bus].root[i]
    /\ \/ i < j
       \/ i = j /\ s.dir.within < w
       \/ i = j /\ s.dir.within = w /\ s.dir.entry < e
OnCard(s, n) ==
  \E j \in 1..Len(Card[s.bus].root), w \in InCluster, e \in 1..EntriesPerSector :
    Names(Card[s.bus].sectors[Card[s.bus].root[j]][w + 1], e, n)

\* The position in the file is at part p of core c.
PartAt(s, c, p) == /\ s.file.cluster # 0 /\ SectorAt(s, s.file) = CorePart(c, p)
IsFile(s, n) == /\ s.file.within = 0
                /\ \A c \in DOMAIN Core : Core[c].name = n <=> PartAt(s, c, 0)

\* The header that is looked at is that of the file that was chosen.
IsRight(c) == Core[c].name = job.file /\ Core[c].magic /\ Core[c].model = "ours"
CheckInv ==
  /\ At("check") => sd.buffer.kind = "dir" /\ IsFile(sd, job.file) /\ OnCard(sd, job.file)
  /\ job.pc \in {"refind", "load"} \cup Loading => \E c \in DOMAIN Core : IsRight(c)
SearchInv == At("refind") /\ ~job.failed => Ahead(sd, job.file)

\* What was loaded is the core that was chosen, as far as it goes.
HasParts(n) == \A k \in 0..(n - 1) : k < Core[Chosen].length => attic[k] = CorePart(Chosen, k)
LoadInv ==
  /\ At("load") /\ ~job.failed =>
       /\ HasParts(job.at)
       /\ job.at < Core[Chosen].length => job.at = SlotBlocks \/ PartAt(sd, Chosen, job.at)
  /\ job.pc \in Loading /\ ~job.failed => HasParts(SlotBlocks)

\* The blocks before the present one hold what was loaded.
Written(n) == \A k \in 0..(n - 1) : mem[InSlot(k)] = BlockOf(attic[k])
ChipInv == /\ job.pc \in {"verify", "erase", "program"} => Written(job.at)
           /\ At("updated") => Written(SlotBlocks)

Inv == TypeInv /\ SdInv /\ StageInv /\ CheckInv /\ SearchInv /\ LoadInv /\ ChipInv
-----------------------------------------------------------------------------
(* Reading the card.  Every read leaves the library with the same card, or  *)
(* hung; one that fails can be told by the count of good reads.             *)

\* The library after some reads, seen from where it was before them.
After(s, r) ==
  /\ DOMAIN r = SdFields /\ r.up \in {"yes", "hung"}
  /\ r.up = "yes" => /\ ReaderOK(r) /\ r.bus = s.bus
                     /\ s.good = NeverFails => r.good = NeverFails
NoFailure(s, r) == r.up = "yes" /\ ~FailedIn(s, r)

\* Reads that follow each other make reads, and none failed if none of all did.
LEMMA AfterBoth ==
  ASSUME NEW s, NEW r, NEW t, After(s, r), r.up = "yes", After(r, t)
  PROVE  After(s, t) /\ (NoFailure(s, t) => NoFailure(s, r) /\ NoFailure(r, t))
  BY DEF After, NoFailure, FailedIn

\* What is on a card is not what is in the buffer at first, nor of the FAT.
LEMMA SectorsDiffer ==
  ASSUME NEW bus \in {0, 1}, NEW x \in CardSectors(bus)
  PROVE  x.kind \in {"dir", "file"} /\ x # NoSector /\ x # FatSector
  BY CardAssumption DEF NoSector, FatSector

\* The sector at a position of a card is one of the card's.
LEMMA SectorIsOnCard ==
  ASSUME NEW s, NEW at, s.bus \in {0, 1}, at.cluster \in Clusters(s.bus), at.within \in InCluster
  PROVE  SectorAt(s, at) \in CardSectors(s.bus)
<1>1. at.within + 1 \in 1..SectorsPerCluster
  BY JoyCardAssumption DEF InCluster
<1> QED
  BY <1>1 DEF SectorAt, CardSectors

\* A reset finds the card it was reading, or ends.
LEMMA ResetKeepsCard ==
  ASSUME NEW s, ReaderOK(s)
  PROVE  LET r == sdcard_reset(s)
         IN \/ r.up = "hung" /\ DOMAIN r = SdFields
            \/ /\ ReaderOK(r) /\ r.bus = s.bus /\ r.dir = s.dir /\ r.file = s.file
               /\ r.buffer = s.buffer /\ r.good = s.good
<1> USE DEF SdFields, NotSetUp
<1>1. CASE 1 \in s.inserted
  <2>1. s.bus = 1 /\ sdcard_reset(s) = [s EXCEPT !.bus = 1]
    BY <1>1 DEF ReaderOK, CardKept, sdcard_reset
  <2> QED
    BY <1>1, <2>1 DEF ReaderOK, CardKept
<1>2. CASE 1 \notin s.inserted
  <2>1. sdcard_reset(s) = Hangs(s)
    BY <1>2 DEF sdcard_reset, ReaderOK, CardKept
  <2> QED
    BY <2>1 DEF Hangs, ReaderOK
<1> QED
  BY <1>1, <1>2

\* A read brings its sector, or fails and leaves the buffer as it was.
LEMMA SectorRead ==
  ASSUME NEW s, ReaderOK(s), NEW x \in BufferSectors(s.bus)
  PROVE  LET r == sdcard_readsector(s, x)
         IN /\ After(s, r)
            /\ r.up = "yes" => /\ r.dir = s.dir /\ r.file = s.file
                               /\ r.buffer = x \/ r.buffer = s.buffer
            /\ NoFailure(s, r) => r.buffer = x
<1> DEFINE r == sdcard_readsector(s, x)
<1> USE DEF SdFields, NotSetUp
<1>0. 0 \in Clusters(s.bus) \cup {0} /\ NeverFails \in Nat
  BY JoyCardAssumption
<1>1. CASE s.good = NeverFails
  <2>1. r = [s EXCEPT !.buffer = x]
    BY <1>1, JoyCardAssumption DEF sdcard_readsector, ReaderOK
  <2>2. ReaderOK(r)
    BY <2>1 DEF ReaderOK, CardKept
  <2> QED
    BY <1>1, <2>1, <2>2 DEF After, NoFailure, FailedIn, ReaderOK
<1>2. CASE s.good # NeverFails /\ s.good # 0
  <2>1. r = [s EXCEPT !.buffer = x, !.good = s.good - 1]
    BY <1>2 DEF sdcard_readsector, ReaderOK
  <2>2. s.good - 1 \in 0..NeverFails
    BY <1>0, <1>2 DEF ReaderOK
  <2>3. ReaderOK(r)
    BY <2>1, <2>2 DEF ReaderOK, CardKept
  <2> QED
    BY <1>2, <2>1, <2>3 DEF After, NoFailure, FailedIn, ReaderOK
<1>3. CASE s.good # NeverFails /\ s.good = 0
  <2> DEFINE t == [s EXCEPT !.good = NeverFails, !.asks = FALSE, !.stray = 0]
  <2>1. r = IF s.asks THEN sdcard_reset(t) ELSE t
    BY <1>3 DEF sdcard_readsector, ReaderOK, Failed
  <2>2. ReaderOK(t) /\ t.bus = s.bus /\ t.dir = s.dir /\ t.file = s.file /\ t.buffer = s.buffer
        /\ t.good = NeverFails
    BY <1>0 DEF ReaderOK, CardKept
  <2> HIDE DEF t
  <2>3. \/ r.up = "hung" /\ DOMAIN r = SdFields
        \/ /\ ReaderOK(r) /\ r.bus = t.bus /\ r.dir = t.dir /\ r.file = t.file
           /\ r.buffer = t.buffer /\ r.good = t.good
    BY <2>1, <2>2, ResetKeepsCard
  <2>4. ReaderOK(r) => r.up = "yes" /\ DOMAIN r = SdFields
    BY DEF ReaderOK
  <2> QED
    BY <1>3, <2>2, <2>3, <2>4 DEF After, NoFailure, FailedIn
<1> QED
  BY <1>1, <1>2, <1>3

\* The next cluster is one of the card, whatever was read, and the one of the FAT if
\* the read did not fail.
LEMMA ChainRead ==
  ASSUME NEW s, ReaderOK(s), NEW cluster \in Clusters(s.bus)
  PROVE  LET chained == fat32_nextclusterinchain(s, cluster)
         IN /\ After(s, chained.s)
            /\ chained.next \in Clusters(s.bus) \cup {0}
            /\ chained.s.up = "yes" => /\ chained.s.dir = s.dir /\ chained.s.file = s.file
                                       /\ chained.s.buffer \in {FatSector, s.buffer}
            /\ NoFailure(s, chained.s) => chained.next = Card[s.bus].next[cluster]
<1> DEFINE read == sdcard_readsector(s, FatSector)
           chained == fat32_nextclusterinchain(s, cluster)
<1>1. /\ After(s, read)
      /\ read.up = "yes" => /\ read.dir = s.dir /\ read.file = s.file
                            /\ read.buffer = FatSector \/ read.buffer = s.buffer
      /\ NoFailure(s, read) => read.buffer = FatSector
  BY SectorRead DEF BufferSectors
<1>2. chained.s = read /\ chained.next = IF read.buffer = FatSector THEN Card[s.bus].next[cluster] ELSE s.stray
  BY DEF fat32_nextclusterinchain
<1>3. Card[s.bus].next[cluster] \in Clusters(s.bus) \cup {0} /\ s.stray \in Clusters(s.bus) \cup {0}
  BY CardAssumption DEF ReaderOK
<1> HIDE DEF read, chained
<1> QED
  BY <1>1, <1>2, <1>3 DEF chained

\* The fields of a library that has a card.
LEMMA ReaderFields ==
  ASSUME NEW s, ReaderOK(s)
  PROVE  /\ DOMAIN s = SdFields /\ s.up = "yes" /\ s.bus \in {0, 1}
         /\ s.dir.within \in InCluster /\ s.dir.entry \in 0..EntriesPerSector
         /\ s.dir.cluster \in Clusters(s.bus) \cup {0}
         /\ s.file.within \in InCluster /\ s.file.cluster \in Clusters(s.bus) \cup {0}
         /\ s.buffer \in BufferSectors(s.bus)
  BY DEF ReaderOK

\* The position in the directory is a place of the card.
Position(cluster, within, entry) == [cluster |-> cluster, within |-> within, entry |-> entry]

\* A library that reads on has a new position in the directory.
LEMMA DirMoves ==
  ASSUME NEW s, ReaderOK(s), NEW cluster \in Clusters(s.bus) \cup {0}, NEW within \in InCluster,
         NEW entry \in 0..EntriesPerSector,
         NEW d, DOMAIN d = DirFields, d.cluster = cluster, d.within = within, d.entry = entry
  PROVE  LET r == [s EXCEPT !.dir = d]
         IN /\ ReaderOK(r) /\ r.dir = d /\ r.bus = s.bus /\ r.file = s.file /\ r.good = s.good
            /\ r.buffer = s.buffer
  BY DEF ReaderOK, CardKept, SdFields, NotSetUp

\* Likewise in the file.
LEMMA FileMoves ==
  ASSUME NEW s, ReaderOK(s), NEW f, DOMAIN f = {"cluster", "within"},
         f.cluster \in Clusters(s.bus) \cup {0}, f.within \in InCluster
  PROVE  LET r == [s EXCEPT !.file = f]
         IN /\ ReaderOK(r) /\ r.file = f /\ r.bus = s.bus /\ r.dir = s.dir /\ r.good = s.good
            /\ r.buffer = s.buffer
  BY DEF ReaderOK, CardKept, SdFields, NotSetUp

\* Before an entry is read the position is in a sector, in the next one or at the
\* beginning of the next cluster: where the directory goes on if no read failed.
Onto(s, p) ==
  \/ /\ s.dir.entry < EntriesPerSector
     /\ p.dir.cluster = s.dir.cluster /\ p.dir.within = s.dir.within /\ p.dir.entry = s.dir.entry
  \/ /\ s.dir.entry = EntriesPerSector /\ s.dir.within + 1 < SectorsPerCluster
     /\ p.dir.cluster = s.dir.cluster /\ p.dir.within = s.dir.within + 1 /\ p.dir.entry = 0
  \/ /\ s.dir.entry = EntriesPerSector /\ s.dir.within + 1 = SectorsPerCluster
     /\ p.dir.within = 0 /\ p.dir.entry = 0
     /\ NoFailure(s, p) => p.dir.cluster = Card[s.bus].next[s.dir.cluster]

LEMMA DirectoryGoesOn ==
  ASSUME NEW s, ReaderOK(s), s.dir.cluster # 0
  PROVE  LET p == PastSector(s)
         IN /\ After(s, p)
            /\ p.up = "yes" => p.file = s.file /\ Onto(s, p) /\ p.dir.entry < EntriesPerSector
<1> DEFINE d == s.dir
           p == PastSector(s)
<1>1. /\ d.within \in InCluster /\ d.entry \in 0..EntriesPerSector /\ d.cluster \in Clusters(s.bus)
      /\ DOMAIN d = DirFields /\ s.up = "yes" /\ DOMAIN s = SdFields
  BY DEF ReaderOK
<1>2. SectorsPerCluster \in Nat \ {0} /\ EntriesPerSector \in Nat \ {0}
  BY JoyCardAssumption
<1>3. CASE d.entry < EntriesPerSector
  <2>1. p = s
    BY <1>1, <1>2, <1>3 DEF PastSector
  <2> QED
    BY <1>1, <1>3, <2>1 DEF After, Onto
<1>4. CASE d.entry = EntriesPerSector /\ d.within + 1 < SectorsPerCluster
  <2> DEFINE e == [d EXCEPT !.within = d.within + 1, !.entry = 0]
  <2>1. p = [s EXCEPT !.dir = e]
    BY <1>1, <1>2, <1>4 DEF PastSector
  <2>2. DOMAIN e = DirFields /\ e.cluster = d.cluster /\ e.within = d.within + 1 /\ e.entry = 0
    BY <1>1 DEF DirFields
  <2>3. d.within + 1 \in InCluster /\ 0 \in 0..EntriesPerSector
    BY <1>1, <1>2, <1>4 DEF InCluster
  <2> HIDE DEF e, p
  <2>4. /\ ReaderOK(p) /\ p.dir = e /\ p.bus = s.bus /\ p.file = s.file /\ p.good = s.good
    BY <1>1, <2>1, <2>2, <2>3, DirMoves
  <2> HIDE DEF d
  <2>5. After(s, p)
    BY <2>4, ReaderFields DEF After
  <2> QED
    BY <1>2, <1>4, <2>2, <2>4, <2>5 DEF Onto, d, p
<1>5. CASE d.entry = EntriesPerSector /\ d.within + 1 >= SectorsPerCluster
  <2> DEFINE chained == fat32_nextclusterinchain(s, d.cluster)
             t == chained.s
             e == Position(chained.next, 0, 0)
  <2>1. p = [t EXCEPT !.dir = e]
    BY <1>1, <1>2, <1>5 DEF PastSector, PastCluster, InCluster, Position
  <2>2. /\ After(s, t) /\ chained.next \in Clusters(s.bus) \cup {0}
        /\ t.up = "yes" => t.file = s.file
        /\ NoFailure(s, t) => chained.next = Card[s.bus].next[d.cluster]
    BY <1>1, ChainRead
  <2>3. DOMAIN e = DirFields /\ e.cluster = chained.next /\ e.within = 0 /\ e.entry = 0
    BY DEF DirFields, Position
  <2>4. 0 \in InCluster /\ 0 \in 0..EntriesPerSector
    BY <1>2 DEF InCluster
  <2>5. p.up = t.up /\ p.good = t.good /\ DOMAIN p = SdFields
    <3>1. DOMAIN t = SdFields
      BY <2>2 DEF After
    <3> HIDE DEF e, t, p
    <3> QED
      BY <2>1, <3>1 DEF SdFields, NotSetUp
  <2> HIDE DEF e, t, p, chained
  <2>6. CASE t.up = "hung"
    BY <2>5, <2>6 DEF After, p
  <2>7. CASE t.up = "yes"
    <3>1. ReaderOK(t) /\ t.bus = s.bus
      BY <2>2, <2>7 DEF After
    <3>2. ReaderOK(p) /\ p.dir = e /\ p.bus = s.bus /\ p.file = s.file /\ p.good = t.good
      BY <3>1, <2>1, <2>2, <2>3, <2>4, <2>7, DirMoves
    <3>3. After(s, p) /\ (NoFailure(s, p) => NoFailure(s, t))
      BY <2>2, <2>5, <2>7, <3>2 DEF After, NoFailure, FailedIn
    <3>4. d.within + 1 = SectorsPerCluster
      BY <1>1, <1>2, <1>5 DEF InCluster
    <3> QED
      BY <1>2, <1>5, <2>2, <2>3, <3>2, <3>3, <3>4 DEF Onto, p
  <2> QED
    BY <2>2, <2>6, <2>7 DEF After
<1> QED
  BY <1>1, <1>2, <1>3, <1>4, <1>5 DEF InCluster

\* A turn of hy_readdir leaves the file position, and an entry that is not gone is
\* one of a directory sector of the card, which the buffer has.
EntryRead(r) == /\ r.s.buffer.kind = "dir" /\ r.s.buffer \in CardSectors(r.s.bus)
                /\ r.s.dir.entry \in DOMAIN r.s.buffer.entries
                /\ r.entry = r.s.buffer.entries[r.s.dir.entry]

LEMMA EntryIsInBuffer ==
  ASSUME NEW bus \in {0, 1}, NEW x \in BufferSectors(bus), NEW k, ~EntryIn(x, k).gone
  PROVE  x.kind = "dir" /\ x \in CardSectors(bus) /\ k \in DOMAIN x.entries /\ EntryIn(x, k) = x.entries[k]
<1>1. NoEntry.gone
  BY DEF NoEntry
<1>2. x.kind = "dir" /\ k \in DOMAIN x.entries /\ EntryIn(x, k) = x.entries[k]
  BY <1>1 DEF EntryIn
<1>3. x # NoSector /\ x # FatSector
  BY <1>2 DEF NoSector, FatSector
<1> QED
  BY <1>2, <1>3 DEF BufferSectors

\* What a turn does, where the library does not hang: it reads the sector at the
\* position that is gone on to.
LEMMA TurnOfReaddir ==
  ASSUME NEW s, ReaderOK(s), s.dir.cluster # 0
  PROVE  LET at == PastSector(s)
             r  == hy_readdir(s)
         IN /\ After(s, r.s)
            /\ r.s.up = "yes" =>
                 /\ r.s.file = s.file /\ ReaderOK(at) /\ After(s, at) /\ Onto(s, at) /\ After(at, r.s)
                 /\ ~r.some => at.dir.cluster = 0
                 /\ r.some => /\ at.dir.cluster # 0 /\ r.s.dir.cluster = at.dir.cluster
                              /\ r.s.dir.within = at.dir.within /\ r.s.dir.entry = at.dir.entry + 1
                              /\ r.entry = EntryIn(r.s.buffer, r.s.dir.entry)
                              /\ NoFailure(at, r.s) => r.s.buffer = SectorAt(at, at.dir)
<1> DEFINE at   == PastSector(s)
           x    == SectorAt(at, at.dir)
           read == sdcard_readsector(at, x)
           r    == hy_readdir(s)
           e    == [read.dir EXCEPT !.entry = read.dir.entry + 1]
<1>1. After(s, at) /\ (at.up = "yes" => at.file = s.file /\ Onto(s, at) /\ at.dir.entry < EntriesPerSector)
  BY DirectoryGoesOn
<1>2. at.up = "hung" => r.s = at
  BY DEF hy_readdir
<1>3. at.up = "yes" /\ at.dir.cluster = 0 => r.s = at /\ r.some = FALSE
  BY DEF hy_readdir
<1>4. at.up = "yes" /\ at.dir.cluster # 0 =>
        r.s = [read EXCEPT !.dir = e] /\ r.some = TRUE /\ r.entry = EntryIn(read.buffer, at.dir.entry + 1)
  BY DEF hy_readdir
<1>5. at.up \in {"yes", "hung"} /\ (at.up = "yes" => ReaderOK(at))
  BY <1>1 DEF After
<1>6. EntriesPerSector \in Nat
  BY JoyCardAssumption
<1> HIDE DEF at, x, read, r, e
<1>7. CASE at.up = "hung"
  BY <1>1, <1>2, <1>7 DEF r, at
<1>8. CASE at.up = "yes" /\ at.dir.cluster = 0
  BY <1>1, <1>3, <1>5, <1>8 DEF After, r, at
<1>9. CASE at.up = "yes" /\ at.dir.cluster # 0
  <2>1. x \in BufferSectors(at.bus)
    BY <1>5, <1>9, ReaderFields, SectorIsOnCard DEF BufferSectors, x
  <2>2. /\ After(at, read)
        /\ read.up = "yes" => read.dir = at.dir /\ read.file = at.file
        /\ NoFailure(at, read) => read.buffer = x
    BY <1>5, <1>9, <2>1, SectorRead DEF read
  <2>3. DOMAIN r.s = SdFields /\ r.s.up = read.up /\ r.s.good = read.good /\ r.s.buffer = read.buffer
        /\ r.s.dir = e
    <3>1. DOMAIN read = SdFields
      BY <2>2 DEF After
    <3> QED
      BY <1>4, <1>9, <3>1 DEF SdFields, NotSetUp
  <2>4. CASE read.up = "hung"
    BY <2>3, <2>4 DEF After, r
  <2>5. CASE read.up = "yes"
    <3>1. ReaderOK(read) /\ read.bus = at.bus /\ read.dir = at.dir
      BY <2>2, <2>5 DEF After
    <3>2. at.dir.entry \in 0..EntriesPerSector /\ at.dir.within \in InCluster
          /\ at.dir.cluster \in Clusters(at.bus) \cup {0} /\ DOMAIN at.dir = DirFields
      BY <1>5, <1>9 DEF ReaderOK
    <3>3. DOMAIN e = DirFields /\ e.cluster = at.dir.cluster /\ e.within = at.dir.within
          /\ e.entry = at.dir.entry + 1
      BY <3>1, <3>2 DEF e, DirFields
    <3>4. at.dir.entry + 1 \in 0..EntriesPerSector
      BY <1>1, <1>6, <1>9, <3>2
    <3>5. ReaderOK(r.s) /\ r.s.bus = read.bus /\ r.s.file = read.file /\ r.s.good = read.good
          /\ r.s.buffer = read.buffer
      <4>1. at.dir.cluster \in Clusters(read.bus) \cup {0}
        BY <3>1, <3>2
      <4>2. r.s = [read EXCEPT !.dir = e]
        BY <1>4, <1>9
      <4> HIDE DEF e, read, at, r
      <4> QED
        BY <3>1, <3>2, <3>3, <3>4, <4>1, <4>2, DirMoves
    <3>6. After(at, r.s) /\ (NoFailure(at, r.s) => NoFailure(at, read))
      BY <2>2, <2>3, <2>5, <3>1, <3>5 DEF After, NoFailure, FailedIn
    <3>7. After(s, r.s)
      BY <1>1, <1>9, <3>6, AfterBoth
    <3>8. r.s.file = s.file /\ r.some = TRUE /\ r.entry = EntryIn(r.s.buffer, r.s.dir.entry)
          /\ r.s.dir.cluster = at.dir.cluster /\ r.s.dir.within = at.dir.within /\ r.s.dir.entry = at.dir.entry + 1
      BY <1>1, <1>4, <1>9, <2>2, <2>3, <2>5, <3>3, <3>5
    <3>9. NoFailure(at, r.s) => r.s.buffer = x
      BY <2>2, <2>3, <3>6
    <3> QED
      BY <1>1, <1>5, <1>9, <3>6, <3>7, <3>8, <3>9 DEF r, at, x
  <2> QED
    BY <2>2, <2>4, <2>5 DEF After
<1> QED
  BY <1>5, <1>7, <1>8, <1>9

LEMMA EntryOfReaddir ==
  ASSUME NEW s, ReaderOK(s), s.dir.cluster # 0
  PROVE  LET r == hy_readdir(s)
         IN /\ After(s, r.s)
            /\ r.s.up = "yes" => /\ r.s.file = s.file
                                 /\ r.some => r.s.dir.cluster # 0 /\ (~r.entry.gone => EntryRead(r))
<1> DEFINE r == hy_readdir(s)
           at == PastSector(s)
<1>1. /\ After(s, r.s)
      /\ r.s.up = "yes" => r.s.file = s.file
      /\ r.s.up = "yes" /\ r.some => /\ at.dir.cluster # 0 /\ r.s.dir.cluster = at.dir.cluster
                                     /\ r.entry = EntryIn(r.s.buffer, r.s.dir.entry)
  BY TurnOfReaddir
<1> HIDE DEF r, at
<1>2. ASSUME r.s.up = "yes", r.some, ~r.entry.gone PROVE EntryRead(r)
  <2>1. r.s.bus \in {0, 1} /\ r.s.buffer \in BufferSectors(r.s.bus)
    BY <1>1, <1>2, ReaderFields DEF After
  <2> QED
    BY <1>1, <1>2, <2>1, EntryIsInBuffer DEF EntryRead
<1> QED
  BY <1>1, <1>2 DEF r

\* A search for a name that is still to come goes on, finds it or has it still to
\* come, if no read fails.
LEMMA SearchGoesOn ==
  ASSUME NEW s, ReaderOK(s), s.dir.cluster # 0, NEW n, Ahead(s, n), NoFailure(s, hy_readdir(s).s)
  PROVE  LET r == hy_readdir(s)
         IN r.some /\ ((~r.entry.gone /\ r.entry.name = n) \/ Ahead(r.s, n))
<1> DEFINE r    == hy_readdir(s)
           at   == PastSector(s)
           card == Card[s.bus]
<1>1. /\ r.s.up = "yes" /\ ReaderOK(at) /\ After(s, at) /\ Onto(s, at) /\ After(at, r.s)
      /\ ~r.some => at.dir.cluster = 0
      /\ r.some => /\ at.dir.cluster # 0 /\ r.s.dir.cluster = at.dir.cluster
                   /\ r.s.dir.within = at.dir.within /\ r.s.dir.entry = at.dir.entry + 1
                   /\ r.entry = EntryIn(r.s.buffer, r.s.dir.entry)
                   /\ NoFailure(at, r.s) => r.s.buffer = SectorAt(at, at.dir)
  BY TurnOfReaddir DEF NoFailure
<1>2. at.up = "yes" /\ NoFailure(s, at) /\ NoFailure(at, r.s) /\ at.bus = s.bus /\ r.s.bus = s.bus
  <2>1. at.up = "yes"
    BY <1>1 DEF ReaderOK
  <2>2. NoFailure(s, r.s)
    OBVIOUS
  <2> HIDE DEF r, at
  <2> QED
    BY <1>1, <2>1, <2>2, AfterBoth DEF After
<1>3. PICK i \in 1..Len(card.root), j \in 1..Len(card.root), w \in InCluster, e \in 1..EntriesPerSector :
        /\ Names(card.sectors[card.root[j]][w + 1], e, n)
        /\ s.dir.cluster = card.root[i]
        /\ \/ i < j
           \/ i = j /\ s.dir.within < w
           \/ i = j /\ s.dir.within = w /\ s.dir.entry < e
  BY DEF Ahead
<1>4. /\ s.dir.within \in InCluster /\ s.dir.entry \in 0..EntriesPerSector /\ s.bus \in {0, 1}
      /\ SectorsPerCluster \in Nat \ {0} /\ EntriesPerSector \in Nat \ {0}
  BY ReaderFields, JoyCardAssumption
<1>5. /\ card.root \in Seq(Clusters(s.bus)) /\ Clusters(s.bus) \subseteq Nat \ {0}
      /\ \A k \in 1..(Len(card.root) - 1) : card.next[card.root[k]] = card.root[k + 1]
  BY <1>4, CardAssumption
<1> HIDE DEF r, at, card
<1>6. Len(card.root) \in Nat
  BY <1>5
<1>7. /\ at.dir.within \in InCluster
      /\ \E m \in 1..Len(card.root) :
           /\ at.dir.cluster = card.root[m]
           /\ \/ m < j
              \/ m = j /\ at.dir.within < w
              \/ m = j /\ at.dir.within = w /\ at.dir.entry + 1 <= e
  <2>0. at.dir.within \in InCluster
    BY <1>1, ReaderFields
  <2>1. CASE s.dir.entry < EntriesPerSector /\ at.dir.cluster = s.dir.cluster
             /\ at.dir.within = s.dir.within /\ at.dir.entry = s.dir.entry
    BY <1>3, <1>4, <1>6, <2>0, <2>1 DEF InCluster
  <2>2. CASE s.dir.entry = EntriesPerSector /\ at.dir.cluster = s.dir.cluster
             /\ at.dir.within = s.dir.within + 1 /\ at.dir.entry = 0
    <3>1. ~(i = j /\ s.dir.within = w /\ s.dir.entry < e)
      BY <1>4, <2>2
    <3>2. CASE i < j
      BY <1>3, <2>0, <2>2, <3>2
    <3>3. CASE i = j /\ s.dir.within < w
      <4>1. at.dir.within < w \/ (at.dir.within = w /\ at.dir.entry + 1 <= e)
        BY <1>4, <2>2, <3>3 DEF InCluster
      <4> QED
        BY <1>3, <2>0, <2>2, <3>3, <4>1
    <3> QED
      BY <1>3, <3>1, <3>2, <3>3
  <2>3. CASE s.dir.entry = EntriesPerSector /\ s.dir.within + 1 = SectorsPerCluster
             /\ at.dir.within = 0 /\ at.dir.entry = 0 /\ at.dir.cluster = card.next[s.dir.cluster]
    <3>1. i < j
      BY <1>3, <1>4, <2>3 DEF InCluster
    <3>2. i + 1 \in 1..Len(card.root) /\ i \in 1..(Len(card.root) - 1)
      BY <1>6, <3>1
    <3>3. at.dir.cluster = card.root[i + 1]
      BY <1>3, <1>5, <2>3, <3>2
    <3>4. i + 1 < j \/ (i + 1 = j /\ 0 < w) \/ (i + 1 = j /\ 0 = w /\ 0 + 1 <= e)
      BY <1>4, <3>1 DEF InCluster
    <3> QED
      BY <2>0, <2>3, <3>2, <3>3, <3>4
  <2> QED
    BY <1>1, <1>2, <2>1, <2>2, <2>3 DEF Onto, card
<1>8. PICK m \in 1..Len(card.root) :
           /\ at.dir.cluster = card.root[m]
           /\ \/ m < j
              \/ m = j /\ at.dir.within < w
              \/ m = j /\ at.dir.within = w /\ at.dir.entry + 1 <= e
  BY <1>7
<1>9. card.root[m] \in Clusters(s.bus) /\ card.root[m] # 0
  BY <1>5, <1>6
<1>10. /\ r.some /\ r.s.dir.cluster = at.dir.cluster
       /\ r.s.dir.within = at.dir.within /\ r.s.dir.entry = at.dir.entry + 1
       /\ r.entry = EntryIn(r.s.buffer, r.s.dir.entry) /\ r.s.buffer = SectorAt(at, at.dir)
  BY <1>1, <1>2, <1>8, <1>9
<1>11. CASE m = j /\ at.dir.within = w /\ at.dir.entry + 1 = e
  <2>1. SectorAt(at, at.dir) = card.sectors[card.root[j]][w + 1]
    BY <1>2, <1>8, <1>11 DEF SectorAt, card
  <2>2. Names(r.s.buffer, e, n)
    BY <1>3, <1>10, <2>1
  <2>3. r.entry = r.s.buffer.entries[e]
    BY <1>10, <1>11, <2>2 DEF EntryIn, Names
  <2> QED
    BY <1>10, <2>2, <2>3 DEF Names, r
<1>12. CASE ~(m = j /\ at.dir.within = w /\ at.dir.entry + 1 = e)
  <2>1. at.dir.entry \in Nat
    BY <1>1, <1>4, ReaderFields
  <2>2. \/ m < j
        \/ m = j /\ r.s.dir.within < w
        \/ m = j /\ r.s.dir.within = w /\ r.s.dir.entry < e
    BY <1>4, <1>8, <1>10, <1>12, <2>1
  <2>3. r.s.dir.cluster = card.root[m]
    BY <1>8, <1>10
  <2>4. Ahead(r.s, n)
    BY <1>2, <1>3, <2>2, <2>3 DEF Ahead, card
  <2> QED
    BY <1>10, <2>4 DEF r
<1> QED
  BY <1>11, <1>12

-----------------------------------------------------------------------------
(* Files, and the beginning of a directory.                                 *)

\* The position in the file goes on before its sector is read.
LEMMA FileGoesOn ==
  ASSUME NEW s, ReaderOK(s), s.file.cluster # 0
  PROVE  LET p == FileOnward(s)
         IN /\ After(s, p)
            /\ p.up = "yes" =>
                 /\ p.dir = s.dir /\ p.buffer \in {FatSector, s.buffer}
                 /\ s.file.within + 1 < SectorsPerCluster =>
                      p.file.cluster = s.file.cluster /\ p.file.within = s.file.within + 1
                 /\ s.file.within + 1 >= SectorsPerCluster =>
                      /\ p.file.within = 0
                      /\ NoFailure(s, p) => p.file.cluster = Card[s.bus].next[s.file.cluster]
<1> DEFINE f == s.file
           p == FileOnward(s)
<1>1. /\ f.within \in InCluster /\ f.cluster \in Clusters(s.bus)
      /\ DOMAIN f = {"cluster", "within"} /\ s.up = "yes" /\ DOMAIN s = SdFields
  BY DEF ReaderOK
<1>2. SectorsPerCluster \in Nat \ {0}
  BY JoyCardAssumption
<1>3. CASE f.within + 1 < SectorsPerCluster
  <2> DEFINE e == [f EXCEPT !.within = f.within + 1]
  <2>1. p = [s EXCEPT !.file = e]
    BY <1>1, <1>2, <1>3 DEF FileOnward
  <2>2. DOMAIN e = {"cluster", "within"} /\ e.cluster = f.cluster /\ e.within = f.within + 1
    BY <1>1
  <2>3. f.within + 1 \in InCluster
    BY <1>1, <1>2, <1>3 DEF InCluster
  <2> HIDE DEF e, p, f
  <2>4. ReaderOK(p) /\ p.file = e /\ p.bus = s.bus /\ p.dir = s.dir /\ p.good = s.good /\ p.buffer = s.buffer
    BY <1>1, <2>1, <2>2, <2>3, FileMoves
  <2>5. After(s, p)
    BY <2>4, ReaderFields DEF After
  <2> QED
    BY <1>1, <1>2, <1>3, <2>2, <2>4, <2>5 DEF p, f, InCluster
<1>4. CASE f.within + 1 >= SectorsPerCluster
  <2> DEFINE chained == fat32_nextclusterinchain(s, f.cluster)
             t == chained.s
             e == [cluster |-> chained.next, within |-> 0]
  <2>1. p = [t EXCEPT !.file = e]
    BY <1>1, <1>2, <1>4 DEF FileOnward, FilePastCluster, InCluster
  <2>2. /\ After(s, t) /\ chained.next \in Clusters(s.bus) \cup {0}
        /\ t.up = "yes" => t.dir = s.dir /\ t.buffer \in {FatSector, s.buffer}
        /\ NoFailure(s, t) => chained.next = Card[s.bus].next[f.cluster]
    BY <1>1, ChainRead
  <2>3. DOMAIN e = {"cluster", "within"} /\ e.cluster = chained.next /\ e.within = 0
    OBVIOUS
  <2>4. 0 \in InCluster
    BY <1>2 DEF InCluster
  <2>5. p.up = t.up /\ p.good = t.good /\ DOMAIN p = SdFields
    <3>1. DOMAIN t = SdFields
      BY <2>2 DEF After
    <3> HIDE DEF e, t, p
    <3> QED
      BY <2>1, <3>1 DEF SdFields, NotSetUp
  <2> HIDE DEF e, t, p, chained
  <2>6. CASE t.up = "hung"
    BY <2>5, <2>6 DEF After, p
  <2>7. CASE t.up = "yes"
    <3>1. ReaderOK(t) /\ t.bus = s.bus
      BY <2>2, <2>7 DEF After
    <3>2. ReaderOK(p) /\ p.file = e /\ p.bus = s.bus /\ p.dir = t.dir /\ p.good = t.good /\ p.buffer = t.buffer
      BY <3>1, <2>1, <2>2, <2>3, <2>4, <2>7, FileMoves
    <3>3. After(s, p) /\ (NoFailure(s, p) => NoFailure(s, t))
      BY <2>2, <2>5, <2>7, <3>2 DEF After, NoFailure, FailedIn
    <3> QED
      BY <1>1, <1>2, <1>4, <2>2, <2>3, <2>7, <3>2, <3>3 DEF p, InCluster
  <2> QED
    BY <2>2, <2>6, <2>7 DEF After
<1> QED
  BY <1>1, <1>2, <1>3, <1>4 DEF InCluster

\* A sector of a file that goes on is followed by the next part.
LEMMA PartsFollow ==
  ASSUME NEW bus \in {0, 1}, NEW cluster \in Clusters(bus), NEW k \in 1..SectorsPerCluster,
         NEW c \in DOMAIN Core, NEW p \in Nat, p + 1 < Core[c].length,
         Card[bus].sectors[cluster][k] = CorePart(c, p)
  PROVE  /\ k < SectorsPerCluster => Card[bus].sectors[cluster][k + 1] = CorePart(c, p + 1)
         /\ k = SectorsPerCluster => /\ Card[bus].next[cluster] # 0
                                     /\ Card[bus].sectors[Card[bus].next[cluster]][1] = CorePart(c, p + 1)
<1> DEFINE sector == Card[bus].sectors[cluster][k]
<1>1. sector.kind = "file" /\ sector.core = c /\ sector.part = p
  BY DEF CorePart
<1>2. IF k < SectorsPerCluster
        THEN Card[bus].sectors[cluster][k + 1] = CorePart(sector.core, sector.part + 1)
        ELSE /\ Card[bus].next[cluster] # 0
             /\ Card[bus].sectors[Card[bus].next[cluster]][1] = CorePart(sector.core, sector.part + 1)
  <2> HIDE DEF sector
  <2> QED
    BY <1>1, CoresOnCards DEF sector
<1> HIDE DEF sector
<1>3. SectorsPerCluster \in Nat
  BY JoyCardAssumption
<1> QED
  BY <1>1, <1>2, <1>3

\* Reading a sector of the file: what the buffer may have, and that the next part
\* follows where no read failed.
LEMMA SectorOfFile ==
  ASSUME NEW s, ReaderOK(s)
  PROVE  LET r == hy_read512(s)
         IN /\ After(s, r.s)
            /\ r.some = (s.file.cluster # 0)
            /\ r.s.up = "yes" /\ r.some =>
                 /\ r.s.buffer \in {SectorAt(s, s.file), FatSector, s.buffer}
                 /\ NoFailure(s, r.s) =>
                      /\ r.s.buffer = SectorAt(s, s.file)
                      /\ \A c \in DOMAIN Core, p \in Nat :
                           PartAt(s, c, p) /\ p + 1 < Core[c].length => PartAt(r.s, c, p + 1)
<1> DEFINE r    == hy_read512(s)
           on   == FileOnward(s)
           x    == SectorAt(s, s.file)
<1>0. s.up = "yes" /\ s.bus \in {0, 1}
      /\ s.file.within \in InCluster /\ s.file.cluster \in Clusters(s.bus) \cup {0} /\ DOMAIN s = SdFields
  BY ReaderFields
<1>1. CASE s.file.cluster = 0
  BY <1>0, <1>1 DEF hy_read512, After
<1>2. CASE s.file.cluster # 0
  <2>1. r.s = sdcard_readsector(on, x) /\ r.some = TRUE
    BY <1>2 DEF hy_read512
  <2>2. /\ After(s, on)
        /\ on.up = "yes" =>
             /\ on.dir = s.dir /\ on.buffer \in {FatSector, s.buffer}
             /\ s.file.within + 1 < SectorsPerCluster =>
                  on.file.cluster = s.file.cluster /\ on.file.within = s.file.within + 1
             /\ s.file.within + 1 >= SectorsPerCluster =>
                  /\ on.file.within = 0
                  /\ NoFailure(s, on) => on.file.cluster = Card[s.bus].next[s.file.cluster]
    BY <1>2, FileGoesOn
  <2>3. x \in BufferSectors(s.bus)
    BY <1>0, <1>2, SectorIsOnCard DEF BufferSectors
  <2> HIDE DEF r, on, x
  <2>4. CASE on.up = "hung"
    <3>1. r.s = on
      BY <2>1, <2>4 DEF sdcard_readsector
    <3> QED
      BY <1>2, <2>1, <2>2, <2>4, <3>1 DEF r, on, NoFailure
  <2>5. CASE on.up = "yes"
    <3>1. ReaderOK(on) /\ on.bus = s.bus
      BY <2>2, <2>5 DEF After
    <3>2. /\ After(on, r.s)
          /\ r.s.up = "yes" => /\ r.s.file = on.file
                               /\ r.s.buffer = x \/ r.s.buffer = on.buffer
          /\ NoFailure(on, r.s) => r.s.buffer = x
      BY <2>1, <2>3, <3>1, SectorRead
    <3>3. After(s, r.s) /\ (NoFailure(s, r.s) => NoFailure(s, on) /\ NoFailure(on, r.s))
      BY <2>2, <2>5, <3>2, AfterBoth
    <3>4. ASSUME r.s.up = "yes", NoFailure(s, r.s), NEW c \in DOMAIN Core, NEW p \in Nat,
                 PartAt(s, c, p), p + 1 < Core[c].length
          PROVE  PartAt(r.s, c, p + 1)
      <4>1. r.s.bus = s.bus /\ r.s.file = on.file /\ NoFailure(s, on)
        BY <2>2, <3>1, <3>2, <3>3, <3>4 DEF After
      <4>2. s.file.within + 1 \in 1..SectorsPerCluster /\ SectorsPerCluster \in Nat \ {0} /\ s.file.within \in Nat
        BY <1>0, JoyCardAssumption DEF InCluster
      <4>3. Card[s.bus].sectors[s.file.cluster][s.file.within + 1] = CorePart(c, p)
        BY <3>4 DEF PartAt, SectorAt
      <4>4. CASE s.file.within + 1 < SectorsPerCluster
        <5>1. on.file.cluster = s.file.cluster /\ on.file.within = s.file.within + 1
          BY <2>2, <2>5, <4>4
        <5>2. Card[s.bus].sectors[s.file.cluster][s.file.within + 1 + 1] = CorePart(c, p + 1)
          BY <1>0, <1>2, <3>4, <4>2, <4>3, <4>4, PartsFollow
        <5> QED
          BY <1>2, <4>1, <5>1, <5>2 DEF PartAt, SectorAt
      <4>5. CASE s.file.within + 1 = SectorsPerCluster
        <5>1. on.file.within = 0 /\ on.file.cluster = Card[s.bus].next[s.file.cluster]
          BY <2>2, <2>5, <4>1, <4>2, <4>5
        <5> DEFINE k == s.file.within + 1
        <5>2. /\ Card[s.bus].next[s.file.cluster] # 0
              /\ Card[s.bus].sectors[Card[s.bus].next[s.file.cluster]][1] = CorePart(c, p + 1)
          <6>1. k \in 1..SectorsPerCluster /\ k = SectorsPerCluster
                /\ Card[s.bus].sectors[s.file.cluster][k] = CorePart(c, p)
            BY <4>2, <4>3, <4>5
          <6>2. s.file.cluster \in Clusters(s.bus) /\ s.bus \in {0, 1} /\ p + 1 < Core[c].length
            BY <1>0, <1>2, <3>4
          <6> HIDE DEF k
          <6> QED
            BY <6>1, <6>2, PartsFollow
        <5>3. r.s.file.cluster # 0 /\ Card[r.s.bus].sectors[r.s.file.cluster][0 + 1] = CorePart(c, p + 1)
          BY <4>1, <5>1, <5>2
        <5> QED
          BY <4>1, <5>1, <5>3 DEF PartAt, SectorAt
      <4> QED
        BY <4>2, <4>4, <4>5
    <3> QED
      BY <1>2, <2>1, <2>2, <2>5, <3>2, <3>3, <3>4 DEF r, x
  <2> QED
    BY <2>2, <2>4, <2>5 DEF After
<1> QED
  BY <1>1, <1>2

\* A sector of a file is a part of a core, or of something else.
LEMMA FileSectorsAreParts ==
  ASSUME NEW bus \in {0, 1}, NEW cluster \in Clusters(bus), NEW k \in 1..SectorsPerCluster,
         Card[bus].sectors[cluster][k].kind = "file"
  PROVE  Card[bus].sectors[cluster][k] \in Parts
<1> HIDE DEF Parts, Clusters, CorePart
<1> QED
  BY CoresOnCards, ZenonT(30)

\* A header that is accepted is one of the card, at the position in the file.
LEMMA HeaderIsOfFile ==
  ASSUME NEW s, ReaderOK(s), s.buffer.kind = "dir", NEW megaonly,
         hy_read512(s).s.up = "yes", hy_read512(s).some,
         Accepted(FileSector(hy_read512(s).s.buffer), megaonly)
  PROVE  \E c \in DOMAIN Core : PartAt(s, c, 0) /\ Core[c].magic /\ Core[c].model = "ours"
<1> DEFINE x == hy_read512(s).s.buffer
<1>1. x \in {SectorAt(s, s.file), FatSector, s.buffer} /\ s.file.cluster # 0
  BY SectorOfFile
<1>2. x.kind = "file"
  <2>1. JunkSector.core \notin DOMAIN Core
    BY CoreAssumption DEF JunkSector, CorePart
  <2> HIDE DEF x
  <2> QED
    BY <2>1 DEF FileSector, Accepted, x
<1>3. x = SectorAt(s, s.file)
  <2> HIDE DEF x
  <2> QED
    BY <1>1, <1>2 DEF FatSector
<1> HIDE DEF x
<1>4. /\ s.bus \in {0, 1} /\ s.file.cluster \in Clusters(s.bus) /\ s.file.within + 1 \in 1..SectorsPerCluster
  BY <1>1, ReaderFields, JoyCardAssumption DEF InCluster
<1>5. x \in Parts
  BY <1>2, <1>3, <1>4, FileSectorsAreParts DEF SectorAt
<1>6. x.core \in DOMAIN Core /\ x.part = 0 /\ Core[x.core].magic /\ Core[x.core].model = "ours"
  BY <1>2 DEF Accepted, FileSector, x
<1>7. x = CorePart(x.core, 0)
  BY <1>5, <1>6 DEF Parts, CorePart
<1> QED
  BY <1>1, <1>3, <1>6, <1>7 DEF PartAt

\* What is on a card, is loaded and is in the expansion RAM has the type of a part.
LEMMA PartIsLoaded ==
  ASSUME NEW bus \in {0, 1}, NEW x \in BufferSectors(bus)
  PROVE  FileSector(x) \in Parts
<1>1. JunkSector \in Parts
  BY DEF JunkSector, CorePart, Parts
<1>2. x.kind = "file" => x \in Parts
  <2>1. NoSector.kind # "file" /\ FatSector.kind # "file"
    BY DEF NoSector, FatSector
  <2>2. ASSUME NEW cluster \in Clusters(bus), NEW k \in 1..SectorsPerCluster,
               x = Card[bus].sectors[cluster][k], x.kind = "file"
        PROVE  x \in Parts
    BY <2>2, FileSectorsAreParts
  <2> QED
    BY <2>1, <2>2 DEF BufferSectors, CardSectors
<1> QED
  BY <1>1, <1>2 DEF FileSector

\* A directory sector x, in a cluster of the card, has the entry e.
IsEntry(bus, cluster, x, e) ==
  /\ \E j \in 1..Len(Card[bus].root) : Card[bus].root[j] = cluster
  /\ e \in 1..EntriesPerSector
  /\ ~x.entries[e].gone => x.entries[e].ino \in Clusters(bus) \cup {0}
  /\ ~x.entries[e].gone /\ x.entries[e].name \in CoreNames =>
       \A c \in DOMAIN Core :
         Core[c].name = x.entries[e].name <=>
           x.entries[e].ino # 0 /\ Card[bus].sectors[x.entries[e].ino][1] = CorePart(c, 0)

LEMMA DirectorySector ==
  ASSUME NEW bus \in {0, 1}, NEW cluster \in Clusters(bus), NEW k \in 1..SectorsPerCluster,
         NEW x, x = Card[bus].sectors[cluster][k], x.kind = "dir", NEW e \in DOMAIN x.entries
  PROVE  IsEntry(bus, cluster, x, e)
<1> DEFINE sector == Card[bus].sectors[cluster][k]
<1>1. sector.kind = "dir" =>
        /\ \E j \in 1..Len(Card[bus].root) : Card[bus].root[j] = cluster
        /\ DOMAIN sector.entries \subseteq 1..EntriesPerSector
        /\ \A f \in DOMAIN sector.entries :
             sector.entries[f].gone \/ sector.entries[f].ino \in Clusters(bus) \cup {0}
  BY CardAssumption
<1>2. sector.kind = "dir" =>
        \A f \in DOMAIN sector.entries :
          ~sector.entries[f].gone /\ sector.entries[f].name \in CoreNames =>
            \A c \in DOMAIN Core :
              Core[c].name = sector.entries[f].name <=>
                /\ sector.entries[f].ino # 0
                /\ Card[bus].sectors[sector.entries[f].ino][1] = CorePart(c, 0)
  BY CoresOnCards
<1>3. sector = x
  OBVIOUS
<1> HIDE DEF sector
<1> QED
  BY <1>1, <1>2, <1>3 DEF IsEntry

\* The file of an entry with the name that was chosen, and that it is on the card.
LEMMA FileIsFound ==
  ASSUME NEW r, ReaderOK(r.s), EntryRead(r), ~r.entry.gone, r.entry.name \in CoreNames
  PROVE  LET s == Positioned(r.s, r.entry)
         IN /\ ReaderOK(s) /\ s.dir = r.s.dir /\ s.buffer = r.s.buffer /\ s.buffer.kind = "dir"
            /\ IsFile(s, r.entry.name) /\ OnCard(s, r.entry.name)
<1> DEFINE s == Positioned(r.s, r.entry)
           b == r.s.bus
           x == r.s.buffer
           e == r.s.dir.entry
<1>1. b \in {0, 1} /\ 0 \in InCluster /\ SectorsPerCluster \in Nat \ {0}
  BY ReaderFields, JoyCardAssumption DEF InCluster
<1>2. PICK cluster \in Clusters(b), k \in 1..SectorsPerCluster : x = Card[b].sectors[cluster][k]
  BY DEF EntryRead, CardSectors
<1>3. x.kind = "dir" /\ e \in DOMAIN x.entries /\ r.entry = x.entries[e]
  BY DEF EntryRead
<1> HIDE DEF b, x, e, s
<1>0. IsEntry(b, cluster, x, e)
  BY <1>1, <1>2, <1>3, DirectorySector
<1>4. PICK j \in 1..Len(Card[b].root) : Card[b].root[j] = cluster
  BY <1>0 DEF IsEntry
<1>5. e \in 1..EntriesPerSector /\ r.entry.ino \in Clusters(b) \cup {0}
  BY <1>0, <1>3 DEF IsEntry
<1>6. \A c \in DOMAIN Core :
        Core[c].name = r.entry.name <=> r.entry.ino # 0 /\ Card[b].sectors[r.entry.ino][1] = CorePart(c, 0)
  BY <1>0, <1>3 DEF IsEntry
<1>7. /\ ReaderOK(s) /\ s.file = [cluster |-> r.entry.ino, within |-> 0] /\ s.bus = b
      /\ s.dir = r.s.dir /\ s.buffer = x
  <2> DEFINE f == [cluster |-> r.entry.ino, within |-> 0]
  <2>1. DOMAIN f = {"cluster", "within"} /\ f.cluster = r.entry.ino /\ f.within = 0
    OBVIOUS
  <2>2. s = [r.s EXCEPT !.file = f]
    BY DEF s, Positioned
  <2>3. f.cluster \in Clusters(r.s.bus) \cup {0}
    BY <1>5, <2>1 DEF b
  <2> HIDE DEF f
  <2>4. ReaderOK(s) /\ s.file = f /\ s.bus = r.s.bus /\ s.dir = r.s.dir /\ s.buffer = r.s.buffer
    BY <1>1, <2>1, <2>2, <2>3, FileMoves
  <2> QED
    BY <2>4 DEF f, b, x
<1>8. IsFile(s, r.entry.name)
  BY <1>6, <1>7 DEF IsFile, PartAt, SectorAt
<1>9. OnCard(s, r.entry.name)
  <2>1. k - 1 \in InCluster /\ (k - 1) + 1 = k
    BY <1>1 DEF InCluster
  <2>2. Names(Card[b].sectors[Card[b].root[j]][(k - 1) + 1], e, r.entry.name)
    BY <1>2, <1>3, <1>4, <2>1 DEF Names
  <2> QED
    BY <1>5, <1>7, <2>1, <2>2 DEF OnCard
<1> QED
  BY <1>3, <1>7, <1>8, <1>9 DEF s, x

\* Opening the directory finds the beginning of the root directory, where all the
\* entries of the card are still to come, or hangs.
LEMMA CardOpens ==
  ASSUME NEW inserted
  PROVE  LET r == setup_sdcard(NotSetUp(inserted))
         IN /\ DOMAIN r = SdFields
            /\ r.up = "hung" \/ ReaderOK(r)
<1> DEFINE s == NotSetUp(inserted)
           t == sdcard_reset(s)
           r == setup_sdcard(s)
<1>0. SdFields = {"up", "inserted", "internal", "bus", "buffer", "good", "asks", "stray", "dir", "file"}
  BY DEF SdFields, NotSetUp
<1>1. r = IF t.up # "hung" /\ Card[t.bus].mbr /\ Card[t.bus].fat THEN [t EXCEPT !.up = "yes"] ELSE Hangs(t)
  BY DEF setup_sdcard, Mounts
<1>2. /\ DOMAIN t = SdFields
      /\ t.up # "hung" => /\ t.bus \in {0, 1} /\ CardKept(t) /\ t.good = NeverFails
                          /\ t.buffer = NoSector /\ t.stray = 0
                          /\ t.dir = s.dir /\ t.file = s.file
  BY <1>0 DEF sdcard_reset, Hangs, CardKept, NotSetUp
<1>3. 0 \in InCluster /\ 0 \in 0..EntriesPerSector /\ NeverFails \in 0..NeverFails
  BY JoyCardAssumption DEF InCluster
<1>4. DOMAIN s.dir = DirFields /\ s.dir.cluster = 0 /\ s.dir.within = 0 /\ s.dir.entry = 0
      /\ DOMAIN s.file = {"cluster", "within"} /\ s.file.cluster = 0 /\ s.file.within = 0
  BY DEF DirFields, NotSetUp
<1> HIDE DEF s, t, r
<1>5. CASE t.up # "hung" /\ Card[t.bus].mbr /\ Card[t.bus].fat
  <2>1. r = [t EXCEPT !.up = "yes"]
    BY <1>1, <1>5
  <2>2. DOMAIN r = SdFields /\ r.up = "yes" /\ r.bus = t.bus /\ r.inserted = t.inserted
        /\ r.internal = t.internal /\ r.good = t.good /\ r.buffer = t.buffer /\ r.stray = t.stray
        /\ r.dir = t.dir /\ r.file = t.file
    <3>1. DOMAIN t = SdFields
      BY <1>2
    <3> QED
      BY <1>0, <2>1, <3>1
  <2>3. ReaderOK(r)
    <3>1. /\ t.bus \in {0, 1} /\ CardKept(t) /\ t.good = NeverFails
          /\ t.buffer = NoSector /\ t.stray = 0 /\ t.dir = s.dir /\ t.file = s.file
      BY <1>2, <1>5
    <3>2. CardKept(r)
      BY <2>2, <3>1 DEF CardKept
    <3> QED
      BY <1>3, <1>4, <2>2, <3>1, <3>2 DEF ReaderOK, BufferSectors
  <2> QED
    BY <2>2, <2>3 DEF r, s
<1>6. CASE ~(t.up # "hung" /\ Card[t.bus].mbr /\ Card[t.bus].fat)
  <2>1. r = Hangs(t)
    BY <1>1, <1>6
  <2>2. DOMAIN r = SdFields /\ r.up = "hung"
    <3>1. DOMAIN t = SdFields
      BY <1>2
    <3> QED
      BY <1>0, <2>1, <3>1 DEF Hangs
  <2> QED
    BY <2>2 DEF r, s
<1> QED
  BY <1>5, <1>6

LEMMA RootIsFirst ==
  ASSUME NEW bus \in {0, 1}
  PROVE  /\ 2 \in Clusters(bus) /\ Card[bus].root[1] = 2
         /\ Card[bus].root \in Seq(Clusters(bus)) /\ Len(Card[bus].root) \in Nat \ {0}
<1>1. /\ Card[bus].root \in Seq(Clusters(bus)) /\ Card[bus].root # <<>> /\ Card[bus].root[1] = 2
  BY CardAssumption
<1>2. Len(Card[bus].root) \in Nat \ {0}
  BY <1>1, EmptySeq
<1> QED
  BY <1>1, <1>2

LEMMA DirectoryOpens ==
  ASSUME NEW s, DOMAIN s = SdFields, s.up \in {"no", "yes", "hung"}, s.up = "yes" => ReaderOK(s),
         NEW inserted, s.up = "no" => s = NotSetUp(inserted)
  PROVE  LET r == hy_opendir(s)
         IN /\ DOMAIN r = SdFields /\ r.up \in {"yes", "hung"}
            /\ r.up = "yes" =>
                 /\ ReaderOK(r) /\ r.dir.cluster # 0
                 /\ \A n : OnCard(r, n) => Ahead(r, n)
            /\ s.up = "yes" =>
                 /\ r.up = "yes" /\ r.bus = s.bus /\ r.file = s.file /\ r.good = s.good /\ r.buffer = s.buffer
                 /\ \A n : OnCard(s, n) => Ahead(r, n)
<1> DEFINE t == Ready(s)
           d == Position(2, 0, 0)
           r == hy_opendir(s)
<1>1. r = [t EXCEPT !.dir = d]
  BY DEF hy_opendir, Position
<1>2. DOMAIN t = SdFields /\ (t.up = "hung" \/ ReaderOK(t)) /\ (s.up = "yes" => t = s)
  BY CardOpens DEF Ready
<1>3. DOMAIN d = DirFields /\ d.cluster = 2 /\ d.within = 0 /\ d.entry = 0
  BY DEF DirFields, Position
<1> HIDE DEF t, d, r
<1>4. DOMAIN r = SdFields /\ r.up = t.up
  BY <1>1, <1>2 DEF SdFields, NotSetUp
<1>5. CASE t.up = "hung"
  BY <1>2, <1>4, <1>5 DEF r, ReaderOK
<1>6. CASE ReaderOK(t)
  <2>1. t.bus \in {0, 1} /\ t.up = "yes"
    BY <1>6, ReaderFields
  <2>2. 2 \in Clusters(t.bus) \cup {0} /\ 0 \in InCluster /\ 0 \in 0..EntriesPerSector
    BY <2>1, RootIsFirst, JoyCardAssumption DEF InCluster
  <2>3. ReaderOK(r) /\ r.dir = d /\ r.bus = t.bus /\ r.file = t.file /\ r.good = t.good /\ r.buffer = t.buffer
    BY <1>1, <1>3, <1>6, <2>2, DirMoves
  <2>4. ASSUME NEW n, OnCard(t, n) PROVE Ahead(r, n)
    <3>1. PICK j \in 1..Len(Card[t.bus].root), w \in InCluster, e \in 1..EntriesPerSector :
            Names(Card[t.bus].sectors[Card[t.bus].root[j]][w + 1], e, n)
      BY <2>4 DEF OnCard
    <3>2. 1 \in 1..Len(Card[t.bus].root) /\ Card[t.bus].root[1] = 2
      BY <2>1, RootIsFirst
    <3>3. 1 < j \/ (1 = j /\ 0 < w) \/ (1 = j /\ 0 = w /\ 0 < e)
      BY <2>1, RootIsFirst, JoyCardAssumption DEF InCluster
    <3>4. r.dir.cluster = Card[r.bus].root[1] /\ r.dir.within = 0 /\ r.dir.entry = 0
      BY <1>3, <2>3, <3>2
    <3>5. /\ Names(Card[r.bus].sectors[Card[r.bus].root[j]][w + 1], e, n)
          /\ 1 \in 1..Len(Card[r.bus].root) /\ j \in 1..Len(Card[r.bus].root)
          /\ 1 < j \/ (1 = j /\ r.dir.within < w) \/ (1 = j /\ r.dir.within = w /\ r.dir.entry < e)
      BY <2>3, <3>1, <3>2, <3>3, <3>4
    <3> QED
      BY <3>4, <3>5 DEF Ahead
  <2>5. \A n : OnCard(r, n) <=> OnCard(t, n)
    BY <2>3 DEF OnCard
  <2>6. r.dir.cluster # 0
    BY <1>3, <2>3
  <2> QED
    BY <1>2, <1>4, <2>1, <2>3, <2>4, <2>5, <2>6 DEF r
<1> QED
  BY <1>2, <1>5, <1>6

-----------------------------------------------------------------------------
(* Numbers, and the fields of job.                                          *)

LEMMA BlockOfSlot ==
  ASSUME NEW slot \in Slots, NEW k \in 0..(SlotBlocks - 1)
  PROVE  slot * SlotBlocks + k \in Blocks
<1> DEFINE N == SlotBlocks
<1>1. N \in Nat /\ SlotCount \in Nat /\ slot \in Nat /\ slot <= SlotCount - 1 /\ k \in Nat /\ k < N
  BY JoyFlashAssumption DEF Slots
<1> HIDE DEF N
<1>2. slot * N \in Nat /\ SlotCount * N \in Nat /\ slot * N + k \in Nat
  BY <1>1
<1>3. (SlotCount - 1 - slot) * N \in Nat
  <2>1. SlotCount - 1 - slot \in Nat
    BY <1>1
  <2> QED
    BY <1>1, <2>1
<1>4. (SlotCount - 1 - slot) * N = SlotCount * N - N - slot * N
  BY <1>1
<1>5. slot * N + k <= SlotCount * N - 1
  BY <1>1, <1>2, <1>3, <1>4
<1> QED
  BY <1>2, <1>5 DEF Blocks, N

\* Different blocks of a slot are different blocks of the chip.
LEMMA BlocksDiffer ==
  ASSUME NEW k \in Nat, NEW l \in Nat, k # l, job.slot \in Slots
  PROVE  InSlot(k) # InSlot(l)
<1> DEFINE base == job.slot * SlotBlocks
<1>1. base \in Nat
  BY JoyFlashAssumption DEF Slots
<1> HIDE DEF base
<1>2. base + k # base + l
  BY <1>1
<1> QED
  BY <1>2 DEF base, InSlot

\* A remainder is smaller than what was divided by.
LEMMA Remainder ==
  ASSUME NEW x \in Nat, NEW n \in Nat \ {0}
  PROVE  x % n \in 0..(n - 1)
  OBVIOUS

\* Where the program starts.
LEMMA JobAtFirst ==
  ASSUME NEW j, j = [Idle EXCEPT !.pc = "start"]
  PROVE  /\ DOMAIN j = DOMAIN Idle /\ j.pc = "start" /\ j.pc \in Places /\ j.slot \in Slots
         /\ j.at \in Nat /\ j.page \in Nat /\ j.tries \in Nat /\ j.failed \in BOOLEAN
<1>1. 0 \in Slots
  BY JoyFlashAssumption DEF Slots
<1>2. "start" \in Places
  BY DEF Places
<1>3. /\ DOMAIN j = DOMAIN Idle /\ j.pc = "start" /\ j.slot = 0
      /\ j.at = 0 /\ j.page = 0 /\ j.tries = 0 /\ j.failed = FALSE
  BY DEF Idle
<1>4. j.at \in Nat /\ j.page \in Nat /\ j.tries \in Nat
  BY <1>3
<1> QED
  BY <1>1, <1>2, <1>3, <1>4, Zenon

\* Places where nothing is to be said but the types and the card.
LEMMA NothingUnderWay ==
  ASSUME TypeInv', SdInv', job'.pc \notin Choosing \cup Loading
  PROVE  Inv'
  BY DEF Inv, StageInv, CheckInv, SearchInv, LoadInv, ChipInv, At, Choosing, Loading, Listing

\* A step that goes somewhere and does nothing else to job.
LEMMA GoesThere ==
  ASSUME JobOK, NEW pc \in Places, Goes(pc)
  PROVE  /\ JobOK' /\ job'.pc = pc /\ job'.slot = job.slot /\ job'.at = job.at /\ job'.file = job.file
         /\ job'.files = job.files /\ job'.failed = job.failed /\ job'.page = job.page
  BY DEF JobOK, Goes, Idle

\* The chosen core is the one with its name.
LEMMA ChosenIs ==
  ASSUME NEW c \in DOMAIN Core, Core[c].name = job.file
  PROVE  Chosen = c
<1>1. Chosen \in DOMAIN Core /\ Core[Chosen].name = job.file
  BY DEF Chosen
<1> QED
  BY <1>1, CoreAssumption

-----------------------------------------------------------------------------
(* The steps that are not about a file.                                     *)

\* The invariant holds where the program starts.
LEMMA InvAtFirst == ASSUME Init PROVE Inv
<1>1. JobOK /\ job.pc = "start"
  BY JobAtFirst DEF Init, JobOK
<1>2. TypeInv
  <2>1. ChipOK
    BY FlashAssumption DEF ChipOK, Init
  <2>2. AtticOK
    BY DEF Init, AtticOK, NoAttic, JunkSector, CorePart, Parts
  <2> QED
    BY <1>1, <2>1, <2>2 DEF TypeInv
<1>3. SdInv
  BY <1>1 DEF Init, SdInv, SdFields, NotSetUp, Choosing, Listing
<1> QED
  BY <1>1, <1>2, <1>3 DEF Inv, StageInv, CheckInv, SearchInv, LoadInv, ChipInv, At, Choosing, Loading, Listing

\* From switching on to the menu, and in it.
LEMMA StepsOutside ==
  ASSUME Inv,
         \/ probe_qspi_flash \/ flash_reset \/ Warn \/ PressFire \/ Scan \/ MoveSlot \/ reconfig_fpga
  PROVE  Inv'
<1>1. TypeInv /\ SdInv /\ JobOK
  BY DEF Inv, TypeInv
<1>2. UNCHANGED <<mem, attic, sd, board>>
  BY DEF probe_qspi_flash, flash_reset, Warn, PressFire, Scan, MoveSlot, reconfig_fpga
<1>3. JobOK' /\ job'.pc \notin Choosing \cup Loading
  <2>1. CASE probe_qspi_flash
    <3>1. PICK pc \in {"warn", "hung"} : Goes(pc)
      BY <2>1 DEF probe_qspi_flash
    <3> QED
      BY <1>1, <3>1, GoesThere DEF Places, Choosing, Listing, Loading
  <2>2. CASE flash_reset
    BY <1>1, <2>2 DEF flash_reset, JobOK, At, Choosing, Listing, Loading
  <2>3. CASE Warn
    <3>1. PICK pc \in {"warning", "scan"} : Goes(pc)
      BY <2>3 DEF Warn
    <3> QED
      BY <1>1, <3>1, GoesThere DEF Places, Choosing, Listing, Loading
  <2>4. CASE PressFire
    <3>1. Goes("scan")
      BY <2>4 DEF PressFire
    <3> QED
      BY <1>1, <3>1, GoesThere DEF Places, Choosing, Listing, Loading
  <2>5. CASE Scan
    <3>1. job' = [Idle EXCEPT !.slot = job.slot]
      BY <2>5 DEF Scan
    <3> QED
      BY <1>1, <3>1 DEF JobOK, Idle, Places, Choosing, Listing, Loading
  <2>6. CASE MoveSlot
    <3>1. PICK step \in {1, SlotCount - 1} : At("menu") /\ job' = [job EXCEPT !.slot = (job.slot + step) % SlotCount]
      BY <2>6 DEF MoveSlot
    <3>2. job.slot + step \in Nat /\ SlotCount \in Nat \ {0}
      BY <1>1, JoyFlashAssumption DEF JobOK, Slots
    <3>3. (job.slot + step) % SlotCount \in Slots
      BY <3>2, Remainder DEF Slots
    <3> QED
      BY <1>1, <3>1, <3>3 DEF JobOK, Idle, At, Places, Choosing, Listing, Loading
  <2>7. CASE reconfig_fpga
    <3>1. Goes("core")
      BY <2>7 DEF reconfig_fpga
    <3> QED
      BY <1>1, <3>1, GoesThere DEF Places, Choosing, Listing, Loading
  <2> QED
    BY <2>1, <2>2, <2>3, <2>4, <2>5, <2>6, <2>7
<1>4. TypeInv'
  BY <1>1, <1>2, <1>3 DEF TypeInv, ChipOK, AtticOK
<1>5. SdInv'
  BY <1>1, <1>2, <1>3 DEF SdInv, Choosing
<1> QED
  BY <1>3, <1>4, <1>5, NothingUnderWay

\* Switching off and on again.
LEMMA PowerStep == ASSUME Inv, PowerCycle PROVE Inv'
<1>1. TypeInv /\ SdInv /\ StageInv
  BY DEF Inv
<1>2. ChipOK'
  <2>1. CASE UNCHANGED mem
    BY <1>1, <2>1 DEF TypeInv, ChipOK
  <2>2. CASE Changing /\ mem' = [mem EXCEPT ![InSlot(job.at)][0] = Junk]
    <3>1. Junk \in PageValues
      BY DEF Junk, Blank, PageValues
    <3>2. 0 \in Pages
      BY JoyFlashAssumption DEF Pages
    <3> QED
      BY <1>1, <2>2, <3>1, <3>2 DEF TypeInv, ChipOK
  <2> QED
    BY <2>1, <2>2 DEF PowerCycle
<1>3. AtticOK'
  BY DEF PowerCycle, AtticOK, NoAttic, JunkSector, CorePart, Parts
<1>4. JobOK' /\ job'.pc = "start"
  BY JobAtFirst DEF PowerCycle, JobOK
<1>5. SdInv'
  <2>1. sd' = NotSetUp(board'.cards)
    BY DEF PowerCycle
  <2>2. DOMAIN sd' = SdFields /\ sd'.up = "no"
    BY <2>1 DEF SdFields, NotSetUp
  <2> QED
    BY <1>4, <2>1, <2>2 DEF SdInv, Choosing, Listing
<1> QED
  BY <1>2, <1>3, <1>4, <1>5, NothingUnderWay DEF TypeInv, Choosing, Listing, Loading

-----------------------------------------------------------------------------
(* Choosing a file.                                                         *)

LEMMA OneElement ==
  ASSUME NEW S, NEW x \in S
  PROVE  <<x>> \in Seq(S) /\ Len(<<x>>) = 1
  OBVIOUS

\* Before the header is read, nothing is to be said of the file but its name.
LEMMA NothingRead ==
  ASSUME TypeInv', SdInv', StageInv', job'.pc \in {"list", "select", "open", "find"}
  PROVE  Inv'
  BY DEF Inv, CheckInv, SearchInv, LoadInv, ChipInv, At, Loading

\* A directory that is opened, in the invariant's terms.
LEMMA SdOpened ==
  ASSUME SdInv, NEW buffer \in {NoSector, sd.buffer}, NEW s,
         s = sd \/ (sd.up = "yes" /\ s = [sd EXCEPT !.buffer = buffer]), sd' = hy_opendir(s)
  PROVE  /\ DOMAIN sd' = SdFields /\ sd'.up \in {"yes", "hung"}
         /\ sd'.up = "yes" => ReaderOK(sd') /\ sd'.dir.cluster # 0
         /\ sd.up = "yes" => sd'.up = "yes"
<1>1. CASE s = sd
  BY <1>1, DirectoryOpens DEF SdInv
<1>2. CASE sd.up = "yes" /\ s = [sd EXCEPT !.buffer = buffer]
  <2>1. ReaderOK(sd)
    BY <1>2 DEF SdInv
  <2>2. ReaderOK(s)
    BY <1>2, <2>1 DEF ReaderOK, CardKept, SdFields, NotSetUp, BufferSectors
  <2> QED
    BY <1>2, <2>2, ReaderFields, DirectoryOpens
<1> QED
  BY <1>1, <1>2

LEMMA SelectStep == ASSUME Inv, SelectSlot PROVE Inv'
<1>1. TypeInv /\ SdInv /\ JobOK
  BY DEF Inv, TypeInv
<1>2. /\ At("menu") /\ job.slot > 0 /\ UNCHANGED <<mem, attic, board>>
      /\ sd' = hy_opendir(sd)
      /\ job' = [job EXCEPT !.pc = IF sd'.up = "hung" THEN "hung" ELSE "list",
                            !.files = <<"-erase slot-">>, !.at = 1]
  BY DEF SelectSlot
<1>3. /\ DOMAIN sd' = SdFields /\ sd'.up \in {"yes", "hung"}
      /\ sd'.up = "yes" => ReaderOK(sd') /\ sd'.dir.cluster # 0
  BY <1>1, <1>2, SdOpened
<1>4. /\ DOMAIN job' = DOMAIN Idle /\ job'.pc = IF sd'.up = "hung" THEN "hung" ELSE "list"
      /\ job'.at = 1 /\ job'.slot = job.slot
      /\ job'.failed = job.failed /\ job'.page = job.page /\ job'.tries = job.tries
  BY <1>1, <1>2 DEF JobOK, Idle
<1>9. job'.files = <<"-erase slot-">>
  BY <1>1, <1>2 DEF JobOK, Idle
<1>5. TypeInv'
  <2>1. JobOK'
    BY <1>1, <1>4 DEF JobOK, Places, Choosing, Listing
  <2> QED
    BY <1>1, <1>2, <2>1 DEF TypeInv, ChipOK, AtticOK
<1>6. SdInv'
  BY <1>3, <1>4 DEF SdInv, Choosing, Listing
<1>7. CASE sd'.up = "hung"
  BY <1>4, <1>5, <1>6, <1>7, NothingUnderWay DEF Choosing, Listing, Loading
<1>8. CASE sd'.up = "yes"
  <2>1. FilesOK'
    <3>1. "-erase slot-" \in FileNames
      BY DEF FileNames
    <3>2. job'.files \in Seq(FileNames) /\ Len(job'.files) = 1
      BY <1>9, <3>1, OneElement
    <3> QED
      BY <3>2 DEF FilesOK
  <2>2. StageInv'
    BY <1>2, <1>4, <1>8, <2>1, JoyFlashAssumption DEF StageInv, At
  <2> QED
    BY <1>4, <1>5, <1>6, <1>8, <2>2, NothingRead
<1> QED
  BY <1>3, <1>7, <1>8

LEMMA ListStep == ASSUME Inv, select_bitstream_file PROVE Inv'
<1> DEFINE read == hy_readdir(sd)
<1>1. /\ TypeInv /\ SdInv /\ StageInv /\ JobOK /\ At("list") /\ job.pc = "list"
      /\ UNCHANGED <<mem, attic, board>> /\ sd' = read.s
  BY DEF Inv, TypeInv, select_bitstream_file, At
<1>2. \/ read.s.up = "hung" /\ Goes("hung")
      \/ read.s.up # "hung" /\ ~read.some /\ Goes("select")
      \/ /\ read.s.up # "hung" /\ read.some
         /\ job' = IF IsListed(read.entry) THEN [job EXCEPT !.files = Append(job.files, read.entry.name)]
                   ELSE job
  BY DEF select_bitstream_file
<1>3. ReaderOK(sd) /\ sd.dir.cluster # 0 /\ FilesOK /\ job.slot # 0 /\ job.at = 1
  BY <1>1 DEF SdInv, StageInv, Choosing, Listing
<1>4. After(sd, read.s) /\ (read.s.up = "yes" /\ read.some => read.s.dir.cluster # 0)
  BY <1>3, EntryOfReaddir
<1> HIDE DEF read
<1>6. CASE read.s.up = "hung" /\ Goes("hung")
  <2>1. JobOK' /\ job'.pc = "hung"
    BY <1>1, <1>6, GoesThere DEF Places
  <2>2. TypeInv' /\ SdInv'
    BY <1>1, <1>4, <1>6, <2>1 DEF TypeInv, ChipOK, AtticOK, SdInv, Choosing, Listing, After
  <2> QED
    BY <2>1, <2>2, NothingUnderWay DEF Choosing, Listing, Loading
<1>7. CASE read.s.up = "yes" /\ ~read.some /\ Goes("select")
  <2>1. /\ JobOK' /\ job'.pc = "select" /\ job'.slot = job.slot /\ job'.at = 1 /\ job'.files = job.files
    BY <1>1, <1>3, <1>7, GoesThere DEF Places, Choosing
  <2>2. FilesOK' /\ job'.at \in 1..Len(job'.files)
    BY <1>3, <2>1 DEF FilesOK
  <2>3. TypeInv' /\ SdInv' /\ StageInv'
    BY <1>1, <1>3, <1>4, <1>7, <2>1, <2>2
       DEF TypeInv, ChipOK, AtticOK, SdInv, After, Choosing, Listing, StageInv, At
  <2> QED
    BY <2>1, <2>3, NothingRead
<1>8. CASE read.s.up = "yes" /\ read.some
           /\ job' = IF IsListed(read.entry) THEN [job EXCEPT !.files = Append(job.files, read.entry.name)]
                     ELSE job
  <2>1. /\ DOMAIN job' = DOMAIN Idle /\ job'.pc = "list" /\ job'.slot = job.slot /\ job'.at = 1
        /\ job'.failed = job.failed /\ job'.page = job.page /\ job'.tries = job.tries
        /\ job'.files = IF IsListed(read.entry) THEN Append(job.files, read.entry.name) ELSE job.files
    BY <1>1, <1>3, <1>8 DEF JobOK, Idle
  <2>2. JobOK'
    BY <1>1, <2>1 DEF JobOK
  <2>3. FilesOK'
    <3>1. CASE IsListed(read.entry)
      <4>1. read.entry.name \in CoreNames
        BY <3>1 DEF IsListed
      <4> DEFINE name == read.entry.name
      <4>2. job'.files = Append(job.files, name) /\ name \in CoreNames /\ name \in FileNames
        BY <2>1, <3>1, <4>1 DEF FileNames
      <4>3. job.files \in Seq(FileNames) /\ Len(job.files) > 0
            /\ \A i \in 2..Len(job.files) : job.files[i] \in CoreNames
        BY <1>3 DEF FilesOK
      <4> HIDE DEF name
      <4>4. job'.files \in Seq(FileNames) /\ Len(job'.files) = Len(job.files) + 1
            /\ \A i \in 1..Len(job.files) : job'.files[i] = job.files[i]
            /\ job'.files[Len(job.files) + 1] = name
        BY <4>2, <4>3
      <4>5. Len(job.files) \in Nat
        BY <4>3
      <4>6. \A i \in 2..Len(job'.files) : job'.files[i] \in CoreNames
        BY <4>2, <4>3, <4>4, <4>5
      <4> QED
        BY <4>3, <4>4, <4>5, <4>6 DEF FilesOK
    <3>2. CASE ~IsListed(read.entry)
      BY <1>3, <2>1, <3>2 DEF FilesOK
    <3> QED
      BY <3>1, <3>2
  <2>4. TypeInv' /\ SdInv'
    BY <1>1, <1>3, <1>4, <1>8, <2>1, <2>2 DEF TypeInv, ChipOK, AtticOK, SdInv, After, Choosing, Listing
  <2>5. StageInv'
    BY <1>3, <2>1, <2>3 DEF StageInv, At
  <2> QED
    BY <2>1, <2>4, <2>5, NothingRead
<1> QED
  BY <1>2, <1>4, <1>6, <1>7, <1>8 DEF After

LEMMA MoveStep == ASSUME Inv, Move PROVE Inv'
<1>1. /\ TypeInv /\ SdInv /\ StageInv /\ JobOK /\ At("select") /\ job.pc = "select"
      /\ UNCHANGED <<mem, attic, sd, board>>
  BY DEF Inv, TypeInv, Move, At
<1>2. PICK step \in {1, Len(job.files) - 1} :
        job' = [job EXCEPT !.at = 1 + ((job.at - 1 + step) % Len(job.files))]
  BY DEF Move
<1>3. FilesOK /\ job.slot # 0 /\ job.at \in 1..Len(job.files)
  BY <1>1 DEF StageInv, Choosing
<1>4. Len(job.files) \in Nat \ {0}
  BY <1>3 DEF FilesOK
<1>5. (job.at - 1 + step) % Len(job.files) \in 0..(Len(job.files) - 1)
  <2>1. job.at - 1 + step \in Nat
    BY <1>3, <1>4
  <2> QED
    BY <1>4, <2>1, Remainder
<1>6. 1 + ((job.at - 1 + step) % Len(job.files)) \in 1..Len(job.files)
  BY <1>4, <1>5
<1>7. /\ DOMAIN job' = DOMAIN Idle /\ job'.pc = "select" /\ job'.slot = job.slot
      /\ job'.at \in 1..Len(job.files) /\ job'.files = job.files
      /\ job'.failed = job.failed /\ job'.page = job.page /\ job'.tries = job.tries
  BY <1>1, <1>2, <1>6 DEF JobOK, Idle
<1>8. JobOK'
  BY <1>1, <1>7, <1>4 DEF JobOK
<1>9. TypeInv' /\ SdInv' /\ StageInv'
  BY <1>1, <1>3, <1>7, <1>8 DEF TypeInv, ChipOK, AtticOK, SdInv, Choosing, Listing, StageInv, FilesOK, At
<1> QED
  BY <1>7, <1>9, NothingRead

LEMMA ChooseStep == ASSUME Inv, Choose PROVE Inv'
<1>1. /\ TypeInv /\ SdInv /\ StageInv /\ JobOK /\ At("select") /\ job.pc = "select"
      /\ UNCHANGED <<mem, attic, sd, board>>
      /\ job' = [job EXCEPT !.pc = IF job.at = 1 THEN "back" ELSE "open", !.file = job.files[job.at]]
  BY DEF Inv, TypeInv, Choose, At
<1>2. FilesOK /\ job.slot # 0 /\ job.at \in 1..Len(job.files)
  BY <1>1 DEF StageInv, Choosing
<1>3. job.at # 1 => job.files[job.at] \in CoreNames
  BY <1>2 DEF FilesOK
<1>4. /\ DOMAIN job' = DOMAIN Idle /\ job'.pc = IF job.at = 1 THEN "back" ELSE "open"
      /\ job'.slot = job.slot /\ job'.at = job.at /\ job'.file = job.files[job.at]
      /\ job'.failed = job.failed /\ job'.page = job.page /\ job'.tries = job.tries
  BY <1>1 DEF JobOK, Idle
<1>5. JobOK'
  BY <1>1, <1>4 DEF JobOK, Places, Choosing
<1>6. TypeInv' /\ SdInv'
  BY <1>1, <1>4, <1>5 DEF TypeInv, ChipOK, AtticOK, SdInv, Choosing, Listing
<1>7. CASE job.at = 1
  BY <1>4, <1>6, <1>7, NothingUnderWay DEF Choosing, Listing, Loading
<1>8. CASE job.at # 1
  <2>1. StageInv'
    BY <1>2, <1>3, <1>4, <1>8 DEF StageInv, At
  <2> QED
    BY <1>4, <1>6, <1>8, <2>1, NothingRead
<1> QED
  BY <1>7, <1>8

LEMMA OpenStep == ASSUME Inv, OpenCore PROVE Inv'
<1>1. /\ TypeInv /\ SdInv /\ StageInv /\ JobOK /\ At("open") /\ job.pc = "open" /\ Goes("find")
      /\ UNCHANGED <<mem, attic, board>> /\ sd' = hy_opendir([sd EXCEPT !.buffer = NoSector])
  BY DEF Inv, TypeInv, OpenCore, At
<1>2. sd.up = "yes" /\ job.slot # 0 /\ job.file \in CoreNames
  BY <1>1 DEF SdInv, StageInv, Choosing
<1>3. /\ DOMAIN sd' = SdFields /\ sd'.up = "yes" /\ ReaderOK(sd') /\ sd'.dir.cluster # 0
  BY <1>1, <1>2, SdOpened
<1>4. JobOK' /\ job'.pc = "find" /\ job'.slot = job.slot /\ job'.file = job.file
  BY <1>1, GoesThere DEF Places, Choosing, Listing
<1>5. TypeInv' /\ SdInv' /\ StageInv'
  BY <1>1, <1>2, <1>3, <1>4 DEF TypeInv, ChipOK, AtticOK, SdInv, StageInv, At
<1> QED
  BY <1>4, <1>5, NothingRead

-----------------------------------------------------------------------------
(* The header, and the way of the file to the expansion RAM.                *)

\* A step that notes whether a read failed, and goes somewhere.
LEMMA GoesNoting ==
  ASSUME JobOK, NEW pc \in Places, NEW at \in Nat, NEW f \in BOOLEAN,
         job' = [job EXCEPT !.pc = pc, !.at = at, !.failed = job.failed \/ f]
  PROVE  /\ JobOK' /\ job'.pc = pc /\ job'.slot = job.slot /\ job'.at = at /\ job'.file = job.file
         /\ ~job'.failed => ~job.failed /\ ~f
<1>1. (job.failed \/ f) \in BOOLEAN
  OBVIOUS
<1> DEFINE g == job.failed \/ f
<1>2. g \in BOOLEAN /\ (~g => ~job.failed /\ ~f)
  BY <1>1
<1> HIDE DEF g
<1>3. job' = [job EXCEPT !.pc = pc, !.at = at, !.failed = g]
  BY DEF g
<1>4. /\ DOMAIN job' = DOMAIN Idle /\ job'.pc = pc /\ job'.slot = job.slot /\ job'.at = at
      /\ job'.file = job.file /\ job'.failed = g /\ job'.page = job.page /\ job'.tries = job.tries
  BY <1>3 DEF JobOK, Idle
<1>5. JobOK'
  BY <1>2, <1>4 DEF JobOK
<1> QED
  BY <1>2, <1>4, <1>5

\* The search for the file, before its header is looked at and after.
LEMMA SearchStep == ASSUME Inv, hy_open PROVE Inv'
<1> DEFINE read == hy_readdir(sd)
           f    == FailedIn(sd, read.s)
           pc   == IF At("find") THEN "check" ELSE "load"
           none == IF At("find") THEN "back" ELSE "load"
<1>1. /\ TypeInv /\ SdInv /\ StageInv /\ CheckInv /\ SearchInv /\ JobOK /\ job.pc \in {"find", "refind"}
      /\ UNCHANGED <<mem, attic, board>> /\ Searched(read)
  BY DEF Inv, TypeInv, hy_open, Searching, At
<1>2. /\ ReaderOK(sd) /\ sd.dir.cluster # 0 /\ job.slot # 0 /\ job.file \in CoreNames
      /\ job.pc = "refind" => job.at = 0 /\ \E c \in DOMAIN Core : IsRight(c)
      /\ job.at \in Nat /\ DOMAIN job = DOMAIN Idle
  BY <1>1 DEF SdInv, StageInv, CheckInv, At, Choosing, Listing, JobOK
<1>3. /\ After(sd, read.s) /\ read.s.up \in {"yes", "hung"}
      /\ read.s.up = "yes" => /\ ReaderOK(read.s)
                              /\ read.some => read.s.dir.cluster # 0 /\ (~read.entry.gone => EntryRead(read))
  BY <1>2, EntryOfReaddir DEF After
<1>4. ASSUME job.pc = "refind", ~job.failed, ~f, read.s.up = "yes"
      PROVE  read.some /\ (Found(read) \/ Ahead(read.s, job.file))
  BY <1>1, <1>2, <1>4, SearchGoesOn DEF SearchInv, At, NoFailure, Found
<1>5. f \in BOOLEAN
  BY DEF FailedIn
<1>6. \/ /\ read.s.up = "hung" /\ sd' = read.s /\ Goes("hung")
      \/ /\ read.s.up = "yes" /\ Found(read) /\ sd' = Positioned(read.s, read.entry)
         /\ job' = [job EXCEPT !.pc = pc, !.failed = job.failed \/ f]
      \/ /\ read.s.up = "yes" /\ ~read.some /\ sd' = read.s
         /\ job' = [job EXCEPT !.pc = none, !.failed = job.failed \/ f]
      \/ /\ read.s.up = "yes" /\ read.some /\ ~Found(read) /\ sd' = read.s
         /\ job' = [job EXCEPT !.failed = job.failed \/ f]
  BY <1>1, <1>3 DEF Searched
<1>7. /\ pc = (IF job.pc = "find" THEN "check" ELSE "load") /\ none = IF job.pc = "find" THEN "back" ELSE "load"
      /\ pc \in Places /\ none \in Places
  BY DEF At, Places, Choosing, Listing
<1> HIDE DEF read, f, pc, none
<1>8. ASSUME NEW there \in Places, job' = [job EXCEPT !.pc = there, !.failed = job.failed \/ f]
      PROVE  /\ JobOK' /\ job'.pc = there /\ job'.slot = job.slot /\ job'.at = job.at /\ job'.file = job.file
             /\ ~job'.failed => ~job.failed /\ ~f
  <2>1. job' = [job EXCEPT !.pc = there, !.at = job.at, !.failed = job.failed \/ f]
    <3> DEFINE g == job.failed \/ f
    <3>1. job' = [job EXCEPT !.pc = there, !.failed = g]
      BY <1>8
    <3> HIDE DEF g
    <3>2. job' = [job EXCEPT !.pc = there, !.at = job.at, !.failed = g]
      BY <1>2, <3>1 DEF Idle
    <3> QED
      BY <3>2 DEF g
  <2> QED
    BY <1>1, <1>2, <1>5, <1>8, <2>1, GoesNoting
<1>9. CASE read.s.up = "hung" /\ sd' = read.s /\ Goes("hung")
  <2>1. JobOK' /\ job'.pc = "hung"
    BY <1>1, <1>9, GoesThere DEF Places
  <2>2. TypeInv' /\ SdInv'
    BY <1>1, <1>3, <1>9, <2>1 DEF TypeInv, ChipOK, AtticOK, SdInv, Choosing, Listing, After
  <2> QED
    BY <2>1, <2>2, NothingUnderWay DEF Choosing, Listing, Loading
<1>10. CASE /\ read.s.up = "yes" /\ Found(read) /\ sd' = Positioned(read.s, read.entry)
            /\ job' = [job EXCEPT !.pc = pc, !.failed = job.failed \/ f]
  <2>1. /\ JobOK' /\ job'.pc = pc /\ job'.slot = job.slot /\ job'.at = job.at /\ job'.file = job.file
        /\ ~job'.failed => ~job.failed /\ ~f
    BY <1>7, <1>8, <1>10
  <2>2. EntryRead(read) /\ ~read.entry.gone /\ read.entry.name = job.file /\ ReaderOK(read.s)
    BY <1>3, <1>10 DEF Found
  <2>3. /\ ReaderOK(sd') /\ sd'.buffer.kind = "dir" /\ IsFile(sd', job.file) /\ OnCard(sd', job.file)
    BY <1>2, <1>10, <2>2, FileIsFound
  <2>4. TypeInv' /\ SdInv'
    BY <1>1, <1>7, <2>1, <2>3, ReaderFields DEF TypeInv, ChipOK, AtticOK, SdInv, Listing
  <2>5. CASE job.pc = "find"
    <3>1. job'.pc = "check"
      BY <1>7, <2>1, <2>5
    <3>2. StageInv' /\ CheckInv'
      BY <1>2, <2>1, <2>3, <3>1 DEF StageInv, CheckInv, At, Choosing, Listing, Loading
    <3> QED
      BY <2>4, <3>1, <3>2 DEF Inv, SearchInv, LoadInv, ChipInv, At, Loading
  <2>6. CASE job.pc = "refind"
    <3>1. job'.pc = "load" /\ job'.at = 0
      BY <1>2, <1>7, <2>1, <2>6
    <3>2. PICK c \in DOMAIN Core : IsRight(c)
      BY <1>2, <2>6
    <3>3. IsRight(c)' /\ Chosen' = c /\ PartAt(sd', c, 0)
      <4>1. Core[c].name = job.file
        BY <3>2 DEF IsRight
      <4>2. Chosen = c /\ PartAt(sd', c, 0)
        BY <2>3, <4>1, ChosenIs DEF IsFile
      <4> QED
        BY <2>1, <3>2, <4>2 DEF IsRight, Chosen
    <3>4. StageInv' /\ CheckInv'
      BY <1>2, <2>1, <3>1, <3>3, JoyFlashAssumption DEF StageInv, CheckInv, At, Choosing, Listing, Loading
    <3>5. LoadInv'
      <4>1. HasParts(0)'
        BY DEF HasParts
      <4> QED
        BY <3>1, <3>3, <4>1 DEF LoadInv, At, Loading
    <3> QED
      BY <2>4, <3>1, <3>4, <3>5 DEF Inv, SearchInv, ChipInv, At, Loading
  <2> QED
    BY <1>1, <2>5, <2>6
<1>11. CASE /\ read.s.up = "yes" /\ ~read.some /\ sd' = read.s
            /\ job' = [job EXCEPT !.pc = none, !.failed = job.failed \/ f]
  <2>1. /\ JobOK' /\ job'.pc = none /\ job'.slot = job.slot /\ job'.at = job.at /\ job'.file = job.file
        /\ ~job'.failed => ~job.failed /\ ~f
    BY <1>7, <1>8, <1>11
  <2>2. TypeInv' /\ SdInv'
    BY <1>1, <1>3, <1>7, <1>11, <2>1, ReaderFields DEF TypeInv, ChipOK, AtticOK, SdInv, Listing, Choosing
  <2>3. CASE job.pc = "find"
    BY <1>7, <2>1, <2>2, <2>3, NothingUnderWay DEF Choosing, Listing, Loading
  <2>4. CASE job.pc = "refind"
    <3>1. job'.pc = "load" /\ job'.at = 0 /\ job'.failed
      BY <1>2, <1>4, <1>7, <1>11, <2>1, <2>4
    <3>2. PICK c \in DOMAIN Core : IsRight(c)
      BY <1>2, <2>4
    <3>3. IsRight(c)'
      BY <2>1, <3>2 DEF IsRight
    <3>4. StageInv' /\ CheckInv'
      BY <1>2, <2>1, <3>1, <3>3, JoyFlashAssumption DEF StageInv, CheckInv, At, Choosing, Listing, Loading
    <3> QED
      BY <2>2, <3>1, <3>4 DEF Inv, SearchInv, LoadInv, ChipInv, At, Loading
  <2> QED
    BY <1>1, <2>3, <2>4
<1>12. CASE /\ read.s.up = "yes" /\ read.some /\ ~Found(read) /\ sd' = read.s
            /\ job' = [job EXCEPT !.failed = job.failed \/ f]
  <2>1. /\ JobOK' /\ job'.pc = job.pc /\ job'.slot = job.slot /\ job'.at = job.at /\ job'.file = job.file
        /\ ~job'.failed => ~job.failed /\ ~f
    <3> DEFINE g == job.failed \/ f
    <3>1. job' = [job EXCEPT !.failed = g]
      BY <1>12
    <3> HIDE DEF g
    <3>2. job' = [job EXCEPT !.pc = job.pc, !.failed = g]
      BY <1>2, <3>1 DEF Idle
    <3>3. job.pc \in Places
      BY <1>1 DEF JobOK
    <3> QED
      BY <1>8, <3>2, <3>3 DEF g
  <2>2. TypeInv' /\ SdInv'
    BY <1>1, <1>3, <1>12, <2>1, ReaderFields DEF TypeInv, ChipOK, AtticOK, SdInv
  <2>3. StageInv'
    BY <1>1, <1>2, <2>1 DEF StageInv, At
  <2>4. CheckInv'
    <3>1. job.pc = "refind" => \E c \in DOMAIN Core : IsRight(c)'
      BY <1>2, <2>1 DEF IsRight
    <3> QED
      BY <1>1, <2>1, <3>1 DEF CheckInv, At, Loading
  <2>5. SearchInv'
    BY <1>4, <1>12, <2>1 DEF SearchInv, At
  <2> QED
    BY <1>1, <2>1, <2>2, <2>3, <2>4, <2>5 DEF Inv, LoadInv, ChipInv, At, Loading
<1> QED
  BY <1>6, <1>9, <1>10, <1>11, <1>12

LEMMA CheckStep == ASSUME Inv, check_model_id_field PROVE Inv'
<1> DEFINE read == hy_read512(sd)
<1>1. /\ TypeInv /\ SdInv /\ StageInv /\ CheckInv /\ JobOK /\ At("check") /\ job.pc = "check"
      /\ UNCHANGED <<mem, attic, board>> /\ Checked(read)
  BY DEF Inv, TypeInv, check_model_id_field, At
<1>2. /\ ReaderOK(sd) /\ job.slot # 0 /\ job.file \in CoreNames
      /\ sd.buffer.kind = "dir" /\ IsFile(sd, job.file) /\ OnCard(sd, job.file)
  BY <1>1 DEF SdInv, StageInv, CheckInv, At, Choosing, Listing
<1>3. After(sd, read.s) /\ read.s.up \in {"yes", "hung"} /\ DOMAIN read.s = SdFields
  BY <1>2, SectorOfFile DEF After
<1>4. \/ sd' = read.s /\ (Goes("hung") \/ Goes("back"))
      \/ /\ read.s.up = "yes" /\ IsHeader(read) /\ sd' = hy_opendir(read.s)
         /\ job' = [job EXCEPT !.pc = "refind", !.at = 0, !.failed = FALSE]
  BY <1>1, <1>3 DEF Checked
<1>5. CASE sd' = read.s /\ (Goes("hung") \/ Goes("back"))
  <2>1. JobOK' /\ job'.pc \in {"hung", "back"}
    BY <1>1, <1>5, GoesThere DEF Places
  <2>2. TypeInv' /\ SdInv'
    <3> HIDE DEF read
    <3> QED
      BY <1>1, <1>3, <1>5, <2>1 DEF TypeInv, ChipOK, AtticOK, SdInv, Choosing, Listing, After
  <2> QED
    BY <2>1, <2>2, NothingUnderWay DEF Choosing, Listing, Loading
<1>6. CASE /\ read.s.up = "yes" /\ IsHeader(read) /\ sd' = hy_opendir(read.s)
           /\ job' = [job EXCEPT !.pc = "refind", !.at = 0, !.failed = FALSE]
  <2>1. ReaderOK(read.s) /\ read.s.bus = sd.bus
    BY <1>3, <1>6 DEF After
  <2>2. OnCard(read.s, job.file)
    BY <1>2, <2>1 DEF OnCard
  <2>3. PICK c \in DOMAIN Core : PartAt(sd, c, 0) /\ Core[c].magic /\ Core[c].model = "ours"
    BY <1>2, <1>6, HeaderIsOfFile DEF IsHeader
  <2>4. IsRight(c)
    BY <1>2, <2>3 DEF IsFile, IsRight
  <2> HIDE DEF read
  <2>5. /\ DOMAIN sd' = SdFields /\ sd'.up = "yes" /\ ReaderOK(sd') /\ sd'.dir.cluster # 0
        /\ Ahead(sd', job.file)
    BY <1>3, <1>6, <2>1, <2>2, DirectoryOpens
  <2>6. /\ DOMAIN job' = DOMAIN Idle /\ job'.pc = "refind" /\ job'.slot = job.slot /\ job'.at = 0
        /\ job'.file = job.file /\ job'.failed = FALSE /\ job'.page = job.page /\ job'.tries = job.tries
    BY <1>1, <1>6 DEF JobOK, Idle
  <2>7. JobOK'
    <3>1. /\ job'.pc \in Places /\ job'.slot \in Slots
          /\ job'.at \in Nat /\ job'.page \in Nat /\ job'.tries \in Nat
      BY <1>1, <2>6 DEF JobOK, Places, Choosing, Listing
    <3> QED
      BY <2>6, <3>1, Zenon DEF JobOK
  <2>8. TypeInv' /\ SdInv' /\ StageInv'
    BY <1>1, <1>2, <2>5, <2>6, <2>7 DEF TypeInv, ChipOK, AtticOK, SdInv, StageInv, At
  <2>9. CheckInv'
    <3>1. IsRight(c)'
      BY <2>4, <2>6 DEF IsRight
    <3> QED
      BY <2>6, <3>1 DEF CheckInv, At
  <2> QED
    BY <2>5, <2>6, <2>8, <2>9 DEF Inv, SearchInv, LoadInv, ChipInv, At, Loading
<1> QED
  BY <1>4, <1>5, <1>6

\* Reading on keeps what was loaded on its way to the expansion RAM.
LEMMA LoadStep == ASSUME Inv, LoadSector PROVE Inv'
<1> DEFINE read == hy_read512(sd)
           f    == FailedIn(sd, read.s)
           x    == FileSector(read.s.buffer)
<1>1. /\ TypeInv /\ SdInv /\ StageInv /\ CheckInv /\ LoadInv /\ JobOK /\ At("load") /\ job.pc = "load"
      /\ job.at < SlotBlocks /\ UNCHANGED <<mem, board>> /\ sd' = read.s
  BY DEF Inv, TypeInv, LoadSector, At
<1>2. \/ read.s.up = "hung" /\ Goes("hung") /\ UNCHANGED attic
      \/ /\ read.s.up # "hung" /\ read.some
         /\ attic' = [attic EXCEPT ![job.at] = x]
         /\ job' = [job EXCEPT !.at = job.at + 1, !.failed = job.failed \/ f]
      \/ /\ read.s.up # "hung" /\ ~read.some
         /\ job' = [job EXCEPT !.at = SlotBlocks] /\ UNCHANGED attic
  BY DEF LoadSector
<1>3. /\ ReaderOK(sd) /\ job.slot # 0 /\ job.at \in 0..(SlotBlocks - 1) /\ SlotBlocks \in Nat
      /\ DOMAIN job = DOMAIN Idle /\ AtticOK /\ job.at \in Nat
  BY <1>1, JoyFlashAssumption DEF SdInv, StageInv, TypeInv, JobOK, At, Choosing, Listing
<1>4. PICK c \in DOMAIN Core : IsRight(c)
  BY <1>1 DEF CheckInv
<1>5. Chosen = c /\ Core[c].length \in Nat
  BY <1>4, ChosenIs, CoreAssumption DEF IsRight
<1>6. /\ After(sd, read.s) /\ read.some = (sd.file.cluster # 0)
      /\ read.s.up = "yes" /\ read.some =>
           /\ NoFailure(sd, read.s) =>
                /\ read.s.buffer = SectorAt(sd, sd.file)
                /\ PartAt(sd, c, job.at) /\ job.at + 1 < Core[c].length => PartAt(read.s, c, job.at + 1)
  BY <1>3, SectorOfFile
<1>7. /\ read.s.up \in {"yes", "hung"} /\ DOMAIN read.s = SdFields
      /\ read.s.up = "yes" => ReaderOK(read.s) /\ x \in Parts
  <2>1. read.s.up = "yes" => ReaderOK(read.s)
    BY <1>6 DEF After
  <2>2. read.s.up = "yes" => read.s.bus \in {0, 1} /\ read.s.buffer \in BufferSectors(read.s.bus)
    BY <2>1, ReaderFields
  <2> QED
    BY <1>6, <2>1, <2>2, PartIsLoaded DEF After
<1>8. f \in BOOLEAN /\ (read.s.up = "yes" /\ ~f => NoFailure(sd, read.s))
  BY DEF FailedIn, NoFailure
<1>9. ASSUME ~job.failed
      PROVE  HasParts(job.at) /\ (job.at < Core[c].length => PartAt(sd, c, job.at) /\ sd.file.cluster # 0)
  <2>1. job.at # SlotBlocks
    BY <1>3
  <2> QED
    BY <1>1, <1>5, <1>9, <2>1 DEF LoadInv, At, PartAt
<1>10. ASSUME JobOK', AtticOK', job'.pc = "load", read.s.up = "yes", job'.at \in 0..SlotBlocks,
              job'.slot = job.slot, job'.file = job.file, LoadInv'
       PROVE  Inv'
  <2>1. TypeInv' /\ SdInv'
    BY <1>1, <1>7, <1>10, ReaderFields DEF TypeInv, ChipOK, SdInv, Listing
  <2>2. StageInv'
    BY <1>3, <1>10 DEF StageInv, At
  <2>3. CheckInv'
    <3>1. IsRight(c)'
      BY <1>4, <1>10 DEF IsRight
    <3> QED
      BY <1>10, <3>1 DEF CheckInv, At
  <2> QED
    BY <1>10, <2>1, <2>2, <2>3 DEF Inv, SearchInv, ChipInv, At, Loading
<1>11. CASE read.s.up = "hung" /\ Goes("hung") /\ UNCHANGED attic
  <2>1. JobOK' /\ job'.pc = "hung"
    BY <1>1, <1>11, GoesThere DEF Places
  <2>2. TypeInv' /\ SdInv'
    <3> HIDE DEF read
    <3> QED
      BY <1>1, <1>7, <1>11, <2>1 DEF TypeInv, ChipOK, AtticOK, SdInv, Choosing, Listing
  <2> QED
    BY <2>1, <2>2, NothingUnderWay DEF Choosing, Listing, Loading
<1>12. CASE /\ read.s.up # "hung" /\ read.some
            /\ attic' = [attic EXCEPT ![job.at] = x]
            /\ job' = [job EXCEPT !.at = job.at + 1, !.failed = job.failed \/ f]
  <2>0. read.s.up = "yes"
    BY <1>7, <1>12
  <2>1. /\ JobOK' /\ job'.pc = "load" /\ job'.slot = job.slot /\ job'.at = job.at + 1 /\ job'.file = job.file
        /\ ~job'.failed => ~job.failed /\ ~f
    <3> DEFINE g == job.failed \/ f
    <3>1. job' = [job EXCEPT !.at = job.at + 1, !.failed = g]
      BY <1>12
    <3> HIDE DEF g, f
    <3>2. job' = [job EXCEPT !.pc = "load", !.at = job.at + 1, !.failed = g]
      BY <1>1, <1>3, <3>1 DEF Idle
    <3>3. "load" \in Places /\ job.at + 1 \in Nat
      BY <1>3 DEF Places, Choosing
    <3> QED
      BY <1>1, <1>8, <3>2, <3>3, GoesNoting DEF g
  <2> HIDE DEF read, f, x
  <2>2. AtticOK' /\ attic' = [attic EXCEPT ![job.at] = x]
    BY <1>3, <1>7, <1>12, <2>0 DEF AtticOK
  <2>3. LoadInv'
    <3> SUFFICES ASSUME ~job'.failed
                 PROVE  /\ \A k \in 0..job.at : k < Core[c].length => attic'[k] = CorePart(c, k)
                        /\ job'.at < Core[c].length => job'.at = SlotBlocks \/ PartAt(sd', c, job'.at)
      <4>1. Chosen' = c
        BY <1>5, <2>1 DEF Chosen
      <4>2. 0..(job'.at - 1) = 0..job.at
        BY <1>3, <2>1
      <4> QED
        BY <2>1, <4>1, <4>2 DEF LoadInv, At, Loading, HasParts
    <3>1. ~job.failed /\ NoFailure(sd, read.s)
      BY <1>8, <2>0, <2>1
    <3>2. HasParts(job.at) /\ (job.at < Core[c].length => PartAt(sd, c, job.at))
      BY <1>9, <3>1
    <3>3. /\ read.s.buffer = SectorAt(sd, sd.file)
          /\ PartAt(sd, c, job.at) /\ job.at + 1 < Core[c].length => PartAt(read.s, c, job.at + 1)
      BY <1>6, <1>12, <2>0, <3>1
    <3>4. job.at < Core[c].length => x = CorePart(c, job.at)
      BY <3>2, <3>3 DEF PartAt, x, FileSector, CorePart
    <3>5. ASSUME NEW k \in 0..job.at, k < Core[c].length
          PROVE  attic'[k] = CorePart(c, k)
      <4>1. CASE k = job.at
        BY <1>3, <2>2, <3>4, <3>5, <4>1 DEF AtticOK
      <4>2. CASE k \in 0..(job.at - 1)
        <5>1. attic[k] = CorePart(c, k)
          BY <1>5, <3>2, <3>5, <4>2 DEF HasParts
        <5>2. attic'[k] = attic[k]
          BY <1>3, <2>2, <4>2 DEF AtticOK
        <5> QED
          BY <5>1, <5>2
      <4> QED
        BY <1>3, <4>1, <4>2
    <3> QED
      BY <1>1, <1>3, <1>5, <2>1, <3>2, <3>3, <3>5
  <2>4. job'.at \in 0..SlotBlocks
    BY <1>3, <2>1
  <2> QED
    BY <1>10, <2>0, <2>1, <2>2, <2>3, <2>4
<1>13. CASE /\ read.s.up # "hung" /\ ~read.some
            /\ job' = [job EXCEPT !.at = SlotBlocks] /\ UNCHANGED attic
  <2>0. read.s.up = "yes"
    BY <1>7, <1>13
  <2>1. /\ DOMAIN job' = DOMAIN Idle /\ job'.pc = "load" /\ job'.slot = job.slot /\ job'.at = SlotBlocks
        /\ job'.file = job.file /\ job'.failed = job.failed /\ job'.page = job.page /\ job'.tries = job.tries
    BY <1>1, <1>13 DEF JobOK, Idle
  <2>2. JobOK' /\ AtticOK' /\ job'.at \in 0..SlotBlocks
    BY <1>1, <1>3, <1>13, <2>1 DEF JobOK, AtticOK
  <2>3. LoadInv'
    <3> SUFFICES ASSUME ~job.failed
                 PROVE  \A k \in 0..(SlotBlocks - 1) : k < Core[c].length => attic[k] = CorePart(c, k)
      <4>1. Chosen' = c
        BY <1>5, <2>1 DEF Chosen
      <4> QED
        BY <1>13, <2>1, <4>1 DEF LoadInv, At, Loading, HasParts
    <3>1. ~(job.at < Core[c].length) /\ HasParts(job.at)
      BY <1>6, <1>9, <1>13
    <3> QED
      BY <1>3, <1>5, <3>1 DEF HasParts
  <2> QED
    BY <1>10, <2>0, <2>1, <2>2, <2>3
<1> QED
  BY <1>2, <1>11, <1>12, <1>13

LEMMA LoadedStep == ASSUME Inv, Loaded PROVE Inv'
<1>1. /\ TypeInv /\ SdInv /\ StageInv /\ CheckInv /\ LoadInv /\ JobOK /\ At("load") /\ job.pc = "load"
      /\ job.at = SlotBlocks /\ UNCHANGED <<mem, attic, sd, board>>
      /\ job' = [job EXCEPT !.pc = "verify", !.at = 0]
  BY DEF Inv, TypeInv, Loaded, At
<1>2. SlotBlocks \in Nat \ {0} /\ 0 \in 0..(SlotBlocks - 1)
  BY JoyFlashAssumption
<1>3. /\ DOMAIN job' = DOMAIN Idle /\ job'.pc = "verify" /\ job'.slot = job.slot /\ job'.at = 0
      /\ job'.file = job.file /\ job'.failed = job.failed /\ job'.page = job.page /\ job'.tries = job.tries
  BY <1>1 DEF JobOK, Idle
<1>4. JobOK'
  BY <1>1, <1>3 DEF JobOK, Places, Loading
<1>5. TypeInv' /\ SdInv'
  BY <1>1, <1>3, <1>4 DEF TypeInv, ChipOK, AtticOK, SdInv, Choosing, Listing
<1>6. StageInv'
  BY <1>1, <1>2, <1>3 DEF StageInv, At, Choosing
<1>7. CheckInv'
  <2>1. PICK c \in DOMAIN Core : IsRight(c)
    BY <1>1 DEF CheckInv
  <2>2. IsRight(c)'
    BY <1>3, <2>1 DEF IsRight
  <2> QED
    BY <1>3, <2>2 DEF CheckInv, At
<1>8. LoadInv'
  <2>1. Chosen' = Chosen
    BY <1>3 DEF Chosen
  <2> QED
    BY <1>1, <1>3, <2>1 DEF LoadInv, At, Loading, HasParts
<1>9. ChipInv'
  BY <1>3 DEF ChipInv, At, Written
<1> QED
  BY <1>3, <1>5, <1>6, <1>7, <1>8, <1>9 DEF Inv, SearchInv, At

-----------------------------------------------------------------------------
(* Writing the slot.                                                        *)

\* A step that changes one block, or one page of it, leaves the others.
OneBlock(b) ==
  \/ mem' = mem
  \/ \E block \in [Pages -> PageValues] : mem' = [mem EXCEPT ![b] = block]
  \/ \E p \in Pages, page \in PageValues : mem' = [mem EXCEPT ![b][p] = page]
LEMMA OtherBlocksStay ==
  ASSUME ChipOK, NEW b \in Blocks, OneBlock(b)
  PROVE  ChipOK' /\ \A x \in Blocks \ {b} : mem'[x] = mem[x]
<1>1. CASE mem' = mem
  BY <1>1 DEF ChipOK
<1>2. ASSUME NEW block \in [Pages -> PageValues], mem' = [mem EXCEPT ![b] = block]
      PROVE  ChipOK' /\ \A x \in Blocks \ {b} : mem'[x] = mem[x]
  BY <1>2 DEF ChipOK
<1>3. ASSUME NEW p \in Pages, NEW page \in PageValues, mem' = [mem EXCEPT ![b][p] = page]
      PROVE  ChipOK' /\ \A x \in Blocks \ {b} : mem'[x] = mem[x]
  BY <1>3 DEF ChipOK
<1> QED
  BY <1>1, <1>2, <1>3 DEF OneBlock

\* The pages that are written are pages.
LEMMA PageIsValue ==
  /\ Junk \in PageValues /\ Blank \in PageValues /\ BlankBlock \in [Pages -> PageValues]
  /\ \A x \in PageValues : Some(x) \in PageValues
  /\ \A sector \in Parts, p \in Pages : BlockOf(sector)[p] \in PageValues
<1>1. Junk \in PageValues /\ Blank \in PageValues
  BY DEF Junk, Blank, PageValues
<1>2. BlankBlock \in [Pages -> PageValues]
  BY <1>1 DEF BlankBlock
<1>3. ASSUME NEW x \in PageValues PROVE Some(x) \in PageValues
  <2>1. x.page + PagesPerBlock \in Nat
    BY JoyFlashAssumption DEF PageValues
  <2> QED
    BY <2>1 DEF Some, PageValues
<1>4. ASSUME NEW sector \in Parts, NEW p \in Pages PROVE BlockOf(sector)[p] \in PageValues
  <2>1. p \in Nat
    BY JoyFlashAssumption DEF Pages
  <2>2. BlockOf(sector)[p] = IF sector.core = "junk" THEN Junk ELSE PageOf(sector, p)
    BY DEF BlockOf
  <2>3. sector.core \in DOMAIN Core \cup {"junk"} /\ sector.part \in Nat
    BY DEF Parts
  <2> QED
    BY <1>1, <2>1, <2>2, <2>3 DEF PageOf, PageValues
<1> QED
  BY <1>1, <1>2, <1>3, <1>4

Writing == {"verify", "erase", "program"}
LEMMA WritingIs ==
  ASSUME Inv, job.pc \in Writing
  PROVE  /\ TypeInv /\ SdInv /\ JobOK /\ ChipOK /\ AtticOK /\ job.slot # 0 /\ job.slot \in Slots
         /\ job.at \in 0..(SlotBlocks - 1) /\ (job.pc = "program" => job.page \in Pages)
         /\ (\E c \in DOMAIN Core : IsRight(c))
         /\ (~job.failed => HasParts(SlotBlocks)) /\ Written(job.at)
         /\ InSlot(job.at) \in Blocks /\ DOMAIN job = DOMAIN Idle
         /\ attic[job.at] \in Parts
<1>1. TypeInv /\ SdInv /\ StageInv /\ CheckInv /\ LoadInv /\ ChipInv
  BY DEF Inv
<1>2. JobOK /\ ChipOK /\ AtticOK /\ job.slot \in Slots /\ DOMAIN job = DOMAIN Idle
  BY <1>1 DEF TypeInv, JobOK
<1>3. job.slot # 0 /\ job.at \in 0..(SlotBlocks - 1) /\ (job.pc = "program" => job.page \in Pages)
  BY <1>1 DEF StageInv, At, Writing, Loading
<1>4. (\E c \in DOMAIN Core : IsRight(c)) /\ (~job.failed => HasParts(SlotBlocks)) /\ Written(job.at)
  BY <1>1 DEF CheckInv, LoadInv, ChipInv, Writing, Loading
<1>5. InSlot(job.at) \in Blocks /\ attic[job.at] \in Parts
  BY <1>2, <1>3, BlockOfSlot DEF InSlot, AtticOK
<1> QED
  BY <1>1, <1>2, <1>3, <1>4, <1>5

\* A step of writing keeps what is known of the card and of the file.
LEMMA WritingGoesOn ==
  ASSUME Inv, job.pc \in Writing, UNCHANGED <<attic, sd, board>>, ChipOK', JobOK',
         job'.slot = job.slot, job'.file = job.file, job'.failed = job.failed,
         \/ job'.pc \in {"hung", "stuck"}
         \/ /\ job'.pc \in Writing /\ job'.at \in 0..(SlotBlocks - 1)
            /\ job'.pc = "program" => job'.page \in Pages
            /\ \A k \in 0..(job'.at - 1) : mem'[InSlot(k)] = BlockOf(attic[k])
         \/ /\ job'.pc = "updated"
            /\ \A k \in 0..(SlotBlocks - 1) : mem'[InSlot(k)] = BlockOf(attic[k])
  PROVE  Inv'
<1>1. TypeInv' /\ SdInv'
  BY WritingIs DEF TypeInv, AtticOK, SdInv, Choosing, Listing, Writing
<1>2. CASE job'.pc \in {"hung", "stuck"}
  BY <1>1, <1>2, NothingUnderWay DEF Choosing, Listing, Loading
<1>3. CASE /\ job'.pc \in Writing /\ job'.at \in 0..(SlotBlocks - 1)
           /\ job'.pc = "program" => job'.page \in Pages
           /\ \A k \in 0..(job'.at - 1) : mem'[InSlot(k)] = BlockOf(attic[k])
  <2>1. StageInv'
    BY <1>3, WritingIs DEF StageInv, At, Writing
  <2>2. CheckInv'
    <3>1. PICK c \in DOMAIN Core : IsRight(c)
      BY WritingIs
    <3>2. IsRight(c)'
      BY <3>1 DEF IsRight
    <3> QED
      BY <1>3, <3>2 DEF CheckInv, At, Writing
  <2>3. LoadInv'
    BY <1>3, WritingIs DEF LoadInv, At, Writing, HasParts, Chosen
  <2>4. ChipInv'
    BY <1>3 DEF ChipInv, At, Writing, Written, InSlot
  <2> QED
    BY <1>1, <1>3, <2>1, <2>2, <2>3, <2>4 DEF Inv, SearchInv, At, Writing
<1>4. CASE /\ job'.pc = "updated"
           /\ \A k \in 0..(SlotBlocks - 1) : mem'[InSlot(k)] = BlockOf(attic[k])
  <2>1. StageInv'
    BY <1>4, WritingIs DEF StageInv, At
  <2>2. CheckInv'
    <3>1. PICK c \in DOMAIN Core : IsRight(c)
      BY WritingIs
    <3>2. IsRight(c)'
      BY <3>1 DEF IsRight
    <3> QED
      BY <1>4, <3>2 DEF CheckInv, At
  <2>3. LoadInv'
    BY <1>4, WritingIs DEF LoadInv, At, HasParts, Chosen
  <2>4. ChipInv'
    BY <1>4 DEF ChipInv, At, Written, InSlot
  <2> QED
    BY <1>1, <1>4, <2>1, <2>2, <2>3, <2>4 DEF Inv, SearchInv, At
<1> QED
  BY <1>2, <1>3, <1>4

\* A block that does not differ holds what was loaded.
LEMMA VerifyStep == ASSUME Inv, Verify PROVE Inv'
<1> DEFINE N == SlotBlocks
<1>1. /\ job.pc = "verify" /\ job.pc \in Writing /\ UNCHANGED <<mem, attic, sd, board>>
      /\ \/ Differs
         \/ ~flash_region_differs(job.at) /\ BlockDone
  BY DEF Verify, At, Writes, Writing
<1>2. /\ JobOK /\ ChipOK /\ job.at \in 0..(N - 1) /\ N \in Nat \ {0} /\ DOMAIN job = DOMAIN Idle
      /\ Written(job.at) /\ InSlot(job.at) \in Blocks
  BY <1>1, WritingIs, JoyFlashAssumption
<1> HIDE DEF N
<1>3. ChipOK'
  BY <1>1, <1>2 DEF ChipOK
<1>4. CASE Differs
  <2>1. /\ DOMAIN job' = DOMAIN Idle /\ job'.pc \in {"stuck", "erase"} /\ job'.slot = job.slot
        /\ job'.at = job.at /\ job'.file = job.file /\ job'.failed = job.failed
        /\ job'.page = job.page /\ job'.tries \in Nat
    BY <1>2, <1>4 DEF Differs, JobOK, Idle
  <2>2. JobOK'
    BY <1>2, <2>1 DEF JobOK, Places, Loading
  <2>3. \A k \in 0..(job'.at - 1) : mem'[InSlot(k)] = BlockOf(attic[k])
    BY <1>1, <1>2, <2>1 DEF Written
  <2> QED
    BY <1>1, <1>2, <1>3, <2>1, <2>2, <2>3, WritingGoesOn DEF Writing, N
<1>5. CASE ~flash_region_differs(job.at) /\ BlockDone
  <2>1. mem[InSlot(job.at)] = BlockOf(attic[job.at])
    <3>1. \A p \in Pages : mem[InSlot(job.at)][p] = BlockOf(attic[job.at])[p]
      BY <1>5 DEF flash_region_differs, verify_data_in_place
    <3>2. mem[InSlot(job.at)] \in [Pages -> PageValues]
      BY <1>2 DEF ChipOK
    <3> QED
      BY <3>1, <3>2 DEF BlockOf
  <2>2. \A k \in 0..job.at : mem'[InSlot(k)] = BlockOf(attic[k])
    BY <1>1, <1>2, <2>1 DEF Written
  <2>3. CASE job.at + 1 < N
    <3>1. job' = [job EXCEPT !.at = job.at + 1, !.tries = 0]
      BY <1>5, <2>3 DEF BlockDone, N
    <3>2. /\ DOMAIN job' = DOMAIN Idle /\ job'.pc = "verify" /\ job'.slot = job.slot
          /\ job'.at = job.at + 1 /\ job'.file = job.file /\ job'.failed = job.failed
          /\ job'.page = job.page /\ job'.tries = 0
      BY <1>1, <1>2, <3>1 DEF JobOK, Idle
    <3>3. JobOK'
      BY <1>2, <3>2 DEF JobOK, Places, Loading
    <3>4. job'.at \in 0..(N - 1) /\ \A k \in 0..(job'.at - 1) : mem'[InSlot(k)] = BlockOf(attic[k])
      BY <1>2, <2>2, <2>3, <3>2
    <3> QED
      BY <1>1, <1>3, <3>2, <3>3, <3>4, WritingGoesOn DEF Writing, N
  <2>4. CASE ~(job.at + 1 < N)
    <3>1. Goes("updated")
      BY <1>5, <2>4 DEF BlockDone, Goes, N
    <3>2. /\ JobOK' /\ job'.pc = "updated" /\ job'.slot = job.slot /\ job'.file = job.file
          /\ job'.failed = job.failed
      BY <1>2, <3>1, GoesThere DEF Places, Loading
    <3>3. \A k \in 0..(N - 1) : mem'[InSlot(k)] = BlockOf(attic[k])
      BY <1>2, <2>2, <2>4
    <3> QED
      BY <1>1, <1>3, <3>2, <3>3, WritingGoesOn DEF N
  <2> QED
    BY <2>3, <2>4
<1> QED
  BY <1>1, <1>4, <1>5

\* Erasing or programming a block leaves the blocks before it.
LEMMA EarlierBlocksStay ==
  ASSUME Inv, job.pc \in Writing, OneBlock(InSlot(job.at)), attic' = attic
  PROVE  ChipOK' /\ \A k \in 0..(job.at - 1) : mem'[InSlot(k)] = BlockOf(attic[k])
<1>1. ChipOK /\ job.at \in 0..(SlotBlocks - 1) /\ job.slot \in Slots /\ InSlot(job.at) \in Blocks
      /\ Written(job.at) /\ SlotBlocks \in Nat
  BY WritingIs, JoyFlashAssumption
<1>2. ChipOK' /\ \A x \in Blocks \ {InSlot(job.at)} : mem'[x] = mem[x]
  BY <1>1, OtherBlocksStay
<1>3. ASSUME NEW k \in 0..(job.at - 1) PROVE mem'[InSlot(k)] = BlockOf(attic[k])
  <2>1. k \in 0..(SlotBlocks - 1) /\ k # job.at /\ k \in Nat /\ job.at \in Nat
    BY <1>1
  <2>2. InSlot(k) \in Blocks /\ InSlot(k) # InSlot(job.at)
    BY <1>1, <2>1, BlockOfSlot, BlocksDiffer DEF InSlot
  <2>3. mem[InSlot(k)] = BlockOf(attic[k])
    BY <1>1 DEF Written
  <2> QED
    BY <1>2, <2>2, <2>3
<1> QED
  BY <1>2, <1>3

LEMMA EraseStep ==
  ASSUME Inv, erase_sector
  PROVE  Inv' /\ job.pc \in Writing /\ OneBlock(InSlot(job.at))
<1> DEFINE b == InSlot(job.at)
<1>1. job.pc = "erase" /\ job.pc \in Writing /\ UNCHANGED <<attic, sd, board>>
  BY DEF erase_sector, Writes, At, Writing
<1>2. PICK c : Erases(c, b)
  BY DEF erase_sector
<1>3. 0 \in Pages
  BY JoyFlashAssumption DEF Pages
<1>4. OneBlock(b)
  <2>1. mem' = mem \/ mem' = [mem EXCEPT ![b] = BlankBlock] \/ mem' = [mem EXCEPT ![b][0] = Junk]
    BY <1>2 DEF Erases, Erased, Spoilt
  <2> QED
    BY <1>3, <2>1, PageIsValue DEF OneBlock
<1>5. /\ JobOK /\ job.at \in 0..(SlotBlocks - 1) /\ DOMAIN job = DOMAIN Idle
      /\ ChipOK' /\ \A k \in 0..(job.at - 1) : mem'[InSlot(k)] = BlockOf(attic[k])
  BY <1>1, <1>4, WritingIs, EarlierBlocksStay
<1>6. Goes("hung") \/ job' = [job EXCEPT !.pc = "program", !.page = 0]
  BY <1>2 DEF Erases
<1>7. /\ DOMAIN job' = DOMAIN Idle /\ job'.slot = job.slot /\ job'.at = job.at /\ job'.file = job.file
      /\ job'.failed = job.failed /\ job'.tries = job.tries
      /\ \/ job'.pc = "hung" /\ job'.page = job.page
         \/ job'.pc = "program" /\ job'.page = 0
  BY <1>5, <1>6 DEF Goes, Idle
<1>8. JobOK'
  BY <1>5, <1>7 DEF JobOK, Places, Loading
<1>9. Inv'
  BY <1>1, <1>3, <1>5, <1>7, <1>8, WritingGoesOn DEF Writing
<1> QED
  BY <1>1, <1>4, <1>9

LEMMA ProgramStep ==
  ASSUME Inv, program_page
  PROVE  Inv' /\ job.pc \in Writing /\ OneBlock(InSlot(job.at))
<1> DEFINE b   == InSlot(job.at)
           new == BlockOf(attic[job.at])[job.page]
<1>1. job.pc = "program" /\ job.pc \in Writing /\ UNCHANGED <<attic, sd, board>>
  BY DEF program_page, Writes, At, Writing
<1>2. PICK c : Programs(c, b, new)
  BY DEF program_page
<1>3. /\ JobOK /\ ChipOK /\ job.at \in 0..(SlotBlocks - 1) /\ DOMAIN job = DOMAIN Idle /\ b \in Blocks
      /\ job.page \in Pages /\ new \in PageValues
  BY <1>1, WritingIs, PageIsValue
<1>4. mem[b][job.page] \in PageValues
  BY <1>3 DEF ChipOK
<1> HIDE DEF b, new
<1>5. OneBlock(b)
  <2>1. \/ mem' = mem
        \/ \E page \in {Combined(mem[b][job.page], new), Junk, PartOf(mem[b][job.page], new)} :
             mem' = [mem EXCEPT ![b][job.page] = page]
    BY <1>2 DEF Programs, Programmed, Spoilt
  <2>2. {Combined(mem[b][job.page], new), Junk, PartOf(mem[b][job.page], new)} \subseteq PageValues
    BY <1>3, <1>4, PageIsValue DEF Combined, PartOf
  <2> QED
    BY <1>3, <2>1, <2>2 DEF OneBlock
<1>6. ChipOK' /\ \A k \in 0..(job.at - 1) : mem'[InSlot(k)] = BlockOf(attic[k])
  BY <1>1, <1>5, EarlierBlocksStay DEF b
<1>7. \/ job' = job
      \/ job.page + 1 < PagesPerBlock /\ job' = [job EXCEPT !.page = job.page + 1]
      \/ job' = [job EXCEPT !.pc = "verify"]
  BY <1>2 DEF Programs, PageDone
<1>8. /\ DOMAIN job' = DOMAIN Idle /\ job'.slot = job.slot /\ job'.at = job.at /\ job'.file = job.file
      /\ job'.failed = job.failed /\ job'.tries = job.tries /\ job'.pc \in {"program", "verify"}
      /\ job'.page \in Pages
  <2>1. job.page \in Nat /\ job.page + 1 \in Nat /\ (job.page + 1 < PagesPerBlock => job.page + 1 \in Pages)
    BY <1>3, JoyFlashAssumption DEF Pages
  <2> QED
    BY <1>1, <1>3, <1>7, <2>1 DEF Idle
<1>9. JobOK'
  <2>1. job'.page \in Nat
    BY <1>8 DEF Pages
  <2> QED
    BY <1>3, <1>8, <2>1 DEF JobOK, Places, Loading
<1>10. Inv'
  BY <1>1, <1>3, <1>6, <1>8, <1>9, WritingGoesOn DEF Writing
<1> QED
  BY <1>1, <1>5, <1>10 DEF b

-----------------------------------------------------------------------------
(* Failures of the card, and the theorems.                                  *)

\* A card that is going to fail has not yet.
LEMMA CardStep == ASSUME Inv, CardFails PROVE Inv'
<1>1. /\ TypeInv /\ SdInv /\ StageInv /\ CheckInv /\ SearchInv /\ LoadInv /\ ChipInv
      /\ sd.up = "yes" /\ UNCHANGED <<mem, attic, board, job>>
      /\ job.pc \in {"menu", "list", "find", "refind", "check", "load"}
  BY DEF Inv, CardFails, Searching, At
<1>2. PICK reads \in Reads, asks \in BOOLEAN, stray \in Clusters(sd.bus) \cup {0} :
        sd' = [sd EXCEPT !.good = reads, !.asks = asks, !.stray = stray]
  BY DEF CardFails
<1>3. ReaderOK(sd) /\ reads \in 0..NeverFails
  BY <1>1, JoyFlashAssumption, JoyCardAssumption DEF SdInv
<1>4. /\ ReaderOK(sd') /\ sd'.bus = sd.bus /\ sd'.dir = sd.dir /\ sd'.file = sd.file /\ sd'.buffer = sd.buffer
  BY <1>2, <1>3 DEF ReaderOK, CardKept, SdFields, NotSetUp
<1>5. TypeInv' /\ StageInv' /\ ChipInv'
  BY <1>1 DEF TypeInv, ChipOK, AtticOK, JobOK, StageInv, FilesOK, At, ChipInv, Written, InSlot
<1>6. SdInv'
  BY <1>1, <1>4, ReaderFields DEF SdInv
<1>7. Ahead(sd', job.file) <=> Ahead(sd, job.file)
  BY <1>4 DEF Ahead
<1>8. OnCard(sd', job.file) <=> OnCard(sd, job.file)
  BY <1>4 DEF OnCard
<1>9. \A c, p : PartAt(sd', c, p) <=> PartAt(sd, c, p)
  BY <1>4 DEF PartAt, SectorAt
<1>10. IsFile(sd', job.file) <=> IsFile(sd, job.file)
  BY <1>4, <1>9 DEF IsFile
<1>11. job' = job /\ attic' = attic
  BY <1>1
<1>12. CheckInv'
  BY <1>1, <1>4, <1>8, <1>10, <1>11 DEF CheckInv, At, IsRight
<1>13. SearchInv'
  BY <1>1, <1>7, <1>11 DEF SearchInv, At
<1>14. LoadInv'
  BY <1>1, <1>9, <1>11 DEF LoadInv, At, HasParts, Chosen
<1> QED
  BY <1>5, <1>6, <1>12, <1>13, <1>14 DEF Inv

LEMMA InvStays == ASSUME Inv, [Next]_vars PROVE Inv'
<1>1. CASE UNCHANGED vars
  BY <1>1 DEF vars, Inv, TypeInv, ChipOK, AtticOK, JobOK, SdInv, StageInv, FilesOK, CheckInv, SearchInv, LoadInv,
              ChipInv, At, Written, InSlot, IsRight, HasParts, Chosen
<1>2. CASE Next
  BY <1>2, StepsOutside, SelectStep, ListStep, MoveStep, ChooseStep, OpenStep, SearchStep, CheckStep,
     LoadStep, LoadedStep, VerifyStep, EraseStep, ProgramStep, CardStep, PowerStep DEF Next
<1> QED
  BY <1>1, <1>2

\* What the files, the registers and the card library hold, on the way of a file from the
\* card to the chip.
THEOREM JoyInvariant == Spec => []Inv
BY InvAtFirst, InvStays, PTL DEF Spec

\* "Flash slot successfully updated" is true: the slot holds what was loaded, and that is
\* the core file that was chosen unless a read of the card failed.
THEOREM JoyUpdatedIsWritten == Spec => []UpdatedIsWritten
<1>1. ASSUME Inv PROVE UpdatedIsWritten
  BY <1>1 DEF Inv, ChipInv, LoadInv, UpdatedIsWritten, At, Loading, Written, HasParts
<1> QED
  BY <1>1, JoyInvariant, PTL

\* Which steps change the chip, and where.
LEMMA ChipChanges ==
  ASSUME Inv, [Next]_vars, NEW b \in Blocks, mem'[b] # mem[b]
  PROVE  job.pc \in Writing /\ b = InSlot(job.at)
<1>1. mem' # mem
  OBVIOUS
<1>2. erase_sector \/ program_page \/ PowerCycle
  BY <1>1 DEF Next, vars, probe_qspi_flash, flash_reset, Warn, PressFire, Scan, MoveSlot, reconfig_fpga,
       SelectSlot, select_bitstream_file, Move, Choose, OpenCore, hy_open, check_model_id_field, LoadSector,
       Loaded, Verify, CardFails
<1>3. job.pc \in Writing /\ OneBlock(InSlot(job.at))
  <2>1. CASE PowerCycle
    <3>1. Changing /\ mem' = [mem EXCEPT ![InSlot(job.at)][0] = Junk]
      BY <1>1, <2>1 DEF PowerCycle
    <3>2. 0 \in Pages
      BY JoyFlashAssumption DEF Pages
    <3> QED
      BY <3>1, <3>2, PageIsValue DEF OneBlock, Changing, At, Writing
  <2> QED
    BY <1>2, <2>1, EraseStep, ProgramStep
<1>4. ChipOK /\ InSlot(job.at) \in Blocks
  BY <1>3, WritingIs
<1> QED
  BY <1>3, <1>4, OtherBlocksStay

\* Nothing but the slot that was chosen is ever changed, never slot 0, and only for a core
\* that is for this board.
THEOREM JoyOnlyForThisBoard == Spec => OnlyForThisBoard
<1> DEFINE Changes == \A b \in Blocks : mem'[b] # mem[b] =>
                        /\ job.slot # 0 /\ b \in {InSlot(k) : k \in 0..(SlotBlocks - 1)}
                        /\ Core[Chosen].magic /\ Core[Chosen].model = "ours"
<1>1. ASSUME Inv, [Next]_vars PROVE Changes
  <2> SUFFICES ASSUME NEW b \in Blocks, mem'[b] # mem[b]
               PROVE  /\ job.slot # 0 /\ b \in {InSlot(k) : k \in 0..(SlotBlocks - 1)}
                      /\ Core[Chosen].magic /\ Core[Chosen].model = "ours"
    OBVIOUS
  <2>1. job.pc \in Writing /\ b = InSlot(job.at)
    BY <1>1, ChipChanges
  <2>2. job.slot # 0 /\ job.at \in 0..(SlotBlocks - 1)
    BY <1>1, <2>1, WritingIs
  <2>3. PICK c \in DOMAIN Core : IsRight(c)
    BY <1>1, <2>1, WritingIs
  <2>4. Chosen = c
    BY <2>3, ChosenIs DEF IsRight
  <2> QED
    BY <2>1, <2>2, <2>3, <2>4 DEF IsRight
<1> QED
  BY <1>1, JoyInvariant, PTL DEF Spec, OnlyForThisBoard
=============================================================================
