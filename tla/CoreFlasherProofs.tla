-------------------------- MODULE CoreFlasherProofs --------------------------
(* Proofs about the core flasher, for any chip, any cores and cards, any way
   of reading their directories, and any number of failures.  The invariant
   follows one core from its file to its slot: what the header of the file
   said (Vetted), that what is loaded is that core (FirstIsLoaded), that what
   the slot will hold when it is written is a core that was checked, whole
   (PlanInv), and how much of it is written (WrittenInv).                   *)
EXTENDS CoreFlasher, SequenceTheorems, WellFoundedInduction, TLAPS

SdFields  == DOMAIN NotInitialised(0)
HdrFields == DOMAIN NoHeader
IsHdr(h) == DOMAIN h = HdrFields /\ h.length \in Nat /\ h.list \in Seq(Nat)
IsSequence(s) == s \in Seq({s[i] : i \in 1..Len(s)})

\* While a slot is changed.  Sectoring is the loop of mfhf_flash_sector.
Sectoring == {"verify", "erase", "body", "head"}
Writing   == {"next", "list"} \cup Sectoring
Planned   == {"begin", "list0", "header", "finish"} \cup Writing

FlashOK == DOMAIN flash = Blocks /\ \A b \in Blocks : IsBlock(flash[b])
AtticOK == DOMAIN attic = 0..(SlotBlocks - 1) /\ \A k \in 0..(SlotBlocks - 1) : IsBlock(attic[k])
SdOK    == DOMAIN sd = SdFields
HdrOK   == IsHdr(hdr)
SlotsOK == /\ DOMAIN slots = Slots
           /\ \A slot \in Slots : /\ DOMAIN slots[slot] = DOMAIN NotScanned(0)
                                  /\ slots[slot].valid \in {"valid", "empty", "invalid", "fail"}
                                  /\ slots[slot].length \in Nat
ListOK  == erase0 \in Seq(Nat)
UiOK    == DOMAIN ui = DOMAIN NoChoice /\ ui.file \in {"none", "valid", "erase"}
JobOK   == /\ DOMAIN job = DOMAIN Idle
           /\ job.pc \in Places /\ job.slot \in Slots /\ job.at \in 0..SlotBlocks
           /\ job.tries \in 0..MAX_RETRY /\ job.el \in Nat /\ job.back \in {"next", "list"}
           /\ IsSequence(job.chain) /\ job.bringup \in BOOLEAN
TypeInv == /\ FlashOK /\ AtticOK /\ SdOK /\ HdrOK /\ SlotsOK
           /\ ListOK /\ UiOK /\ JobOK /\ board \in Boards

\* Where the writing of a slot is, and in the states of a loop its bounds.
StageInv ==
  /\ At("begin") => ui.file # "none"
  /\ At("list0") => ui.file # "none" /\ job.slot = 0 /\ erase0 # <<>> /\ job.at = 0
  /\ At("header") => /\ ui.file # "none" /\ job.at < SlotBlocks
                     /\ ui.file = "valid" => job.at = 0
  /\ At("finish") => ui.file # "none"
  /\ job.pc \in {"list0", "header"} \cup Writing =>
       /\ job.el <= Len(hdr.list)
       /\ job.slot > 0 => job.el = 0
  /\ job.pc \in Writing => ui.file = "valid"
  /\ At("list") => job.slot = 0
  /\ job.pc \in Sectoring => /\ job.at < SlotBlocks
                             /\ job.back = "next" => job.at < hdr.length
                             /\ job.back = "list" => job.slot = 0
  /\ job.pc \in Sectoring \ {"verify"} => job.tries < MAX_RETRY

\* The file that was chosen is one of a core for this slot, whose length is
\* in the header.
HeaderAt(s, h) == Card[s.bus].sectors[h.ino][1]
FileIsFor(s, h, mega) ==
  LET sector == HeaderAt(s, h)
  IN /\ IsHeader(sector) /\ HeaderOk(Core[sector.core], mega)
     /\ h.length = Core[sector.core].length /\ h.list = Core[sector.core].list
Vetted == ui.file = "valid" /\ FileIsFor(sd, hdr, job.slot = 0)

\* The first sector that was loaded is that header.
FirstIsLoaded ==
  IF job.at = 0 THEN job.chain = <<>> /\ sd.cluster = hdr.ino /\ sd.within = 0
  ELSE IF FromDisk THEN job.chain # <<>> /\ job.chain[1] = [cluster |-> hdr.ino, within |-> 0]
       ELSE attic[0] = InAttic(Part(HeaderAt(sd, hdr)))

FileInv ==
  /\ At("start") => ~hdr.auto
  /\ At("edit") /\ ui.file = "valid" => Vetted
  /\ At("open") => Vetted
  /\ At("load") => Vetted /\ FirstIsLoaded /\ job.at <= hdr.length
  /\ At("reread") => ~FromDisk

\* The table of the slots where the user sees it or comes back to it.
Current == \A slot \in Slots : slots[slot].valid # "fail" =>
             /\ slots[slot].valid = "valid" <=> HasCore(slot * SlotBlocks)
             /\ slots[slot].valid = "valid" => slots[slot].real = flash[slot * SlotBlocks].flags
ScanInv ==
  /\ job.pc \in {"menu", "edit", "select", "reread"} => ~job.bringup
  /\ job.pc \in {"menu", "edit", "select", "open", "load", "reread"} /\ ~job.bringup => Current

\* What begins with a header is one core that was checked, and goes on with
\* what will be written or what is in the slot and stays.
IsChecked == Source(0).core \in DOMAIN Core =>
  /\ Core[Source(0).core].crc /\ HeaderOk(Core[Source(0).core], job.slot = 0)
Continues == Source(0).core \in DOMAIN Core =>
  \A k \in 1..(Core[Source(0).core].length - 1) :
    LET part == Part([core |-> Source(0).core, part |-> k])
    IN IF k < hdr.length THEN Source(k) = part ELSE flash[InSlot(k)] = part
PlanInv ==
  job.pc \in Planned /\ ui.file = "valid" =>
    /\ hdr.length \in 1..SlotBlocks
    /\ IsChecked
    /\ job.slot > 0 => Continues

\* Above slot 0 there is no header until the last block is written.
HeaderGone == job.pc \in {"header", "next"} \cup Sectoring /\ job.slot > 0 /\ job.at > 0 =>
                ~HasCore(InSlot(0))
SafeInv == BootableIsWhole /\ OnlyCheckedCores /\ HeaderGone

\* The blocks that are written.  In slot 0 those on the erase list come last.
Done(b) == flash[InSlot(b)] = Source(b)
OnLists(b, left_over) == \E i \in left_over : hdr.list[i] # 0 /\ ListBlock(hdr.list[i]) = b
FirstPass(from) == \A b \in from..(hdr.length - 1) :
  Done(b) \/ (job.slot = 0 /\ OnLists(b, (job.el + 1)..Len(hdr.list)))
SecondPass(but) == \A b \in (0..(hdr.length - 1)) \ but :
  Done(b) \/ OnLists(b, 1..job.el)
Wiped(upto) == \A k \in 0..(upto - 1) : InSlot(k) # board.defect => flash[InSlot(k)] = Blank
WrittenInv ==
  /\ At("next") => FirstPass(job.at)
  /\ At("list") => SecondPass({})
  /\ job.pc \in Sectoring => IF job.back = "next" THEN FirstPass(job.at + 1) ELSE SecondPass({job.at})
  /\ At("finish") /\ ui.file = "valid" => \A b \in 0..(hdr.length - 1) : Done(b)
  /\ At("header") /\ ui.file = "erase" /\ job.slot > 0 => Wiped(job.at)
  /\ At("finish") /\ ui.file = "erase" /\ job.slot > 0 => Wiped(SlotBlocks)

\* No erase list spares a header: such a list would leave slot 0 without one.
ListsHaveNoZero == \A c \in DOMAIN Core : \A i \in 1..Len(Core[c].list) : Core[c].list[i] # 0
ListInv ==
  \/ \A i \in 1..Len(hdr.list) : hdr.list[i] # 0
  \/ /\ job.pc \in {"edit", "select"} /\ job.slot = 0 => hdr.flags = slots[0].real
     /\ At("reread") => job.slot > 0
     /\ job.pc \in {"open", "load"} \cup Planned => job.slot > 0 \/ ui.file = "erase"
-----------------------------------------------------------------------------
(* The card and its library: whatever is read, the fields stay, and within a
   mounted card the card does.                                              *)

\* A read keeps the card, and one that succeeds has the sector it was at.
LEMMA SdReads ==
  ASSUME NEW s, DOMAIN s = SdFields
  PROVE  /\ DOMAIN nhsd_read(s).s = SdFields
         /\ nhsd_read(s).s.bus = s.bus
         /\ nhsd_read(s).err = "ok" => nhsd_read(s).s.sector = SectorAt(s)
<1>1. \A t, x : DOMAIN t = SdFields => /\ DOMAIN nhsd_readsector(t, x) = SdFields
                                       /\ nhsd_readsector(t, x).bus = t.bus
                                       /\ ~Fails(t) => nhsd_readsector(t, x).sector = x
  BY DEF nhsd_readsector, SdFields, NotInitialised, Fails
<1>2. DOMAIN Onward(s) = SdFields /\ Onward(s).bus = s.bus
  BY <1>1 DEF Onward, SdFields, NotInitialised
<1> QED  BY <1>1, <1>2 DEF nhsd_read, Result

\* To open a file is to be at its first sector.
LEMMA SdOpens ==
  ASSUME NEW s, NEW ino, DOMAIN s = SdFields
  PROVE  /\ DOMAIN nhsd_open(s, ino) = SdFields /\ nhsd_open(s, ino).bus = s.bus
         /\ nhsd_open(s, ino).cluster = ino /\ nhsd_open(s, ino).within = 0
         /\ DOMAIN nhsd_close(s) = SdFields /\ nhsd_close(s).bus = s.bus
  BY DEF nhsd_open, nhsd_open_inode, nhsd_close, SdFields, NotInitialised

\* Whatever slot answers, the library has its fields.
LEMMA SdMounts ==
  ASSUME NEW s, NEW bus, NEW fallback, DOMAIN s = SdFields
  PROVE  DOMAIN nhsd_init(s, bus, fallback) = SdFields
<1>1. \A t, x : DOMAIN t = SdFields => DOMAIN nhsd_readsector(t, x) = SdFields
  BY DEF nhsd_readsector, SdFields, NotInitialised
<1>2. \A t : DOMAIN t = SdFields => DOMAIN Down(t) = SdFields
  BY DEF Down, SdFields, NotInitialised
<1>3. ASSUME NEW t, NEW on, DOMAIN t = SdFields PROVE DOMAIN Mounted(t, on) = SdFields
  BY <1>1, <1>2, <1>3 DEF Mounted, SdFields, NotInitialised
<1> QED  BY <1>2, <1>3 DEF nhsd_init

\* The length of the header that is checked may be taken without the header.
LEMMA HeaderIsLooked ==
  ASSUME NEW s, NEW h, NEW mega, DOMAIN s = SdFields, IsHdr(h)
  PROVE  LET read == mfsc_checkcore(s, h, mega)
         IN /\ DOMAIN read.s = SdFields /\ read.s.bus = s.bus
            /\ IsHdr(read.h) /\ read.h.ino = h.ino
            /\ read.ok => FileIsFor(read.s, read.h, mega)
            /\ ~read.ok => read.h.list = h.list /\ read.h.auto = h.auto /\ read.h.flags = h.flags
<1> DEFINE at == Card[s.bus].sectors[h.ino][1]
           read == nhsd_read(nhsd_open(s, h.ino))
<1>1. DOMAIN read.s = SdFields /\ read.s.bus = s.bus /\ (read.err = "ok" => read.s.sector = at)
  <2>1. SectorAt(nhsd_open(s, h.ino)) = at
    BY SdOpens DEF SectorAt
  <2> QED  BY <2>1, SdOpens, SdReads
<1>2. DOMAIN nhsd_close(read.s) = SdFields /\ nhsd_close(read.s).bus = s.bus
  BY <1>1, SdOpens
<1>3. LET after == Looked(h, at, mega)
          ok == IsHeader(at) /\ HeaderOk(Core[at.core], mega)
      IN /\ DOMAIN after = HdrFields /\ after.ino = h.ino
         /\ after.length \in Nat /\ after.list \in Seq(Nat)
         /\ ok => after.length = Core[at.core].length /\ after.list = Core[at.core].list
         /\ ~ok => after.list = h.list /\ after.auto = h.auto /\ after.flags = h.flags
  <2>1. CASE ~IsHeader(at)
    BY <2>1 DEF Looked, IsHdr
  <2>2. CASE IsHeader(at)
    <3> DEFINE c == Core[at.core]
    <3>1. c.length \in Nat /\ c.list \in Seq(Nat)
      BY <2>2, CoreAssumption DEF IsHeader
    <3>2. CASE HeaderOk(c, mega)
      <4>1. Looked(h, at, mega) = Accepted(h, c)
        BY <2>2, <3>2 DEF Looked
      <4> HIDE DEF at, c
      <4>2. /\ DOMAIN Accepted(h, c) = HdrFields /\ Accepted(h, c).ino = h.ino
            /\ Accepted(h, c).length = c.length /\ Accepted(h, c).list = c.list
        BY DEF Accepted, HdrFields, NoHeader, IsHdr
      <4> QED  BY <2>2, <3>1, <3>2, <4>1, <4>2 DEF c
    <3>3. CASE ~HeaderOk(c, mega)
      <4>1. Looked(h, at, mega) = IF c.magic THEN [h EXCEPT !.length = c.length] ELSE h
        BY <2>2, <3>3 DEF Looked
      <4> HIDE DEF at, c
      <4> QED  BY <2>2, <3>1, <3>3, <4>1 DEF HdrFields, NoHeader, c, IsHdr
    <3> QED  BY <3>2, <3>3
  <2> QED  BY <2>1, <2>2
<1> HIDE DEF at, read
<1>4. CASE CannotOpen(s)
  BY <1>4 DEF mfsc_checkcore, IsHdr
<1>5. CASE ~CannotOpen(s)
  <2>1. mfsc_checkcore(s, h, mega) = Checked(read, h, mega)
    BY <1>5 DEF mfsc_checkcore, read
  <2>2. CASE read.err = "ok"
    <3>1. /\ Checked(read, h, mega).s = nhsd_close(read.s)
          /\ Checked(read, h, mega).h = Looked(h, at, mega)
          /\ Checked(read, h, mega).ok <=> IsHeader(at) /\ HeaderOk(Core[at.core], mega)
      BY <2>2, <1>1 DEF Checked
    <3> QED  BY <2>1, <3>1, <1>1, <1>2, <1>3 DEF at, IsHdr, FileIsFor, HeaderAt
  <2>3. CASE read.err # "ok"
    BY <2>1, <2>3, <1>2 DEF Checked, IsHdr
  <2> QED  BY <2>2, <2>3
<1> QED  BY <1>4, <1>5

\* A file that may bring a board up is one for slot 0, though any file is found.
LEMMA FileIsFound ==
  ASSUME NEW s, NEW h, NEW unset, DOMAIN s = SdFields, IsHdr(h)
  PROVE  LET found == mfsc_findcorefile(s, h, unset)
         IN /\ DOMAIN found.s = SdFields /\ IsHdr(found.h)
            /\ found.ok /\ found.h.auto /\ ~h.auto => FileIsFor(found.s, found.h, TRUE)
<1> DEFINE t == nhsd_init(s, 0, FALSE)
           read == FileNamed(t, Bringup, unset)
           looked == [h EXCEPT !.ino = read.s.ino]
           checked == mfsc_checkcore(read.s, looked, TRUE)
<1>1. DOMAIN t = SdFields
  BY SdMounts
<1>2. DOMAIN read.s = SdFields
  BY <1>1 DEF FileNamed, MovedAs, Result, SdFields, NotInitialised
<1>3. IsHdr(looked) /\ looked.auto = h.auto
  BY DEF HdrFields, NoHeader, IsHdr
<1>4. /\ DOMAIN checked.s = SdFields /\ IsHdr(checked.h)
      /\ checked.ok => FileIsFor(checked.s, checked.h, TRUE)
      /\ ~checked.ok => checked.h.auto = looked.auto
  <2> DEFINE u == read.s
  <2>1. DOMAIN u = SdFields /\ IsHdr(looked)
    BY <1>2, <1>3
  <2>2. PICK mega \in BOOLEAN : mega = TRUE
    OBVIOUS
  <2> HIDE DEF u, looked
  <2>3. LET c  == mfsc_checkcore(u, looked, mega)
        IN /\ DOMAIN c.s = SdFields /\ IsHdr(c.h)
           /\ c.ok => FileIsFor(c.s, c.h, mega)
           /\ ~c.ok => c.h.auto = looked.auto
    BY <2>1, HeaderIsLooked
  <2> QED  BY <2>2, <2>3 DEF u
<1>5. [checked EXCEPT !.ok = TRUE].s = checked.s /\ [checked EXCEPT !.ok = TRUE].h = checked.h
  BY DEF mfsc_checkcore, Checked
<1>6. mfsc_findcorefile(s, h, unset) =
        IF ~t.up THEN [s |-> t, h |-> h, ok |-> FALSE]
        ELSE IF read.err # "ok" THEN [s |-> read.s, h |-> h, ok |-> FALSE]
        ELSE [checked EXCEPT !.ok = TRUE]
  BY DEF mfsc_findcorefile, AfterMount, AfterFind
<1> HIDE DEF t, read, looked, checked
<1>7. CASE ~t.up
  BY <1>1, <1>6, <1>7
<1>8. CASE t.up /\ read.err # "ok"
  BY <1>2, <1>6, <1>8
<1>9. CASE t.up /\ read.err = "ok"
  BY <1>3, <1>4, <1>5, <1>6, <1>9
<1> QED  BY <1>7, <1>8, <1>9

\* Listing a directory keeps the fields of the library.
LEMMA DirectoryIsRead ==
  ASSUME NEW s, NEW d, NEW bus, NEW wanted, NEW force, NEW unset, DOMAIN s = SdFields
  PROVE  DOMAIN mfsc_load_dir(s, d, bus, wanted, force, unset).s = SdFields
<1>1. \A t, e : DOMAIN t = SdFields => DOMAIN Listing(t, e, wanted, unset).s = SdFields
  BY DEF Listing, MovedAs, SdFields, NotInitialised
<1>2. DOMAIN nhsd_init(s, bus, TRUE) = SdFields
  BY SdMounts
<1>3. DOMAIN AfterInit(nhsd_init(s, bus, TRUE), d, wanted, unset).s = SdFields
  BY <1>1, <1>2 DEF AfterInit
<1> QED  BY <1>1, <1>3 DEF mfsc_load_dir
-----------------------------------------------------------------------------
(* Blocks and slots.                                                        *)

\* The blocks of a slot are in the chip.
LEMMA BlockOfSlot ==
  ASSUME NEW slot \in Slots, NEW k \in 0..(SlotBlocks - 1)
  PROVE  slot * SlotBlocks + k \in Blocks
<1> DEFINE N == SlotBlocks
<1>1. N \in Nat \ {0} /\ SlotCount \in Nat /\ slot \in Nat /\ k \in Nat
  BY CoreAssumption, FlasherAssumption DEF Slots
<1>2. slot + 1 <= SlotCount
  BY FlasherAssumption DEF Slots
<1>3. (slot + 1) * N <= SlotCount * N
  <2>1. PICK d \in Nat : SlotCount = slot + 1 + d
    <3>1. SlotCount - (slot + 1) \in Nat
      BY <1>1, <1>2
    <3> QED  BY <3>1, <1>1
  <2>2. SlotCount * N = (slot + 1) * N + d * N
    BY <1>1, <2>1
  <2>3. d * N \in Nat
    BY <1>1, <2>1
  <2> QED  BY <1>1, <2>2, <2>3
<1>4. (slot + 1) * N = slot * N + N /\ slot * N \in Nat
  BY <1>1
<1> QED  BY <1>1, <1>3, <1>4 DEF Blocks

\* A block is in one slot, at one place.
LEMMA OneSlot ==
  ASSUME NEW s \in Slots, NEW t \in Slots,
         NEW j \in 0..(SlotBlocks - 1), NEW k \in 0..(SlotBlocks - 1),
         s * SlotBlocks + j = t * SlotBlocks + k
  PROVE  s = t /\ j = k
<1> DEFINE N == SlotBlocks
<1>1. N \in Nat \ {0} /\ s \in Nat /\ t \in Nat /\ j \in Nat /\ k \in Nat
  BY CoreAssumption, FlasherAssumption DEF Slots
<1>2. ASSUME NEW a \in Nat, NEW b \in Nat, a < b PROVE a * N + N <= b * N
  <2>1. PICK d \in Nat : b = a + 1 + d
    <3>1. b - (a + 1) \in Nat
      BY <1>2
    <3> QED  BY <3>1
  <2>2. b * N = a * N + N + d * N /\ d * N \in Nat /\ a * N \in Nat
    BY <1>1, <2>1
  <2> QED  BY <1>1, <2>2
<1>3. s * N \in Nat /\ t * N \in Nat
  BY <1>1
<1>4. ~(s < t)
  BY <1>1, <1>2, <1>3
<1>5. ~(t < s)
  BY <1>1, <1>2, <1>3
<1>6. s = t
  BY <1>1, <1>4, <1>5
<1> QED  BY <1>1, <1>3, <1>6

\* A set of numbers that is not empty has a least one.
LEMMA Minimum ==
  ASSUME NEW T, T \subseteq Nat, T # {}
  PROVE  \E x \in T : \A y \in T : x <= y
<1>1. PICK x \in T : \A y \in T : ~(<<y, x>> \in OpToRel(<, Nat))
  BY WFMin, NatLessThanWellFounded
<1>2. \A y \in T : ~(y < x)
  BY <1>1 DEF OpToRel
<1> QED  BY <1>2

\* What is looked for or switched to is a slot of the chip.
LEMMA SelectedIsSlot ==
  ASSUME NEW search, NEW bad, board \in Boards
  PROVE  Selected(search, bad) \in Slots
<1>1. ASSUME NEW flag, FirstWith(flag, bad) < SlotCount PROVE FirstWith(flag, bad) \in Slots
  <2> DEFINE with == {k \in Slots \ bad : HasCore(k * SlotBlocks) /\ flag \in FlagsOf(k, bad)}
  <2>1. CASE with = {}
    BY <1>1, <2>1, FlasherAssumption DEF FirstWith
  <2>2. CASE with # {}
    <3>1. with \subseteq Nat /\ with \subseteq Slots
      BY FlasherAssumption DEF Slots
    <3>2. FirstWith(flag, bad) = CHOOSE k \in with : \A l \in with : k <= l
      BY <2>2 DEF FirstWith
    <3> HIDE DEF with
    <3>3. \E k \in with : \A l \in with : k <= l
      BY <2>2, <3>1, Minimum
    <3> QED  BY <3>1, <3>2, <3>3
  <2> QED  BY <2>1, <2>2
<1>2. 1 + board.switch \in Slots
  BY SwitchAssumption
<1> QED  BY <1>1, <1>2 DEF Selected

\* What a look at the slots leaves in the table is what the flash holds.
LEMMA TableIsTrue ==
  ASSUME NEW bad, NEW searching \in BOOLEAN, FlashOK, SlotsOK, ListOK, Looks(bad, searching)
  PROVE  /\ SlotsOK' /\ ListOK'
         /\ \A slot \in Slots : slots'[slot].valid # "fail" =>
              /\ slots'[slot].valid = "valid" <=> HasCore(slot * SlotBlocks)
              /\ slots'[slot].valid = "valid" => slots'[slot].real = flash[slot * SlotBlocks].flags
<1>1. slots' = [slot \in Slots |-> Scanned(slot, bad, searching)]
  BY DEF Looks
<1>2. ASSUME NEW slot \in Slots
      PROVE  LET s == Scanned(slot, bad, searching)
             IN /\ DOMAIN s = DOMAIN NotScanned(0) /\ s.length \in Nat
                /\ s.valid \in {"valid", "empty", "invalid", "fail"}
                /\ s.valid # "fail" =>
                     /\ s.valid = "valid" <=> HasCore(slot * SlotBlocks)
                     /\ s.valid = "valid" => s.real = flash[slot * SlotBlocks].flags
  <2> DEFINE header == slot * SlotBlocks
             length == IF searching THEN slots[slot].length
                       ELSE IF slot \in bad \/ ~HasCore(header) THEN 0
                       ELSE Core[flash[header].core].length
             s == Scanned(slot, bad, searching)
  <2>1. length \in Nat
    BY CoreAssumption DEF SlotsOK, HasCore
  <2>2. DOMAIN slots[slot] = DOMAIN NotScanned(0)
    BY DEF SlotsOK
  <2>3. CASE slot \in bad
    <3>1. s = [slots[slot] EXCEPT !.valid = "fail", !.length = length]
      BY <2>3 DEF Scanned
    <3> QED  BY <2>1, <2>2, <3>1 DEF NotScanned
  <2>4. CASE slot \notin bad /\ HasCore(header)
    <3>1. s = [valid |-> "valid", caps |-> Core[flash[header].core].caps, real |-> flash[header].flags,
               flags |-> FlagsOf(slot, bad), length |-> length]
      BY <2>4 DEF Scanned
    <3> QED  BY <2>1, <2>4, <3>1 DEF NotScanned
  <2>5. CASE slot \notin bad /\ ~HasCore(header)
    <3>1. s = [valid |-> IF LooksBlank(header) THEN "empty" ELSE "invalid", caps |-> {},
               flags |-> {}, real |-> slots[slot].real, length |-> length]
      BY <2>5 DEF Scanned
    <3> QED  BY <2>1, <2>5, <3>1 DEF NotScanned
  <2> QED  BY <2>3, <2>4, <2>5
<1>3. SlotsOK'
  BY <1>1, <1>2 DEF SlotsOK
<1>4. ListOK'
  BY CoreAssumption DEF Looks, ListOK, HasCore
<1> QED  BY <1>1, <1>2, <1>3, <1>4

-----------------------------------------------------------------------------
(* Types.                                                                   *)

\* A core of which nothing is loaded has no chain.
LEMMA EmptySequence == IsSequence(<<>>)
  BY DEF IsSequence

\* One more sector makes the chain longer at its end, and no other.
LEMMA LongerSequence ==
  ASSUME NEW s, NEW x, IsSequence(s)
  PROVE  /\ IsSequence(Append(s, x)) /\ Append(s, x) # <<>>
         /\ s # <<>> => Append(s, x)[1] = s[1]
         /\ s = <<>> => Append(s, x)[1] = x
<1> DEFINE S == {s[i] : i \in 1..Len(s)} \cup {x}
           t == Append(s, x)
<1>1. s \in Seq(S) /\ x \in S
  BY DEF IsSequence
<1> HIDE DEF S
<1>2. t \in Seq(S) /\ Len(t) = Len(s) + 1 /\ Len(s) \in Nat
  BY <1>1
<1>3. \A i \in 1..Len(t) : t[i] = IF i <= Len(s) THEN s[i] ELSE x
  BY <1>1
<1> HIDE DEF t
<1>4. t \in [1..Len(t) -> {t[i] : i \in 1..Len(t)}]
  BY <1>2
<1>5. IsSequence(t)
  <2> DEFINE E == {t[i] : i \in 1..Len(t)}
             n == Len(t)
  <2>1. n \in Nat /\ t \in [1..n -> E]
    BY <1>2, <1>4
  <2> HIDE DEF E, n
  <2>2. t \in UNION {[1..m -> E] : m \in Nat}
    BY <2>1
  <2>3. t \in Seq(E)
    BY <2>2, SeqDef, Zenon
  <2> QED  BY <2>3 DEF IsSequence, E
<1>6. s # <<>> => Len(s) >= 1
  BY <1>1
<1> QED  BY <1>2, <1>3, <1>5, <1>6 DEF t

\* Where the program goes next has its type.
LEMMA GoesOK ==
  ASSUME NEW pc \in Places, JobOK, Goes(pc)
  PROVE  /\ JobOK' /\ job'.pc = pc
         /\ pc = "menu" => job' = Idle
         /\ pc # "menu" => /\ job'.slot = job.slot /\ job'.at = job.at /\ job'.tries = job.tries
                           /\ job'.el = job.el /\ job'.back = job.back /\ job'.chain = job.chain
                           /\ job'.bringup = job.bringup
<1>1. 0 \in Slots /\ 0 \in 0..SlotBlocks /\ 0 \in 0..MAX_RETRY
  BY CoreAssumption, FlasherAssumption DEF Slots
<1>2. CASE pc = "menu"
  BY <1>1, <1>2, EmptySequence DEF Goes, JobOK, Idle
<1>3. CASE pc # "menu"
  BY <1>3 DEF Goes, JobOK, Idle
<1> QED  BY <1>2, <1>3

\* What the program begins with has its types.
LEMMA FreshOK ==
  ASSUME Fresh
  PROVE  AtticOK' /\ SdOK' /\ HdrOK' /\ SlotsOK' /\ ListOK' /\ UiOK' /\ ~hdr'.auto /\ ui'.file = "none"
<1>1. IsBlock(Junk)
  BY DEF IsBlock, Junk, Blank
<1>2. AtticOK'
  BY <1>1 DEF Fresh, AtticOK, NoAttic
<1>3. SdOK'
  BY DEF Fresh, SdOK, SdFields, NotInitialised
<1>4. HdrOK' /\ ~hdr'.auto
  BY DEF Fresh, HdrOK, IsHdr, HdrFields, NoHeader
<1>5. SlotsOK'
  BY CoreAssumption DEF Fresh, SlotsOK, NotScanned
<1> QED  BY <1>2, <1>3, <1>4, <1>5 DEF Fresh, ListOK, UiOK, NoChoice

\* A variable that stays keeps its type.
LEMMA TypesStay ==
  ASSUME TypeInv
  PROVE  /\ FlashOK /\ AtticOK /\ SdOK /\ HdrOK /\ SlotsOK /\ ListOK /\ UiOK /\ JobOK
         /\ flash' = flash => FlashOK'
         /\ attic' = attic => AtticOK'
         /\ sd' = sd => SdOK'
         /\ hdr' = hdr => HdrOK'
         /\ slots' = slots => SlotsOK'
         /\ erase0' = erase0 => ListOK'
         /\ ui' = ui => UiOK'
         /\ job' = job => JobOK'
         /\ board' = board => board' \in Boards
  BY DEF TypeInv, FlashOK, AtticOK, SdOK, HdrOK, SlotsOK, ListOK, UiOK, JobOK

\* To hand over to a core leaves the flash alone.
LEMMA HandsOverOK ==
  ASSUME TypeInv, NEW pc \in Places, NEW slot \in Slots, HandsOver(pc, slot)
  PROVE  TypeInv' /\ job'.pc = pc /\ job'.slot = slot /\ ~job'.bringup /\ flash' = flash
<1>1. JobOK' /\ job'.pc = pc /\ job'.slot = slot /\ ~job'.bringup
  BY CoreAssumption, FlasherAssumption, EmptySequence DEF HandsOver, JobOK, Idle
<1> QED  BY <1>1, FreshOK, TypesStay DEF HandsOver, TypeInv

\* Types, when the program starts.
LEMMA TypesFromStart ==
  ASSUME TypeInv, FileInv, LeaveAtOnce \/ StartUp \/ Interactive
  PROVE  TypeInv'
<1>0. {"hyppo", "core", "open", "menu", "interactive"} \subseteq Places /\ 0 \in Slots
  BY FlasherAssumption DEF Places, Slots
<1>1. ASSUME hard_exit PROVE TypeInv'
  BY <1>0, <1>1, HandsOverOK DEF hard_exit
<1>2. DOMAIN FoundFile.s = SdFields /\ IsHdr(FoundFile.h)
  BY FileIsFound DEF FoundFile, TypeInv, SdOK, HdrOK
<1>3. ASSUME BringUp PROVE TypeInv'
  <2>1. SdOK' /\ HdrOK'
    BY <1>2, <1>3 DEF BringUp, SdOK, HdrOK
  <2>2. JobOK'
    BY <1>0, <1>3 DEF BringUp, TypeInv, JobOK, Idle
  <2>3. UiOK'
    BY <1>3 DEF BringUp, TypeInv, UiOK, NoChoice
  <2> QED  BY <1>3, <2>1, <2>2, <2>3, TypesStay DEF BringUp, TypeInv
<1>4. ASSUME NEW bad, StartSelected(bad) PROVE TypeInv'
  <2>1. Selected(check_cartridge(board.cart), bad) \in Slots
    BY SelectedIsSlot DEF TypeInv
  <2> QED  BY <1>0, <1>4, <2>1, HandsOverOK DEF StartSelected
<1>5. ASSUME NEW bad, WarnsOf(bad) PROVE TypeInv'
  <2>1. SdOK' /\ HdrOK'
    BY <1>2, <1>5 DEF WarnsOf, SdOK, HdrOK
  <2>2. SlotsOK' /\ ListOK'
    BY <1>5, TypesStay, TableIsTrue DEF WarnsOf
  <2>3. JobOK'
    BY <1>0, <1>5, TypesStay, GoesOK DEF WarnsOf
  <2> QED  BY <1>5, <2>1, <2>2, <2>3, TypesStay DEF WarnsOf, TypeInv
<1>6. ASSUME Interactive PROVE TypeInv'
  <2>1. SlotsOK' /\ ListOK'
    BY <1>6, TypesStay, TableIsTrue DEF Interactive, scan_core_information
  <2>2. JobOK'
    BY <1>0, <1>6, EmptySequence, CoreAssumption, FlasherAssumption DEF Interactive, JobOK, Idle
  <2>3. UiOK'
    BY <1>6 DEF Interactive, TypeInv, UiOK, NoChoice
  <2> QED  BY <1>6, <2>1, <2>2, <2>3, TypesStay DEF Interactive, TypeInv
<1> QED  BY <1>1, <1>3, <1>4, <1>5, <1>6 DEF LeaveAtOnce, StartUp

Editing == \/ display_version \/ EditSlot \/ Cancel \/ ToggleFlag \/ ToggleAttic \/ ChooseErase \/ Flash
Choosing == ChooseCore \/ SwitchDisk \/ SwitchDir \/ Move \/ Preview \/ Pick \/ Abort

\* Types, in the menu and the slot editor.
LEMMA TypesFromEditing ==
  ASSUME TypeInv, Editing
  PROVE  TypeInv'
<1>0. {"menu", "begin", "open", "reread", "edit"} \subseteq Places
  BY DEF Places
<1>1. CASE display_version
  <2>1. SlotsOK' /\ ListOK'
    BY <1>1, TypesStay, TableIsTrue DEF display_version
  <2> QED  BY <1>1, <2>1, TypesStay DEF display_version, Key, TypeInv
<1>2. ASSUME NEW slot \in Slots, At("menu"),
             job' = [Idle EXCEPT !.pc = "edit", !.slot = slot],
             ui' = [ui EXCEPT !.file = "none"],
             hdr' = [hdr EXCEPT !.flags = slots[slot].real, !.caps = slots[slot].caps,
                                !.length = slots[slot].length],
             UNCHANGED <<flash, attic, board, sd, slots, erase0>>
      PROVE  TypeInv'
  <2>1. JobOK'
    BY <1>0, <1>2, EmptySequence, CoreAssumption, FlasherAssumption DEF JobOK, Idle
  <2>2. HdrOK'
    <3>1. slots[slot].length \in Nat
      BY TypesStay DEF SlotsOK
    <3> QED  BY <1>2, <3>1 DEF TypeInv, HdrOK, IsHdr, HdrFields, NoHeader
  <2>3. UiOK'
    BY <1>2 DEF TypeInv, UiOK, NoChoice
  <2> QED  BY <1>2, <2>1, <2>2, <2>3, TypesStay DEF TypeInv
<1>3. CASE Cancel
  <2>1. JobOK'
    BY <1>0, <1>3, TypesStay, GoesOK DEF Cancel
  <2> QED  BY <1>3, <2>1, TypesStay DEF Cancel, Key, TypeInv
<1>4. CASE ToggleFlag
  <2>1. HdrOK'
    BY <1>4 DEF ToggleFlag, TypeInv, HdrOK, IsHdr, HdrFields, NoHeader
  <2> QED  BY <1>4, <2>1, TypesStay DEF ToggleFlag, Key, TypeInv
<1>5. CASE ToggleAttic
  <2>1. UiOK'
    BY <1>5 DEF ToggleAttic, TypeInv, UiOK, NoChoice
  <2> QED  BY <1>5, <2>1, TypesStay DEF ToggleAttic, Key, TypeInv
<1>6. CASE ChooseErase
  <2>1. UiOK'
    BY <1>6 DEF ChooseErase, TypeInv, UiOK, NoChoice
  <2> QED  BY <1>6, <2>1, TypesStay DEF ChooseErase, Key, TypeInv
<1>7. CASE Flash
  <2>1. JobOK'
    BY <1>0, <1>7, TypesStay, GoesOK DEF Flash
  <2> QED  BY <1>7, <2>1, TypesStay DEF Flash, Key, TypeInv
<1> QED  BY <1>1, <1>2, <1>3, <1>4, <1>5, <1>6, <1>7 DEF Editing, EditSlot, Key

\* Types, in the chooser.
LEMMA TypesFromChoosing ==
  ASSUME TypeInv, Choosing
  PROVE  TypeInv'
<1>0. {"edit", "select"} \subseteq Places
  BY DEF Places
<1>1. \A file \in {"none", "valid", "erase"} : ui' = Chosen(file) => UiOK'
  BY DEF Chosen, TypeInv, UiOK, NoChoice
<1>2. \A d, shown, at : ui' = [ui EXCEPT !.dir = d, !.at = at, !.shown = shown] => UiOK'
  BY DEF TypeInv, UiOK, NoChoice
<1>3. \A at, shown : ui' = [ui EXCEPT !.at = at, !.shown = shown] => UiOK'
  BY DEF TypeInv, UiOK, NoChoice
<1>4. \A shown : ui' = [ui EXCEPT !.shown = shown] => UiOK'
  BY DEF TypeInv, UiOK, NoChoice
<1>5. ASSUME NEW loaded, DOMAIN loaded.s = SdFields, Lists(loaded), UNCHANGED <<flash, attic, board>>
      PROVE  TypeInv'
  <2>1. SdOK'
    BY <1>5 DEF Lists, SdOK
  <2>2. JobOK'
    BY <1>0, <1>5, TypesStay, GoesOK DEF Lists
  <2>3. UiOK'
    BY <1>5, <1>1, <1>2 DEF Lists
  <2> QED  BY <1>5, <2>1, <2>2, <2>3, TypesStay DEF Lists, SlotsStay, TypeInv
<1>6. CASE ChooseCore \/ SwitchDisk \/ SwitchDir
  BY <1>5, <1>6, TypesStay, DirectoryIsRead DEF ChooseCore, SwitchDisk, SwitchDir, Key, SdOK
<1>7. CASE Move
  BY <1>3, <1>7, TypesStay DEF Move, Key, SlotsStay, TypeInv
<1>8. \A ino : DOMAIN CheckedAt(ino).s = SdFields /\ IsHdr(CheckedAt(ino).h)
  <2> TAKE ino
  <2>1. IsHdr([hdr EXCEPT !.ino = ino])
    BY DEF TypeInv, HdrOK, IsHdr, HdrFields, NoHeader
  <2> QED  BY <2>1, HeaderIsLooked DEF CheckedAt, TypeInv, SdOK
<1>9. CASE Preview
  <2>1. PICK ino : sd' = CheckedAt(ino).s /\ hdr' = CheckedAt(ino).h
    BY <1>9 DEF Preview
  <2>2. SdOK' /\ HdrOK'
    BY <1>8, <2>1 DEF SdOK, HdrOK
  <2> QED  BY <1>4, <1>9, <2>2, TypesStay DEF Preview, Key, SlotsStay, TypeInv
<1>10. CASE Pick
  <2>1. PICK ino : /\ sd' = CheckedAt(ino).s /\ hdr' = CheckedAt(ino).h
                   /\ \/ ui' = Chosen("valid") /\ Goes("edit")
                      \/ ui' = [ui EXCEPT !.shown = FALSE] /\ UNCHANGED job
    BY <1>10 DEF Pick
  <2>2. SdOK' /\ HdrOK'
    BY <1>8, <2>1 DEF SdOK, HdrOK
  <2>3. JobOK' /\ UiOK'
    BY <1>0, <1>1, <1>4, <2>1, TypesStay, GoesOK
  <2> QED  BY <1>10, <2>2, <2>3, TypesStay DEF Pick, Key, SlotsStay, TypeInv
<1>11. CASE Abort
  <2>1. JobOK' /\ UiOK'
    BY <1>0, <1>1, <1>11, TypesStay, GoesOK DEF Abort
  <2> QED  BY <1>11, <2>1, TypesStay DEF Abort, Key, SlotsStay, TypeInv
<1> QED  BY <1>6, <1>7, <1>9, <1>10, <1>11 DEF Choosing

Loading == OpenCore \/ LoadSector \/ AbortLoad \/ CheckCrc \/ load_core_from_flash

\* A sector fills a block, and as one of a core only when it was one.
LEMMA PartIsBlock ==
  ASSUME NEW x
  PROVE  IsBlock(Part(x)) /\ Part(x).core \in DOMAIN Core \cup {"junk"}
         /\ (Part(x).core \in DOMAIN Core => Part(x).core = x.core /\ x.core \in DOMAIN Core)
  BY CoreAssumption DEF IsBlock, Part, Junk, Blank

\* What is made from a block is a block, and of the same core or of none.
LEMMA BlocksMade ==
  ASSUME NEW x, IsBlock(x)
  PROVE  /\ IsBlock(Blank) /\ IsBlock(Junk) /\ IsBlock(InAttic(x)) /\ IsBlock(Patched(x))
         /\ IsBlock(BodyOf(x)) /\ ~BodyOf(x).whole
         /\ Patched(x).core \in DOMAIN Core => x.whole /\ x.core \in DOMAIN Core /\ Patched(x).core = x.core
         /\ InAttic(x).core \in DOMAIN Core => InAttic(x) = x /\ ~board.atticbad
         /\ Blank.core \notin DOMAIN Core /\ Junk.core \notin DOMAIN Core
<1>1. IsBlock(Blank) /\ IsBlock(Junk) /\ Blank.core \notin DOMAIN Core /\ Junk.core \notin DOMAIN Core
  BY CoreAssumption DEF IsBlock, Junk, Blank
<1>2. \A y : IsBlock(y) => /\ IsBlock([y EXCEPT !.flags = hdr.flags])
                           /\ [y EXCEPT !.flags = hdr.flags].core = y.core
  BY DEF IsBlock, Blank
<1>3. IsBlock(BodyOf(x)) /\ ~BodyOf(x).whole
  BY DEF IsBlock, Blank, BodyOf
<1> QED  BY <1>1, <1>2, <1>3 DEF InAttic, Patched

\* Types, while a core is loaded: no file is longer than a slot.
LEMMA TypesFromLoading ==
  ASSUME TypeInv, FileInv, Loading
  PROVE  TypeInv'
<1>0. {"off", "menu", "load", "begin"} \subseteq Places
  BY DEF Places
<1>1. GivesUp => JobOK'
  BY <1>0, TypesStay, GoesOK DEF GivesUp
<1>2. CASE OpenCore
  <2>1. SdOK'
    BY <1>2, TypesStay, SdOpens DEF OpenCore, SdOK
  <2>2. JobOK'
    <3>1. CASE CannotOpen(sd)
      BY <1>1, <1>2, <3>1 DEF OpenCore
    <3>2. CASE ~CannotOpen(sd)
      <4>1. job' = [job EXCEPT !.pc = "load", !.at = 0, !.chain = <<>>]
        BY <1>2, <3>2 DEF OpenCore
      <4>2. 0 \in 0..SlotBlocks /\ IsSequence(<<>>)
        BY EmptySequence, CoreAssumption
      <4> QED  BY <1>0, <4>1, <4>2 DEF TypeInv, JobOK, Idle
    <3> QED  BY <3>1, <3>2
  <2> QED  BY <1>2, <2>1, <2>2, TypesStay DEF OpenCore, Works, TypeInv
<1>3. CASE LoadSector
  <2> DEFINE read == nhsd_read(sd)
  <2>1. DOMAIN read.s = SdFields
    BY TypesStay, SdReads DEF SdOK
  <2> HIDE DEF read
  <2>2. Loads(read) /\ job.at + 1 <= SlotBlocks
    BY <1>3, CoreAssumption
    DEF LoadSector, read, FileInv, Vetted, FileIsFor, HeaderOk, At, TypeInv, JobOK, HdrOK, IsHdr
  <2>3. SdOK'
    BY <2>1, <2>2 DEF Loads, SdOK
  <2>4. JobOK'
    <3>1. CASE read.err # "ok"
      BY <1>1, <2>2, <3>1 DEF Loads
    <3>2. CASE read.err = "ok"
      <4>1. job' = [job EXCEPT !.at = @ + 1,
                               !.chain = Append(@, [cluster |-> sd.cluster, within |-> sd.within])]
        BY <2>2, <3>2 DEF Loads
      <4>2. IsSequence(Append(job.chain, [cluster |-> sd.cluster, within |-> sd.within]))
        BY LongerSequence DEF TypeInv, JobOK
      <4>3. job.at + 1 \in 0..SlotBlocks
        BY <2>2, CoreAssumption DEF TypeInv, JobOK
      <4> QED  BY <4>1, <4>2, <4>3 DEF TypeInv, JobOK, Idle
    <3> QED  BY <3>1, <3>2
  <2>5. AtticOK'
    <3>1. CASE attic' = attic
      BY <3>1, TypesStay
    <3>2. CASE attic' = [attic EXCEPT ![job.at] = InAttic(Part(read.s.sector))]
      <4>1. IsBlock(InAttic(Part(read.s.sector)))
        BY PartIsBlock, BlocksMade
      <4> QED  BY <3>2, <4>1 DEF TypeInv, AtticOK
    <3> QED  BY <2>2, <3>1, <3>2 DEF Loads
  <2> QED  BY <1>3, <2>3, <2>4, <2>5, TypesStay DEF LoadSector, Works, TypeInv
<1>4. CASE AbortLoad
  <2>1. SdOK'
    BY <1>4, TypesStay, SdOpens DEF AbortLoad, SdOK
  <2> QED  BY <1>1, <1>4, <2>1, TypesStay DEF AbortLoad, Works, TypeInv
<1>5. CASE CheckCrc
  <2>1. SdOK'
    BY <1>5, TypesStay, SdOpens DEF CheckCrc, SdOK
  <2>2. JobOK'
    BY <1>0, <1>1, <1>5, TypesStay, GoesOK DEF CheckCrc
  <2>3. AtticOK'
    <3>1. CASE attic' = attic
      BY <3>1, TypesStay
    <3>2. CASE attic' = [attic EXCEPT ![0] = Patched(@)]
      <4>1. IsBlock(Patched(attic[0]))
        BY BlocksMade, CoreAssumption DEF TypeInv, AtticOK
      <4> QED  BY <3>2, <4>1 DEF TypeInv, AtticOK
    <3> QED  BY <1>5, <3>1, <3>2 DEF CheckCrc
  <2> QED  BY <1>5, <2>1, <2>2, <2>3, TypesStay DEF CheckCrc, Works, TypeInv
<1>6. CASE load_core_from_flash
  <2>1. JobOK'
    BY <1>0, <1>6, TypesStay, GoesOK DEF load_core_from_flash
  <2>2. CASE UNCHANGED <<attic, hdr, ui>>
    BY <1>6, <2>1, <2>2, TypesStay DEF load_core_from_flash, Works, TypeInv
  <2>3. CASE /\ attic' = [k \in DOMAIN attic |->
                            CASE k = 0          -> InAttic(Patched(flash[InSlot(0)]))
                              [] k \in 1..(EditBlocks - 1) -> InAttic(flash[InSlot(k)])
                              [] OTHER          -> attic[k]]
             /\ hdr' = [hdr EXCEPT !.length = EditBlocks]
             /\ ui' = [ui EXCEPT !.file = "valid"]
    <3>1. \A k \in 0..(SlotBlocks - 1) : IsBlock(flash[InSlot(k)])
      BY BlockOfSlot DEF TypeInv, FlashOK, JobOK, InSlot
    <3>2. \A x : IsBlock(x) => IsBlock(InAttic(x)) /\ IsBlock(InAttic(Patched(x)))
      BY BlocksMade
    <3>3. 0 \in 0..(SlotBlocks - 1) /\ 1..(EditBlocks - 1) \subseteq 0..(SlotBlocks - 1)
      BY CoreAssumption, FlasherAssumption
    <3>4. AtticOK'
      <4>1. DOMAIN attic' = 0..(SlotBlocks - 1)
        BY <2>3 DEF TypeInv, AtticOK
      <4>2. ASSUME NEW k \in 0..(SlotBlocks - 1) PROVE IsBlock(attic'[k])
        <5>1. CASE k = 0
          BY <2>3, <3>1, <3>2, <3>3, <5>1 DEF TypeInv, AtticOK
        <5>2. CASE k \in 1..(EditBlocks - 1)
          BY <2>3, <3>1, <3>2, <5>2 DEF TypeInv, AtticOK
        <5>3. CASE k # 0 /\ k \notin 1..(EditBlocks - 1)
          BY <2>3, <5>3 DEF TypeInv, AtticOK
        <5> QED  BY <5>1, <5>2, <5>3
      <4> QED  BY <4>1, <4>2 DEF AtticOK
    <3>5. HdrOK' /\ UiOK'
      BY <2>3, FlasherAssumption DEF TypeInv, HdrOK, IsHdr, HdrFields, NoHeader, UiOK, NoChoice
    <3> QED  BY <1>6, <2>1, <3>4, <3>5, TypesStay DEF load_core_from_flash, Works, TypeInv
  <2> QED  BY <1>6, <2>2, <2>3 DEF load_core_from_flash
<1> QED  BY <1>2, <1>3, <1>4, <1>5, <1>6 DEF Loading

\* What the loop of a block and the steps around it leave alone.
Frame == /\ UNCHANGED <<attic, hdr, ui, slots, erase0, board>>
         /\ DOMAIN sd' = SdFields /\ sd'.bus = sd.bus

\* A step that reads a block again or opens the file keeps the frame.
LEMMA FrameOK ==
  ASSUME TypeInv, Writes,
         \/ sd' = sd
         \/ sd' = nhsd_open(sd, hdr.ino)
         \/ sd' = Reread.s
  PROVE  /\ Frame
         /\ FlashOK' /\ JobOK' => TypeInv'
<1>1. DOMAIN sd' = SdFields /\ sd'.bus = sd.bus
  <2>1. ASSUME sd' = Reread.s PROVE DOMAIN sd' = SdFields /\ sd'.bus = sd.bus
    <3> DEFINE c == job.chain[job.at + 1].cluster
               w == job.chain[job.at + 1].within
               s == [sd EXCEPT !.cluster = c, !.within = w]
    <3>1. DOMAIN s = SdFields /\ s.bus = sd.bus
      BY DEF TypeInv, SdOK, SdFields, NotInitialised
    <3>2. Reread = IF FromDisk THEN nhsd_read(s) ELSE Result(sd, "ok")
      BY DEF Reread
    <3> HIDE DEF s
    <3>3. DOMAIN nhsd_read(s).s = SdFields /\ nhsd_read(s).s.bus = sd.bus
      BY <3>1, SdReads
    <3> QED  BY <2>1, <3>2, <3>3 DEF TypeInv, SdOK, Result
  <2> QED  BY <2>1, SdOpens DEF TypeInv, SdOK
<1> QED  BY <1>1, TypesStay DEF Frame, Writes, Works, TypeInv, SdOK

\* An entry of an erase list is a block of the slot, whatever the entry.
LEMMA ListBlockOK ==
  ASSUME NEW page \in Nat
  PROVE  ListBlock(page) \in 0..(SlotBlocks - 1)
<1>1. PagesPerBlock # 0
  BY FlasherAssumption
<1>2. page \div PagesPerBlock \in Nat
  BY <1>1, FlasherAssumption
<1> QED  BY <1>2, CoreAssumption DEF ListBlock

\* The commands of the chip leave blocks.
LEMMA ChipOK ==
  ASSUME FlashOK, NEW b \in Blocks
  PROVE  /\ Erased(b) \/ Spoilt(b) \/ SpoiltOrKept(b) => FlashOK'
         /\ \A from, to : IsBlock(to) /\ Programs(b, from, to) => FlashOK'
<1>1. IsBlock(Blank) /\ IsBlock(Junk)
  BY CoreAssumption DEF IsBlock, Junk, Blank
<1> QED  BY <1>1 DEF FlashOK, Erased, Spoilt, SpoiltOrKept, Programs

\* What is written is a block.
LEMMA SourceOK ==
  ASSUME AtticOK, NEW k \in 0..(SlotBlocks - 1)
  PROVE  IsBlock(Source(k))
  BY PartIsBlock DEF Source, AtticOK

Steps == begin \/ EraseList0 \/ EraseHeader \/ NextBlock \/ NextListed \/ Verify \/ GiveUp
         \/ EraseBlock \/ ProgramBody \/ ProgramHead

\* Every step of writing keeps the frame.
LEMMA StepsKeepFrame ==
  ASSUME TypeInv, Steps
  PROVE  Frame /\ (FlashOK' /\ JobOK' => TypeInv')
<1>1. Writes
  BY DEF Steps, begin, EraseList0, EraseHeader, NextBlock, NextListed, Verify, GiveUp,
         EraseBlock, ProgramBody, ProgramHead
<1>2. \/ sd' = sd
      \/ sd' = nhsd_open(sd, hdr.ino)
      \/ sd' = Reread.s
  BY DEF Steps, begin, EraseList0, EraseHeader, NextBlock, NextListed, Verify, GiveUp,
         EraseBlock, ProgramBody, ProgramHead
<1> QED  BY <1>1, <1>2, FrameOK

\* The only block that a step may change.
Target == IF At("list0") THEN ListBlock(erase0[1]) ELSE InSlot(job.at)
Changes == {"list0", "header", "erase", "body", "head"}

\* The block that may change is in the slot, or it is one of slot 0.
LEMMA TargetIsBlock ==
  ASSUME TypeInv, StageInv, job.pc \in Changes
  PROVE  Target \in Blocks /\ (At("list0") => Target \in 0..(SlotBlocks - 1))
                          /\ (~At("list0") => job.at \in 0..(SlotBlocks - 1))
<1>1. CASE At("list0")
  <2>1. erase0[1] \in Nat
    BY <1>1 DEF TypeInv, ListOK, StageInv
  <2>2. Target \in 0..(SlotBlocks - 1)
    BY <1>1, <2>1, ListBlockOK DEF Target
  <2>3. 0 \in Slots /\ 0 * SlotBlocks + Target = Target
    BY <2>2, CoreAssumption, FlasherAssumption DEF Slots
  <2> QED  BY <1>1, <2>2, <2>3, BlockOfSlot
<1>2. CASE ~At("list0")
  <2>1. job.at \in 0..(SlotBlocks - 1)
    BY <1>2, CoreAssumption DEF At, Changes, StageInv, Sectoring, TypeInv, JobOK
  <2> QED  BY <1>2, <2>1, BlockOfSlot DEF Target, InSlot, TypeInv, JobOK
<1> QED  BY <1>1, <1>2

\* A step of writing changes that block and no other.
LEMMA StepsChangeOneBlock ==
  ASSUME TypeInv, StageInv, Steps
  PROVE  /\ FlashOK'
         /\ \/ flash' = flash
            \/ job.pc \in Changes /\ \A b \in Blocks \ {Target} : flash'[b] = flash[b]
<1>1. CASE flash' = flash
  BY <1>1, TypesStay
<1>2. CASE flash' # flash
  <2>1. \/ EraseList0 \/ EraseHeader \/ EraseBlock \/ ProgramBody \/ ProgramHead
    BY <1>2 DEF Steps, begin, NextBlock, NextListed, Verify, GiveUp
  <2>2. job.pc \in Changes
    BY <2>1 DEF EraseList0, EraseHeader, EraseBlock, ProgramBody, ProgramHead, At, Changes
  <2>3. Target \in Blocks /\ (~At("list0") => job.at \in 0..(SlotBlocks - 1))
    BY <2>2, TargetIsBlock
  <2>4. ~At("list0") => IsBlock(Source(job.at)) /\ IsBlock(BodyOf(Source(job.at)))
    BY <2>3, SourceOK, BlocksMade DEF TypeInv
  <2>5. \/ Erased(Target) \/ Spoilt(Target) \/ SpoiltOrKept(Target)
        \/ \E from, to : IsBlock(to) /\ Programs(Target, from, to)
    BY <1>2, <2>1, <2>4
    DEF EraseList0, EraseHeader, EraseBlock, ProgramBody, ProgramHead, At, Target
  <2>6. FlashOK'
    BY <2>3, <2>5, ChipOK DEF TypeInv
  <2>7. \A b \in Blocks \ {Target} : flash'[b] = flash[b]
    BY <2>5 DEF Erased, Spoilt, SpoiltOrKept, Programs, TypeInv, FlashOK
  <2> QED  BY <2>2, <2>6, <2>7
<1> QED  BY <1>1, <1>2

\* Where each step goes, and what it takes along.
LEMMA StepsGo ==
  ASSUME TypeInv, StageInv, Steps
  PROVE  /\ JobOK' /\ StageInv'
         /\ job'.slot = job.slot /\ job'.chain = job.chain /\ job'.bringup = job.bringup
<1> DEFINE Along == job'.slot = job.slot /\ job'.chain = job.chain /\ job'.bringup = job.bringup
<1>0. /\ {"begin", "list0", "header", "next", "list", "verify", "erase", "body", "head", "finish",
          "rescan", "stuck"} \subseteq Places
      /\ 0 \in 0..SlotBlocks /\ SlotBlocks \in 0..SlotBlocks /\ 0 \in 0..MAX_RETRY
      /\ SlotBlocks \in Nat \ {0} /\ MAX_RETRY \in Nat \ {0}
  BY CoreAssumption, FlasherAssumption DEF Places
<1>f. Frame
  BY StepsKeepFrame
<1>j. JobOK /\ DOMAIN job = DOMAIN Idle /\ job.at \in Nat /\ job.el \in Nat /\ job.tries \in 0..MAX_RETRY
  BY <1>0 DEF TypeInv, JobOK
<1>h. hdr' = hdr /\ ui' = ui /\ erase0' = erase0 /\ hdr.length \in Nat /\ Len(hdr.list) \in Nat
  BY <1>f DEF Frame, TypeInv, HdrOK, IsHdr
<1>g. ASSUME NEW pc \in Places \ {"menu"}, Goes(pc)
      PROVE  /\ JobOK' /\ Along /\ job'.pc = pc /\ job'.at = job.at /\ job'.tries = job.tries
             /\ job'.el = job.el /\ job'.back = job.back
  BY <1>j, <1>g, GoesOK
<1>1. CASE begin
  <2>1. \/ Goes("rescan")
        \/ job' = [job EXCEPT !.pc = IF job.slot = 0 /\ erase0 # <<>> THEN "list0" ELSE "header",
                              !.at = 0, !.el = IF job.slot = 0 THEN Len(hdr.list) ELSE 0]
    BY <1>1 DEF begin
  <2>2. CASE Goes("rescan")
    BY <1>0, <1>g, <2>2 DEF StageInv, At, Writing, Sectoring
  <2>3. CASE job' = [job EXCEPT !.pc = IF job.slot = 0 /\ erase0 # <<>> THEN "list0" ELSE "header",
                                !.at = 0, !.el = IF job.slot = 0 THEN Len(hdr.list) ELSE 0]
    <3>1. JobOK' /\ Along
      BY <1>0, <1>h, <1>j, <2>3 DEF JobOK, Idle
    <3>2. /\ job'.pc = (IF job.slot = 0 /\ erase0 # <<>> THEN "list0" ELSE "header") /\ job'.at = 0
          /\ job'.el = IF job.slot = 0 THEN Len(hdr.list) ELSE 0
      BY <1>j, <2>3 DEF Idle
    <3>3. ui.file # "none" /\ job.slot \in Nat
      BY <1>1, FlasherAssumption DEF begin, StageInv, TypeInv, JobOK, Slots
    <3> QED  BY <1>0, <1>h, <3>1, <3>2, <3>3 DEF StageInv, At, Writing, Sectoring
  <2> QED  BY <2>1, <2>2, <2>3
<1>2. CASE EraseList0
  <2>1. Goes("header") \/ Goes("rescan")
    BY <1>2 DEF EraseList0
  <2>2. ui.file # "none" /\ job.slot = 0 /\ job.at = 0 /\ job.el <= Len(hdr.list)
    BY <1>2 DEF EraseList0, StageInv, At, Writing, Sectoring
  <2> QED  BY <1>0, <1>g, <1>h, <2>1, <2>2 DEF StageInv, At, Writing, Sectoring
<1>3. CASE EraseHeader
  <2>1. /\ ui.file # "none" /\ job.at < SlotBlocks /\ (ui.file = "valid" => job.at = 0)
        /\ job.el <= Len(hdr.list) /\ (job.slot > 0 => job.el = 0)
    BY <1>3 DEF EraseHeader, StageInv, At, Writing, Sectoring
  <2>2. ui.file \in {"valid", "erase"} /\ ToErase \in 1..SlotBlocks
    BY <1>0, <2>1 DEF TypeInv, UiOK, ToErase
  <2>3. \/ job.at + 1 < ToErase /\ job' = [job EXCEPT !.at = @ + 1]
        \/ HeaderIsErased
        \/ Goes("rescan")
    BY <1>3 DEF EraseHeader
  <2>4. CASE job.at + 1 < ToErase /\ job' = [job EXCEPT !.at = @ + 1]
    <3>1. job'.pc = job.pc /\ job'.at = job.at + 1 /\ job'.el = job.el /\ Along
      BY <1>j, <2>4 DEF Idle
    <3>2. job.at + 1 \in 0..SlotBlocks /\ job.at + 1 < SlotBlocks /\ ui.file = "erase"
      BY <1>0, <1>j, <2>2, <2>4 DEF ToErase
    <3>3. JobOK'
      BY <1>j, <2>4, <3>2 DEF JobOK, Idle
    <3> QED  BY <1>3, <1>h, <2>1, <3>1, <3>2, <3>3 DEF EraseHeader, StageInv, At, Writing, Sectoring
  <2>5. CASE HeaderIsErased
    <3>1. /\ job'.pc = (IF ui.file = "erase" THEN "finish" ELSE "next") /\ job'.at = SlotBlocks
          /\ job'.el = job.el /\ Along
      BY <1>j, <2>5 DEF HeaderIsErased, Idle
    <3>2. JobOK'
      BY <1>0, <1>j, <2>5 DEF HeaderIsErased, JobOK, Idle
    <3> QED  BY <1>h, <2>1, <2>2, <3>1, <3>2 DEF StageInv, At, Writing, Sectoring
  <2>6. CASE Goes("rescan")
    BY <1>0, <1>g, <2>6 DEF StageInv, At, Writing, Sectoring
  <2> QED  BY <2>3, <2>4, <2>5, <2>6
<1>4. CASE NextBlock
  <2>1. ui.file = "valid" /\ job.el <= Len(hdr.list) /\ (job.slot > 0 => job.el = 0)
    BY <1>4 DEF NextBlock, StageInv, At, Writing, Sectoring
  <2>2. CASE job.at = 0
    <3>1. job' = [job EXCEPT !.pc = IF job.slot = 0 THEN "list" ELSE "finish", !.el = Len(hdr.list)]
      BY <1>4, <2>2 DEF NextBlock
    <3>2. /\ job'.pc = (IF job.slot = 0 THEN "list" ELSE "finish") /\ job'.at = 0
          /\ job'.el = Len(hdr.list) /\ Along
      BY <1>j, <2>2, <3>1 DEF Idle
    <3>3. JobOK'
      BY <1>0, <1>h, <1>j, <3>1 DEF JobOK, Idle
    <3>4. job.slot \in Nat
      BY FlasherAssumption DEF TypeInv, JobOK, Slots
    <3> QED  BY <1>h, <2>1, <3>2, <3>3, <3>4 DEF StageInv, At, Writing, Sectoring
  <2>3. CASE job.at > 0
    <3> DEFINE b == job.at - 1
    <3>1. b \in 0..SlotBlocks /\ b < SlotBlocks /\ b \in Nat
      BY <1>0, <1>j, <2>3 DEF JobOK
    <3>2. \/ Skipped(b) /\ job' = [job EXCEPT !.at = b]
          \/ OnList(b) /\ job' = [job EXCEPT !.at = b, !.el = @ - 1]
          \/ ~Skipped(b) /\ WriteBlock(b, "next")
      BY <1>4, <1>j, <2>3 DEF NextBlock
    <3> HIDE DEF b
    <3>3. CASE job' = [job EXCEPT !.at = b]
      <4>1. job'.pc = "next" /\ job'.el = job.el /\ Along /\ JobOK'
        BY <1>4, <1>j, <3>1, <3>3 DEF JobOK, Idle, NextBlock, At
      <4> QED  BY <1>h, <2>1, <4>1 DEF StageInv, At, Writing, Sectoring
    <3>4. CASE OnList(b) /\ job' = [job EXCEPT !.at = b, !.el = @ - 1]
      <4>1. job.el > 0 /\ job.el - 1 \in Nat
        BY <1>j, <3>4 DEF OnList
      <4>2. PICK el \in Nat : el = job.el - 1
        BY <4>1
      <4>3. job'.pc = "next" /\ job'.el = el /\ Along /\ JobOK'
        BY <1>4, <1>j, <3>1, <3>4, <4>2 DEF JobOK, Idle, NextBlock, At
      <4>4. el <= Len(hdr.list) /\ job.slot <= 0
        BY <1>h, <1>j, <2>1, <4>1, <4>2, FlasherAssumption DEF JobOK, Slots
      <4> QED  BY <1>h, <2>1, <4>3, <4>4, FlasherAssumption DEF JobOK, Slots, StageInv, At, Writing, Sectoring
    <3>5. CASE ~Skipped(b) /\ WriteBlock(b, "next")
      <4>1. /\ job'.pc = "verify" /\ job'.el = job.el /\ job'.at = b /\ job'.back = "next"
            /\ Along /\ JobOK'
        BY <1>0, <1>j, <3>1, <3>5 DEF JobOK, Idle, WriteBlock
      <4>2. b < hdr.length
        BY <1>h, <3>1, <3>5 DEF Skipped
      <4> QED  BY <1>h, <2>1, <3>1, <4>1, <4>2 DEF StageInv, At, Writing, Sectoring
    <3> QED  BY <3>2, <3>3, <3>4, <3>5
  <2> QED  BY <1>j, <2>2, <2>3
<1>5. CASE NextListed
  <2>1. ui.file = "valid" /\ job.el <= Len(hdr.list) /\ job.slot = 0
    BY <1>5 DEF NextListed, StageInv, At, Writing, Sectoring
  <2>2. CASE job.el = 0
    <3>1. Goes("finish")
      BY <1>5, <2>2 DEF NextListed
    <3> QED  BY <1>0, <1>g, <1>h, <2>1, <3>1 DEF StageInv, At, Writing, Sectoring
  <2>3. CASE job.el > 0
    <3>1. PICK el \in Nat : el = job.el - 1
      BY <1>j, <2>3
    <3>2. el <= Len(hdr.list) /\ hdr.list[job.el] \in Nat
      BY <1>h, <1>j, <2>1, <2>3, <3>1 DEF TypeInv, HdrOK, IsHdr
    <3> DEFINE b == ListBlock(hdr.list[job.el])
    <3>3. b \in 0..SlotBlocks /\ b < SlotBlocks
      <4>1. b \in 0..(SlotBlocks - 1)
        BY <3>2, ListBlockOK
      <4> HIDE DEF b
      <4> QED  BY <1>0, <4>1
    <3>4. \/ job' = [job EXCEPT !.el = el]
          \/ job' = [job EXCEPT !.pc = "verify", !.at = b, !.tries = 0, !.back = "list", !.el = el]
      BY <1>5, <1>j, <2>3, <3>1 DEF NextListed
    <3> HIDE DEF b
    <3>5. CASE job' = [job EXCEPT !.el = el]
      <4>1. job'.pc = "list" /\ job'.el = el /\ Along /\ JobOK'
        BY <1>5, <1>j, <3>5 DEF JobOK, Idle, NextListed, At
      <4> QED  BY <1>h, <2>1, <3>2, <4>1 DEF StageInv, At, Writing, Sectoring
    <3>6. CASE job' = [job EXCEPT !.pc = "verify", !.at = b, !.tries = 0, !.back = "list", !.el = el]
      <4>1. /\ job'.pc = "verify" /\ job'.el = el /\ job'.at = b /\ job'.back = "list"
            /\ Along /\ JobOK'
        BY <1>0, <1>j, <3>3, <3>6 DEF JobOK, Idle
      <4> QED  BY <1>h, <2>1, <3>2, <3>3, <4>1 DEF StageInv, At, Writing, Sectoring
    <3> QED  BY <3>4, <3>5, <3>6
  <2> QED  BY <1>j, <2>2, <2>3
<1>6. CASE job.pc \in Sectoring
  <2>1. /\ ui.file = "valid" /\ job.el <= Len(hdr.list) /\ (job.slot > 0 => job.el = 0)
        /\ job.at < SlotBlocks
        /\ job.back = "next" => job.at < hdr.length
        /\ job.back = "list" => job.slot = 0
        /\ ~At("verify") => job.tries < MAX_RETRY
    BY <1>6 DEF StageInv, At, Writing, Sectoring
  <2>2. \/ \E pc \in {"rescan", "stuck", "next", "list"} : Goes(pc) /\ (pc = "list" => job.back = "list")
        \/ \E pc \in {"erase", "body", "head"} : Goes(pc) /\ job.tries < MAX_RETRY
        \/ TriesAgain /\ job.tries < MAX_RETRY
    <3>1. CASE Verify
      <4>1. job.tries < MAX_RETRY /\ (Goes(job.back) \/ Goes("erase")) /\ job.back \in {"next", "list"}
        BY <1>j, <3>1 DEF Verify, Differs, JobOK
      <4> QED  BY <4>1
    <3>2. CASE GiveUp
      <4>1. ~(job.tries < MAX_RETRY)
        BY <1>0, <3>2 DEF GiveUp
      <4>2. Goes("rescan") \/ Goes("stuck")
        BY <3>2, <4>1 DEF GiveUp, Differs
      <4> QED  BY <4>2
    <3>3. CASE EraseBlock \/ ProgramBody \/ ProgramHead
      <4>1. ~At("verify")
        BY <3>3 DEF EraseBlock, ProgramBody, ProgramHead, At
      <4>2. Goes("body") \/ Goes("rescan") \/ Goes("head") \/ TriesAgain
        BY <3>3 DEF EraseBlock, ProgramBody, ProgramHead
      <4> QED  BY <2>1, <4>1, <4>2
    <3> QED
      BY <1>6, <3>1, <3>2, <3>3
      DEF Steps, begin, EraseList0, EraseHeader, NextBlock, NextListed, At, Sectoring
  <2>3. ASSUME NEW pc \in {"rescan", "stuck", "next", "list"}, Goes(pc), pc = "list" => job.back = "list"
        PROVE  JobOK' /\ StageInv' /\ Along
    BY <1>0, <1>g, <1>h, <2>1, <2>3 DEF StageInv, At, Writing, Sectoring
  <2>4. ASSUME NEW pc \in {"erase", "body", "head"}, Goes(pc), job.tries < MAX_RETRY
        PROVE  JobOK' /\ StageInv' /\ Along
    BY <1>0, <1>g, <1>h, <2>1, <2>4 DEF StageInv, At, Writing, Sectoring
  <2>5. ASSUME TriesAgain, job.tries < MAX_RETRY
        PROVE  JobOK' /\ StageInv' /\ Along
    <3>1. job.tries + 1 \in 0..MAX_RETRY
      BY <1>0, <1>j, <2>5
    <3>2. /\ job'.pc = "verify" /\ job'.at = job.at /\ job'.el = job.el /\ job'.back = job.back
          /\ Along /\ JobOK'
      BY <1>0, <1>j, <2>5, <3>1 DEF TriesAgain, JobOK, Idle
    <3> QED  BY <1>h, <2>1, <3>2 DEF StageInv, At, Writing, Sectoring
  <2> QED  BY <2>2, <2>3, <2>4, <2>5
<1>7. CASE Verify \/ GiveUp \/ EraseBlock \/ ProgramBody \/ ProgramHead
  BY <1>6, <1>7 DEF Verify, GiveUp, EraseBlock, ProgramBody, ProgramHead, At, Sectoring
<1> QED  BY <1>1, <1>2, <1>3, <1>4, <1>5, <1>7 DEF Steps

Others == perhaps_reconfig \/ Leave \/ Rescan \/ CardFails \/ PowerCycle

\* Types, for what ends writing and what goes wrong.
LEMMA TypesFromOthers ==
  ASSUME TypeInv, StageInv, Others
  PROVE  TypeInv'
<1>0. {"core", "hyppo", "off", "menu", "start"} \subseteq Places /\ 0 \in Slots
  BY FlasherAssumption DEF Places, Slots
<1>1. CASE perhaps_reconfig
  BY <1>0, <1>1, HandsOverOK DEF perhaps_reconfig
<1>2. CASE Leave
  BY <1>0, <1>2, HandsOverOK DEF Leave, hard_exit
<1>3. CASE Rescan
  <2>1. SlotsOK' /\ ListOK'
    BY <1>3, TypesStay, TableIsTrue DEF Rescan, scan_core_information
  <2>2. JobOK'
    BY <1>0, <1>3, TypesStay, GoesOK DEF Rescan
  <2> QED  BY <1>3, <2>1, <2>2, TypesStay DEF Rescan, TypeInv
<1>4. CASE CardFails
  <2>1. SdOK'
    BY <1>4 DEF CardFails, TypeInv, SdOK, SdFields, NotInitialised
  <2> QED  BY <1>4, <2>1, TypesStay DEF CardFails, TypeInv
<1>5. CASE PowerCycle
  <2>1. FlashOK'
    <3>1. CASE UNCHANGED flash
      BY <3>1, TypesStay
    <3>2. ASSUME NEW b \in Changing, Spoilt(b) PROVE FlashOK'
      <4>1. job.pc \in Changes /\ b = Target
        BY <3>2 DEF Changing, Changes, Target, At
      <4> QED  BY <3>2, <4>1, TargetIsBlock, TypesStay, ChipOK
    <3> QED  BY <1>5, <3>1, <3>2 DEF PowerCycle
  <2>2. JobOK'
    BY <1>0, <1>5, EmptySequence, CoreAssumption, FlasherAssumption DEF PowerCycle, JobOK, Idle
  <2>3. board' \in Boards
    BY <1>5 DEF PowerCycle
  <2> QED  BY <1>5, <2>1, <2>2, <2>3, FreshOK DEF PowerCycle, TypeInv
<1> QED  BY <1>1, <1>2, <1>3, <1>4, <1>5 DEF Others

Starting == LeaveAtOnce \/ StartUp \/ Interactive

\* The steps, by what they work on.
LEMMA NextIs ==
  ASSUME Next
  PROVE  Starting \/ Editing \/ Choosing \/ Loading \/ Steps \/ Others
  BY DEF Next, Flashing, User, Starting, Editing, Choosing, Loading, Steps, Others

\* Every step keeps the types.
LEMMA TypeStep ==
  ASSUME TypeInv, StageInv, FileInv, Next
  PROVE  TypeInv'
  BY NextIs, TypesFromStart, TypesFromEditing, TypesFromChoosing, TypesFromLoading, TypesFromOthers,
     StepsKeepFrame, StepsGo, StepsChangeOneBlock
  DEF Starting
-----------------------------------------------------------------------------
(* From the file to the plan: what the invariant says before writing.       *)

\* Where nothing is written there is nothing to say of what is written.
LEMMA OutOfPlan ==
  ASSUME job'.pc \notin Planned
  PROVE  StageInv' /\ PlanInv' /\ HeaderGone' /\ WrittenInv'
  BY DEF Planned, Writing, Sectoring, StageInv, PlanInv, HeaderGone, WrittenInv, At

\* The table stays current while the flash and the table stay.
LEMMA TableStays ==
  ASSUME flash' = flash, slots' = slots
  PROVE  Current <=> Current'
  BY DEF Current, HasCore

\* What the program knows of the file stays while the header and the card do.
LEMMA FileStays ==
  ASSUME UNCHANGED <<attic, board>>, ui'.file = ui.file, ui'.disabled = ui.disabled,
         sd'.bus = sd.bus, hdr'.ino = hdr.ino, hdr'.length = hdr.length, hdr'.list = hdr.list,
         job'.slot = job.slot
  PROVE  /\ Vetted <=> Vetted'
         /\ FromDisk <=> FromDisk'
         /\ job'.at = job.at /\ job'.chain = job.chain /\ sd'.cluster = sd.cluster /\ sd'.within = sd.within
              => (FirstIsLoaded <=> FirstIsLoaded')
<1>1. HeaderAt(sd', hdr') = HeaderAt(sd, hdr)
  BY DEF HeaderAt
<1>2. FromDisk <=> FromDisk'
  BY DEF FromDisk, IsSolo
<1>3. Vetted <=> Vetted'
  BY <1>1 DEF Vetted, FileIsFor
<1> QED  BY <1>1, <1>2, <1>3 DEF FirstIsLoaded, InAttic

\* What a step outside writing keeps of the rest of the invariant.
Kept == /\ flash' = flash /\ job'.pc \notin Planned \ {"begin"}
        /\ StageInv' /\ FileInv' /\ ScanInv' /\ PlanInv' /\ HeaderGone'

\* Starting: only a file that is for slot 0 brings a board up.
LEMMA StartKeeps ==
  ASSUME TypeInv, FileInv, Starting
  PROVE  Kept
<1>0. /\ {"hyppo", "core", "open", "menu", "interactive"} \subseteq Places /\ 0 \in Slots
      /\ {"hyppo", "core", "open", "menu", "interactive", "off"} \cap Planned = {}
      /\ DOMAIN job = DOMAIN Idle
  BY FlasherAssumption DEF Places, Slots, Planned, Writing, Sectoring, TypeInv, JobOK
<1>1. ASSUME NEW pc \in {"hyppo", "core"}, NEW slot \in Slots, HandsOver(pc, slot) PROVE Kept
  <2>1. job'.pc = pc /\ flash' = flash
    BY <1>0, <1>1, HandsOverOK
  <2> QED  BY <1>0, <2>1, OutOfPlan DEF Kept, FileInv, ScanInv, At
<1>2. ASSUME At("start"), Brings, BringUp PROVE Kept
  <2>1. /\ job'.pc = "open" /\ job'.bringup = TRUE /\ job'.slot = 0 /\ ui'.file = "valid"
        /\ flash' = flash
    BY <1>0, <1>2 DEF BringUp, TypeInv, UiOK, Idle, NoChoice
  <2>2. PICK mega \in BOOLEAN : mega = TRUE
    OBVIOUS
  <2>3. FileIsFor(FoundFile.s, FoundFile.h, mega)
    <3>1. ~hdr.auto
      BY <1>2 DEF FileInv
    <3> QED  BY <1>2, <2>2, <3>1, FileIsFound DEF Brings, FoundFile, TypeInv, SdOK, HdrOK
  <2>4. (job'.slot = 0) = mega
    BY <2>1, <2>2
  <2>5. Vetted'
    BY <1>2, <2>1, <2>3, <2>4 DEF BringUp, Vetted
  <2> QED  BY <1>0, <2>1, <2>5, OutOfPlan DEF Kept, FileInv, ScanInv, At
<1>3. ASSUME NEW bad, WarnsOf(bad) PROVE Kept
  <2>1. job'.pc = "interactive" /\ flash' = flash
    BY <1>0, <1>3, GoesOK DEF WarnsOf, TypeInv
  <2> QED  BY <1>0, <2>1, OutOfPlan DEF Kept, FileInv, ScanInv, At
<1>4. CASE Interactive
  <2>1. job'.pc = "menu" /\ flash' = flash /\ job'.bringup = FALSE
    BY <1>4 DEF Interactive, Idle
  <2>2. Current'
    BY <1>4, <2>1, TypesStay, TableIsTrue DEF Interactive, scan_core_information, Current, HasCore
  <2> QED  BY <1>0, <2>1, <2>2, OutOfPlan DEF Kept, FileInv, ScanInv, At
<1>5. CASE LeaveAtOnce
  BY <1>0, <1>1, <1>5 DEF LeaveAtOnce, hard_exit
<1>6. CASE StartUp
  <2>1. ASSUME NEW bad, StartSelected(bad) PROVE Kept
    <3>1. Selected(check_cartridge(board.cart), bad) \in Slots
      BY SelectedIsSlot DEF TypeInv
    <3> QED  BY <1>1, <2>1, <3>1 DEF StartSelected
  <2> QED  BY <1>0, <1>1, <1>2, <1>3, <1>6, <2>1 DEF StartUp, hard_exit
<1> QED  BY <1>4, <1>5, <1>6 DEF Starting

\* The editor: what is chosen stays chosen while flags are changed.
LEMMA EditingKeeps ==
  ASSUME TypeInv, FileInv, ScanInv, StageInv, PlanInv, HeaderGone, Editing
  PROVE  Kept
<1>0. /\ {"menu", "begin", "open", "reread", "edit"} \subseteq Places
      /\ {"menu", "open", "reread", "edit"} \cap Planned = {}
      /\ DOMAIN job = DOMAIN Idle /\ DOMAIN ui = DOMAIN NoChoice /\ DOMAIN hdr = HdrFields
      /\ JobOK
  BY DEF Places, Planned, Writing, Sectoring, TypeInv, JobOK, UiOK, HdrOK, IsHdr
<1>f. flash' = flash /\ attic' = attic /\ board' = board
  BY DEF Editing, display_version, EditSlot, Cancel, ToggleFlag, ToggleAttic, ChooseErase, Flash, Key
<1>1. CASE display_version
  <2>1. job' = job /\ job.pc = "menu"
    BY <1>1 DEF display_version, Key, At
  <2>2. Current'
    BY <1>1, <1>f, TypesStay, TableIsTrue DEF display_version, Current, HasCore
  <2> QED  BY <1>0, <1>f, <2>1, <2>2, OutOfPlan DEF Kept, FileInv, ScanInv, At
<1>2. CASE EditSlot
  <2>1. /\ job'.pc = "edit" /\ job'.bringup = FALSE /\ ui'.file = "none"
        /\ slots' = slots /\ job.pc = "menu"
    BY <1>0, <1>2 DEF EditSlot, Key, At, Idle, NoChoice
  <2>2. Current'
    BY <1>f, <2>1, TableStays DEF ScanInv
  <2> QED  BY <1>0, <1>f, <2>1, <2>2, OutOfPlan DEF Kept, FileInv, ScanInv, At
<1>3. CASE Cancel
  <2>1. job'.pc = "menu" /\ job'.bringup = FALSE /\ slots' = slots /\ job.pc = "edit"
    BY <1>0, <1>3, GoesOK DEF Cancel, Key, At, Idle
  <2>2. Current'
    BY <1>f, <2>1, TableStays DEF ScanInv
  <2> QED  BY <1>0, <1>f, <2>1, <2>2, OutOfPlan DEF Kept, FileInv, ScanInv, At
<1>4. CASE ToggleFlag \/ ToggleAttic \/ ChooseErase
  <2>1. job' = job /\ job.pc = "edit" /\ slots' = slots /\ sd' = sd
    BY <1>4 DEF ToggleFlag, ToggleAttic, ChooseErase, Key, At
  <2>2. Current'
    BY <1>f, <2>1, TableStays DEF ScanInv
  <2>3. ui'.file = "valid" => Vetted'
    <3>1. CASE ui'.file = "valid"
      <4>1. /\ ui.file = "valid" /\ hdr'.ino = hdr.ino
            /\ hdr'.length = hdr.length /\ hdr'.list = hdr.list
        BY <1>0, <1>4, <3>1 DEF ToggleFlag, ToggleAttic, ChooseErase, NoChoice, HdrFields, NoHeader
      <4>2. Vetted
        BY <2>1, <4>1 DEF FileInv, At
      <4> QED  BY <2>1, <3>1, <4>1, <4>2 DEF Vetted, FileIsFor, HeaderAt
    <3> QED  BY <3>1
  <2> QED  BY <1>0, <1>f, <2>1, <2>2, <2>3, OutOfPlan DEF Kept, FileInv, ScanInv, At
<1>5. CASE Flash
  <2>1. /\ job.pc = "edit" /\ UNCHANGED <<sd, hdr, slots, ui>>
        /\ \/ ui.file = "erase" /\ Goes("begin")
           \/ ui.file = "valid" /\ Goes("open")
           \/ ~FromDisk /\ Goes("reread")
    BY <1>5 DEF Flash, Key, At
  <2>2. ~job.bringup /\ job'.bringup = job.bringup /\ job'.slot = job.slot
    BY <1>0, <2>1, GoesOK DEF ScanInv
  <2>3. Current'
    BY <1>f, <2>1, TableStays DEF ScanInv
  <2>4. CASE ui.file = "erase" /\ Goes("begin")
    <3>1. job'.pc = "begin" /\ ui'.file = "erase"
      BY <1>0, <2>1, <2>4, GoesOK
    <3> QED
      BY <1>0, <1>f, <3>1
      DEF Kept, StageInv, FileInv, ScanInv, PlanInv, HeaderGone, At, Planned, Writing, Sectoring
  <2>5. CASE ui.file = "valid" /\ Goes("open")
    <3>1. job'.pc = "open"
      BY <1>0, <2>5, GoesOK
    <3>2. Vetted
      BY <2>1, <2>5 DEF FileInv, At
    <3>3. Vetted'
      BY <2>1, <2>2, <3>2 DEF Vetted, FileIsFor, HeaderAt
    <3> QED  BY <1>0, <1>f, <2>2, <2>3, <3>1, <3>3, OutOfPlan DEF Kept, FileInv, ScanInv, At
  <2>6. CASE ~FromDisk /\ Goes("reread")
    <3>1. job'.pc = "reread"
      BY <1>0, <2>6, GoesOK
    <3>2. ~FromDisk'
      BY <1>f, <2>1, <2>6 DEF FromDisk, IsSolo
    <3> QED  BY <1>0, <1>f, <2>2, <2>3, <3>1, <3>2, OutOfPlan DEF Kept, FileInv, ScanInv, At
  <2> QED  BY <2>1, <2>4, <2>5, <2>6
<1> QED  BY <1>1, <1>2, <1>3, <1>4, <1>5 DEF Editing

\* The chooser: what was picked is what was looked at.
LEMMA ChoosingKeeps ==
  ASSUME TypeInv, FileInv, ScanInv, Choosing
  PROVE  Kept
<1>0. /\ {"select", "edit"} \subseteq Places
      /\ {"select", "edit"} \cap Planned = {}
      /\ DOMAIN job = DOMAIN Idle /\ DOMAIN ui = DOMAIN NoChoice /\ JobOK
  BY DEF Places, Planned, Writing, Sectoring, TypeInv, JobOK, UiOK
<1>f. /\ flash' = flash /\ attic' = attic /\ board' = board /\ slots' = slots
      /\ job.pc \in {"edit", "select"}
  BY DEF Choosing, ChooseCore, SwitchDisk, SwitchDir, Move, Preview, Pick, Abort, Key, Lists,
         SlotsStay, At
<1>c. Current' /\ ~job.bringup
  BY <1>f, TableStays DEF ScanInv
<1>1. ASSUME NEW pc \in {"select", "edit"}, job' = job \/ Goes(pc), job'.pc = pc,
             pc = "edit" /\ ui'.file = "valid" => Vetted'
      PROVE  Kept
  <2>1. job'.bringup = job.bringup
    BY <1>0, <1>1, GoesOK
  <2> QED  BY <1>0, <1>f, <1>c, <1>1, <2>1, OutOfPlan DEF Kept, FileInv, ScanInv, At
<1>2. CASE ChooseCore \/ SwitchDisk \/ SwitchDir
  <2>1. PICK loaded : Lists(loaded)
    BY <1>2 DEF ChooseCore, SwitchDisk, SwitchDir
  <2>2. Chosen("none").file = "none"
    BY <1>0 DEF Chosen, NoChoice
  <2>3. PICK pc \in {"select", "edit"} : Goes(pc) /\ (pc = "edit" => ui'.file = "none")
    BY <2>1, <2>2 DEF Lists
  <2> QED  BY <1>0, <1>1, <2>3, GoesOK
<1>3. CASE Move \/ Preview
  BY <1>1, <1>3 DEF Move, Preview, Key, At
<1>4. CASE Abort
  <2>1. ui'.file = "none" /\ Goes("edit")
    BY <1>0, <1>4 DEF Abort, Chosen, NoChoice
  <2> QED  BY <1>0, <1>1, <2>1, GoesOK
<1>5. CASE Pick
  <2>1. PICK ino : /\ sd' = CheckedAt(ino).s /\ hdr' = CheckedAt(ino).h
                   /\ \/ CheckedAt(ino).ok /\ ui' = Chosen("valid") /\ Goes("edit")
                      \/ UNCHANGED job
    BY <1>5 DEF Pick
  <2>2. job.pc = "select"
    BY <1>5 DEF Pick, Key, At
  <2>3. CASE UNCHANGED job
    BY <1>1, <2>2, <2>3
  <2>4. CASE CheckedAt(ino).ok /\ ui' = Chosen("valid") /\ Goes("edit")
    <3> DEFINE mega == job.slot = 0
               h == [hdr EXCEPT !.ino = ino]
    <3>1. DOMAIN sd = SdFields /\ IsHdr(h)
      BY DEF TypeInv, SdOK, HdrOK, IsHdr, HdrFields, NoHeader
    <3>2. CheckedAt(ino) = mfsc_checkcore(sd, h, mega)
      BY DEF CheckedAt
    <3>3. PICK m \in BOOLEAN : m = mega
      OBVIOUS
    <3>4. CheckedAt(ino) = mfsc_checkcore(sd, h, m)
      BY <3>2, <3>3
    <3> HIDE DEF h, mega
    <3>5. FileIsFor(CheckedAt(ino).s, CheckedAt(ino).h, m)
      BY <2>4, <3>1, <3>4, HeaderIsLooked
    <3>6. job'.slot = job.slot /\ job'.pc = "edit" /\ ui'.file = "valid"
      BY <1>0, <2>4, GoesOK DEF Chosen, NoChoice
    <3>7. (job'.slot = 0) = m
      BY <3>3, <3>6 DEF mega
    <3>8. Vetted'
      BY <2>1, <3>5, <3>6, <3>7 DEF Vetted
    <3> QED  BY <1>1, <2>4, <3>6, <3>8
  <2> QED  BY <2>1, <2>3, <2>4
<1> QED  BY <1>2, <1>3, <1>4, <1>5 DEF Choosing

\* The program gives up to where nothing is planned, with the table as it was.
LEMMA GivingUpKeeps ==
  ASSUME TypeInv, ScanInv, GivesUp, flash' = flash, slots' = slots,
         job.pc \in {"open", "load"}
  PROVE  Kept /\ job'.pc \in {"off", "menu"}
<1>0. {"off", "menu"} \subseteq Places /\ {"off", "menu"} \cap Planned = {} /\ JobOK
  BY DEF Places, Planned, Writing, Sectoring, TypeInv
<1>1. CASE job.bringup
  <2>1. job'.pc = "off"
    BY <1>0, <1>1, GoesOK DEF GivesUp
  <2> QED  BY <1>0, <2>1, OutOfPlan DEF Kept, FileInv, ScanInv, At
<1>2. CASE ~job.bringup
  <2>1. job'.pc = "menu" /\ job'.bringup = FALSE
    BY <1>0, <1>2, GoesOK DEF GivesUp, Idle
  <2>2. Current'
    BY <1>2, TableStays DEF ScanInv
  <2> QED  BY <1>0, <2>1, <2>2, OutOfPlan DEF Kept, FileInv, ScanInv, At
<1> QED  BY <1>1, <1>2

\* The first sector of the file that is opened is the header that was seen.
LEMMA LoadingKeeps ==
  ASSUME TypeInv, FileInv, ScanInv, OpenCore \/ LoadSector \/ AbortLoad
  PROVE  Kept
<1>0. /\ "load" \in Places /\ "load" \notin Planned /\ JobOK /\ DOMAIN job = DOMAIN Idle
      /\ DOMAIN sd = SdFields
  BY DEF Places, Planned, Writing, Sectoring, TypeInv, JobOK, SdOK
<1>f. flash' = flash /\ slots' = slots /\ hdr' = hdr /\ ui' = ui /\ board' = board
  BY DEF OpenCore, LoadSector, AbortLoad, Works
<1>1. CASE AbortLoad
  BY <1>1, <1>f, GivingUpKeeps DEF AbortLoad, At
<1>2. ASSUME job.pc \in {"open", "load"}, job'.pc = "load", job'.bringup = job.bringup,
             Vetted', FirstIsLoaded', job'.at <= hdr.length
      PROVE  Kept
  <2>1. ~job.bringup => Current'
    BY <1>2, <1>f, TableStays DEF ScanInv
  <2> QED  BY <1>0, <1>f, <1>2, <2>1, OutOfPlan DEF Kept, FileInv, ScanInv, At
<1>3. CASE OpenCore
  <2>1. CASE CannotOpen(sd)
    BY <1>3, <1>f, <2>1, GivingUpKeeps DEF OpenCore, At
  <2>2. CASE ~CannotOpen(sd)
    <3>1. sd' = nhsd_open(sd, hdr.ino) /\ job' = [job EXCEPT !.pc = "load", !.at = 0, !.chain = <<>>]
      BY <1>3, <2>2 DEF OpenCore
    <3>2. /\ job'.pc = "load" /\ job'.at = 0 /\ job'.chain = <<>> /\ job'.slot = job.slot
          /\ job'.bringup = job.bringup
      BY <1>0, <3>1 DEF Idle
    <3>3. sd'.bus = sd.bus /\ sd'.cluster = hdr.ino /\ sd'.within = 0
      BY <1>0, <3>1, SdOpens
    <3>4. Vetted'
      BY <1>3, <1>f, <3>2, <3>3 DEF OpenCore, FileInv, Vetted, FileIsFor, HeaderAt
    <3>5. FirstIsLoaded'
      BY <1>f, <3>2, <3>3 DEF FirstIsLoaded
    <3>6. hdr.length \in Nat /\ job.pc = "open"
      BY <1>3 DEF TypeInv, HdrOK, IsHdr, OpenCore, At
    <3> QED  BY <1>2, <3>2, <3>4, <3>5, <3>6
  <2> QED  BY <2>1, <2>2
<1>4. CASE LoadSector
  <2> DEFINE read == nhsd_read(sd)
  <2>0. job.pc = "load" /\ Vetted /\ FirstIsLoaded /\ job.at < hdr.length /\ Loads(read)
    BY <1>4 DEF LoadSector, FileInv, At
  <2>1. read.s.bus = sd.bus /\ (read.err = "ok" => read.s.sector = SectorAt(sd))
    BY <1>0, SdReads
  <2> HIDE DEF read
  <2>2. CASE read.err # "ok"
    BY <1>f, <2>0, <2>2, GivingUpKeeps DEF Loads
  <2>3. CASE read.err = "ok"
    <3> DEFINE piece == [cluster |-> sd.cluster, within |-> sd.within]
    <3>1. /\ sd' = read.s /\ job' = [job EXCEPT !.at = @ + 1, !.chain = Append(@, piece)]
          /\ attic' = IF FromDisk THEN attic
                      ELSE [attic EXCEPT ![job.at] = InAttic(Part(read.s.sector))]
      BY <2>0, <2>3 DEF Loads
    <3>2. /\ job'.pc = "load" /\ job'.slot = job.slot /\ job'.bringup = job.bringup
          /\ job'.at = job.at + 1 /\ job'.chain = Append(job.chain, piece)
      BY <1>0, <2>0, <3>1 DEF Idle
    <3> HIDE DEF piece
    <3>3. Vetted' /\ HeaderAt(sd, hdr) = HeaderAt(sd', hdr')
      BY <1>f, <2>0, <2>1, <3>1, <3>2 DEF Vetted, FileIsFor, HeaderAt
    <3>4. job.at \in Nat /\ hdr.length \in Nat /\ job.at \in 0..(SlotBlocks - 1)
      BY <2>0, CoreAssumption DEF TypeInv, JobOK, HdrOK, IsHdr, Vetted, FileIsFor, HeaderOk
    <3>5. job'.at # 0 /\ job'.at <= hdr.length
      BY <2>0, <3>2, <3>4
    <3>6. FromDisk' <=> FromDisk
      BY <1>f DEF FromDisk, IsSolo
    <3>7. CASE FromDisk
      <4>1. IsSequence(job.chain)
        BY <1>0 DEF JobOK
      <4>2. job.at = 0 => piece = [cluster |-> hdr.ino, within |-> 0] /\ job.chain = <<>>
        BY <2>0 DEF FirstIsLoaded, piece
      <4>3. job.at # 0 => job.chain # <<>> /\ job.chain[1] = [cluster |-> hdr.ino, within |-> 0]
        BY <2>0, <3>7 DEF FirstIsLoaded
      <4> DEFINE longer == Append(job.chain, piece)
      <4>4. /\ longer # <<>> /\ (job.chain # <<>> => longer[1] = job.chain[1])
            /\ job.chain = <<>> => longer[1] = piece
        BY <4>1, LongerSequence
      <4> HIDE DEF longer
      <4>5. longer # <<>> /\ longer[1] = [cluster |-> hdr.ino, within |-> 0]
        BY <4>2, <4>3, <4>4
      <4>6. job'.chain # <<>> /\ job'.chain[1] = [cluster |-> hdr.ino, within |-> 0]
        BY <3>2, <4>5 DEF longer
      <4>7. FirstIsLoaded'
        BY <1>f, <3>5, <3>6, <3>7, <4>6 DEF FirstIsLoaded
      <4> QED  BY <1>2, <2>0, <3>2, <3>3, <3>5, <4>7
    <3>8. CASE ~FromDisk
      <4>1. ASSUME job.at = 0 PROVE attic'[0] = InAttic(Part(HeaderAt(sd, hdr)))
        <5>1. SectorAt(sd) = HeaderAt(sd, hdr)
          BY <2>0, <4>1 DEF FirstIsLoaded, SectorAt, HeaderAt
        <5>2. attic'[0] = InAttic(Part(HeaderAt(sd, hdr)))
          BY <2>1, <2>3, <3>1, <3>4, <3>8, <4>1, <5>1 DEF TypeInv, AtticOK
        <5> QED  BY <5>2
      <4>2. ASSUME job.at # 0 PROVE attic'[0] = InAttic(Part(HeaderAt(sd, hdr)))
        <5>1. attic[0] = InAttic(Part(HeaderAt(sd, hdr)))
          BY <2>0, <3>8, <4>2 DEF FirstIsLoaded
        <5> QED  BY <3>1, <3>8, <4>2, <5>1 DEF TypeInv, AtticOK
      <4>3. attic'[0] = InAttic(Part(HeaderAt(sd, hdr)))
        BY <4>1, <4>2
      <4>4. FirstIsLoaded'
        BY <1>f, <3>3, <3>5, <3>6, <3>8, <4>3 DEF FirstIsLoaded, InAttic
      <4> QED  BY <1>2, <2>0, <3>2, <3>3, <3>5, <4>4
    <3> QED  BY <3>7, <3>8
  <2> QED  BY <2>2, <2>3
<1> QED  BY <1>1, <1>3, <1>4

\* A core of which every part was read is the one whose header was seen.
LEMMA CheckKeeps ==
  ASSUME TypeInv, FileInv, ScanInv, CheckCrc
  PROVE  Kept
<1>0. /\ "begin" \in Places /\ JobOK /\ DOMAIN job = DOMAIN Idle /\ DOMAIN sd = SdFields
      /\ hdr.length \in Nat /\ job.at \in Nat /\ SlotBlocks \in Nat
  BY CoreAssumption DEF Places, TypeInv, JobOK, SdOK, HdrOK, IsHdr
<1>f. flash' = flash /\ slots' = slots /\ hdr' = hdr /\ ui' = ui /\ board' = board
  BY DEF CheckCrc, Works
<1>1. CASE GivesUp
  BY <1>1, <1>f, GivingUpKeeps DEF CheckCrc, At
<1>2. CASE hdr.length > 0 /\ get_crc32 /\ Goes("begin")
  <2>1. Vetted /\ FirstIsLoaded /\ job.at # 0
    BY <1>0, <1>2 DEF CheckCrc, FileInv
  <2>2. job'.pc = "begin" /\ job'.slot = job.slot /\ job'.chain = job.chain
    BY <1>0, <1>2, GoesOK
  <2>3. sd'.bus = sd.bus
    BY <1>0, SdOpens DEF CheckCrc
  <2>4. FromDisk' <=> FromDisk
    BY <1>f DEF FromDisk, IsSolo
  <2>5. hdr.length \in 1..SlotBlocks /\ ui.file = "valid"
    BY <1>0, <1>2, <2>1 DEF Vetted, FileIsFor, HeaderOk
  <2>6. PICK c \in DOMAIN Core : /\ Core[c].crc /\ Core[c].length = hdr.length
                                 /\ \A k \in 0..(hdr.length - 1) :
                                      Source(k) = Part([core |-> c, part |-> k])
    BY <1>2 DEF get_crc32
  <2>7. \A k : Part([core |-> c, part |-> k]).core = c
    BY DEF Part
  <2>8. Source(0).core = c
    <3>1. 0 \in 0..(hdr.length - 1)
      BY <1>0, <1>2
    <3> QED  BY <2>6, <2>7, <3>1
  <2>9. Part(HeaderAt(sd, hdr)).core = c
    <3>1. CASE FromDisk
      <4>1. OnCard(0) = HeaderAt(sd, hdr)
        BY <2>1, <3>1 DEF FirstIsLoaded, OnCard, HeaderAt
      <4> QED  BY <2>8, <3>1, <4>1 DEF Source
    <3>2. CASE ~FromDisk
      <4>1. Source(0) = InAttic(Part(HeaderAt(sd, hdr)))
        BY <2>1, <3>2 DEF FirstIsLoaded, Source
      <4> QED  BY <2>6, <2>8, <4>1, PartIsBlock, BlocksMade
    <3> QED  BY <3>1, <3>2
  <2>10. HeaderAt(sd, hdr).core = c /\ HeaderOk(Core[c], job.slot = 0)
    BY <2>1, <2>6, <2>9, PartIsBlock DEF Vetted, FileIsFor
  <2>11. \A k \in 1..(hdr.length - 1) : Source(k)' = Part([core |-> c, part |-> k])
    <3> TAKE k \in 1..(hdr.length - 1)
    <3>1. k \in 0..(hdr.length - 1) /\ k # 0
      BY <1>0
    <3>2. FromDisk => Source(k)' = Source(k)
      BY <2>2, <2>3, <2>4 DEF Source, OnCard
    <3>3. ~FromDisk => Source(k)' = Source(k)
      BY <2>4, <3>1 DEF Source, CheckCrc, TypeInv, AtticOK
    <3> QED  BY <2>6, <3>1, <3>2, <3>3
  <2>12. Source(0)'.core \in DOMAIN Core => Source(0)'.core = c
    <3>1. FromDisk => Source(0)' = Source(0)
      BY <2>2, <2>3, <2>4 DEF Source, OnCard
    <3>2. ASSUME ~FromDisk PROVE Source(0)'.core \in DOMAIN Core => Source(0)'.core = c
      <4>1. IsBlock(attic[0]) /\ 0 \in DOMAIN attic
        BY CoreAssumption DEF TypeInv, AtticOK
      <4>2. attic'[0] = Patched(attic[0]) /\ Source(0) = attic[0] /\ Source(0)' = attic'[0]
        BY <2>4, <3>2, <4>1 DEF CheckCrc, Source
      <4> QED  BY <2>8, <4>1, <4>2, BlocksMade
    <3> QED  BY <2>8, <3>1, <3>2
  <2>13. IsChecked' /\ Continues'
    <3> DEFINE s0 == Source(0)'
    <3>1. ASSUME s0.core \in DOMAIN Core
          PROVE  /\ Core[s0.core].crc /\ HeaderOk(Core[s0.core], job'.slot = 0)
                 /\ \A k \in 1..(Core[s0.core].length - 1) :
                      k < hdr.length /\ Source(k)' = Part([core |-> s0.core, part |-> k])
      <4>1. s0.core = c
        BY <2>12, <3>1
      <4> HIDE DEF s0
      <4>2. (job'.slot = 0) = (job.slot = 0)
        BY <2>2
      <4>3. Core[s0.core].crc /\ HeaderOk(Core[s0.core], job'.slot = 0)
        BY <2>6, <2>10, <4>1, <4>2
      <4>4. \A k \in 1..(Core[s0.core].length - 1) : k < hdr.length
        BY <1>0, <2>6, <4>1
      <4> QED  BY <2>6, <2>11, <4>1, <4>3, <4>4
    <3> QED  BY <3>1, <1>f DEF IsChecked, Continues
  <2>14. PlanInv'
    BY <1>f, <2>5, <2>13 DEF PlanInv
  <2> QED
    BY <1>f, <2>2, <2>5, <2>14
    DEF Kept, StageInv, FileInv, ScanInv, HeaderGone, At, Writing, Sectoring
<1> QED  BY <1>1, <1>2 DEF CheckCrc

\* What is loaded from a slot is a core that was checked when it was written.
LEMMA RereadKeeps ==
  ASSUME TypeInv, FileInv, ScanInv, SafeInv, load_core_from_flash
  PROVE  Kept
<1>0. /\ {"begin", "menu"} \subseteq Places /\ "menu" \notin Planned /\ JobOK
      /\ DOMAIN ui = DOMAIN NoChoice /\ DOMAIN hdr = HdrFields
      /\ SlotBlocks \in Nat /\ EditBlocks \in Nat
  BY CoreAssumption, FlasherAssumption
  DEF Places, TypeInv, UiOK, HdrOK, IsHdr, Planned, Writing, Sectoring
<1>f. flash' = flash /\ slots' = slots /\ board' = board /\ sd' = sd
  BY DEF load_core_from_flash, Works
<1>1. CASE Goes("menu")
  <2>1. job'.pc = "menu" /\ job'.bringup = FALSE
    BY <1>0, <1>1, GoesOK DEF Idle
  <2>2. Current'
    BY <1>f, TableStays DEF load_core_from_flash, ScanInv, At
  <2> QED  BY <1>0, <1>f, <2>1, <2>2, OutOfPlan DEF Kept, FileInv, ScanInv, At
<1>2. CASE /\ attic' = [k \in DOMAIN attic |->
                          CASE k = 0          -> InAttic(Patched(flash[InSlot(0)]))
                            [] k \in 1..(EditBlocks - 1) -> InAttic(flash[InSlot(k)])
                            [] OTHER          -> attic[k]]
           /\ hdr' = [hdr EXCEPT !.length = EditBlocks]
           /\ ui' = [ui EXCEPT !.file = "valid"] /\ Goes("begin")
  <2>1. /\ job'.pc = "begin" /\ job'.slot = job.slot
        /\ hdr'.length = EditBlocks /\ ui'.file = "valid" /\ ui'.disabled = ui.disabled
    BY <1>0, <1>2, GoesOK DEF NoChoice, HdrFields, NoHeader
  <2>2. ~FromDisk'
    BY <1>f, <2>1 DEF FromDisk, IsSolo, load_core_from_flash, FileInv
  <2>3. EditBlocks \in 1..SlotBlocks
    <3>1. EditBlocks # 0
      BY FlasherAssumption
    <3> QED  BY <1>0, <3>1, FlasherAssumption
  <2>4. /\ Source(0)' = InAttic(Patched(flash[InSlot(0)]))
        /\ \A k \in 1..(EditBlocks - 1) : Source(k)' = InAttic(flash[InSlot(k)])
    <3>1. 0 \in DOMAIN attic /\ 1..(EditBlocks - 1) \subseteq DOMAIN attic
      BY <1>0, <2>3 DEF TypeInv, AtticOK
    <3>2. \A k : Source(k)' = attic'[k]
      BY <2>2 DEF Source
    <3>3. attic'[0] = InAttic(Patched(flash[InSlot(0)]))
      BY <1>2, <3>1
    <3>4. \A k \in 1..(EditBlocks - 1) : attic'[k] = InAttic(flash[InSlot(k)])
      <4> TAKE k \in 1..(EditBlocks - 1)
      <4>1. k # 0 /\ k \in DOMAIN attic
        BY <1>0, <3>1
      <4> QED  BY <1>2, <4>1
    <3> QED  BY <3>2, <3>3, <3>4
  <2>5. ASSUME Source(0)'.core \in DOMAIN Core
        PROVE  /\ ~board.atticbad
               /\ Source(0)'.core = flash[job.slot * SlotBlocks].core
               /\ HasCore(job.slot * SlotBlocks)
    <3> DEFINE x == flash[InSlot(0)]
    <3>1. job.slot \in Slots /\ 0 \in 0..(SlotBlocks - 1)
      BY CoreAssumption DEF TypeInv, JobOK
    <3>2. InSlot(0) = job.slot * SlotBlocks
      BY <3>1, CoreAssumption, FlasherAssumption DEF InSlot, Slots
    <3>3. IsBlock(x)
      BY <3>1, BlockOfSlot DEF TypeInv, FlashOK, InSlot
    <3> HIDE DEF x
    <3>4. Source(0)' = InAttic(Patched(x))
      BY <2>4 DEF x
    <3>5. IsBlock(Patched(x))
      BY <3>3, BlocksMade
    <3>6. ~board.atticbad /\ Patched(x).core = Source(0)'.core
      BY <2>5, <3>4, <3>5, BlocksMade
    <3>7. x.whole /\ x.core \in DOMAIN Core /\ Patched(x).core = x.core
      BY <2>5, <3>3, <3>6, BlocksMade
    <3> QED  BY <3>2, <3>6, <3>7 DEF x, HasCore
  <2>6. IsChecked'
    <3> DEFINE s0 == Source(0)'
    <3>1. ASSUME s0.core \in DOMAIN Core
          PROVE  Core[s0.core].crc /\ HeaderOk(Core[s0.core], job'.slot = 0)
      <4>1. s0.core = flash[job.slot * SlotBlocks].core /\ HasCore(job.slot * SlotBlocks)
        BY <2>5, <3>1
      <4> HIDE DEF s0
      <4>2. (job'.slot = 0) = (job.slot = 0) /\ job.slot \in Slots
        BY <2>1 DEF TypeInv, JobOK
      <4> QED  BY <4>1, <4>2 DEF SafeInv, OnlyCheckedCores
    <3> QED  BY <3>1 DEF IsChecked
  <2>7. job.slot > 0 => Continues'
    <3> DEFINE s0 == Source(0)'
    <3>1. ASSUME job.slot > 0, s0.core \in DOMAIN Core, NEW k \in 1..(Core[s0.core].length - 1)
          PROVE  LET part == Part([core |-> s0.core, part |-> k])
                 IN IF k < EditBlocks THEN Source(k)' = part ELSE flash[InSlot(k)] = part
      <4>1. /\ s0.core = flash[job.slot * SlotBlocks].core /\ HasCore(job.slot * SlotBlocks)
            /\ ~board.atticbad
        BY <2>5, <3>1
      <4> HIDE DEF s0
      <4>2. job.slot \in Slots \ {0}
        BY <3>1 DEF TypeInv, JobOK
      <4>3. flash[InSlot(k)] = Part([core |-> s0.core, part |-> k])
        BY <3>1, <4>1, <4>2 DEF SafeInv, BootableIsWhole, Complete, InSlot
      <4>4. k < EditBlocks => Source(k)' = flash[InSlot(k)]
        <5>1. k \in Nat /\ k >= 1
          BY <3>1
        <5> QED  BY <1>0, <2>4, <4>1, <5>1 DEF InAttic
      <4> QED  BY <4>3, <4>4
    <3>2. \A k : InSlot(k)' = InSlot(k)
      BY <2>1 DEF InSlot
    <3> QED  BY <1>f, <2>1, <3>1, <3>2 DEF Continues
  <2>8. PlanInv'
    BY <2>1, <2>3, <2>6, <2>7 DEF PlanInv
  <2> QED
    BY <1>f, <2>1, <2>8
    DEF Kept, StageInv, FileInv, ScanInv, HeaderGone, At, Writing, Sectoring
<1> QED  BY <1>1, <1>2 DEF load_core_from_flash

\* What will be written stays while the card, the way there and the RAM do.
LEMMA SourceStays ==
  ASSUME UNCHANGED <<attic, board, ui>>, sd'.bus = sd.bus, job'.chain = job.chain
  PROVE  /\ FromDisk <=> FromDisk'
         /\ \A k : Source(k)' = Source(k)
  BY DEF FromDisk, IsSolo, Source, OnCard

\* What ends writing, and failures: the table is read again, the plan kept.
LEMMA OthersKeep ==
  ASSUME TypeInv, StageInv, FileInv, ScanInv, PlanInv, HeaderGone, Others
  PROVE  /\ StageInv' /\ FileInv' /\ ScanInv' /\ PlanInv' /\ HeaderGone'
         /\ PowerCycle \/ flash' = flash
         /\ CardFails \/ job'.pc \notin Planned
<1>0. /\ {"core", "hyppo", "off", "menu", "start"} \subseteq Places /\ 0 \in Slots
      /\ {"core", "hyppo", "off", "menu", "start"} \cap Planned = {}
      /\ JobOK /\ DOMAIN sd = SdFields
  BY FlasherAssumption DEF Places, Slots, Planned, Writing, Sectoring, TypeInv, JobOK, SdOK
<1>1. ASSUME NEW pc \in {"hyppo", "core"}, NEW slot \in Slots, HandsOver(pc, slot) PROVE Kept /\ job'.pc \notin Planned
  <2>1. job'.pc = pc /\ flash' = flash
    BY <1>0, <1>1, HandsOverOK
  <2> QED  BY <1>0, <2>1, OutOfPlan DEF Kept, FileInv, ScanInv, At
<1>2. CASE perhaps_reconfig \/ Leave
  BY <1>0, <1>1, <1>2 DEF perhaps_reconfig, Leave, hard_exit, Kept
<1>3. CASE Rescan
  <2>1. flash' = flash
    BY <1>3 DEF Rescan
  <2>2. CASE job.bringup
    <3>1. job'.pc = "off"
      BY <1>0, <1>3, <2>2, GoesOK DEF Rescan
    <3> QED  BY <1>0, <2>1, <3>1, OutOfPlan DEF FileInv, ScanInv, At
  <2>3. CASE ~job.bringup
    <3>1. job'.pc = "menu" /\ job'.bringup = FALSE
      BY <1>0, <1>3, <2>3, GoesOK DEF Rescan, Idle
    <3>2. Current'
      BY <1>3, <2>1, <2>3, TypesStay, TableIsTrue DEF Rescan, scan_core_information, Current, HasCore
    <3> QED  BY <1>0, <2>1, <3>1, <3>2, OutOfPlan DEF FileInv, ScanInv, At
  <2> QED  BY <2>2, <2>3
<1>4. CASE CardFails
  <2>1. UNCHANGED <<flash, attic, hdr, slots, erase0, ui, job, board>>
    BY <1>4 DEF CardFails
  <2>2. sd'.bus = sd.bus /\ sd'.cluster = sd.cluster /\ sd'.within = sd.within
    BY <1>0, <1>4 DEF CardFails, SdFields, NotInitialised
  <2>3. /\ \A k : Source(k)' = Source(k)
        /\ Current <=> Current'
        /\ Vetted <=> Vetted'
        /\ FromDisk <=> FromDisk'
        /\ FirstIsLoaded <=> FirstIsLoaded'
    BY <2>1, <2>2, SourceStays, TableStays, FileStays
  <2>4. StageInv' /\ HeaderGone'
    BY <2>1 DEF StageInv, HeaderGone, At, HasCore, InSlot
  <2>5. FileInv' /\ ScanInv'
    BY <2>1, <2>3 DEF FileInv, ScanInv, At
  <2>6. PlanInv'
    BY <2>1, <2>3 DEF PlanInv, IsChecked, Continues, InSlot
  <2> QED  BY <1>4, <2>1, <2>4, <2>5, <2>6
<1>5. CASE PowerCycle
  <2>1. job'.pc = "start" /\ ~hdr'.auto
    BY <1>5, FreshOK DEF PowerCycle, Idle
  <2> QED  BY <1>0, <1>5, <2>1, OutOfPlan DEF FileInv, ScanInv, At
<1> QED  BY <1>2, <1>3, <1>4, <1>5 DEF Others

-----------------------------------------------------------------------------
(* The plan while it is carried out.                                        *)

\* Writing goes on to writing, to the end or to where it is given up.
LEMMA StepsStayInPlan ==
  ASSUME TypeInv, StageInv, Steps
  PROVE  job.pc \in Planned \ {"finish"} /\ job'.pc \in Planned \cup {"rescan", "stuck"}
<1>0. /\ {"begin", "list0", "header", "next", "list", "verify", "erase", "body", "head", "finish",
          "rescan", "stuck"} \subseteq Places
      /\ JobOK /\ DOMAIN job = DOMAIN Idle
  BY DEF Places, TypeInv, JobOK
<1>1. job.pc \in Planned \ {"finish"}
  BY DEF Steps, begin, EraseList0, EraseHeader, NextBlock, NextListed, Verify, GiveUp,
         EraseBlock, ProgramBody, ProgramHead, At, Planned, Writing, Sectoring
<1> DEFINE There == Planned \cup {"rescan", "stuck"}
<1>2. ASSUME NEW pc \in There, Goes(pc) PROVE job'.pc \in There
  <2>1. pc \in Places
    BY <1>0 DEF Planned, Writing, Sectoring
  <2> QED  BY <1>0, <1>2, <2>1, GoesOK
<1>3. /\ "list0" \in There /\ "header" \in There /\ "next" \in There /\ "list" \in There
      /\ "verify" \in There /\ "erase" \in There /\ "body" \in There /\ "head" \in There
      /\ "finish" \in There /\ "rescan" \in There /\ "stuck" \in There
      /\ Planned \subseteq There
  BY DEF Planned, Writing, Sectoring
<1> HIDE DEF There
<1>4. ASSUME begin PROVE job'.pc \in There
  BY <1>0, <1>2, <1>3, <1>4 DEF begin, Idle
<1>5. ASSUME EraseList0 PROVE job'.pc \in There
  BY <1>2, <1>3, <1>5 DEF EraseList0
<1>6. ASSUME EraseHeader PROVE job'.pc \in There
  BY <1>0, <1>1, <1>2, <1>3, <1>6 DEF EraseHeader, HeaderIsErased, Idle
<1>7. ASSUME NextBlock PROVE job'.pc \in There
  BY <1>0, <1>1, <1>2, <1>3, <1>7 DEF NextBlock, WriteBlock, Idle
<1>8. ASSUME NextListed PROVE job'.pc \in There
  BY <1>0, <1>1, <1>2, <1>3, <1>8 DEF NextListed, Idle
<1>9. ASSUME Verify \/ GiveUp PROVE job'.pc \in There
  <2>1. job.back \in There
    BY <1>0, <1>3 DEF JobOK
  <2> QED  BY <1>2, <1>3, <1>9, <2>1 DEF Verify, GiveUp, Differs
<1>10. ASSUME EraseBlock \/ ProgramBody \/ ProgramHead PROVE job'.pc \in There
  BY <1>0, <1>2, <1>3, <1>10 DEF EraseBlock, ProgramBody, ProgramHead, TriesAgain, Idle
<1> QED  BY <1>1, <1>4, <1>5, <1>6, <1>7, <1>8, <1>9, <1>10 DEF Steps, There

\* Where a slot begins is its first block.
LEMMA HeaderOfSlot ==
  ASSUME NEW slot \in Slots
  PROVE  slot * SlotBlocks + 0 = slot * SlotBlocks /\ 0 \in 0..(SlotBlocks - 1)
  BY CoreAssumption, FlasherAssumption DEF Slots

\* A step does not change the rest of the slot.
LEMMA RestOfSlotStays ==
  ASSUME TypeInv, StageInv, Steps, ~At("list0"), NEW k \in 0..(SlotBlocks - 1), k # job.at
  PROVE  flash'[InSlot(k)] = flash[InSlot(k)]
<1>1. CASE flash' = flash
  BY <1>1
<1>2. CASE job.pc \in Changes /\ \A b \in Blocks \ {Target} : flash'[b] = flash[b]
  <2>1. job.slot \in Slots /\ job.at \in 0..(SlotBlocks - 1)
    BY <1>2, TargetIsBlock DEF TypeInv, JobOK
  <2>2. InSlot(k) \in Blocks /\ InSlot(k) # Target
    BY <2>1, BlockOfSlot, OneSlot DEF InSlot, Target
  <2> QED  BY <1>2, <2>2
<1> QED  BY <1>1, <1>2, StepsChangeOneBlock

\* The plan is what it was: its sources and what stays in the slot stay.
LEMMA PlanStep ==
  ASSUME TypeInv, StageInv, PlanInv, Steps
  PROVE  PlanInv' /\ FileInv' /\ ScanInv' /\ (\A k : Source(k)' = Source(k))
<1>1. job.pc \in Planned \ {"finish"} /\ job'.pc \in Planned \cup {"rescan", "stuck"}
  BY StepsStayInPlan
<1>2. Frame /\ job'.slot = job.slot /\ job'.chain = job.chain
  BY StepsKeepFrame, StepsGo
<1>3. \A k : Source(k)' = Source(k)
  BY <1>2, SourceStays DEF Frame
<1>4. FileInv' /\ ScanInv'
  BY <1>1 DEF FileInv, ScanInv, At, Planned, Writing, Sectoring
<1>5. ASSUME ui.file = "valid" PROVE PlanInv'
  <2>1. hdr.length \in 1..SlotBlocks /\ IsChecked /\ (job.slot > 0 => Continues)
    BY <1>1, <1>5 DEF PlanInv
  <2>2. IsChecked'
    BY <1>2, <1>3, <2>1 DEF IsChecked
  <2>3. job.slot > 0 => Continues'
    <3>1. ASSUME job.slot > 0, Source(0).core \in DOMAIN Core,
                 NEW k \in 1..(Core[Source(0).core].length - 1), ~(k < hdr.length)
          PROVE  flash'[InSlot(k)] = flash[InSlot(k)]
      <4> DEFINE length == Core[Source(0).core].length
      <4>1. length <= SlotBlocks
        BY <2>1, <3>1 DEF IsChecked, HeaderOk
      <4>2. length \in Nat
        BY <3>1, CoreAssumption
      <4>3. k \in 1..(length - 1)
        BY <3>1
      <4> HIDE DEF length
      <4>4. k \in 0..(SlotBlocks - 1)
        BY <4>1, <4>2, <4>3, CoreAssumption
      <4>5. ~At("list0")
        BY <3>1 DEF StageInv
      <4>6. job.pc \in Changes => job.at < hdr.length
        BY <1>5, <2>1, <3>1 DEF StageInv, Changes, Sectoring, At, TypeInv, JobOK
      <4>7. CASE job.pc \in Changes
        BY <2>1, <3>1, <4>4, <4>5, <4>6, <4>7, RestOfSlotStays
      <4>8. CASE job.pc \notin Changes
        BY <4>8, StepsChangeOneBlock
      <4> QED  BY <4>7, <4>8
    <3>2. \A k : InSlot(k)' = InSlot(k)
      BY <1>2 DEF InSlot
    <3>3. hdr'.length = hdr.length
      BY <1>2 DEF Frame
    <3> QED  BY <1>3, <2>1, <3>1, <3>2, <3>3 DEF Continues
  <2> QED  BY <1>2, <2>1, <2>2, <2>3 DEF PlanInv, Frame
<1>6. ASSUME ui.file # "valid" PROVE PlanInv'
  BY <1>2, <1>6 DEF PlanInv, Frame
<1> QED  BY <1>3, <1>4, <1>5, <1>6

\* No list of the blocks to write spares the header, where there is a list.
NoZeros == job.slot = 0 /\ ui.file = "valid" => \A i \in 1..Len(hdr.list) : hdr.list[i] # 0

\* Each step of writing leaves what was written before it.
LEMMA WrittenStep ==
  ASSUME TypeInv, StageInv, PlanInv, WrittenInv, NoZeros, Steps
  PROVE  WrittenInv'
<1>0. /\ {"begin", "list0", "header", "next", "list", "verify", "erase", "body", "head", "finish",
          "rescan", "stuck"} \subseteq Places
      /\ JobOK /\ DOMAIN job = DOMAIN Idle /\ job.at \in Nat /\ job.el \in Nat /\ job.slot \in Nat
      /\ SlotBlocks \in Nat \ {0} /\ hdr.length \in Nat /\ Len(hdr.list) \in Nat
  BY CoreAssumption, FlasherAssumption DEF Places, TypeInv, JobOK, HdrOK, IsHdr, Slots
<1>f. hdr' = hdr /\ ui' = ui /\ board' = board /\ job'.slot = job.slot
  BY StepsKeepFrame, StepsGo DEF Frame
<1>s. \A k : InSlot(k)' = InSlot(k) /\ Source(k)' = Source(k)
  BY <1>f, PlanStep DEF InSlot
<1>d. \A k : flash'[InSlot(k)] = flash[InSlot(k)] => (Done(k)' <=> Done(k))
  BY <1>s DEF Done
<1>g. ASSUME NEW pc \in Places \ {"menu"}, Goes(pc)
      PROVE  job'.pc = pc /\ job'.at = job.at /\ job'.el = job.el /\ job'.back = job.back
  BY <1>0, <1>g, GoesOK
<1>v. job.pc \in {"header"} \cup Writing /\ ui.file = "valid" => hdr.length <= SlotBlocks
  BY DEF PlanInv, Planned, Writing, Sectoring
<1>1. ASSUME job'.pc \in {"rescan", "stuck", "list0"} PROVE WrittenInv'
  BY <1>1 DEF WrittenInv, At, Sectoring
<1>2. ASSUME begin PROVE WrittenInv'
  <2>1. CASE Goes("rescan")
    BY <1>0, <1>1, <1>g, <2>1
  <2>2. CASE job' = [job EXCEPT !.pc = IF job.slot = 0 /\ erase0 # <<>> THEN "list0" ELSE "header",
                                !.at = 0, !.el = IF job.slot = 0 THEN Len(hdr.list) ELSE 0]
    <3>1. job'.pc \in {"list0", "header"} /\ job'.at = 0
      BY <1>0, <2>2 DEF Idle
    <3>2. Wiped(job.at)'
      BY <3>1 DEF Wiped
    <3> QED  BY <3>1, <3>2 DEF WrittenInv, At, Sectoring
  <2> QED  BY <1>2, <2>1, <2>2 DEF begin
<1>3. ASSUME EraseList0 PROVE WrittenInv'
  <2>1. job.slot = 0
    BY <1>3 DEF EraseList0, StageInv
  <2>2. job'.pc \in {"header", "rescan"}
    BY <1>0, <1>3, <1>g DEF EraseList0
  <2> QED  BY <1>f, <2>1, <2>2 DEF WrittenInv, At, Sectoring
<1>4. ASSUME EraseHeader PROVE WrittenInv'
  <2>0. job.pc = "header" /\ ui.file # "none" /\ job.at < SlotBlocks
    BY <1>4 DEF EraseHeader, At, StageInv
  <2>1. CASE Goes("rescan")
    BY <1>0, <1>1, <1>g, <2>1
  <2>2. CASE ui.file = "valid" /\ ~Goes("rescan")
    <3>1. HeaderIsErased
      BY <1>0, <1>4, <2>2 DEF EraseHeader, ToErase
    <3>2. job'.pc = "next" /\ job'.at = SlotBlocks
      BY <1>0, <2>2, <3>1 DEF HeaderIsErased, Idle
    <3>3. FirstPass(job.at)'
      BY <1>0, <1>f, <1>v, <2>0, <2>2, <3>2 DEF FirstPass
    <3> QED  BY <3>2, <3>3 DEF WrittenInv, At, Sectoring
  <2>3. CASE ui.file = "erase" /\ job.slot = 0
    <3>1. job'.pc \in {"header", "finish", "rescan"}
      BY <1>0, <1>4, <1>g, <2>0, <2>3 DEF EraseHeader, HeaderIsErased, Idle
    <3> QED  BY <1>f, <2>3, <3>1 DEF WrittenInv, At, Sectoring
  <2>4. CASE ui.file = "erase" /\ job.slot > 0 /\ ~Goes("rescan")
    <3>1. /\ Erased(InSlot(job.at))
          /\ IF job.at + 1 < SlotBlocks THEN job' = [job EXCEPT !.at = @ + 1] ELSE HeaderIsErased
      BY <1>0, <1>4, <2>4 DEF EraseHeader, ToErase
    <3>2. PICK n \in Nat : n = job.at + 1
      BY <1>0
    <3>3. ASSUME NEW k \in 0..(n - 1), InSlot(k) # board.defect PROVE flash'[InSlot(k)] = Blank
      <4>1. k \in 0..(SlotBlocks - 1) /\ job.at \in 0..(SlotBlocks - 1) /\ job.slot \in Slots
        BY <1>0, <2>0, <3>2 DEF JobOK
      <4>2. InSlot(k) \in DOMAIN flash
        BY <4>1, BlockOfSlot DEF InSlot, TypeInv, FlashOK
      <4>3. CASE k = job.at
        BY <3>1, <3>3, <4>2, <4>3 DEF Erased
      <4>4. CASE k # job.at
        <5>1. InSlot(k) # InSlot(job.at)
          BY <4>1, <4>4, OneSlot DEF InSlot
        <5>2. k \in 0..(job.at - 1)
          BY <1>0, <3>2, <4>4
        <5>3. flash[InSlot(k)] = Blank
          BY <2>0, <2>4, <3>3, <5>2 DEF WrittenInv, Wiped, At
        <5> QED  BY <3>1, <4>2, <5>1, <5>3 DEF Erased
      <4> QED  BY <4>3, <4>4
    <3>4. CASE n < SlotBlocks
      <4>1. job'.pc = "header" /\ job'.at = n
        BY <1>0, <2>0, <3>1, <3>2, <3>4 DEF Idle
      <4>2. Wiped(job.at)'
        BY <1>f, <1>s, <3>3, <4>1 DEF Wiped
      <4> QED  BY <4>1, <4>2 DEF WrittenInv, At, Sectoring
    <3>5. CASE ~(n < SlotBlocks)
      <4>0. HeaderIsErased /\ n = SlotBlocks
        BY <1>0, <2>0, <3>1, <3>2, <3>5
      <4>1. job'.pc = "finish" /\ n = SlotBlocks
        BY <1>0, <2>4, <4>0 DEF HeaderIsErased, Idle
      <4>2. Wiped(SlotBlocks)'
        BY <1>f, <1>s, <3>3, <4>1 DEF Wiped
      <4> QED  BY <1>f, <2>4, <4>1, <4>2 DEF WrittenInv, At, Sectoring
    <3> QED  BY <3>4, <3>5
  <2> QED  BY <1>0, <2>0, <2>1, <2>2, <2>3, <2>4 DEF TypeInv, UiOK
<1>5. ASSUME NextBlock PROVE WrittenInv'
  <2>0. /\ job.pc = "next" /\ ui.file = "valid" /\ FirstPass(job.at) /\ flash' = flash
        /\ job.el <= Len(hdr.list) /\ (job.slot > 0 => job.el = 0)
    BY <1>5 DEF NextBlock, At, StageInv, WrittenInv, Writing
  <2>1. \A k : Done(k)' <=> Done(k)
    BY <1>d, <2>0
  <2>2. CASE job.at = 0
    <3>0. job' = [job EXCEPT !.pc = IF job.slot = 0 THEN "list" ELSE "finish", !.el = Len(hdr.list)]
      BY <1>5, <2>2 DEF NextBlock
    <3>1. job'.pc = (IF job.slot = 0 THEN "list" ELSE "finish") /\ job'.el = Len(hdr.list)
      BY <1>0, <3>0 DEF Idle
    <3>2. CASE job.slot = 0
      <4>1. ASSUME NEW b \in 0..(hdr.length - 1) PROVE Done(b) \/ OnLists(b, 1..Len(hdr.list))
        <5>1. (job.el + 1)..Len(hdr.list) \subseteq 1..Len(hdr.list)
          BY <1>0
        <5> QED  BY <2>0, <2>2, <5>1 DEF FirstPass, OnLists
      <4>2. SecondPass({})'
        BY <1>f, <2>1, <3>1, <4>1 DEF SecondPass, OnLists
      <4> QED  BY <3>1, <3>2, <4>2 DEF WrittenInv, At, Sectoring
    <3>3. CASE job.slot # 0
      <4>1. \A b \in 0..(hdr.length - 1) : Done(b)'
        BY <2>0, <2>1, <2>2, <3>3 DEF FirstPass
      <4> QED  BY <1>f, <2>0, <3>1, <3>3, <4>1 DEF WrittenInv, At, Sectoring
    <3> QED  BY <3>2, <3>3
  <2>3. CASE job.at > 0
    <3>1. PICK b \in Nat : b = job.at - 1
      BY <1>0, <2>3
    <3>2. \A k \in b..(hdr.length - 1) : k # b => k \in job.at..(hdr.length - 1)
      BY <1>0, <3>1
    <3>3. \/ Skipped(b) /\ job' = [job EXCEPT !.at = b]
          \/ OnList(b) /\ job' = [job EXCEPT !.at = b, !.el = @ - 1]
          \/ WriteBlock(b, "next")
      BY <1>5, <1>0, <2>3, <3>1 DEF NextBlock
    <3>4. ASSUME Skipped(b), job' = [job EXCEPT !.at = b] PROVE WrittenInv'
      <4>1. job'.pc = "next" /\ job'.at = b
        BY <1>0, <2>0, <3>4 DEF Idle
      <4>2. b..(hdr.length - 1) = {}
        BY <1>0, <3>1, <3>4 DEF Skipped
      <4>3. FirstPass(job.at)'
        BY <1>f, <4>1, <4>2 DEF FirstPass
      <4> QED  BY <4>1, <4>3 DEF WrittenInv, At, Sectoring
    <3>5. ASSUME OnList(b), job' = [job EXCEPT !.at = b, !.el = @ - 1] PROVE WrittenInv'
      <4>1. job.el > 0 /\ ListBlock(hdr.list[job.el]) = b /\ job.slot = 0
        BY <1>0, <2>0, <3>5 DEF OnList
      <4>2. PICK el \in Nat : el = job.el - 1
        BY <1>0, <4>1
      <4>3. job'.pc = "next" /\ job'.at = b /\ job'.el = el
        BY <1>0, <2>0, <3>5, <4>2 DEF Idle
      <4>4. ASSUME NEW k \in b..(hdr.length - 1)
            PROVE  Done(k) \/ OnLists(k, (el + 1)..Len(hdr.list))
        <5>1. el + 1 = job.el /\ job.el \in (el + 1)..Len(hdr.list) /\ job.el \in 1..Len(hdr.list)
          BY <1>0, <2>0, <4>1, <4>2
        <5>2. (job.el + 1)..Len(hdr.list) \subseteq (el + 1)..Len(hdr.list)
          BY <1>0, <4>2
        <5>3. CASE k = b
          <6>1. hdr.list[job.el] # 0
            BY <2>0, <4>1, <5>1 DEF NoZeros
          <6> QED  BY <4>1, <5>1, <5>3, <6>1 DEF OnLists
        <5>4. CASE k # b
          BY <2>0, <3>2, <5>2, <5>4 DEF FirstPass, OnLists
        <5> QED  BY <5>3, <5>4
      <4>5. FirstPass(job.at)'
        BY <1>f, <2>1, <4>1, <4>3, <4>4 DEF FirstPass, OnLists
      <4> QED  BY <4>3, <4>5 DEF WrittenInv, At, Sectoring
    <3>6. ASSUME WriteBlock(b, "next") PROVE WrittenInv'
      <4>1. job'.pc = "verify" /\ job'.at = b /\ job'.el = job.el /\ job'.back = "next"
        BY <1>0, <3>6 DEF WriteBlock, Idle
      <4>2. b + 1 = job.at
        BY <1>0, <3>1
      <4>3. FirstPass(job.at + 1)'
        BY <1>f, <2>0, <2>1, <4>1, <4>2 DEF FirstPass, OnLists
      <4> QED  BY <4>1, <4>3 DEF WrittenInv, At, Sectoring
    <3> QED  BY <3>3, <3>4, <3>5, <3>6
  <2> QED  BY <1>0, <2>2, <2>3
<1>6. ASSUME NextListed PROVE WrittenInv'
  <2>0. /\ job.pc = "list" /\ ui.file = "valid" /\ SecondPass({}) /\ flash' = flash
        /\ job.el <= Len(hdr.list)
    BY <1>6 DEF NextListed, At, StageInv, WrittenInv, Writing
  <2>1. \A k : Done(k)' <=> Done(k)
    BY <1>d, <2>0
  <2>2. CASE job.el = 0
    <3>1. job'.pc = "finish"
      BY <1>0, <1>6, <1>g, <2>2 DEF NextListed
    <3>2. \A b \in 0..(hdr.length - 1) : Done(b)'
      BY <2>0, <2>1, <2>2 DEF SecondPass, OnLists
    <3> QED  BY <1>f, <2>0, <3>1, <3>2 DEF WrittenInv, At, Sectoring
  <2>3. CASE job.el > 0
    <3>1. PICK el \in Nat : el = job.el - 1
      BY <1>0, <2>3
    <3>2. \A i \in 1..job.el : i = job.el \/ i \in 1..el
      BY <1>0, <3>1
    <3> DEFINE b == ListBlock(hdr.list[job.el])
    <3>3. \/ hdr.list[job.el] = 0 /\ job' = [job EXCEPT !.el = el]
          \/ job' = [job EXCEPT !.pc = "verify", !.at = b, !.tries = 0, !.back = "list", !.el = el]
      BY <1>6, <1>0, <2>3, <3>1 DEF NextListed
    <3>4. ASSUME hdr.list[job.el] = 0, job' = [job EXCEPT !.el = el] PROVE WrittenInv'
      <4>1. job'.pc = "list" /\ job'.el = el
        BY <1>0, <2>0, <3>4 DEF Idle
      <4>2. ASSUME NEW k \in 0..(hdr.length - 1) PROVE Done(k) \/ OnLists(k, 1..el)
        BY <2>0, <3>2, <3>4 DEF SecondPass, OnLists
      <4>3. SecondPass({})'
        BY <1>f, <2>1, <4>1, <4>2 DEF SecondPass, OnLists
      <4> QED  BY <4>1, <4>3 DEF WrittenInv, At, Sectoring
    <3>5. ASSUME job' = [job EXCEPT !.pc = "verify", !.at = b, !.tries = 0, !.back = "list", !.el = el]
          PROVE  WrittenInv'
      <4>1. job'.pc = "verify" /\ job'.at = b /\ job'.el = el /\ job'.back = "list"
        BY <1>0, <3>5 DEF Idle
      <4>2. ASSUME NEW k \in 0..(hdr.length - 1), k # b PROVE Done(k) \/ OnLists(k, 1..el)
        BY <2>0, <3>2, <4>2 DEF SecondPass, OnLists
      <4> HIDE DEF b
      <4>3. SecondPass({job.at})'
        BY <1>f, <2>1, <4>1, <4>2 DEF SecondPass, OnLists
      <4> QED  BY <4>1, <4>3 DEF WrittenInv, At, Sectoring
    <3> QED  BY <3>3, <3>4, <3>5
  <2> QED  BY <1>0, <2>2, <2>3

<1>7. CASE Verify \/ GiveUp \/ EraseBlock \/ ProgramBody \/ ProgramHead
  <2>0. /\ job.pc \in Sectoring /\ ui.file = "valid" /\ job.at \in 0..(SlotBlocks - 1) /\ ~At("list0")
        /\ job.back \in {"next", "list"}
        /\ IF job.back = "next" THEN FirstPass(job.at + 1) ELSE SecondPass({job.at})
    BY <1>0, <1>7
    DEF Verify, GiveUp, EraseBlock, ProgramBody, ProgramHead, At, StageInv, WrittenInv, Writing,
        Sectoring, JobOK
  <2>1. \A k \in 0..(SlotBlocks - 1) : k # job.at => (Done(k)' <=> Done(k))
    BY <1>7, <1>d, <2>0, RestOfSlotStays DEF Steps
  <2>2. \A k \in 0..(hdr.length - 1) : k \in 0..(SlotBlocks - 1)
    BY <1>0, <1>v, <2>0 DEF Writing
  <2>3. ASSUME job'.pc \in Sectoring, job'.at = job.at, job'.el = job.el, job'.back = job.back
        PROVE  WrittenInv'
    <3>1. CASE job.back = "next"
      <4>1. \A k \in (job.at + 1)..(hdr.length - 1) : k \in 0..(SlotBlocks - 1) /\ k # job.at
        BY <1>0, <2>2
      <4>2. FirstPass(job.at + 1)'
        BY <1>f, <2>0, <2>1, <2>3, <3>1, <4>1 DEF FirstPass, OnLists
      <4> QED  BY <2>3, <3>1, <4>2 DEF WrittenInv, At, Sectoring
    <3>2. CASE job.back = "list"
      <4>1. SecondPass({job.at})'
        BY <1>f, <2>0, <2>1, <2>2, <2>3, <3>2 DEF SecondPass, OnLists
      <4> QED  BY <2>3, <3>2, <4>1 DEF WrittenInv, At, Sectoring
    <3> QED  BY <2>0, <3>1, <3>2
  <2>4. ASSUME flash' = flash, Done(job.at), Goes(job.back) PROVE WrittenInv'
    <3>0. job'.pc = job.back /\ job'.at = job.at /\ job'.el = job.el
      BY <1>0, <1>g, <2>0, <2>4
    <3>1. \A k : Done(k)' <=> Done(k)
      BY <1>d, <2>4
    <3>2. CASE job.back = "next"
      <4>1. \A k \in job.at..(hdr.length - 1) : k = job.at \/ k \in (job.at + 1)..(hdr.length - 1)
        BY <1>0
      <4>2. FirstPass(job.at)'
        BY <1>f, <2>0, <2>4, <3>0, <3>1, <3>2, <4>1 DEF FirstPass, OnLists
      <4> QED  BY <3>0, <3>2, <4>2 DEF WrittenInv, At, Sectoring
    <3>3. CASE job.back = "list"
      <4>1. SecondPass({})'
        BY <1>f, <2>0, <2>4, <3>0, <3>1, <3>3 DEF SecondPass, OnLists
      <4> QED  BY <3>0, <3>3, <4>1 DEF WrittenInv, At, Sectoring
    <3> QED  BY <2>0, <3>2, <3>3
  <2>5. ASSUME NEW pc \in {"erase", "body", "head", "rescan", "stuck"}, Goes(pc) PROVE WrittenInv'
    BY <1>0, <1>1, <1>g, <2>3, <2>5 DEF Sectoring
  <2>6. ASSUME TriesAgain PROVE WrittenInv'
    <3>1. job'.pc = "verify" /\ job'.at = job.at /\ job'.el = job.el /\ job'.back = job.back
      BY <1>0, <2>6 DEF TriesAgain, Idle
    <3> QED  BY <2>3, <3>1 DEF Sectoring
  <2>7. CASE Verify
    <3>1. \/ qspi_flash_verify(job.at) /\ Goes(job.back)
          \/ Differs
      BY <2>7 DEF Verify
    <3>2. flash' = flash
      BY <2>7 DEF Verify
    <3> QED  BY <2>4, <2>5, <3>1, <3>2 DEF qspi_flash_verify, Done, Differs
  <2>8. CASE GiveUp
    BY <2>5, <2>8 DEF GiveUp, Differs
  <2>9. CASE EraseBlock \/ ProgramBody \/ ProgramHead
    BY <2>5, <2>6, <2>9 DEF EraseBlock, ProgramBody, ProgramHead
  <2> QED  BY <1>7, <2>7, <2>8, <2>9
<1> QED  BY <1>2, <1>3, <1>4, <1>5, <1>6, <1>7 DEF Steps
-----------------------------------------------------------------------------
(* What the flash holds at any time.                                        *)

\* Above slot 0 the writing leaves the blocks that it has done.
AboveInv == job.slot > 0 => WrittenInv

BeginsCore(x) == x.whole /\ x.core \in DOMAIN Core

\* A block that changes and begins no core spoils no core with a header.
LEMMA BlockChanges ==
  ASSUME BootableIsWhole, OnlyCheckedCores, NEW slot \in Slots, NEW j \in 0..(SlotBlocks - 1),
         \A b \in Blocks \ {slot * SlotBlocks + j} : flash'[b] = flash[b],
         slot = 0 \/ j = 0 \/ ~HasCore(slot * SlotBlocks),
         j = 0 => ~BeginsCore(flash'[slot * SlotBlocks])
  PROVE  BootableIsWhole' /\ OnlyCheckedCores'
<1>0. SlotBlocks \in Nat \ {0} /\ \A s \in Slots : s * SlotBlocks + 0 = s * SlotBlocks
  BY CoreAssumption, HeaderOfSlot
<1>1. ASSUME NEW s \in Slots, HasCore(s * SlotBlocks)'
      PROVE  /\ flash'[s * SlotBlocks] = flash[s * SlotBlocks] /\ HasCore(s * SlotBlocks)
             /\ s = slot => slot = 0
  <2>1. s * SlotBlocks \in Blocks
    BY <1>0, HeaderOfSlot, BlockOfSlot
  <2>2. CASE s * SlotBlocks = slot * SlotBlocks + j
    <3>1. s * SlotBlocks + 0 = slot * SlotBlocks + j /\ 0 \in 0..(SlotBlocks - 1)
      BY <1>0, <2>2
    <3>2. j = 0
      BY <3>1, OneSlot
    <3>3. s = slot
      BY <3>1, OneSlot
    <3> QED  BY <1>0, <1>1, <3>2, <3>3 DEF HasCore, BeginsCore
  <2>3. CASE s * SlotBlocks # slot * SlotBlocks + j
    <3>1. flash'[s * SlotBlocks] = flash[s * SlotBlocks]
      BY <2>1, <2>3
    <3>2. HasCore(s * SlotBlocks)
      BY <1>1, <3>1 DEF HasCore
    <3>3. s = slot => j # 0
      BY <1>0, <2>3
    <3> QED  BY <3>1, <3>2, <3>3
  <2> QED  BY <2>2, <2>3
<1>2. OnlyCheckedCores'
  BY <1>1 DEF OnlyCheckedCores
<1>3. BootableIsWhole'
  <2>1. ASSUME NEW s \in Slots \ {0}, HasCore(s * SlotBlocks)',
               NEW k \in 1..(Core[flash[s * SlotBlocks].core].length - 1)
        PROVE  flash'[s * SlotBlocks + k] = flash[s * SlotBlocks + k]
    <3> DEFINE length == Core[flash[s * SlotBlocks].core].length
    <3>1. HasCore(s * SlotBlocks) /\ s # slot
      BY <1>1, <2>1
    <3>2. length \in Nat /\ length <= SlotBlocks
      BY <3>1, CoreAssumption DEF OnlyCheckedCores, HeaderOk, HasCore
    <3>3. k \in 1..(length - 1)
      BY <2>1
    <3> HIDE DEF length
    <3>4. k \in 0..(SlotBlocks - 1)
      BY <1>0, <3>2, <3>3
    <3>5. s * SlotBlocks + k \in Blocks /\ s * SlotBlocks + k # slot * SlotBlocks + j
      BY <3>1, <3>4, BlockOfSlot, OneSlot
    <3> QED  BY <3>5
  <2> QED  BY <1>1, <2>1 DEF BootableIsWhole, Complete
<1> QED  BY <1>2, <1>3

\* So it is for the block that a step or a power cut changes.
LEMMA TargetChanges ==
  ASSUME TypeInv, StageInv, SafeInv, job.pc \in Changes,
         \A b \in Blocks \ {Target} : flash'[b] = flash[b],
         ~BeginsCore(flash'[Target]) \/ (~At("list0") /\ job.at # 0)
  PROVE  BootableIsWhole' /\ OnlyCheckedCores'
<1>a. /\ job.at \in Nat /\ job.slot \in Nat /\ job.slot \in Slots
      /\ BootableIsWhole /\ OnlyCheckedCores /\ HeaderGone
  BY CoreAssumption, FlasherAssumption DEF TypeInv, JobOK, Slots, SafeInv
<1>b. InSlot(0) = job.slot * SlotBlocks /\ \A k : InSlot(k) = job.slot * SlotBlocks + k
  BY <1>a, HeaderOfSlot DEF InSlot
<1>c. /\ Target \in Blocks
      /\ At("list0") => Target \in 0..(SlotBlocks - 1) /\ job.slot = 0
      /\ ~At("list0") => job.at \in 0..(SlotBlocks - 1) /\ Target = InSlot(job.at)
  BY TargetIsBlock DEF Target, StageInv
<1>1. CASE At("list0")
  <2>1. 0 \in Slots /\ 0 * SlotBlocks = 0 /\ 0 * SlotBlocks + Target = Target
    BY <1>a, <1>c, <1>1, CoreAssumption, FlasherAssumption DEF Slots
  <2>2. PICK j : j = Target
    OBVIOUS
  <2>3. j \in 0..(SlotBlocks - 1) /\ (j = 0 => ~BeginsCore(flash'[0 * SlotBlocks]))
    BY <1>c, <1>1, <2>1, <2>2
  <2>4. \A b \in Blocks \ {0 * SlotBlocks + j} : flash'[b] = flash[b]
    BY <2>1, <2>2
  <2> QED  BY <1>a, <2>1, <2>3, <2>4, BlockChanges
<1>2. CASE ~At("list0")
  <2>1. job.at \in 0..(SlotBlocks - 1) /\ Target = job.slot * SlotBlocks + job.at
    BY <1>b, <1>c, <1>2
  <2>2. job.at = 0 => ~BeginsCore(flash'[job.slot * SlotBlocks])
    BY <1>a, <1>b, <1>c, <1>2
  <2>3. job.slot = 0 \/ job.at = 0 \/ ~HasCore(job.slot * SlotBlocks)
    BY <1>a, <1>b, <1>2 DEF HeaderGone, Changes, Sectoring, At
  <2>4. \A b \in Blocks \ {job.slot * SlotBlocks + job.at} : flash'[b] = flash[b]
    BY <2>1
  <2> QED  BY <1>a, <2>1, <2>2, <2>3, <2>4, BlockChanges
<1> QED  BY <1>1, <1>2

\* The header goes first and comes last.
LEMMA SafeStep ==
  ASSUME TypeInv, StageInv, PlanInv, SafeInv, AboveInv, Steps
  PROVE  SafeInv'
<1>0. /\ JobOK /\ DOMAIN job = DOMAIN Idle /\ job.at \in Nat /\ job.slot \in Nat /\ job.slot \in Slots
      /\ SlotBlocks \in Nat \ {0} /\ hdr.length \in Nat
      /\ DOMAIN flash = Blocks /\ BootableIsWhole /\ OnlyCheckedCores /\ HeaderGone
  BY CoreAssumption, FlasherAssumption DEF TypeInv, FlashOK, JobOK, HdrOK, IsHdr, Slots, SafeInv
<1>1. InSlot(0) = job.slot * SlotBlocks /\ \A k : InSlot(k) = job.slot * SlotBlocks + k
  BY <1>0, HeaderOfSlot DEF InSlot
<1>2. /\ \A k : InSlot(k)' = InSlot(k) /\ Source(k)' = Source(k)
      /\ job'.slot = job.slot /\ hdr' = hdr
  BY StepsGo, StepsKeepFrame, PlanStep DEF InSlot, Frame
<1>b. IsBlock(Blank)
  BY CoreAssumption DEF IsBlock, Blank
<1>n. \A x, y : IsBlock(y) /\ x \in {Blank, Junk, BodyOf(y)} => ~BeginsCore(x)
  BY BlocksMade DEF BeginsCore
<1>3. ASSUME flash' = flash PROVE BootableIsWhole' /\ OnlyCheckedCores'
  BY <1>0, <1>3 DEF BootableIsWhole, OnlyCheckedCores, Complete, HasCore
<1>4. ASSUME job.pc \in Changes
      PROVE  /\ Target \in Blocks
             /\ At("list0") => Target \in 0..(SlotBlocks - 1) /\ job.slot = 0
             /\ ~At("list0") => job.at \in 0..(SlotBlocks - 1) /\ Target = InSlot(job.at)
  BY <1>4, TargetIsBlock DEF Target, StageInv
<1>5. ASSUME job.pc \in Changes, \A b \in Blocks \ {Target} : flash'[b] = flash[b],
             ~BeginsCore(flash'[Target]) \/ (~At("list0") /\ job.at # 0)
      PROVE  BootableIsWhole' /\ OnlyCheckedCores'
  BY <1>5, TargetChanges
<1>6. ASSUME flash' # flash
      PROVE  /\ job.pc \in Changes /\ \A b \in Blocks \ {Target} : flash'[b] = flash[b]
             /\ Target \in Blocks
             /\ \/ flash'[Target] \in {Blank, Junk}
                \/ ProgramBody /\ flash'[Target] = BodyOf(Source(job.at))
                \/ ProgramHead /\ flash'[Target] = Source(job.at)
  <2>1. job.pc \in Changes /\ \A b \in Blocks \ {Target} : flash'[b] = flash[b]
    BY <1>6, StepsChangeOneBlock
  <2>2. \/ Erased(Target) \/ Spoilt(Target)
        \/ ProgramBody /\ Programs(Target, Blank, BodyOf(Source(job.at)))
        \/ ProgramHead /\ Programs(Target, BodyOf(Source(job.at)), Source(job.at))
    BY <1>6
    DEF Steps, begin, EraseList0, EraseHeader, NextBlock, NextListed, Verify, GiveUp, EraseBlock,
        ProgramBody, ProgramHead, At, Target, SpoiltOrKept
  <2> QED  BY <1>0, <1>4, <2>1, <2>2 DEF Erased, Spoilt, Programs
<1>7. ASSUME ProgramHead, job.at = 0, flash'[Target] = Source(0),
             \A b \in Blocks \ {Target} : flash'[b] = flash[b]
      PROVE  BootableIsWhole' /\ OnlyCheckedCores'
  <2> DEFINE c == Source(0).core
  <2>1. /\ job.pc = "head" /\ ui.file = "valid" /\ Target = job.slot * SlotBlocks
        /\ job.back = "list" => job.slot = 0
    BY <1>1, <1>7 DEF ProgramHead, At, Target, StageInv, Writing, Sectoring
  <2>2. hdr.length \in 1..SlotBlocks /\ IsChecked /\ (job.slot > 0 => Continues)
    BY <2>1 DEF PlanInv, Planned, Writing, Sectoring
  <2>3. Target = job.slot * SlotBlocks + 0 /\ 0 \in 0..(SlotBlocks - 1)
    BY <1>0, <2>1, HeaderOfSlot
  <2>4. CASE ~BeginsCore(flash'[Target])
    BY <1>5, <1>7, <2>1, <2>4 DEF Changes
  <2>5. CASE BeginsCore(flash'[Target])
    <3>1. c \in DOMAIN Core /\ Core[c].crc /\ HeaderOk(Core[c], job.slot = 0)
      BY <1>7, <2>2, <2>5 DEF BeginsCore, IsChecked
    <3>2. ASSUME NEW s \in Slots, s # job.slot
          PROVE  flash'[s * SlotBlocks] = flash[s * SlotBlocks]
      <4>1. s * SlotBlocks \in Blocks /\ s * SlotBlocks # Target
        BY <1>0, <2>3, <3>2, HeaderOfSlot, BlockOfSlot, OneSlot
      <4> QED  BY <1>7, <4>1
    <3>3. OnlyCheckedCores'
      BY <1>0, <1>7, <2>1, <3>1, <3>2 DEF OnlyCheckedCores, HasCore
    <3>4. ASSUME NEW s \in Slots \ {0}, HasCore(s * SlotBlocks)' PROVE Complete(s)'
      <4>1. CASE s # job.slot
        <5>1. HasCore(s * SlotBlocks) /\ flash'[s * SlotBlocks] = flash[s * SlotBlocks]
          BY <3>2, <3>4, <4>1 DEF HasCore
        <5> DEFINE d == flash[s * SlotBlocks].core
                   length == Core[d].length
        <5>2. length \in Nat /\ length <= SlotBlocks
          BY <1>0, <5>1, CoreAssumption DEF OnlyCheckedCores, HeaderOk, HasCore
        <5>3. \A k \in 1..(length - 1) : flash[s * SlotBlocks + k] = Part([core |-> d, part |-> k])
          BY <1>0, <5>1 DEF BootableIsWhole, Complete
        <5>4. ASSUME NEW k \in 1..(length - 1)
              PROVE  flash'[s * SlotBlocks + k] = flash[s * SlotBlocks + k]
          <6> HIDE DEF length
          <6>1. k \in 0..(SlotBlocks - 1)
            BY <1>0, <5>2
          <6>2. s * SlotBlocks + k \in Blocks /\ s * SlotBlocks + k # Target
            BY <1>0, <2>3, <4>1, <6>1, BlockOfSlot, OneSlot
          <6> QED  BY <1>7, <6>2
        <5> QED  BY <5>1, <5>3, <5>4 DEF Complete
      <4>2. CASE s = job.slot
        <5> DEFINE length == Core[c].length
        <5>1. length \in Nat /\ length <= SlotBlocks
          BY <3>1, CoreAssumption DEF HeaderOk
        <5>2. job.slot > 0 /\ job.back = "next"
          BY <1>0, <2>1, <3>4, <4>2 DEF JobOK
        <5>3. FirstPass(1)
          BY <1>7, <2>1, <5>2 DEF AboveInv, WrittenInv, Sectoring
        <5>4. ASSUME NEW k \in 1..(length - 1)
              PROVE  flash'[InSlot(k)] = Part([core |-> c, part |-> k])
          <6>1. IF k < hdr.length THEN Source(k) = Part([core |-> c, part |-> k])
                ELSE flash[InSlot(k)] = Part([core |-> c, part |-> k])
            BY <2>2, <3>1, <5>2 DEF Continues
          <6> HIDE DEF length, c
          <6>2. k \in 0..(SlotBlocks - 1) /\ k # 0 /\ k \in Nat
            BY <1>0, <5>1
          <6>3. InSlot(k) \in Blocks /\ InSlot(k) # Target
            BY <1>0, <1>1, <2>3, <6>2, BlockOfSlot, OneSlot
          <6>4. k < hdr.length => flash[InSlot(k)] = Source(k)
            <7>1. k < hdr.length => k \in 1..(hdr.length - 1)
              BY <1>0, <6>2
            <7> QED  BY <5>2, <5>3, <7>1 DEF FirstPass, Done
          <6> QED  BY <1>7, <6>1, <6>3, <6>4
        <5>5. flash'[s * SlotBlocks].core = c
          BY <1>7, <2>1, <4>2
        <5>6. \A k \in 1..(length - 1) : flash'[s * SlotBlocks + k] = Part([core |-> c, part |-> k])
          BY <1>1, <4>2, <5>4
        <5> HIDE DEF c
        <5> QED  BY <5>5, <5>6 DEF Complete
      <4> QED  BY <4>1, <4>2
    <3>5. BootableIsWhole'
      BY <3>4 DEF BootableIsWhole
    <3> QED  BY <3>3, <3>5
  <2> QED  BY <2>4, <2>5
<1>8. BootableIsWhole' /\ OnlyCheckedCores'
  <2>1. CASE flash' = flash
    BY <1>3, <2>1
  <2>2. CASE flash' # flash /\ BeginsCore(flash'[Target]) /\ ~(~At("list0") /\ job.at # 0)
    <3>1. ProgramHead /\ flash'[Target] = Source(job.at)
      <4>1. ASSUME ProgramBody, flash'[Target] = BodyOf(Source(job.at)) PROVE FALSE
        <5>1. job.at \in 0..(SlotBlocks - 1)
          BY <1>4, <1>6, <2>2, <4>1 DEF ProgramBody, At
        <5>2. IsBlock(Source(job.at))
          BY <5>1, SourceOK DEF TypeInv
        <5> QED  BY <2>2, <4>1, <5>2, <1>n
      <4>2. flash'[Target] \notin {Blank, Junk}
        BY <2>2, <1>b, <1>n
      <4> QED  BY <1>6, <2>2, <4>1, <4>2
    <3>2. job.at = 0
      BY <2>2, <3>1 DEF ProgramHead, At
    <3> QED  BY <1>6, <1>7, <2>2, <3>1, <3>2
  <2>3. CASE flash' # flash /\ (~BeginsCore(flash'[Target]) \/ (~At("list0") /\ job.at # 0))
    BY <1>5, <1>6, <2>3
  <2> QED  BY <2>1, <2>2, <2>3
<1>9. HeaderGone'
  <2>1. ASSUME job'.pc \in {"header", "next"} \cup Sectoring, job'.slot > 0, job'.at > 0
        PROVE  ~HasCore(InSlot(0))'
    <3>1. ~At("list0") /\ ~At("list") /\ job.slot > 0
      BY <1>2, <2>1 DEF StageInv
    <3>2. \/ EraseHeader \/ (job.at > 0 /\ job.pc \in {"next"} \cup Sectoring)
      <4>1. CASE begin
        <5>1. Goes("rescan") \/ job'.at = 0
          BY <1>0, <4>1 DEF begin, Idle
        <5> QED  BY <1>0, <2>1, <5>1, GoesOK DEF Sectoring, Places
      <4>2. CASE EraseList0 \/ NextListed
        BY <3>1, <4>2 DEF EraseList0, NextListed
      <4>3. CASE NextBlock
        <5>1. job.pc = "next"
          BY <4>3 DEF NextBlock, At
        <5>2. job.at # 0
          <6>1. ASSUME job.at = 0 PROVE FALSE
            <7>1. job' = [job EXCEPT !.pc = IF job.slot = 0 THEN "list" ELSE "finish",
                                     !.el = Len(hdr.list)]
              BY <4>3, <6>1 DEF NextBlock
            <7>2. job'.at = 0
              BY <1>0, <6>1, <7>1 DEF Idle
            <7> QED  BY <2>1, <7>2
          <6> QED  BY <6>1
        <5> QED  BY <1>0, <5>1, <5>2
      <4>4. CASE Verify \/ GiveUp \/ EraseBlock \/ ProgramBody \/ ProgramHead
        <5>1. job.pc \in Sectoring
          BY <4>4 DEF Verify, GiveUp, EraseBlock, ProgramBody, ProgramHead, At, Sectoring
        <5>2. \/ TriesAgain
              \/ \E pc \in {"erase", "body", "head", "rescan", "stuck", "next", "list"} : Goes(pc)
          BY <1>0, <4>4
          DEF Verify, GiveUp, EraseBlock, ProgramBody, ProgramHead, Differs, JobOK
        <5>3. job'.at = job.at
          BY <1>0, <5>2, GoesOK DEF TriesAgain, Idle, Places
        <5> QED  BY <2>1, <5>1, <5>3
      <4> QED  BY <4>1, <4>2, <4>3, <4>4 DEF Steps
    <3>3. InSlot(0) \in Blocks
      BY <1>0, <1>1, HeaderOfSlot, BlockOfSlot
    <3>4. CASE EraseHeader /\ job.at = 0
      <4>1. Erased(InSlot(0)) \/ Goes("rescan")
        BY <3>1, <3>4 DEF EraseHeader
      <4>2. ~Goes("rescan")
        BY <1>0, <2>1, GoesOK DEF Sectoring, Places
      <4>3. flash'[InSlot(0)] \in {Blank, Junk}
        BY <1>0, <3>3, <4>1, <4>2 DEF Erased
      <4>4. ~BeginsCore(flash'[InSlot(0)])
        BY <4>3, <1>b, <1>n
      <4> QED  BY <1>2, <4>4 DEF HasCore, BeginsCore
    <3>5. CASE job.at > 0 /\ job.pc \in {"header", "next"} \cup Sectoring
      <4>1. ~HasCore(InSlot(0))
        BY <1>0, <3>1, <3>5 DEF HeaderGone
      <4>2. 0 \in 0..(SlotBlocks - 1) /\ job.at # 0
        BY <1>0, <3>5
      <4>3. flash'[InSlot(0)] = flash[InSlot(0)]
        BY <3>1, <4>2, RestOfSlotStays
      <4> QED  BY <1>2, <4>1, <4>3 DEF HasCore
    <3> QED  BY <1>0, <3>2, <3>4, <3>5 DEF EraseHeader, At
  <2> QED  BY <2>1 DEF HeaderGone
<1> QED  BY <1>8, <1>9 DEF SafeInv

\* A power cut spoils the block that changes, which is enough to lose the core.
LEMMA PowerCycleIsSafe ==
  ASSUME TypeInv, StageInv, SafeInv, PowerCycle
  PROVE  BootableIsWhole' /\ OnlyCheckedCores'
<1>1. CASE flash' = flash
  BY <1>1 DEF SafeInv, BootableIsWhole, OnlyCheckedCores, Complete, HasCore
<1>2. ASSUME NEW b \in Changing, Spoilt(b) PROVE BootableIsWhole' /\ OnlyCheckedCores'
  <2>1. job.pc \in Changes /\ b = Target
    BY <1>2 DEF Changing, Changes, Target, At
  <2>2. Target \in Blocks /\ DOMAIN flash = Blocks
    BY <2>1, TargetIsBlock DEF TypeInv, FlashOK
  <2>3. \A x \in Blocks \ {Target} : flash'[x] = flash[x]
    BY <1>2, <2>1, <2>2 DEF Spoilt
  <2>4. ~BeginsCore(flash'[Target])
    BY <1>2, <2>1, <2>2, CoreAssumption DEF Spoilt, BeginsCore, Junk, Blank
  <2> QED  BY <2>1, <2>3, <2>4, TargetChanges
<1> QED  BY <1>1, <1>2 DEF PowerCycle

\* Before writing begins there is nothing to say of what is written.
LEMMA NothingWritten ==
  ASSUME job'.pc \notin Planned \ {"begin"}
  PROVE  WrittenInv'
  BY DEF Planned, Writing, Sectoring, WrittenInv, At

\* A card that fails changes nothing that was written.
LEMMA CardFailsKeepsWritten ==
  ASSUME TypeInv, CardFails, WrittenInv
  PROVE  WrittenInv'
<1>1. UNCHANGED <<flash, attic, hdr, ui, job, board>>
  BY DEF CardFails
<1>2. sd'.bus = sd.bus
  BY DEF CardFails, TypeInv, SdOK, SdFields, NotInitialised
<1>3. \A k : Done(k)' <=> Done(k)
  BY <1>1, <1>2, SourceStays DEF Done, InSlot
<1>4. /\ \A from : FirstPass(from)' <=> FirstPass(from)
      /\ \A but : SecondPass(but)' <=> SecondPass(but)
      /\ \A upto : Wiped(upto)' <=> Wiped(upto)
  BY <1>1, <1>3 DEF FirstPass, SecondPass, Wiped, OnLists, InSlot
<1> QED  BY <1>1, <1>3, <1>4 DEF WrittenInv, At
-----------------------------------------------------------------------------
(* The invariant of the program, and the properties that it implies.        *)

Inv == TypeInv /\ StageInv /\ FileInv /\ ScanInv /\ PlanInv /\ SafeInv /\ AboveInv

\* The invariant when a board is switched on for the first time.
LEMMA InvAtFirst ==
  ASSUME Init
  PROVE  Inv /\ WrittenInv /\ ListInv
<1>0. /\ IsBlock(Junk) /\ {0, 1} \subseteq Nat /\ SlotBlocks \in Nat \ {0} /\ MAX_RETRY \in Nat
      /\ 0 \in Slots /\ "start" \in Places
      /\ job = [Idle EXCEPT !.pc = "start"] /\ job.pc = "start"
  BY CoreAssumption, FlasherAssumption DEF IsBlock, Junk, Blank, Init, Idle, Slots, Places
<1>1. TypeInv
  <2>1. FlashOK
    BY FlashAssumption DEF Init, FlashOK
  <2>2. AtticOK /\ SdOK /\ HdrOK
    <3>1. AtticOK
      BY <1>0 DEF Init, AtticOK, NoAttic
    <3>2. SdOK
      BY DEF Init, SdOK, SdFields, NotInitialised
    <3>3. HdrOK
      BY DEF Init, HdrOK, IsHdr, HdrFields, NoHeader
    <3> QED  BY <3>1, <3>2, <3>3
  <2>3. SlotsOK /\ ListOK /\ UiOK
    BY <1>0 DEF Init, SlotsOK, NotScanned, ListOK, UiOK, NoChoice
  <2>4. JobOK
    BY <1>0, EmptySequence DEF JobOK, Idle
  <2> QED  BY <2>1, <2>2, <2>3, <2>4 DEF TypeInv, Init
<1>2. StageInv /\ PlanInv /\ HeaderGone /\ WrittenInv
  BY <1>0 DEF StageInv, PlanInv, HeaderGone, WrittenInv, At, Planned, Writing, Sectoring
<1>3. FileInv /\ ScanInv
  BY <1>0 DEF Init, FileInv, ScanInv, At, NoHeader
<1>4. BootableIsWhole /\ OnlyCheckedCores
  <2>1. ASSUME NEW slot \in Slots, HasCore(slot * SlotBlocks)
        PROVE  LET c == flash[slot * SlotBlocks].core
               IN /\ Core[c].crc /\ HeaderOk(Core[c], slot = 0)
                  /\ slot > 0 => Complete(slot)
    BY <2>1, FlashAssumption DEF Init, HasCore, Complete
  <2>2. \A slot \in Slots \ {0} : slot > 0
    BY FlasherAssumption DEF Slots
  <2> QED  BY <2>1, <2>2 DEF BootableIsWhole, OnlyCheckedCores
<1>5. ListInv
  BY <1>0 DEF ListInv, At, Planned, Writing, Sectoring
<1> QED  BY <1>1, <1>2, <1>3, <1>4, <1>5 DEF Inv, SafeInv, AboveInv

\* A step that is not one of writing, a failure of the card or a power cut.
LEMMA KeptSteps ==
  ASSUME Inv, Starting \/ Editing \/ Choosing \/ Loading
  PROVE  Kept
  BY StartKeeps, EditingKeeps, ChoosingKeeps, LoadingKeeps, CheckKeeps, RereadKeeps
  DEF Inv, SafeInv, Loading

\* Every step keeps the invariant.
LEMMA InvStep ==
  ASSUME Inv, [Next]_vars
  PROVE  Inv'
<1>1. ASSUME UNCHANGED vars PROVE Inv'
  <2>1. UNCHANGED <<flash, attic, sd, hdr, slots, erase0, ui, job, board>>
    BY <1>1 DEF vars
  <2>2. /\ \A k : Source(k)' = Source(k) /\ InSlot(k)' = InSlot(k)
        /\ Current <=> Current'
        /\ Vetted <=> Vetted'
        /\ FromDisk <=> FromDisk'
        /\ FirstIsLoaded <=> FirstIsLoaded'
    BY <2>1, SourceStays, TableStays, FileStays DEF InSlot
  <2>3. TypeInv' /\ StageInv'
    BY <2>1, TypesStay DEF Inv, TypeInv, StageInv, At
  <2>4. FileInv' /\ ScanInv' /\ PlanInv'
    BY <2>1, <2>2 DEF Inv, FileInv, ScanInv, PlanInv, IsChecked, Continues, At
  <2>5. SafeInv'
    BY <2>1, <2>2 DEF Inv, SafeInv, BootableIsWhole, OnlyCheckedCores, Complete, HeaderGone, HasCore
  <2>6. AboveInv'
    <3>1. \A k : Done(k)' <=> Done(k)
      BY <2>1, <2>2 DEF Done
    <3>2. /\ \A from : FirstPass(from)' <=> FirstPass(from)
          /\ \A but : SecondPass(but)' <=> SecondPass(but)
          /\ \A upto : Wiped(upto)' <=> Wiped(upto)
      BY <2>1, <2>2, <3>1 DEF FirstPass, SecondPass, Wiped, OnLists
    <3> QED  BY <2>1, <3>1, <3>2 DEF Inv, AboveInv, WrittenInv, At
  <2> QED  BY <2>3, <2>4, <2>5, <2>6 DEF Inv
<1>2. ASSUME Next PROVE Inv'
  <2>1. TypeInv'
    BY <1>2, TypeStep DEF Inv
  <2>2. CASE Starting \/ Editing \/ Choosing \/ Loading
    <3>1. Kept
      BY <2>2, KeptSteps
    <3>2. BootableIsWhole' /\ OnlyCheckedCores'
      BY <3>1 DEF Kept, Inv, SafeInv, BootableIsWhole, OnlyCheckedCores, Complete, HasCore
    <3> QED  BY <2>1, <3>1, <3>2, NothingWritten DEF Kept, Inv, SafeInv, AboveInv
  <2>3. CASE Steps
    <3>1. StageInv' /\ job'.slot = job.slot
      BY <2>3, StepsGo DEF Inv
    <3>2. FileInv' /\ ScanInv' /\ PlanInv'
      BY <2>3, PlanStep DEF Inv
    <3>3. SafeInv'
      BY <2>3, SafeStep DEF Inv
    <3>4. job.slot > 0 => NoZeros /\ WrittenInv
      BY DEF Inv, NoZeros, AboveInv
    <3>5. AboveInv'
      BY <2>3, <3>1, <3>4, WrittenStep DEF Inv, AboveInv
    <3> QED  BY <2>1, <3>1, <3>2, <3>3, <3>5 DEF Inv
  <2>4. CASE Others
    <3>1. /\ StageInv' /\ FileInv' /\ ScanInv' /\ PlanInv' /\ HeaderGone'
          /\ PowerCycle \/ flash' = flash
          /\ CardFails \/ job'.pc \notin Planned
      BY <2>4, OthersKeep DEF Inv, SafeInv
    <3>2. BootableIsWhole' /\ OnlyCheckedCores'
      <4>1. CASE PowerCycle
        BY <4>1, PowerCycleIsSafe DEF Inv
      <4>2. CASE flash' = flash
        BY <4>2 DEF Inv, SafeInv, BootableIsWhole, OnlyCheckedCores, Complete, HasCore
      <4> QED  BY <3>1, <4>1, <4>2
    <3>3. AboveInv'
      <4>1. CASE CardFails
        <5>1. job' = job
          BY <4>1 DEF CardFails
        <5> QED  BY <4>1, <5>1, CardFailsKeepsWritten DEF Inv, AboveInv
      <4>2. CASE job'.pc \notin Planned
        BY <4>2, NothingWritten DEF AboveInv
      <4> QED  BY <3>1, <4>1, <4>2
    <3> QED  BY <2>1, <3>1, <3>2, <3>3 DEF Inv, SafeInv
  <2> QED  BY <1>2, <2>2, <2>3, <2>4, NextIs
<1> QED  BY <1>1, <1>2

\* The invariant of every behaviour.
LEMMA InvHolds == Spec => []Inv
<1>1. Init => Inv
  BY InvAtFirst
<1>2. Inv /\ [Next]_vars => Inv'
  BY InvStep
<1> QED  BY <1>1, <1>2, PTL DEF Spec

\* What a block holds, the table and the program have their types whatever is
\* in the directories and the files of the cards.
THEOREM FlasherTypes == Spec => []FlasherTypeOK
<1>1. Inv => FlasherTypeOK
  BY DEF Inv, TypeInv, FlashOK, AtticOK, IsBlock, JobOK, HdrOK, IsHdr, UiOK, SlotsOK, FlasherTypeOK
<1> QED  BY <1>1, InvHolds, PTL

\* In the menu the table of the slots is what the flash holds.
THEOREM MenuShowsTheFlash == Spec => []ScanIsCurrent
<1>1. Inv => ScanIsCurrent
  BY DEF Inv, ScanInv, Current, ScanIsCurrent, At
<1> QED  BY <1>1, InvHolds, PTL

\* Above slot 0 a header in the flash has the rest of its core behind it, at
\* any moment of flashing, erasing, failing or switching off.
THEOREM HeaderComesLast == Spec => []BootableIsWhole
<1>1. Inv => BootableIsWhole
  BY DEF Inv, SafeInv
<1> QED  BY <1>1, InvHolds, PTL

\* Only a core whose header and checksum passed gets into a slot.
THEOREM NothingUncheckedIsFlashed == Spec => []OnlyCheckedCores
<1>1. Inv => OnlyCheckedCores
  BY DEF Inv, SafeInv
<1> QED  BY <1>1, InvHolds, PTL
-----------------------------------------------------------------------------
(* Where no erase list of a core has a zero, which would make both passes of
   mfhf_flash_core leave out the header of slot 0.                          *)

\* Either the list in the header globals is one of a core, or it is the one
\* that the program began with, and then no core is written to slot 0.
ListIsGood == \A i \in 1..Len(hdr.list) : hdr.list[i] # 0

\* The list of a file that was looked at is that of a core.
LEMMA VettedListIsGood ==
  ASSUME ListsHaveNoZero
  PROVE  /\ Vetted => ListIsGood
         /\ Vetted' => ListIsGood'
         /\ \A s, h, mega : FileIsFor(s, h, mega) => \A i \in 1..Len(h.list) : h.list[i] # 0
  BY DEF ListsHaveNoZero, Vetted, FileIsFor, IsHeader, ListIsGood

\* The program writes slot 0 only with a list that it has seen.
LEMMA ListStep ==
  ASSUME ListsHaveNoZero, Inv, ListInv, Next
  PROVE  ListInv'
<1>0. /\ JobOK /\ DOMAIN job = DOMAIN Idle /\ DOMAIN ui = DOMAIN NoChoice /\ DOMAIN hdr = HdrFields
      /\ {"hyppo", "core", "open", "menu", "interactive", "off", "start", "edit", "select", "load",
          "reread", "begin"} \subseteq Places
      /\ {"hyppo", "core", "menu", "interactive", "off", "start", "rescan", "stuck", "edit", "select",
          "reread", "open", "load"} \cap Planned = {}
      /\ 0 \in Slots /\ job.slot \in Slots /\ \A slot \in Slots : slot # 0 => slot > 0
      /\ DOMAIN sd = SdFields
  BY FlasherAssumption
  DEF Inv, TypeInv, JobOK, UiOK, HdrOK, IsHdr, Places, Planned, Writing, Sectoring, Slots, SdOK
<1> DEFINE Named == {"edit", "select", "reread", "open", "load"} \cup Planned
<1>1. ASSUME job'.pc \notin Named PROVE ListInv'
  BY <1>1 DEF ListInv, At
<1>g. ASSUME NEW pc \in Places, Goes(pc)
      PROVE  job'.pc = pc /\ (pc # "menu" => job'.slot = job.slot)
  BY <1>0, <1>g, GoesOK
<1>2. ASSUME NEW pc \in {"hyppo", "core"}, NEW slot \in Slots, HandsOver(pc, slot) PROVE ListInv'
  <2>1. job'.pc = pc
    BY <1>2 DEF HandsOver, Idle
  <2> QED  BY <1>0, <1>1, <2>1
<1>3. ASSUME hdr' = hdr, slots' = slots, ui'.file = ui.file, job'.pc = job.pc, job'.slot = job.slot
      PROVE  ListInv'
  BY <1>3 DEF ListInv, At
<1>4. ASSUME ListIsGood, hdr'.list = hdr.list PROVE ListInv'
  BY <1>4 DEF ListInv, ListIsGood
<1>5. ASSUME hdr' = hdr, slots' = slots, job.pc \in {"edit", "select"}, job'.slot = job.slot,
             job'.pc \in {"edit", "select"}
      PROVE  ListInv'
  BY <1>0, <1>5 DEF ListInv, At
<1>6. CASE Starting
  <2>1. CASE LeaveAtOnce
    BY <1>0, <1>2, <2>1 DEF LeaveAtOnce, hard_exit
  <2>2. CASE Interactive
    <3>1. job'.pc = "menu"
      BY <2>2 DEF Interactive, Idle
    <3> QED  BY <1>0, <1>1, <3>1
  <2>3. CASE StartUp
    <3>1. ASSUME Brings, BringUp PROVE ListInv'
      <4>1. job'.pc = "open"
        BY <1>0, <3>1 DEF BringUp, Idle
      <4>2. Vetted'
        BY <1>6, <4>1, KeptSteps DEF Kept, FileInv, At
      <4>3. ListIsGood'
        BY <4>2, VettedListIsGood
      <4> QED  BY <4>3 DEF ListInv, ListIsGood
    <3>2. ASSUME NEW bad, StartSelected(bad) PROVE ListInv'
      <4>1. Selected(check_cartridge(board.cart), bad) \in Slots
        BY SelectedIsSlot DEF Inv, TypeInv
      <4> QED  BY <1>2, <3>2, <4>1 DEF StartSelected
    <3>3. ASSUME NEW bad, WarnsOf(bad) PROVE ListInv'
      <4>1. job'.pc = "interactive"
        BY <1>0, <1>g, <3>3 DEF WarnsOf
      <4> QED  BY <1>0, <1>1, <4>1
    <3> QED  BY <1>0, <1>2, <2>3, <3>1, <3>2, <3>3 DEF StartUp, hard_exit
  <2> QED  BY <1>6, <2>1, <2>2, <2>3 DEF Starting
<1>7. CASE Editing
  <2>1. CASE display_version
    <3>1. job'.pc = "menu"
      BY <2>1 DEF display_version, Key, At
    <3> QED  BY <1>0, <1>1, <3>1
  <2>2. CASE EditSlot
    <3>1. PICK slot \in Slots : /\ job' = [Idle EXCEPT !.pc = "edit", !.slot = slot]
                                /\ hdr' = [hdr EXCEPT !.flags = slots[slot].real, !.caps = slots[slot].caps,
                                                      !.length = slots[slot].length]
                                /\ slots' = slots
      BY <2>2 DEF EditSlot
    <3>2. job'.pc = "edit" /\ job'.slot = slot /\ hdr'.flags = slots[slot].real
      BY <1>0, <3>1 DEF Idle, HdrFields, NoHeader
    <3>3. "edit" \notin {"open", "load"} \cup Planned
      BY <1>0
    <3> QED  BY <3>1, <3>2, <3>3 DEF ListInv, At
  <2>3. CASE Cancel
    <3>1. job'.pc = "menu"
      BY <1>0, <1>g, <2>3 DEF Cancel
    <3> QED  BY <1>0, <1>1, <3>1
  <2>4. CASE ToggleFlag
    <3>1. hdr'.list = hdr.list /\ job' = job /\ job.slot > 0
      BY <1>0, <2>4 DEF ToggleFlag, HdrFields, NoHeader
    <3>2. job.slot # 0
      BY <1>0, <3>1, FlasherAssumption DEF Slots
    <3> QED  BY <3>1, <3>2 DEF ListInv, At
  <2>5. CASE ToggleAttic \/ ChooseErase
    <3>1. hdr' = hdr /\ slots' = slots /\ job' = job /\ job.pc = "edit"
      BY <2>5 DEF ToggleAttic, ChooseErase, Key, At
    <3> QED  BY <1>5, <3>1
  <2>6. CASE Flash
    <3>1. job.pc = "edit" /\ hdr' = hdr /\ slots' = slots /\ ui' = ui
      BY <2>6 DEF Flash, Key, At
    <3>2. CASE ui.file = "erase" /\ Goes("begin")
      <4>1. job'.pc = "begin"
        BY <1>0, <1>g, <3>2
      <4> QED  BY <3>1, <3>2, <4>1 DEF ListInv, At
    <3>3. CASE ui.file = "valid" /\ Goes("open")
      <4>1. ListIsGood
        BY <3>1, <3>3, VettedListIsGood DEF Inv, FileInv, At
      <4> QED  BY <1>4, <3>1, <4>1
    <3>4. CASE slots[job.slot].real # hdr.flags /\ Goes("reread")
      <4>1. job'.pc = "reread" /\ job'.slot = job.slot
        BY <1>0, <1>g, <3>4
      <4>2. CASE ListIsGood
        BY <1>4, <3>1, <4>2
      <4>3. CASE ~ListIsGood
        <5>1. job.slot > 0
          BY <1>0, <3>1, <3>4, <4>3 DEF ListInv, ListIsGood
        <5>2. "reread" \notin {"open", "load"} \cup Planned
          BY <1>0
        <5> QED  BY <4>1, <5>1, <5>2 DEF ListInv, At
      <4> QED  BY <4>2, <4>3
    <3> QED  BY <2>6, <3>2, <3>3, <3>4 DEF Flash
  <2> QED  BY <1>7, <2>1, <2>2, <2>3, <2>4, <2>5, <2>6 DEF Editing
<1>8. CASE Choosing
  <2>0. slots' = slots /\ job.pc \in {"edit", "select"}
    BY <1>8 DEF Choosing, ChooseCore, SwitchDisk, SwitchDir, Move, Preview, Pick, Abort, Key, Lists,
                SlotsStay, At
  <2>1. CASE ChooseCore \/ SwitchDisk \/ SwitchDir
    <3>1. PICK loaded : Lists(loaded)
      BY <2>1 DEF ChooseCore, SwitchDisk, SwitchDir
    <3>2. hdr' = hdr /\ (Goes("select") \/ Goes("edit"))
      BY <3>1 DEF Lists
    <3> QED  BY <1>0, <1>5, <1>g, <2>0, <3>2
  <2>2. CASE Move
    BY <1>5, <2>0, <2>2 DEF Move
  <2>3. CASE Abort
    <3>1. hdr' = hdr /\ Goes("edit")
      BY <2>3 DEF Abort
    <3> QED  BY <1>0, <1>5, <1>g, <2>0, <3>1
  <2>4. CASE Preview \/ Pick
    <3>1. PICK ino : hdr' = CheckedAt(ino).h
      BY <2>4 DEF Preview, Pick
    <3>2. job'.slot = job.slot /\ job'.pc \in {"edit", "select"}
      BY <1>0, <1>g, <2>0, <2>4 DEF Preview, Pick
    <3> DEFINE mega == job.slot = 0
               h == [hdr EXCEPT !.ino = ino]
    <3>3. DOMAIN sd = SdFields /\ IsHdr(h) /\ h.list = hdr.list /\ h.flags = hdr.flags
      BY <1>0 DEF Inv, TypeInv, HdrOK, IsHdr, HdrFields, NoHeader
    <3>4. PICK m \in BOOLEAN : m = mega
      OBVIOUS
    <3>5. CheckedAt(ino) = mfsc_checkcore(sd, h, m)
      BY <3>4 DEF CheckedAt
    <3> HIDE DEF h, mega
    <3>6. /\ CheckedAt(ino).ok => FileIsFor(CheckedAt(ino).s, CheckedAt(ino).h, m)
          /\ ~CheckedAt(ino).ok => CheckedAt(ino).h.list = h.list /\ CheckedAt(ino).h.flags = h.flags
      BY <3>3, <3>5, HeaderIsLooked
    <3>7. CASE CheckedAt(ino).ok
      <4>1. ListIsGood'
        BY <3>1, <3>6, <3>7, VettedListIsGood DEF ListIsGood
      <4> QED  BY <4>1 DEF ListInv, ListIsGood
    <3>8. CASE ~CheckedAt(ino).ok
      <4>1. hdr'.list = hdr.list /\ hdr'.flags = hdr.flags
        BY <3>1, <3>3, <3>6, <3>8
      <4>2. "reread" \notin {"edit", "select"} /\ {"edit", "select"} \cap ({"open", "load"} \cup Planned) = {}
        BY <1>0
      <4> QED  BY <2>0, <3>2, <4>1, <4>2 DEF ListInv, At
    <3> QED  BY <3>7, <3>8
  <2> QED  BY <1>8, <2>1, <2>2, <2>3, <2>4 DEF Choosing
<1>9. CASE Loading
  <2>0. hdr'.list = hdr.list
    BY <1>0, <1>9 DEF Loading, OpenCore, LoadSector, AbortLoad, CheckCrc, load_core_from_flash,
                      HdrFields, NoHeader
  <2>1. CASE ListIsGood
    BY <1>4, <2>0, <2>1
  <2>2. ASSUME GivesUp \/ Goes("menu") PROVE ListInv'
    <3>1. job'.pc \in {"off", "menu"}
      BY <1>0, <1>g, <2>2 DEF GivesUp
    <3> QED  BY <1>0, <1>1, <3>1
  <2>3. CASE ~ListIsGood /\ load_core_from_flash /\ Goes("begin")
    <3>1. job.slot > 0 /\ job'.slot = job.slot /\ job'.pc = "begin"
      BY <1>0, <1>g, <2>3 DEF ListInv, ListIsGood, load_core_from_flash
    <3> QED  BY <3>1 DEF ListInv, At
  <2>4. CASE ~ListIsGood /\ (OpenCore \/ LoadSector \/ CheckCrc) /\ ~GivesUp
    <3>1. Vetted
      BY <2>4 DEF OpenCore, LoadSector, CheckCrc, Inv, FileInv
    <3> QED  BY <2>4, <3>1, VettedListIsGood
  <2> QED
    BY <1>9, <2>1, <2>2, <2>3, <2>4
    DEF Loading, AbortLoad, load_core_from_flash
<1>10. CASE Steps
  <2>1. job.pc \in Planned /\ job'.pc \in Planned \cup {"rescan", "stuck"}
    BY <1>10, StepsStayInPlan DEF Inv
  <2>2. hdr' = hdr /\ ui' = ui /\ job'.slot = job.slot
    BY <1>10, StepsKeepFrame, StepsGo DEF Frame, Inv
  <2>3. CASE ListIsGood
    BY <1>4, <2>2, <2>3
  <2>4. CASE ~ListIsGood
    <3>1. job.slot > 0 \/ ui.file = "erase"
      BY <2>1, <2>4 DEF ListInv, ListIsGood
    <3>2. ~(job'.pc \in {"edit", "select"}) /\ job'.pc # "reread"
      BY <1>0, <2>1
    <3> QED  BY <2>2, <3>1, <3>2 DEF ListInv, At
  <2> QED  BY <2>3, <2>4
<1>11. CASE Others
  <2>1. CASE perhaps_reconfig \/ Leave
    BY <1>0, <1>2, <2>1 DEF perhaps_reconfig, Leave, hard_exit
  <2>2. CASE Rescan
    <3>1. job'.pc \in {"off", "menu"}
      BY <1>0, <1>g, <2>2 DEF Rescan
    <3> QED  BY <1>0, <1>1, <3>1
  <2>3. CASE CardFails
    BY <1>3, <2>3 DEF CardFails
  <2>4. CASE PowerCycle
    <3>1. job'.pc = "start"
      BY <2>4 DEF PowerCycle, Idle
    <3> QED  BY <1>0, <1>1, <3>1
  <2> QED  BY <1>11, <2>1, <2>2, <2>3, <2>4 DEF Others
<1> QED  BY <1>6, <1>7, <1>8, <1>9, <1>10, <1>11, NextIs

\* With such a list slot 0 is written like the others.
LEMMA AllWrittenStep ==
  ASSUME ListsHaveNoZero, Inv, ListInv, WrittenInv, [Next]_vars
  PROVE  ListInv' /\ WrittenInv'
<1>1. CASE UNCHANGED vars
  <2>1. UNCHANGED <<flash, attic, sd, hdr, slots, ui, job, board>>
    BY <1>1 DEF vars
  <2>2. \A k : Done(k)' <=> Done(k)
    BY <2>1, SourceStays DEF Done, InSlot
  <2>3. /\ \A from : FirstPass(from)' <=> FirstPass(from)
        /\ \A but : SecondPass(but)' <=> SecondPass(but)
        /\ \A upto : Wiped(upto)' <=> Wiped(upto)
    BY <2>1, <2>2 DEF FirstPass, SecondPass, Wiped, OnLists, InSlot
  <2> QED  BY <2>1, <2>2, <2>3 DEF WrittenInv, ListInv, At
<1>2. CASE Next
  <2>1. ListInv'
    BY <1>2, ListStep
  <2>2. CASE Starting \/ Editing \/ Choosing \/ Loading
    BY <2>1, <2>2, KeptSteps, NothingWritten DEF Kept
  <2>3. CASE Steps
    <3>1. job.pc \in Planned
      BY <2>3, StepsStayInPlan DEF Inv
    <3>2. NoZeros
      BY <3>1, FlasherAssumption DEF ListInv, NoZeros, Inv, TypeInv, JobOK, Slots
    <3> QED  BY <2>1, <2>3, <3>2, WrittenStep DEF Inv
  <2>4. CASE Others
    <3>1. CardFails \/ job'.pc \notin Planned
      BY <2>4, OthersKeep DEF Inv, SafeInv
    <3> QED  BY <2>1, <3>1, CardFailsKeepsWritten, NothingWritten DEF Inv
  <2> QED  BY <1>2, <2>2, <2>3, <2>4, NextIs
<1> QED  BY <1>1, <1>2

\* Where no list has a zero, a slot that the program has finished with holds,
\* block by block, what was loaded for it, or nothing.
THEOREM FinishedHoldsWhatWasLoaded ==
  ASSUME ListsHaveNoZero
  PROVE  Spec => []FinishedIsWritten
<1>1. Init => Inv /\ ListInv /\ WrittenInv
  BY InvAtFirst
<1>2. Inv /\ ListInv /\ WrittenInv /\ [Next]_vars => Inv' /\ ListInv' /\ WrittenInv'
  BY InvStep, AllWrittenStep
<1>3. Inv /\ WrittenInv => FinishedIsWritten
  <2>1. ASSUME Inv, WrittenInv, At("finish") PROVE FinishedIsWritten
    <3>1. CASE ui.file = "valid"
      BY <2>1, <3>1 DEF WrittenInv, FinishedIsWritten, Done
    <3>2. CASE ui.file = "erase"
      BY <2>1, <3>2 DEF WrittenInv, FinishedIsWritten, Wiped
    <3> QED  BY <2>1, <3>1, <3>2 DEF Inv, StageInv, TypeInv, UiOK
  <2> QED  BY <2>1 DEF FinishedIsWritten
<1> QED  BY <1>1, <1>2, <1>3, PTL DEF Spec
==============================================================================
