----------------------------- MODULE Directories -----------------------------
(***************************************************************************)
(* How the core flasher reads directories: the entries and their names     *)
(* (src/utilities/megaflash/nohysdc.c) and the walk of the chooser of core *)
(* files over them (mf_selectcore.c).                                      *)
(*                                                                         *)
(* An entry has vfat and deleted; a VFAT entry seq, last and text; a plain *)
(* one name, ino, hidden (its name starts with _ or ~) and dotted (its     *)
(* long name starts with a dot).                                           *)
(***************************************************************************)
EXTENDS CoreFiles

CONSTANTS CoreNames,         \* the names, as chunks, that end in .COR
          CoreDirectory      \* the chunk that names the directory CORE

\* The first entry that is asked for makes a sector be read.
EntriesAreRead == 999
nhsd_opendir(s) == [nhsd_open_inode(s, s.dir, "dir") EXCEPT !.entry = EntriesAreRead]

Entry(s) == s.sector[s.entry]
nhsd_dir_next_entry(s) ==
  IF s.entry # EntriesAreRead /\ s.entry < Len(s.sector) THEN Result([s EXCEPT !.entry = @ + 1], "ok")
  ELSE LET read == nhsd_read(s)
       IN IF read.err = "ok" THEN Result([read.s EXCEPT !.entry = 1], "ok") ELSE read

\* The chunk a VFAT entry brings; the one that is last in the name comes
\* first and ends the name after itself.
nhsd_copy_vfat_chars_into_dname(name, e) ==
  [chunk \in DOMAIN name |-> CASE chunk = e.seq             -> e.text
                              [] e.last /\ chunk > e.seq     -> ""
                              [] OTHER                       -> name[chunk]]
PlainName(name, e) == [chunk \in DOMAIN name |-> IF chunk = 1 THEN e.name ELSE ""]

RECURSIVE VfatRun(_, _, _), ReadOn(_, _, _)

\* The VFAT entries of a name.  seq is what was read before the first entry
\* that is not deleted: the variable seqnumber, which nothing initialised.
AfterVfat(next, deleted, seq) ==
  IF next.err = "ok" /\ Entry(next.s).vfat /\ seq > 1 THEN VfatRun(next.s, deleted, seq)
  ELSE [s |-> next.s, err |-> next.err, deleted |-> deleted]
VfatRun(s, before, seq) ==
  LET e       == Entry(s)
      deleted == before \/ e.deleted
      named   == IF deleted THEN s ELSE [s EXCEPT !.name = nhsd_copy_vfat_chars_into_dname(@, e)]
  IN AfterVfat(nhsd_dir_next_entry(named), deleted, IF deleted THEN seq ELSE e.seq)

\* A plain entry that follows, on its own or behind its VFAT entries.  One
\* without a name is passed over, and the entry after it counts as one with
\* VFAT entries if it did.
Listed(s, vfat, unset) ==
  LET e     == Entry(s)
      named == [s EXCEPT !.name = IF vfat THEN @ ELSE PlainName(@, e), !.ino = e.ino]
  IN CASE e.deleted \/ e.hidden \/ (vfat /\ e.dotted) -> ReadOn([s EXCEPT !.name[1] = ""], FALSE, unset)
       [] named.name[1] = "" -> ReadOn(named, vfat, unset)
       [] OTHER              -> Result(named, "ok")

AfterRun(run, unset) ==
  CASE run.err # "ok" -> Result(run.s, run.err)
    [] run.deleted    -> ReadOn([run.s EXCEPT !.name[1] = ""], FALSE, unset)
    [] OTHER          -> Listed(run.s, TRUE, unset)
Found(next, vfat, unset) ==
  CASE next.err # "ok"    -> next
    [] Entry(next.s).vfat -> AfterRun(VfatRun(next.s, FALSE, unset), unset)
    [] OTHER              -> Listed(next.s, vfat, unset)
ReadOn(s, vfat, unset) == Found(nhsd_dir_next_entry(s), vfat, unset)

\* The next file of the directory.  unset is what seqnumber happens to hold.
nhsd_readdir(s, unset) ==
  IF s.open # "dir" THEN Result(s, "not open") ELSE ReadOn(s, FALSE, unset)

RECURSIVE ReadUntil(_, _, _)
ReadUntil(read, wanted, unset) ==
  IF read.err # "ok" \/ read.s.name = wanted THEN read
  ELSE ReadUntil(nhsd_readdir(read.s, unset), wanted, unset)

\* Looks for a file in the current directory.  An error of reading is one of
\* the answers that mean: not found.
nhsd_findfile(s, wanted, unset) ==
  IF CannotOpen(s) THEN Result(s, "not open")
  ELSE LET read == ReadUntil(nhsd_readdir(nhsd_opendir(s), unset), wanted, unset)
       IN Result(nhsd_close(read.s), read.err)

-----------------------------------------------------------------------------
(* The chooser: of which card, and the root or CORE.                        *)

IsCoreName(name) == name \in CoreNames
IsCoreDirectory(s, d) == d.coredir = 0 /\ ~d.core /\ s.name[1] = CoreDirectory /\ s.name[2] = ""

RECURSIVE Gather(_, _, _, _), Scan(_, _, _, _)

\* d.core says which directory is read, wanted which one was asked for.  As
\* soon as CORE is found in the root, reading starts again there if it was.
Gather(read, d, wanted, unset) ==
  CASE read.err # "ok" ->
         [s |-> nhsd_close(read.s), d |-> [d EXCEPT !.bus = read.s.bus, !.ok = TRUE]]
    [] IsCoreDirectory(read.s, d) /\ wanted ->
         Scan(nhsd_close(read.s), [d EXCEPT !.coredir = read.s.ino], wanted, unset)
    [] OTHER ->
         Gather(nhsd_readdir(read.s, unset),
                [d EXCEPT !.coredir = IF IsCoreDirectory(read.s, d) THEN read.s.ino ELSE @,
                          !.files = IF IsCoreName(read.s.name) THEN Append(@, read.s.ino) ELSE @],
                wanted, unset)

InDirectory(s, d) == [s EXCEPT !.dir = IF d.core THEN d.coredir ELSE ROOT_INODE]
Opened(s, d, wanted, unset) ==
  IF CannotOpen(s) THEN [s |-> s, d |-> [d EXCEPT !.ok = FALSE]]
  ELSE Gather(nhsd_readdir(nhsd_opendir(s), unset), d, wanted, unset)
Scan(s, d, wanted, unset) ==
  LET here == [d EXCEPT !.core = d.coredir # 0 /\ wanted, !.files = <<>>]
  IN Opened(InDirectory(s, here), here, wanted, unset)
=============================================================================
