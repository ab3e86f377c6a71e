------------------------------ MODULE MCFlasher ------------------------------
(* Three slots of three erase blocks, and two cards with small cores.       *)
EXTENDS CoreFlasher, Directories, TLC

Sound(length) ==
  [magic |-> TRUE, length |-> length, model |-> TRUE, mega |-> FALSE, crc |-> TRUE, caps |-> {},
   flags |-> {}, auto |-> FALSE, list |-> <<>>]

\* A factory core with an erase list, one with flags, a long one, one with a
\* wrong checksum and one for another board.
MCCore ==
  [mega  |-> [Sound(3) EXCEPT !.mega = TRUE, !.auto = TRUE, !.list = <<4, 8>>],
   small |-> [Sound(2) EXCEPT !.caps = {"m65"}, !.flags = {"m65"}],
   torn  |-> [Sound(2) EXCEPT !.crc = FALSE],
   other |-> [Sound(3) EXCEPT !.model = FALSE, !.caps = {"c64"}]]

Short(name) == <<name, "", "">>
MCCoreNames == {Short("MEGA.COR"), Short("SMALL.COR"), Short("TORN.COR"), <<"a long name ", "OTHER.COR", "">>}
MCBringup   == Short("MEGA.COR")

Plain(name, ino) == [vfat |-> FALSE, deleted |-> FALSE, hidden |-> FALSE, dotted |-> FALSE,
                     name |-> name, ino |-> ino]
Long(seq, last, text) == [vfat |-> TRUE, deleted |-> FALSE, seq |-> seq, last |-> last, text |-> text]
Gone(e) == [e EXCEPT !.deleted = TRUE]
File(c, parts) == [k \in 1..2 |-> [core |-> c, part |-> parts[k]]]

\* The internal card has a file to bring a board up with, and no directory
\* CORE; in the external one a deleted name is left in it.
Internal ==
  [mbr |-> TRUE, fat |-> TRUE, files |-> {3, 4},
   next |-> <<0, 0, 4, 0>>,
   sectors |-> << <<>>,
                  << <<Plain("MEGA.COR", 3)>>, <<Plain("TEXT", 9)>> >>,
                  File("mega", <<0, 1>>), File("mega", <<2, 2>>) >>]
External ==
  [mbr |-> TRUE, fat |-> TRUE, files |-> 4..7,
   next |-> <<0, 0, 0, 0, 0, 7, 0>>,
   sectors |-> << <<>>,
                  << <<Plain("TORN.COR", 5), Plain("CORE", 3)>>, <<Gone(Plain("OLD.COR", 9))>> >>,
                  << <<Long(2, TRUE, "OTHER.COR"), Long(1, FALSE, "a long name "), Plain("OTHER~1", 6)>>,
                     <<Gone(Long(2, TRUE, "gone")), Gone(Long(1, FALSE, "gone")), Gone(Plain("GONE", 9)),
                       Plain("SMALL.COR", 4)>> >>,
                  File("small", <<0, 1>>), File("torn", <<0, 1>>),
                  File("other", <<0, 1>>), File("other", <<2, 2>>) >>]
BothCards == (0 :> Internal) @@ (1 :> External)
NoExternal == (0 :> Internal) @@ (1 :> NoCard)

\* Two models, with slots of different sizes.
MCModels == (2 :> SlotBlocks + 1) @@ (3 :> SlotBlocks)
Chip == [model |-> 3, size |-> SlotCount * SlotBlocks, erases |-> {64, 256}]

NoCart == [m65 |-> FALSE, cbm80 |-> FALSE, low |-> FALSE, cbm |-> FALSE]
Started(build) ==
  [build |-> build, jtag |-> FALSE, reconfigured |-> FALSE, noscroll |-> TRUE, esc |-> FALSE,
   switch |-> 0, cart |-> NoCart, atticbad |-> FALSE, defect |-> NoBlock, chip |-> Chip]
WithDefect(b, block) == [b EXCEPT !.defect = block]
Boots(build) == [Started(build) EXCEPT !.noscroll = FALSE]
MCBoards ==
  {Started("attic"), Started("solo"),
   [Started("disk") EXCEPT !.defect = 4, !.chip.model = 19, !.chip.size = @ + 1],
   [Started("solo") EXCEPT !.chip.model = 10], [Boots("attic") EXCEPT !.chip.erases = {}],
   [Started("solo") EXCEPT !.atticbad = TRUE, !.defect = 3],
   [Boots("attic") EXCEPT !.jtag = TRUE],
   [Boots("disk") EXCEPT !.cart = [NoCart EXCEPT !.m65 = TRUE]],
   [Boots("attic") EXCEPT !.cart = [NoCart EXCEPT !.low = TRUE], !.switch = 1]}

In(slot, c) == [b \in {slot * SlotBlocks + k : k \in 0..(Core[c].length - 1)} |->
                  Part([core |-> c, part |-> b - slot * SlotBlocks])]
AllBlank == [b \in Blocks |-> Blank]
MCFlashes == {In(0, "mega") @@ In(1, "small") @@ AllBlank,
              In(2, "small") @@ (3 :> Junk) @@ (5 :> Junk) @@ AllBlank}
=============================================================================
