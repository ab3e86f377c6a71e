----------------------------- MODULE MCJoyFlash -----------------------------
(* Two slots of two blocks of two pages, and a card with six core files.    *)
EXTENDS JoyFlash, TLC

Named(name, length) ==
  [name |-> name, length |-> length, magic |-> TRUE, mega |-> TRUE, model |-> "ours"]

\* A core, one that is short, one for another board, one without a model, one
\* that is no core, and one that is longer than a slot.
MCCore ==
  [good    |-> Named("GOOD", 2),
   short   |-> Named("SHORT", 1),
   other   |-> [Named("OTHER", 2) EXCEPT !.model = "other"],
   missing |-> [Named("MISSING", 2) EXCEPT !.model = "missing"],
   text    |-> [Named("TEXT", 1) EXCEPT !.magic = FALSE, !.model = "missing"],
   long    |-> Named("LONG", 3)]
MCCoreNames == {MCCore[c].name : c \in DOMAIN MCCore} \cup {"EMPTY"}

File(name, ino) == [name |-> name, ino |-> ino, gone |-> FALSE]
Gone == [NoEntry EXCEPT !.name = "OLD"]
Sectors(c, from) == <<CorePart(c, from), CorePart(c, from + 1)>>
Dir(entries) == [kind |-> "dir", entries |-> entries]

\* The directory goes over two clusters, and so does the long core.
External ==
  [mbr |-> TRUE, fat |-> TRUE, root |-> <<2, 3>>,
   next |-> <<0, 3, 0, 0, 0, 0, 0, 0, 10, 0>>,
   sectors |-> << <<>>,
                  <<Dir(<<File("NOTES", 7), File("GOOD", 4), Gone>>),
                    Dir(<<File("TEXT", 7), File("OTHER", 6), Gone>>)>>,
                  <<Dir(<<File("MISSING", 5), File("LONG", 9), File("SHORT", 8)>>),
                    Dir(<<File("EMPTY", 0)>>)>>,
                  Sectors("good", 0), Sectors("missing", 0), Sectors("other", 0), Sectors("text", 0),
                  Sectors("short", 0), Sectors("long", 0), Sectors("long", 2)>>]
Internal ==
  [mbr |-> TRUE, fat |-> TRUE, root |-> <<2>>,
   next |-> <<0, 0, 0, 0>>,
   sectors |-> << <<>>,
                  <<Dir(<<File("GOOD", 3), File("OTHER", 4)>>), Dir(<<Gone>>)>>,
                  Sectors("good", 0), Sectors("other", 0)>>]
MCCard == (0 :> Internal) @@ (1 :> External)

\* The chip has blocks of 256 KB that are protected at first, or of 64 KB.
Board == [jtag |-> FALSE, low |-> {}, high |-> {}, answers |-> TRUE, probed |-> TRUE, protected |-> FALSE,
          shift |-> 1, locked |-> Blocks, cards |-> {0, 1}]
MCBoards == {Board, [Board EXCEPT !.cards = {0}], [Board EXCEPT !.low = {3}],
             [Board EXCEPT !.jtag = TRUE, !.shift = 4, !.locked = {}],
             [Board EXCEPT !.shift = 4, !.answers = FALSE],
             [Board EXCEPT !.high = 0..7, !.cards = {}], [Board EXCEPT !.probed = FALSE],
             [Board EXCEPT !.protected = TRUE]}

Holds(c) == [k \in 0..(SlotBlocks - 1) |-> BlockOf(CorePart(c, k))]
MCFlashes == {[b \in Blocks |-> IF b < SlotBlocks THEN Holds("good")[b] ELSE BlankBlock],
              [b \in Blocks |-> Holds("long")[b % SlotBlocks]]}
=============================================================================
