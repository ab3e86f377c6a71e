------------------------------- MODULE MCAttic -------------------------------
(* The expansion RAM path with two RAM lines, L0 and L2, in two rows of a bank. *)
EXTENDS AtticRam

MCRows == {"row0", "row1"}
MCRowOf == [l \in RamLines |-> IF l = "L2" THEN "row1" ELSE "row0"]
MCColOf == [l \in RamLines |-> "col0"]
MCBankOf == [r \in MCRows |-> 0]
MCAllBit == [r \in MCRows |-> r = "row1"]
MCLineAfter == [l \in Lines |-> CHOOSE k \in Lines : Lines = {l} \/ k # l]
MCNoAddress == [region |-> "none", line |-> "L0", byte |-> 0]
=============================================================================
