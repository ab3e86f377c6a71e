------------------------------ MODULE MCSlowBus ------------------------------
(* One address of each region, with two bytes of expansion RAM in one line.  *)
EXTENDS SlowBus

MCAddress(r, b) == [region |-> r, line |-> "L0", byte |-> b]
MCAddresses == {MCAddress(r, 0) : r \in Regions} \cup {MCAddress("ram", 1)}
MCNoAddress == [region |-> "none", line |-> "L0", byte |-> 0]
=============================================================================
