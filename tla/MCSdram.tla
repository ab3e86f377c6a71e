------------------------------- MODULE MCSdram -------------------------------
(* Small SDRAMs of up to three RAM lines and a line of control registers.
   Banked: each RAM line has its own row; the rows of L0 and L1 share a bank, and
   that of L1 has the address bit that lands on A10 set.
   Paged: L0 and L1 are in one row, L2 in another row of the same bank.     *)
EXTENDS SdramController

MCRows == {"row0", "row1", "row2"}
BankedRowOf == [l \in RamLines |-> CASE l = "L0" -> "row0" [] l = "L1" -> "row1" [] l = "L2" -> "row2"]
BankedColOf == [l \in RamLines |-> "col0"]
PagedRowOf == [l \in RamLines |-> IF l = "L2" THEN "row1" ELSE "row0"]
PagedColOf == [l \in RamLines |-> IF l = "L1" THEN "col1" ELSE "col0"]
MCBankOf == [r \in MCRows |-> IF r = "row2" THEN 1 ELSE 0]
MCAllBit == [r \in MCRows |-> r = "row1"]

\* The lines in a ring, in the order of their addresses.
Rank == [L0 |-> 0, L1 |-> 1, L2 |-> 2, IO |-> 3]
Lowest(S) == CHOOSE l \in S : \A k \in S : Rank[l] <= Rank[k]
MCNextLine == [l \in Lines |-> LET above == {k \in Lines : Rank[k] > Rank[l]}
                                IN Lowest(IF above = {} THEN Lines ELSE above)]
MCPrevLine == [l \in Lines |-> CHOOSE k \in Lines : MCNextLine[k] = l]

\* A requester that reads a line by its first byte, as a read takes in the whole
\* line, and raises a pin only where it is taken: else it can only put off a prefetch.
DataNext ==
  \E read, write \in BOOLEAN, address \in Addresses, wdata \in Data, next_toggle \in NextToggles :
       /\ read \/ write => LatchRead(read, write) \/ LatchWrite(read, write)
       /\ LatchRead(read, write) => address.byte = FirstByte
       /\ Looked(read, write, address, wdata)
       /\ Tick(read, write, address, wdata, next_toggle, FALSE)
DataSpec == Init /\ [][DataNext]_vars
=============================================================================
