---------------------------- MODULE EmuListing ----------------------------
(***************************************************************************)
(* The listings of src/tools/hyppotest.c: what it prints of the log of     *)
(* instructions when a test fails, how it disassembles an instruction and  *)
(* how it names an address.  The layout of the lines is left out.          *)
(***************************************************************************)
EXTENDS EmuCpu

(* The name and the operand that are printed for each opcode. *)

Listed0 ==
  << <<"BRK", "imm">>, <<"ORA", "izpx">>, None, <<"SEE", "imp">>,
   <<"TSB", "zp">>, <<"ORA", "zp">>, <<"ASL", "zp">>, <<"RMB0", "zp">>,
   <<"PHP", "imp">>, <<"ORA", "imm">>, <<"ASL", "acc">>, None,
   <<"TSB", "abs">>, <<"ORA", "abs">>, <<"ASL", "abs">>, <<"BBR0", "zprel">> >>
Listed1 ==
  << <<"BPL", "rel8">>, <<"ORA", "izpy">>, <<"ORA", "izpz">>, <<"BPL", "rel16">>,
   <<"TRB", "zp">>, <<"ORA", "zpx">>, <<"ASL", "zpx">>, <<"RMB1", "zp">>,
   <<"CLC", "imp">>, <<"ORA", "absy">>, <<"INC", "imp">>, <<"INZ", "imp">>,
   <<"TRB", "abs">>, <<"ORA", "absx">>, <<"ASL", "absx">>, <<"BBR1", "zprel">> >>
Listed2 ==
  << <<"JSR", "abs">>, <<"AND", "izpx">>, <<"JSR", "iabs">>, None,
   <<"BIT", "zp">>, <<"AND", "zp">>, <<"ROL", "zp">>, <<"RMB2", "zp">>,
   <<"PLP", "imp">>, <<"AND", "imm">>, <<"ROL", "acc">>, <<"TYS", "imp">>,
   <<"BIT", "abs">>, <<"AND", "abs">>, <<"ROL", "abs">>, <<"BBR2", "zprel">> >>
Listed3 ==
  << <<"BMI", "rel8">>, <<"AND", "izpy">>, <<"AND", "izpz">>, <<"BMI", "rel16">>,
   <<"BIT", "zpx">>, <<"AND", "zpx">>, <<"ROL", "zpx">>, <<"RMB3", "zp">>,
   <<"SEC", "imp">>, <<"AND", "absy">>, <<"DEC", "imp">>, None,
   <<"BIT", "absx">>, <<"AND", "absx">>, <<"ROL", "absx">>, <<"BBR3", "zprel">> >>
Listed4 ==
  << <<"RTI", "imp">>, <<"EOR", "zpx">>, None, None,
   None, <<"EOR", "zp">>, <<"LSR", "zp">>, <<"RMB4", "zp">>,
   <<"PHA", "imp">>, <<"EOR", "imm">>, <<"LSR", "acc">>, <<"TAZ", "imp">>,
   <<"JMP", "abs">>, <<"EOR", "abs">>, <<"LSR", "abs">>, <<"BBR4", "zprel">> >>
Listed5 ==
  << <<"BVC", "rel8">>, <<"EOR", "izpy">>, <<"EOR", "izpz">>, None,
   None, <<"EOR", "zpx">>, <<"LSR", "zpx">>, <<"RMB5", "zp">>,
   <<"CLI", "imp">>, <<"EOR", "absy">>, <<"PHY", "imp">>, <<"TAB", "imp">>,
   <<"MAP", "imp">>, <<"EOR", "absx">>, <<"LSR", "absx">>, <<"BBR5", "zprel">> >>
Listed6 ==
  << <<"RTS", "imp">>, <<"ADC", "izpx">>, None, None,
   <<"STZ", "zp">>, <<"ADC", "zp">>, <<"ROR", "zp">>, <<"RMB6", "zp">>,
   <<"PLA", "imp">>, <<"ADC", "imm">>, <<"ROR", "acc">>, <<"TZA", "imp">>,
   <<"JMP", "iabs">>, <<"ADC", "abs">>, <<"ROR", "abs">>, <<"BBR6", "zprel">> >>
Listed7 ==
  << <<"BVS", "rel8">>, <<"ADC", "izpy">>, <<"ADC", "izpz">>, None,
   <<"STZ", "zpx">>, <<"ADC", "zpx">>, <<"ROR", "zpx">>, <<"RMB7", "zp">>,
   <<"SEI", "imp">>, <<"ADC", "absy">>, <<"PLY", "imp">>, <<"TBA", "imp">>,
   <<"JMP", "iabsx">>, <<"ADC", "absx">>, <<"ROR", "absx">>, <<"BBR7", "zprel">> >>
Listed8 ==
  << <<"BRA", "rel8">>, <<"STA", "izpx">>, None, <<"BRA", "rel16">>,
   <<"STY", "zp">>, <<"STA", "zp">>, <<"STX", "zp">>, <<"SMB0", "zp">>,
   <<"DEY", "imp">>, <<"BIT", "imm">>, <<"TXA", "imp">>, None,
   <<"STY", "abs">>, <<"STA", "abs">>, <<"STX", "abs">>, <<"BBS0", "zprel">> >>
Listed9 ==
  << <<"BCC", "rel8">>, <<"STA", "izpy">>, <<"STA", "izpz">>, <<"BCC", "rel16">>,
   <<"STY", "zpx">>, <<"STA", "zpx">>, <<"STX", "zpy">>, <<"SMB1", "zp">>,
   <<"TYA", "imp">>, <<"STA", "absy">>, <<"TXS", "imp">>, None,
   <<"STZ", "abs">>, <<"STA", "absx">>, <<"STZ", "absx">>, <<"BBS1", "zprel">> >>
ListedA ==
  << <<"LDY", "imm">>, <<"LDA", "izpx">>, <<"LDX", "imm">>, <<"LDZ", "imm">>,
   <<"LDY", "zp">>, <<"LDA", "zp">>, <<"LDX", "zp">>, <<"SMB2", "zp">>,
   <<"TAY", "imp">>, <<"LDA", "imm">>, <<"TAX", "imp">>, None,
   <<"LDY", "abs">>, <<"LDA", "abs">>, <<"LDX", "abs">>, <<"BBS2", "zprel">> >>
ListedB ==
  << <<"BCS", "rel8">>, <<"LDA", "izpy">>, <<"LDA", "izpz">>, None,
   <<"LDY", "zpx">>, <<"LDA", "zpx">>, <<"LDX", "zpy">>, <<"SMB3", "zp">>,
   <<"CLV", "imp">>, <<"LDA", "absy">>, <<"TSX", "imp">>, None,
   <<"LDY", "absx">>, <<"LDA", "absx">>, <<"LDX", "absy">>, <<"BBS3", "zprel">> >>
ListedC ==
  << <<"CPY", "imm">>, <<"CMP", "izpx">>, None, None,
   <<"CPY", "zp">>, <<"CMP", "zp">>, <<"DEC", "zp">>, <<"SMB4", "zp">>,
   <<"INY", "imp">>, <<"CMP", "imm">>, <<"DEX", "imp">>, None,
   <<"CPY", "abs">>, <<"CMP", "abs">>, <<"DEC", "abs">>, <<"BBS4", "zprel">> >>
ListedD ==
  << <<"BNE", "rel8">>, <<"CMP", "izpy">>, <<"CMP", "izpz">>, None,
   None, <<"CMP", "zpx">>, <<"DEC", "zpx">>, <<"SMB5", "zp">>,
   <<"CLD", "imp">>, <<"CMP", "absy">>, <<"PHX", "imp">>, <<"PHZ", "imp">>,
   None, <<"CMP", "absx">>, <<"DEC", "absx">>, <<"BBS5", "zprel">> >>
ListedE ==
  << <<"CPX", "imm">>, <<"SBC", "izpx">>, None, None,
   <<"CPX", "zp">>, <<"SBC", "zp">>, <<"INC", "zp">>, <<"SMB6", "zp">>,
   <<"INX", "imp">>, <<"SBC", "imm">>, <<"EOM", "imp">>, None,
   <<"CPX", "abs">>, <<"SBC", "abs">>, <<"INC", "abs">>, <<"BBS6", "zprel">> >>
ListedF ==
  << <<"BEQ", "rel8">>, <<"SBC", "izpy">>, <<"SBC", "izpz">>, <<"BEQ", "rel16">>,
   None, <<"SBC", "zpx">>, <<"INC", "zpx">>, <<"SMB7", "zp">>,
   <<"SED", "imp">>, <<"SBC", "absy">>, <<"PLX", "imp">>, <<"PLZ", "imp">>,
   None, <<"SBC", "absx">>, <<"INC", "absx">>, <<"BBS7", "zprel">> >>
Listed ==
  Listed0 \o Listed1 \o Listed2 \o Listed3 \o Listed4 \o Listed5 \o Listed6 \o Listed7 \o
  Listed8 \o Listed9 \o ListedA \o ListedB \o ListedC \o ListedD \o ListedE \o ListedF

ListedName(opcode) == Listed[opcode + 1][1]
ListedMode(opcode) == Listed[opcode + 1][2]

(* The number in the names of the bit instructions. *)
Numbered(opcode) ==
  LET op == Operation(opcode)
  IN IF op \in {"RMB", "SMB", "BBR", "BBS"}
     THEN op \o <<"0", "1", "2", "3", "4", "5", "6", "7">>[BitNumber(opcode) + 1]
     ELSE op

(* The operand as a number: an address, an immediate value or, for a        *)
(* branch, its target.  The long branches print the low byte twice.         *)
(* Mutant: branches are counted from the start of the instruction. *)
ListedTargetFromStart(e, mode) ==
  e.pc + rel8_delta(e.bytes[IF mode = "zprel" THEN 3 ELSE 2])
ListedTarget(e, mode) ==
  CASE mode = "rel8"   -> e.pc + 2 + rel8_delta(e.bytes[2])
    [] mode = "rel16"  -> e.pc + 2 + rel16_delta(Word(e.bytes[2], e.bytes[2]))
    [] mode = "zprel"  -> e.pc + 2 + rel8_delta(e.bytes[3])
ListedOperand(e, mode) ==
  CASE mode \in {"rel8", "rel16", "zprel"}                -> ListedTarget(e, mode)
    [] mode \in {"abs", "absx", "absy", "iabs", "iabsx"}  -> addr_abs(e)
    [] mode \in {"imp", "acc"}                            -> 0
    [] OTHER                                              -> e.bytes[2]

disassemble_instruction(e) ==
  [name |-> ListedName(e.bytes[1]), mode |-> ListedMode(e.bytes[1]),
   operand |-> ListedOperand(e, ListedMode(e.bytes[1]))]

(* An indirect jump also disassembles the instructions that are blamed for  *)
(* its pointer.  The blame is that of now, and is not compared with the     *)
(* length of the log: the places of the log that are read.                  *)
RECURSIVE PlacesRead(_, _, _)
PlacesRead(m, i, seen) ==
  LET e    == m.log[i + 1]
      p    == addr_abs(e)
      from == {memory_blame([m EXCEPT !.r = e.regs], p), memory_blame([m EXCEPT !.r = e.regs], p + 1)} \ {0}
  IN IF i \in seen \/ i \notin 1..(Len(m.log) - 1) \/ ListedMode(e.bytes[1]) # "iabs" THEN {i}
     ELSE {i} \cup UNION {PlacesRead(m, j, seen \cup {i}) : j \in from}

(* The places of the log that are shown, 0 being the reset.  A listing that *)
(* would begin at 0 shows nothing at all, one that begins before it is cut. *)
(* A repeated instruction is not shown, unless it is the first.             *)
show_recent_instructions(m, first, count) ==
  LET begin == IF first < 0 THEN 0 ELSE first
      n     == IF first < 0 THEN count + first ELSE count
      end   == IF begin + n < Len(m.log) THEN begin + n ELSE Len(m.log)
  IN IF first = 0 THEN {}
     ELSE {i \in begin..(end - 1) : i = 0 \/ i = begin \/ ~m.log[i + 1].dup}

(* What is shown for a byte of memory that is not as expected: the          *)
(* instruction that is blamed and the three before it.                      *)
ShownForByte(m, addr) ==
  LET first == Blamed(m, addr) - 3
  IN show_recent_instructions(m, IF first < 0 THEN 0 ELSE first, 4)

-----------------------------------------------------------------------------
(* Naming an address.  NoSymbol stands for printing the number alone.       *)

NoSymbol == [name |-> "", addr |-> -1]

(* Mutant: the first symbol that is not above is kept. *)
FirstBelow(symbols, addr, i, match) ==
  LET below == {j \in DOMAIN symbols : symbols[j].addr <= addr}
  IN IF below = {} THEN match ELSE symbols[CHOOSE j \in below : \A k \in below : j <= k]

(* The symbols are looked through once, and the best so far is kept. *)
RECURSIVE BestSoFar(_, _, _, _)
BestSoFar(symbols, addr, i, match) ==
  LET s == symbols[i]
      better == s.addr < addr /\ match.addr < s.addr
  IN IF i > Len(symbols) THEN match
     ELSE IF s.addr = addr THEN s
     ELSE BestSoFar(symbols, addr, i + 1, IF better THEN s ELSE match)

(* The hypervisor's symbols name its RAM. *)
describe_address_label28(m, addr) ==
  IF addr \in HyppoRam THEN BestSoFar(m.hyppo, addr - \hFFF0000, 1, NoSymbol)
  ELSE BestSoFar(m.symbols, addr, 1, NoSymbol)
describe_address_label(m, addr) == describe_address_label28(m, addr_to_28bit(m, addr, TRUE))

(* Only a hypervisor symbol at the very address is found, the last of them: *)
(* the search for a near one begins once there is an exact one.             *)
describe_address(m, addr) ==
  LET exact == {i \in DOMAIN m.hyppo : m.hyppo[i].addr = addr}
  IN IF exact = {} THEN NoSymbol
     ELSE m.hyppo[CHOOSE i \in exact : \A j \in exact : j <= i]
=============================================================================
