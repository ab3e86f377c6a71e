------------------------------- MODULE EmuCpu -------------------------------
(***************************************************************************)
(* The 45GS02 as src/tools/hyppotest.c emulates it: one instruction is one *)
(* call of cpu_step.  The switch of the C function is a table of an        *)
(* operation and an addressing mode for each opcode; what the operations   *)
(* and the modes do is written once.                                       *)
(*                                                                         *)
(* e is the entry of the instruction log: the bytes of the instruction and *)
(* the registers as they were before it.                                   *)
(***************************************************************************)
EXTENDS EmuMemory

(* The opcodes that are not implemented. *)
None == <<"none", "none">>

Execute0 ==
  << <<"BRK", "brk">>, <<"ORA", "izpx">>, None, <<"SEE", "imp">>,
   <<"TSB", "zp">>, <<"ORA", "zp">>, <<"ASL", "zp">>, <<"RMB", "zp">>,
   <<"PHP", "imp">>, <<"ORA", "imm">>, <<"ASL", "acc">>, None,
   <<"TSB", "abs">>, <<"ORA", "abs">>, <<"ASL", "abs">>, <<"BBR", "zprel">> >>
Execute1 ==
  << <<"BPL", "rel8">>, <<"ORA", "izpy">>, <<"ORA", "izpz">>, <<"BPL", "rel16low">>,
   <<"TRB", "zp">>, <<"ORA", "zpx">>, <<"ASL", "zpx">>, <<"RMB", "zp">>,
   <<"CLC", "imp">>, <<"ORA", "absy">>, <<"INC", "acc">>, <<"INZ", "imp">>,
   <<"TRB", "abs">>, <<"ORA", "absx">>, <<"ASL", "absx">>, <<"BBR", "zprel">> >>
Execute2 ==
  << <<"JSR", "abs">>, <<"AND", "izpx">>, <<"JSR", "iabs">>, None,
   <<"BIT", "zp">>, <<"AND", "zp">>, <<"ROL", "zp">>, <<"RMB", "zp">>,
   <<"PLP", "imp">>, <<"AND", "imm">>, <<"ROL", "acc">>, <<"TYS", "imp">>,
   <<"BIT", "abs">>, <<"AND", "abs">>, <<"ROL", "abs">>, <<"BBR", "zprel">> >>
Execute3 ==
  << <<"BMI", "rel8">>, <<"AND", "izpy">>, <<"AND", "izpz">>, <<"BMI", "rel16low">>,
   <<"BIT", "zpx">>, <<"AND", "zpx">>, <<"ROL", "zpx">>, <<"RMB", "zp">>,
   <<"SEC", "imp">>, <<"AND", "absy">>, <<"DEC", "acc">>, None,
   <<"BIT", "absx">>, <<"AND", "absx">>, <<"ROL", "absx">>, <<"BBR", "zprel">> >>
Execute4 ==
  << <<"RTI", "imp">>, <<"EOR", "izpx">>, None, None,
   None, <<"EOR", "zp">>, <<"LSR", "zp">>, <<"RMB", "zp">>,
   <<"PHA", "imp">>, <<"EOR", "imm">>, <<"LSR", "acc">>, <<"TAZ", "imp">>,
   <<"JMP", "abs">>, <<"EOR", "abs">>, <<"LSR", "abs">>, <<"BBR", "zprel">> >>
Execute5 ==
  << <<"BVC", "rel8">>, <<"EOR", "izpy">>, <<"EOR", "izpz">>, None,
   None, <<"EOR", "zpx">>, <<"LSR", "zpx">>, <<"RMB", "zp">>,
   <<"CLI", "imp">>, <<"EOR", "absy">>, <<"PHY", "imp">>, <<"TAB", "imp">>,
   <<"MAP", "imp">>, <<"EOR", "absx">>, <<"LSR", "absx">>, <<"BBR", "zprel">> >>
Execute6 ==
  << <<"RTS", "imp">>, <<"ADC", "izpx">>, None, None,
   <<"STZ", "zp">>, <<"ADC", "zp">>, <<"ROR", "zp">>, <<"RMB", "zp">>,
   <<"PLA", "imp">>, <<"ADC", "imm">>, <<"ROR", "acc">>, <<"TZA", "imp">>,
   <<"JMP", "iabs">>, <<"ADC", "abs">>, <<"ROR", "abs">>, <<"BBR", "zprel">> >>
Execute7 ==
  << <<"BVS", "rel8">>, <<"ADC", "izpy">>, <<"ADC", "izpz">>, None,
   <<"STZ", "zpx">>, <<"ADC", "zpx">>, <<"ROR", "zpx">>, <<"RMB", "zp">>,
   <<"SEI", "imp">>, <<"ADC", "absy">>, <<"PLY", "imp">>, <<"TBA", "imp">>,
   <<"JMP", "iabsx">>, <<"ADC", "absx">>, <<"ROR", "absx">>, <<"BBR", "zprel">> >>
Execute8 ==
  << <<"BRA", "rel8">>, <<"STA", "izpx">>, None, <<"BRA", "rel16low">>,
   <<"STY", "zp">>, <<"STA", "zp">>, <<"STX", "zp">>, <<"SMB", "zp">>,
   <<"DEY", "imp">>, <<"BIT", "imm">>, <<"TXA", "imp">>, None,
   <<"STY", "abs">>, <<"STA", "abs">>, <<"STX", "abs">>, <<"BBS", "zprel">> >>
Execute9 ==
  << <<"BCC", "rel8">>, <<"STA", "izpy">>, <<"STA", "izpz">>, <<"BCC", "rel16">>,
   <<"STY", "zpx">>, <<"STA", "zpx">>, <<"STX", "zpy">>, <<"SMB", "zp">>,
   <<"TYA", "imp">>, <<"STA", "absy">>, <<"TXS", "imp">>, None,
   <<"STZ", "abs">>, <<"STA", "absx">>, <<"STZ", "absx">>, <<"BBS", "zprel">> >>
ExecuteA ==
  << <<"LDY", "imm">>, <<"LDA", "izpx">>, <<"LDX", "imm">>, <<"LDZ", "imm">>,
   <<"LDY", "zp">>, <<"LDA", "zp">>, <<"LDX", "zp">>, <<"SMB", "zp">>,
   <<"TAY", "imp">>, <<"LDA", "imm">>, <<"TAX", "imp">>, None,
   <<"LDY", "abs">>, <<"LDA", "abs">>, <<"LDX", "abs">>, <<"BBS", "zprel">> >>
ExecuteB ==
  << <<"BCS", "rel8">>, <<"LDA", "izpy">>, <<"LDA", "izpz">>, None,
   <<"LDY", "zpx">>, <<"LDA", "zpx">>, <<"LDX", "zpy">>, <<"SMB", "zp">>,
   <<"CLV", "imp">>, <<"LDA", "absy">>, <<"TSX", "imp">>, None,
   <<"LDY", "absx">>, <<"LDA", "absx">>, <<"LDX", "absy">>, <<"BBS", "zprel">> >>
ExecuteC ==
  << <<"CPY", "imm">>, <<"CMP", "izpx">>, None, None,
   <<"CPY", "zp">>, <<"CMP", "zp">>, <<"DEC", "zp">>, <<"SMB", "zp">>,
   <<"INY", "imp">>, <<"CMP", "imm">>, <<"DEX", "imp">>, None,
   <<"CPY", "abs">>, <<"CMP", "abs">>, <<"DEC", "abs">>, <<"BBS", "zprel">> >>
ExecuteD ==
  << <<"BNE", "rel8">>, <<"CMP", "izpy">>, <<"CMP", "izpz">>, None,
   None, <<"CMP", "zpx">>, <<"DEC", "zpx">>, <<"SMB", "zp">>,
   <<"CLD", "imp">>, <<"CMP", "absy">>, <<"PHX", "imp">>, <<"PHZ", "imp">>,
   None, <<"CMP", "absx">>, <<"DEC", "absx">>, <<"BBS", "zprel">> >>
ExecuteE ==
  << <<"CPX", "imm">>, <<"SBC", "izpx">>, None, None,
   <<"CPX", "zp">>, <<"SBC", "zp">>, <<"INC", "zp">>, <<"SMB", "zp">>,
   <<"INX", "imp">>, <<"SBC", "imm">>, <<"EOM", "imp">>, None,
   <<"CPX", "abs">>, <<"SBC", "abs">>, <<"INC", "abs">>, <<"BBS", "zprel">> >>
ExecuteF ==
  << <<"BEQ", "rel8">>, <<"SBC", "izpy">>, <<"SBC", "izpz">>, <<"BEQ", "rel16low3">>,
   None, <<"SBC", "zpx">>, <<"INC", "zpx">>, <<"SMB", "zp">>,
   <<"SED", "imp">>, <<"SBC", "absy">>, <<"PLX", "imp">>, <<"PLZ", "imp">>,
   None, <<"SBC", "absx">>, <<"INC", "absx">>, <<"BBS", "zprel">> >>

Instructions ==
  Execute0 \o Execute1 \o Execute2 \o Execute3 \o Execute4 \o Execute5 \o Execute6 \o Execute7 \o
  Execute8 \o Execute9 \o ExecuteA \o ExecuteB \o ExecuteC \o ExecuteD \o ExecuteE \o ExecuteF

Operation(opcode) == Instructions[opcode + 1][1]
Mode(opcode)      == Instructions[opcode + 1][2]
BitNumber(opcode) == (opcode \div 16) % 8

ThreeBytes == {"abs", "absx", "absy", "iabs", "iabsx", "rel16", "rel16low", "rel16low3", "zprel"}
Length(mode) == CASE mode \in {"imp", "acc"} -> 1
                  [] mode \in ThreeBytes     -> 3
                  [] mode = "none"           -> 6
                  [] OTHER                   -> 2

-----------------------------------------------------------------------------
(* Operands.  The zero page is the page of the base register, but indexing *)
(* it drops the page.                                                      *)

rel8_delta(c)  == IF c < \h80 THEN c ELSE c - \h100
rel16_delta(c) == IF c < \h8000 THEN c ELSE c - \h10000

addr_abs(e)     == Word(e.bytes[2], e.bytes[3])
addr_zp(e)      == Word(e.bytes[2], e.regs.b)
addr_zpx(m, e)  == (e.bytes[2] + m.r.x) % 256
addr_zpy(m, e)  == (e.bytes[2] + m.r.y) % 256
addr_absx(m, e) == (addr_abs(e) + m.r.x) % \h10000
addr_absy(m, e) == (addr_abs(e) + m.r.y) % \h10000

(* The modes that read a pointer, and where they read it. *)
Indirect == {"izpx", "izpy", "izpz", "iabs", "iabsx"}
zp_pointer(m, e, mode) ==
  CASE mode = "izpx"  -> Word((e.bytes[2] + m.r.x) % 256, e.regs.b)
    [] mode = "iabs"  -> addr_abs(e)
    [] mode = "iabsx" -> addr_absx(m, e)
    [] OTHER          -> addr_zp(e)
Pointer(m, p) == Word(read_memory(m, p), read_memory(m, p + 1))
zp_pointer_addr(m, e, mode) ==
  LET index == CASE mode = "izpy" -> m.r.y [] mode = "izpz" -> m.r.z [] OTHER -> 0
  IN (Pointer(m, zp_pointer(m, e, mode)) + index) % \h10000

(* The address of the operand; an immediate one is in the instruction. *)
Address(m, e, mode) ==
  CASE mode = "zp"       -> addr_zp(e)
    [] mode = "zpx"      -> addr_zpx(m, e)
    [] mode = "zpy"      -> addr_zpy(m, e)
    [] mode = "abs"      -> addr_abs(e)
    [] mode = "absx"     -> addr_absx(m, e)
    [] mode = "absy"     -> addr_absy(m, e)
    [] mode \in Indirect -> zp_pointer_addr(m, e, mode)

(* Reading a pointer above $FFFF is an error. *)
PointerChecked(m, e, mode) ==
  LET p == zp_pointer(m, e, mode)
  IN IF mode \in Indirect THEN Checked(m, p..(p + 1)) ELSE m

Operand(m, e, mode) == CASE mode = "imm" -> e.bytes[2]
                         [] mode = "acc" -> m.r.a
                         [] OTHER        -> read_memory(m, Address(m, e, mode))

Advanced(m, n) == [m EXCEPT !.r.pc = @ + n]

-----------------------------------------------------------------------------
(* Flags and arithmetic. *)

WithFlag(m, flag, on) ==
  [m EXCEPT !.r.flags = IF on THEN @ \cup {flag} ELSE @ \ {flag}]
Carry(m) == IF "C" \in m.r.flags THEN 1 ELSE 0

update_nz(m, v) == WithFlag(WithFlag(m, "N", Bit(v, 7)), "Z", v % 256 = 0)

update_bit_flags(m, v) ==
  WithFlag(WithFlag(WithFlag(m, "N", Bit(v, 7)), "V", Bit(v, 6)), "Z", v & m.r.a = 0)

(* The carry of a comparison is taken from the sign of the difference. *)
update_cmp_flags(m, v) ==
  LET m1 == update_nz(m, v) IN WithFlag(m1, "C", "N" \notin m1.r.flags)

(* Mutant: the sum is kept in more than eight bits. *)
AdcUnwrapped(m, v) == [m EXCEPT !.r.a = v + @ + Carry(m)]
(* Decimal mode is an error of the test, and adds nothing. *)
adc(m, v) ==
  LET r  == v + m.r.a + Carry(m)
      m1 == WithFlag(WithFlag(update_nz(m, r), "C", r > 255), "V",
                     Bit(m.r.a, 7) = Bit(v, 7) /\ Bit(r, 7) # Bit(v, 7))
  IN IF "D" \in m.r.flags THEN [m EXCEPT !.t.error = TRUE]
     ELSE [m1 EXCEPT !.r.a = r % 256]

(* Mutant: two's complement, and the borrow on top of it. *)
SbcOfNegative(m, v) == adc(m, (256 - v) % 256)
sbc(m, v) == adc(m, 255 - v)

-----------------------------------------------------------------------------
(* The stack: with E set it stays in its page. *)

Sp(m) == Word(m.r.spl, m.r.sph)
WithSp(m, sp) ==
  IF "E" \in m.r.flags THEN [m EXCEPT !.r.spl = sp % 256]
  ELSE [m EXCEPT !.r.spl = sp % 256, !.r.sph = (sp \div 256) % 256]
Wraps(m, edge) == IF "E" \in m.r.flags THEN m.r.spl = edge % 256 ELSE Sp(m) = edge

Decremented(m) == [WithSp(m, Sp(m) + \hFFFF) EXCEPT !.over = @ \/ Wraps(m, 0)]
stack_push(m, v) == Decremented(write_mem16(m, Sp(m), v))

(* The machine after a pull, and the byte it pulls. *)
stack_pop(m) == [WithSp(m, Sp(m) + 1) EXCEPT !.under = @ \/ Wraps(m, \hFFFF)]
Top(m) == read_memory(m, Sp(stack_pop(m)))

(* E and B cannot be changed from the stack. *)
PullFlags(m) ==
  [stack_pop(m) EXCEPT !.r.flags = (@ \cap {"E", "B"}) \cup (FlagsOf(Top(m)) \ {"E", "B"})]
PullPc(m) ==
  LET m1 == stack_pop(m)
  IN [stack_pop(m1) EXCEPT !.r.pc = Word(Top(m), Top(m1))]

-----------------------------------------------------------------------------
(* The families of operations. *)

Compared == [CMP |-> "a", CPX |-> "x", CPY |-> "y"]
Loaded   == [LDA |-> "a", LDX |-> "x", LDY |-> "y", LDZ |-> "z"]

(* Operations that read an operand into a register or the flags. *)
DoRead(m, e, op, mode) ==
  LET m1 == PointerChecked(Advanced(m, Length(mode)), e, mode)
      v  == Operand(m, e, mode)
      to(r, w) == update_nz([m1 EXCEPT !.r[r] = w], w)
  IN CASE op = "ADC" -> adc(m1, v)
       [] op = "SBC" -> sbc(m1, v)
       [] op = "ORA" -> to("a", m.r.a | v)
       [] op = "AND" -> to("a", m.r.a & v)
       [] op = "EOR" -> to("a", m.r.a ^^ v)
       [] op = "BIT" -> IF mode = "imm" THEN WithFlag(m1, "Z", v & m.r.a = 0)
                        ELSE update_bit_flags(m1, v)
       [] op \in DOMAIN Loaded   -> to(Loaded[op], v)
       [] op \in DOMAIN Compared -> update_cmp_flags(m1, (m.r[Compared[op]] + 256 - v) % 256)
Reads == {"ADC", "SBC", "ORA", "AND", "EOR", "BIT"} \cup DOMAIN Loaded \cup DOMAIN Compared

(* STA ($nn),Z after a NOP has a pointer of four bytes, of which the low    *)
(* sixteen bits remain; the first instruction of a routine looks at the     *)
(* empty entry before it.                                                   *)
Stores == [STA |-> "a", STX |-> "x", STY |-> "y", STZ |-> "z"]
IsEmpty(e) == e.pc = -1
DoWrite(m, e, op, mode) ==
  LET m1     == Advanced(m, Length(mode))
      p      == zp_pointer(m, e, mode)
      before == m.log[Len(m.log) - 1]
      far    == e.bytes[1] = \h92 /\ Len(m.log) > 1
      v      == m.r[Stores[op]]
      m2     == PointerChecked(m1, e, mode)
  IN IF far /\ IsEmpty(before) THEN [m1 EXCEPT !.undefined = TRUE]
     ELSE IF far /\ before.bytes[1] = \hEA
     THEN write_mem28(Checked(m1, p..(p + 3)), Address(m, e, mode), v)
     ELSE write_mem16(m2, Address(m, e, mode), v)

(* Read, modify, write: the result and the carry.  ASL takes the carry from *)
(* A wherever it shifts.                                                    *)
Shifts == {"ASL", "LSR", "ROL", "ROR"}
Modified(m, op, v, n) ==
  CASE op = "ASL" -> v * 2
    [] op = "LSR" -> v \div 2
    [] op = "ROL" -> (v * 2) + Carry(m)
    [] op = "ROR" -> (v + 256 * Carry(m)) \div 2
    [] op = "INC" -> v + 1
    [] op = "DEC" -> v + 255
    [] op = "TSB" -> v | m.r.a
    [] op = "TRB" -> v & (255 - m.r.a)
    [] op = "RMB" -> v & (255 - 2^n)
    [] op = "SMB" -> v | 2^n
CarryOut(m, op, v) == CASE op = "ASL" -> m.r.a >= \h80
                        [] op = "ROL" -> v >= \h80
                        [] OTHER      -> v % 2 = 1
DoModify(m, e, op, mode) ==
  LET v  == Operand(m, e, mode)
      w  == Modified(m, op, v, BitNumber(e.bytes[1])) % 256
      m1 == Advanced(m, Length(mode))
      m2 == IF op \in Shifts THEN WithFlag(m1, "C", CarryOut(m, op, v)) ELSE m1
      m3 == CASE op \in {"TSB", "TRB"} -> WithFlag(m1, "Z", v & m.r.a = 0)
              [] op \in {"RMB", "SMB"} -> m1
              [] OTHER                 -> update_nz(m2, w)
  IN IF mode = "acc" THEN [m3 EXCEPT !.r.a = w]
     ELSE write_mem16(m3, Address(m, e, mode), w)
Modifies == Shifts \cup {"INC", "DEC", "TSB", "TRB", "RMB", "SMB"}

(* Branches: the flag and its value that take them.  Of the long ones only  *)
(* BCC looks at both bytes of its distance.                                 *)
TakenIf == [BPL |-> <<"N", FALSE>>, BMI |-> <<"N", TRUE>>, BVC |-> <<"V", FALSE>>,
            BVS |-> <<"V", TRUE>>,  BCC |-> <<"C", FALSE>>, BCS |-> <<"C", TRUE>>,
            BNE |-> <<"Z", FALSE>>, BEQ |-> <<"Z", TRUE>>]
Target(pc, e, mode) ==
  CASE mode = "rel8"      -> pc + 2 + rel8_delta(e.bytes[2])
    [] mode = "rel16"     -> pc + 3 + rel16_delta(Word(e.bytes[2], e.bytes[3]))
    [] mode = "rel16low"  -> pc + 2 + rel16_delta(e.bytes[2])
    [] mode = "rel16low3" -> pc + 3 + rel16_delta(e.bytes[2])
    [] mode = "zprel"     -> pc + 3 + rel8_delta(e.bytes[3])
DoBranch(m, e, op, mode) ==
  LET taken == op = "BRA" \/ (TakenIf[op][1] \in m.r.flags) = TakenIf[op][2]
  IN IF taken THEN [m EXCEPT !.r.pc = Target(@, e, mode)] ELSE Advanced(m, Length(mode))
Branches == DOMAIN TakenIf \cup {"BRA"}

DoBitBranch(m, e, op, mode) ==
  IF Bit(read_memory(m, addr_zp(e)), BitNumber(e.bytes[1])) = (op = "BBS")
  THEN [m EXCEPT !.r.pc = Target(@, e, mode)]
  ELSE Advanced(m, Length(mode))

(* Calls and returns.  While a call is being counted, rts is the number of  *)
(* returns up to and with the one that ends it.                             *)
(* Mutant: the low byte of the return address is pushed first. *)
PushReturnLowFirst(m, back) ==
  stack_push(stack_push([m EXCEPT !.t.rts = IF @ = 0 THEN 0 ELSE @ + 1], back % 256), (back \div 256) % 256)
PushReturn(m, back) ==
  stack_push(stack_push([m EXCEPT !.t.rts = IF @ = 0 THEN 0 ELSE @ + 1], (back \div 256) % 256), back % 256)
JumpTo(m, e, mode) == [PointerChecked(m, e, mode) EXCEPT !.r.pc = Address(m, e, mode)]
DoJump(m, e, op, mode) == JumpTo(IF op = "JSR" THEN PushReturn(m, m.r.pc + 2) ELSE m, e, mode)

DoReturn(m, op) ==
  LET m1 == PullPc([m EXCEPT !.t.rts = IF @ = 0 THEN 0 ELSE @ - 1,
                             !.t.done = @ \/ m.t.rts = 1])
  IN IF op = "RTI" THEN PullPc(PullFlags(m)) ELSE Advanced(m1, 1)

Pushed == [PHA |-> "a", PHX |-> "x", PHY |-> "y", PHZ |-> "z"]
Pulled == [PLA |-> "a", PLX |-> "x", PLY |-> "y", PLZ |-> "z"]
DoStack(m, op) ==
  LET v == Top(m)
  IN CASE op = "PHP" -> stack_push(m, FlagsByte(m.r.flags \cup {"B"}))
       [] op = "PLP" -> PullFlags(m)
       [] op \in DOMAIN Pushed -> stack_push(m, m.r[Pushed[op]])
       [] op \in DOMAIN Pulled -> update_nz([stack_pop(m) EXCEPT !.r[Pulled[op]] = v], v)
StackOps == {"PHP", "PLP"} \cup DOMAIN Pushed \cup DOMAIN Pulled

(* Transfers, from and to; those to the stack pointer and the base page     *)
(* leave the flags alone.                                                   *)
Moves == [TAX |-> <<"a", "x">>, TAY |-> <<"a", "y">>, TAZ |-> <<"a", "z">>, TAB |-> <<"a", "b">>,
          TXA |-> <<"x", "a">>, TYA |-> <<"y", "a">>, TZA |-> <<"z", "a">>, TBA |-> <<"b", "a">>,
          TXS |-> <<"x", "spl">>, TYS |-> <<"y", "sph">>, TSX |-> <<"spl", "x">>]
DoMove(m, op) ==
  LET v  == m.r[Moves[op][1]]
      m1 == [m EXCEPT !.r[Moves[op][2]] = v]
  IN IF op \in {"TXS", "TYS", "TAB"} THEN m1 ELSE update_nz(m1, v)

Stepped == [INX |-> <<"x", 1>>, INY |-> <<"y", 1>>, INZ |-> <<"z", 1>>,
            DEX |-> <<"x", 255>>, DEY |-> <<"y", 255>>]
DoStepRegister(m, op) ==
  LET r == Stepped[op][1]
      v == (m.r[r] + Stepped[op][2]) % 256
  IN update_nz([m EXCEPT !.r[r] = v], v)

FlagSet   == [SEC |-> "C", SEI |-> "I", SED |-> "D", SEE |-> "E"]
FlagClear == [CLC |-> "C", CLI |-> "I", CLD |-> "D", CLV |-> "V"]

(* MAP sets the offset or the megabyte of the lower half, and outside of    *)
(* the hypervisor once more the lower half from Y and Z.                    *)
DoMap(m) ==
  LET r  == m.r
      lo == IF r.x = 15 THEN [r EXCEPT !.maplomb = r.a] ELSE [r EXCEPT !.maplo = Word(r.a, r.x)]
      hi == CASE r.in_hyper -> lo
              [] ~r.in_hyper /\ r.z = 15 -> [lo EXCEPT !.maphimb = r.y]
              [] OTHER -> [lo EXCEPT !.maplo = Word(r.y, r.z)]
  IN [m EXCEPT !.r = [hi EXCEPT !.inhibit = TRUE]]

Implied(m, op) ==
  CASE op = "EOM" -> [m EXCEPT !.r.inhibit = FALSE]
    [] op = "MAP" -> DoMap(m)
    [] op \in DOMAIN FlagSet   -> WithFlag(m, FlagSet[op], TRUE)
    [] op \in DOMAIN FlagClear -> WithFlag(m, FlagClear[op], FALSE)
    [] op \in DOMAIN Moves     -> DoMove(m, op)
    [] op \in DOMAIN Stepped   -> DoStepRegister(m, op)
    [] op \in StackOps         -> DoStack(m, op)

(* BRK ends the run with an error, without moving on; an opcode that is not *)
(* implemented leaves the machine as it is.                                 *)
execute_instruction(m, e) ==
  LET op   == Operation(e.bytes[1])
      mode == Mode(e.bytes[1])
  IN CASE op = "none" -> m
       [] op = "BRK"  -> [m EXCEPT !.t = [@ EXCEPT !.error = TRUE, !.brk = TRUE, !.done = TRUE]]
       [] op \in Reads            -> DoRead(m, e, op, mode)
       [] op \in DOMAIN Stores    -> DoWrite(m, e, op, mode)
       [] op \in Modifies         -> DoModify(m, e, op, mode)
       [] op \in Branches         -> DoBranch(m, e, op, mode)
       [] op \in {"BBR", "BBS"}   -> DoBitBranch(m, e, op, mode)
       [] op \in {"JMP", "JSR"}   -> DoJump(m, e, op, mode)
       [] op \in {"RTS", "RTI"}   -> DoReturn(m, op)
       [] OTHER                   -> Implied(Advanced(m, 1), op)

-----------------------------------------------------------------------------
(* One instruction.  A step gives the machine and whether to go on. *)

(* The empty entry that a routine's log begins with. *)
NullEntry(m) == [pc |-> -1, regs |-> m.r, bytes |-> [i \in 1..6 |-> 0], len |-> 0,
                 dup |-> FALSE, count |-> 0]
NewEntry(m) == [pc |-> m.r.pc, regs |-> m.r, dup |-> FALSE, count |-> 1,
                bytes |-> [i \in 1..6 |-> read_memory(m, m.r.pc + i - 1)],
                len |-> Length(Mode(read_memory(m, m.r.pc)))]

(* Two entries with the same instruction in the same state.  The C program *)
(* compares the whole records, and some of their bytes were never set: it  *)
(* finds no difference only if there is none here, and may miss even that. *)
identical_cpustates(a, b) == [a EXCEPT !.count = 0] = [b EXCEPT !.count = 0]

(* The entry m.last points at, 0 being one that was freed with its log. *)
MayBeDuplicate(m) ==
  /\ m.r.pc \in DOMAIN m.last
  /\ \/ m.last[m.r.pc] = 0
     \/ identical_cpustates(m.log[m.last[m.r.pc]], m.log[Len(m.log)])

Remembered(m, dup) ==
  LET old == m.last[m.r.pc]
      m1  == [m EXCEPT !.log[Len(m.log)].dup = TRUE]
  IN IF ~dup THEN [m EXCEPT !.last = (m.r.pc :> Len(m.log)) @@ @]
     ELSE IF old = 0 THEN m1
     ELSE [m1 EXCEPT !.log[old].count = @ + 1]

(* What is left to do once the instruction was executed. *)
StackTrouble(m) == (m.under /\ m.failUnder) \/ (m.over /\ m.failOver)
AfterExecution(m, dup) ==
  LET m1 == [m EXCEPT !.under = @ /\ m.failUnder, !.over = @ /\ m.failOver, !.count = Len(m.log)]
  IN IF m.t.done THEN [m |-> m, goOn |-> FALSE]
     ELSE IF StackTrouble(m)
     THEN [m |-> [m EXCEPT !.t.error = TRUE, !.under = @ /\ m.failUnder], goOn |-> FALSE]
     ELSE IF m.r.pc \notin Address16
     THEN [m |-> [m1 EXCEPT !.undefined = TRUE], goOn |-> FALSE]
     ELSE [m |-> Remembered(m1, dup /\ MayBeDuplicate(m1)), goOn |-> TRUE]

(* Mutant: what is written is blamed on the instruction before. *)
LoggedAfter(m, e) == [m EXCEPT !.count = Len(m.log) - 1, !.log = Append(@, e)]
Logged(m, e) == [m EXCEPT !.count = Len(m.log), !.log = Append(@, e)]
Executed(m, e) == execute_instruction(Checked(Logged(m, e), m.r.pc..(m.r.pc + 5)), e)

Stop(m) == [m |-> m, goOn |-> FALSE]
Completed(m, done, dup) ==
  CASE done.undefined -> Stop(done)
    [] ~done.undefined /\ Operation(read_memory(m, m.r.pc)) = "none" -> Stop([done EXCEPT !.t.error = TRUE])
    [] OTHER -> AfterExecution(done, dup)

cpu_step(m, dup) ==
  CASE m.r.pc \notin Address16  -> Stop([m EXCEPT !.undefined = TRUE])
    [] m.r.pc \in m.breakpoints -> Stop([m EXCEPT !.t.done = TRUE])
    [] OTHER -> Completed(m, Executed(m, NewEntry(m)), dup)
=============================================================================
