---------------------------- MODULE MCHyppoTest ----------------------------
(* Scripts for HyppoTest: every opcode, arithmetic at the boundaries, DMA   *)
(* jobs, routines with calls, loops and stacks that wrap, and the           *)
(* directives of the harness.  Several follow hyppotest-self.test.          *)
EXTENDS HyppoTest

Hex(v)       == [is |-> "hex", v |-> v]
Label(n, d)  == [is |-> "label", name |-> n, delta |-> d]
Bad          == [is |-> "bad"]

Say(kind)        == [do |-> kind]
At(kind, x)      == [do |-> kind, at |-> x]
Let(reg, v)      == [do |-> "let", reg |-> reg, value |-> Hex(v)]
SetFlag(f, on)   == [do |-> "flag", flag |-> f, on |-> on]
PokeAt(x, bytes) == [do |-> "poke", at |-> x, values |-> [i \in DOMAIN bytes |-> Hex(bytes[i])]]
Code(bytes)      == PokeAt(Hex(\h2000), bytes)
StepN(n)         == [do |-> "step", count |-> n]
Jsr              == At("jsr", Hex(\h2000))
TestOf(name)     == [do |-> "test", name |-> name]
EndTest          == Say("end test")
CheckRam         == Say("check ram")
CheckRegs        == Say("check regs")
ExpectAt(v, a)   == [do |-> "expect at", value |-> Hex(v), at |-> Hex(a)]
ExpectReg(r, v)  == [do |-> "expect reg", reg |-> r, value |-> Hex(v)]
Ignore(lo, hi)   == [do |-> "ignore", low |-> Hex(lo), high |-> Hex(hi)]
IgnoreReg(r)     == [do |-> "ignore reg", reg |-> r]
DefineAs(n, a)   == [do |-> "define", name |-> n, as |-> Hex(a)]
Stack(which, on) == [do |-> "stack", which |-> which, allow |-> on]
Load(file, a)    == [do |-> "load", file |-> file, at |-> a]
Symbols(file)    == [do |-> "loadsymbols", file |-> file, offset |-> 0]

(* One instruction of each opcode, with pointers where it looks for them. *)
Machine1 == <<Let("a", \h81), Let("x", 15), Let("y", 3), Let("z", 2), Let("b", 0)>>
OneOf(opcode, e) ==
  Machine1 \o <<SetFlag("E", e), SetFlag("C", e), SetFlag("V", ~e), Let("sp", \h01FF), Let("pc", \h2000),
    PokeAt(Hex(\h30), <<\h40, \h30, 0, 0>>), PokeAt(Hex(\h3F), <<\h50, \h30>>), PokeAt(Hex(\h3042), <<\h85>>),
    Code(<<opcode, \h30, \h10>>), StepN(2), CheckRegs>>
Opcodes == {OneOf(o, e) : o \in Byte, e \in BOOLEAN}

(* ADC, SBC and the comparisons at the boundaries. *)
Edge == {0, 1, \h7F, \h80, \hFF}
Arithmetic(opcode, a, v, c) ==
  <<Let("a", a), Let("x", a), Let("y", a), SetFlag("C", c), Let("pc", \h2000), Code(<<opcode, v>>), StepN(1)>>
Sums == {Arithmetic(o, a, v, c) : o \in {\h69, \hE9, \hC9}, a \in Edge, v \in Edge, c \in BOOLEAN}
        \cup {Arithmetic(o, a, v, TRUE) : o \in {\hE0, \hC0}, a \in Edge, v \in {1, \h80}}
        \cup {<<SetFlag("D", TRUE), Let("pc", \h2000), Code(<<\h69, 1>>), StepN(1), EndTest>>}

(* A DMA list at $4000, triggered the plain or the enhanced way. *)
Symbols3 == <<DefineAs("first", \h3000), DefineAs("after", \h3010), DefineAs("last", \h3001)>>
List(cmd, n, src, dst) == <<cmd, n, 0, src % 256, (src \div 256) % 256, src \div \h10000,
                            dst % 256, (dst \div 256) % 256, dst \div \h10000, 0, 0>>
Job(list, trigger) ==
  Symbols3 \o <<PokeAt(Hex(\h3000), <<11, 12, 13>>), PokeAt(Hex(\h4000), list),
                PokeAt(Hex(\hFFD3701), <<\h40, 0>>), PokeAt(Hex(\hFFD3700 + trigger), <<0>>), CheckRam>>
Backwards == \h400000
Held == \h100000
Jobs0 == {List(0, 3, \h3000, \h3100), List(0, 3, \h3002 + Backwards, \h3102 + Backwards),
          List(3, 3, 7, \h3000), List(3, 3, 9 + Held, \h3000), List(3, 2, 7, \h300F), List(0, 2, \h3000, \h3001),
          List(1, 2, \h3000, \h3100), List(0, 2, \h3000 + \h100000, \h3100)}
Options == {<<\h0B, 0>>, <<\h85, 2, 0>>, <<\h53, 0>>, <<\h82, \h80, 0>>, <<\h0A, \h80, 0, \h81, 0, \h90, 0, 0>>, <<\h55, 0>>,
            <<\h8F, \h80, 0>>, <<\h8F, \hC0, \h8C, 0, \h8E, 0, \h8B, \h80, \h8D, \h80, 0>>}
Dma == {Job(l, 0) : l \in Jobs0} \cup {Job(<<0>> \o l, 5) : l \in Jobs0}
       \cup {Job(o \o List(0, 3, \h3000, \h3100) \o <<0>>, 5) : o \in Options}
       \cup {Job(List(4, 2, \h3000, \h3100) \o List(3, 2, 9, \h3200), 0)}
       \cup {Job(List(0, 3, \h3000, \h3100), 0) \o <<TestOf("one")>>,
             Job(List(3, 3, 0, \h3000), 0) \o <<At("jsr", Label("after", 1))>>}

(* Routines. *)
Nested  == <<\h20, 6, \h20, \hA2, 1, \h60, \h48, \h20, 13, \h20, \h68, \h60, 0, \h8E, 0, \h30, \h60>>
Forever == <<\h80, \hFE>>
Pointer2 == <<\h22, 6, \h20, \h60, 0, 0, 8, \h20, \hE8, \h60>>
Store4  == <<\hA9, 5, \hEA, \hEA, \hEA, \h8D, 0, \h30, \hEA, \h8D, 0, \h30, \h60>>
Far     == <<\hEA, \h92, \h30, \h60>>
Empties == <<\h68, \h68, \h68, \h60>>
Routine(code) == {<<Code(code), Jsr, CheckRam, CheckRegs>>,
                  <<TestOf("one"), Code(code), Stack("underflow", TRUE), Stack("overflow", TRUE), Jsr,
                    IgnoreReg("sp"), IgnoreReg("pc"), Ignore(\h100, \h1FF), ExpectAt(5, \h3000), CheckRam, EndTest>>,
                  <<Code(code), SetFlag("E", FALSE), Let("sp", \h0101), Let("pc", \h2000), Say("until rts"),
                    Jsr, Jsr, CheckRegs>>}
Routines == UNION {Routine(c) : c \in {Nested, Forever, Pointer2, Store4, Far, Empties, <<\h60>>, <<0>>, <<\h02>>}}
  \cup {<<Code(<<\h92, \h30>>), Jsr>>, <<Let("pc", \h2000), Code(<<\hD0, \hFE>>), StepN(9)>>,
        <<Code(Store4), At("breakpoint", Hex(\h2005)), Jsr, At("clear breakpoint", Hex(\h2005)), StepN(1),
          At("breakpoint", Hex(\h200C)), Say("clear all breakpoints"), Say("until rts"), CheckRam>>,
        <<PokeAt(Hex(\hFFFA000), <<\hA9, 1, \h8D, 0, \hA1, \h60>>), At("jsr", Hex(\hFFFA000)), CheckRam>>,
        <<PokeAt(Hex(\hFFFA000), <<\hA9, 1, \h60>>), At("jsr", Hex(\hFFFA000)), CheckRam>>,
        <<Let("pc", \h2000), Code(<<\h69, 1, 0>>), SetFlag("D", TRUE), Say("until brk"), CheckRegs>>,
        <<TestOf("one"), Say("unrecognised"), Code(<<0>>), Let("pc", \h2000), Say("until brk"), EndTest>>,
        <<TestOf("one"), At("jmp", Hex(\h2000)), Code(<<\hEA, 0>>), At("jmp", Hex(\h2000)), Say("until brk")>>,
        <<Code(<<\hEA, \hEA>>), Let("pc", \h2000), StepN(1), StepN(1)>>,
        <<Code(<<\h60>>), Jsr, Let("pc", \h2000), Code(<<\hEA>>), StepN(1)>>}

(* The directives of the harness. *)
Hypervisor(n) == [do |-> "loadhyppo", file |-> <<1, 2>>, length |-> n]
HypSymbols    == [do |-> "loadhypposymbols", file |-> <<[name |-> "trap", addr |-> \h8000], [name |-> "exit", addr |-> \hA000]>>]
Assemble(located, fails, file, symbols) ==
  [do |-> "assemble", at |-> Hex(\h2000), located |-> located, fails |-> fails, file |-> file, symbols |-> symbols]
Main == <<[name |-> "main", addr |-> \h2000]>>
Many == <<[name |-> "s1", addr |-> 1], [name |-> "s2", addr |-> \h3000], [name |-> "s3", addr |-> 3],
          [name |-> "s4", addr |-> 2], [name |-> "s5", addr |-> 5]>>
Harness ==
  {<<TestOf("one"), Assemble(l, f, <<\hE8, \h60>>, Main), At("jsr", Label("main", 0)), ExpectReg("x", 1), IgnoreReg("sp"),
     ExpectReg("pc", 1), [do |-> "expect flag", flag |-> "E", on |-> TRUE], CheckRegs, CheckRam, EndTest>> :
       l \in BOOLEAN, f \in BOOLEAN}
  \cup {<<TestOf("one"), d, EndTest, TestOf("one"), CheckRam, EndTest>> :
        d \in {Hypervisor(\h4000), Hypervisor(2), HypSymbols, [HypSymbols EXCEPT !.file = NoFile],
               [Hypervisor(0) EXCEPT !.file = NoFile], Load(NoFile, 0), Load(<<1, 2>>, \h3000), Load(<<1>>, \h7000000),
               Symbols(NoFile), Symbols(Many), DefineAs("x", 1), At("jsr", Bad), At("jsr", Label("none", 0)),
               At("breakpoint", Label("none", 0)), [do |-> "expect flag", flag |-> "Q", on |-> TRUE],
               SetFlag("Q", TRUE), IgnoreReg("q"), ExpectReg("q", 1), Let("q", 1), ExpectAt(1, \h7000000), ExpectAt(1, \h3000),
               Assemble(FALSE, FALSE, NoFile, NoFile), Say("unrecognised"), PokeAt(Hex(\hFF80000), <<1>>)}}
  \cup {<<Symbols(Many), DefineAs("x", 1), CheckRam>>,
        <<HypSymbols, At("jsr", Label("trap", 0)), Say("ignore all regs"), CheckRegs>>,
        <<TestOf("one"), Say("unrecognised"), TestOf("one"), CheckRam>>,
        <<TestOf("other"), Say("unrecognised"), EndTest, TestOf("one"), EndTest>>}

(* Screens of failed tests: letters in the three last places of a screen of *)
(* two rows, in every mode, after a screen of default size with others.     *)
Vic(reg, v)   == PokeAt(Hex(\hFFD3000 + reg), <<v>>)
Small(step, wide) == <<Vic(\h5E, 3), Vic(\h7B, 1), Vic(\h58, step), Vic(\h54, wide)>>
Failing(set)  == <<TestOf("one")>> \o set \o <<Say("unrecognised"), EndTest>>
Letters(list) == <<PokeAt(Hex(\hB800), list), PokeAt(Hex(\hFF80000), <<1, 0, \h20, 0, \h61, 8, \h2F, 2>>)>>
Before        == Failing(Letters(<<1, 0, 130, 0, 3, 0, 7, 0, 9, 0, 11, 0>>))
Modes == {<<>>, <<Vic(\h18, \h16)>>, <<Vic(\h11, \h5B)>>, <<Vic(\h31, 0)>>, <<Vic(\h16, \hD8)>>, <<Vic(\h5E, 5)>>,
          <<Vic(\h59, \hFF)>>, <<Vic(\h65, \hFF)>>, <<Vic(\h54, 2)>>, <<Vic(\h62, 7)>>}
Screens == {Before \o Failing(Small(step, wide) \o mode \o Letters(<<26, 0, 1, 0, 131, 96, 4, 20>>)) :
              step \in {3, 6}, wide \in {0, 1, 4}, mode \in Modes}

MCScripts == Screens \cup Opcodes \cup Sums \cup Dma \cup Routines \cup Harness
=============================================================================
