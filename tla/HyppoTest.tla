----------------------------- MODULE HyppoTest -----------------------------
(***************************************************************************)
(* The test harness of src/tools/hyppotest.c: it reads a script line by    *)
(* line, runs routines on the emulated machine, compares registers and     *)
(* memory with what was expected, and passes or fails each test.           *)
(*                                                                         *)
(* A directive is a record: do is its kind and the other fields are its    *)
(* operands.  Values are written [is |-> "hex", v |-> n], or as a label    *)
(* with a delta, or as something that cannot be parsed.  A file that is    *)
(* loaded is the sequence of its bytes, or of its symbols; NoFile is one   *)
(* that cannot be read.  Once the C program does what C leaves undefined   *)
(* (m.undefined) the model says nothing more and stops.                    *)
(***************************************************************************)
EXTENDS EmuScreen

CONSTANTS Scripts,                  \* the scripts to run
          NoTarget, test_target,    \* the only test to run, if one is named
          NoFile,
          MAX_LOG_LENGTH,           \* room in the log of instructions
          MAX_HYPPO_SYMBOLS,
          INFINITE_LOOP_THRESHOLD

ASSUME HarnessAssumption == /\ MAX_LOG_LENGTH \in Nat \ {0}
                            /\ MAX_HYPPO_SYMBOLS \in Nat
                            /\ INFINITE_LOOP_THRESHOLD \in Nat

VARIABLES
  m,          \* the machine
  expected,   \* the registers and the memory that are expected
  script,     \* the script that is run
  line,       \* the directive that is read next
  running,    \* the run or the stepping that a directive started
  test,       \* the state of the harness
  ghost       \* history, for the properties only

vars == <<m, expected, script, line, running, test, ghost>>

Idle == [what |-> "idle", left |-> 0, prior |-> FALSE]

-----------------------------------------------------------------------------
(* The machine at the start. *)

StartRegs == [pc |-> 0, a |-> 0, x |-> 0, y |-> 0, z |-> 0, b |-> \hBF, spl |-> 0, sph |-> 0,
              flags |-> {"E", "I"}, in_hyper |-> TRUE, inhibit |-> FALSE,
              maplo |-> 0, maphi |-> \h3F00, maplomb |-> 0, maphimb |-> \hFF]
NoTerm == [done |-> FALSE, error |-> FALSE, rts |-> 0, brk |-> FALSE]
IsViciv(addr) == addr \in \hFFD3000..\hFFD307F

(* What was in the RAMs stays there, but for $00, $01 and the VIC-IV.  The  *)
(* blame of the colour RAM and of the I/O area stays as well.               *)
machine_init(mm) ==
  [mm EXCEPT
    !.r = StartRegs, !.t = NoTerm, !.over = FALSE, !.under = FALSE, !.breakpoints = {},
    !.log = <<>>, !.last = <<>>, !.count = 0, !.hyppo = <<>>,
    !.ram = [a \in {a \in DOMAIN @ : ~IsViciv(a) /\ a \notin {0, 1}} |-> @[a]],
    !.blame = [a \in {a \in DOMAIN @ : Region(a) \in {"colour", "io"}} |-> @[a]]]

ExpectedAtStart == [ram |-> <<>>,
                    r |-> [r \in DOMAIN StartRegs |->
                             CASE r = "flags" -> {"E", "I"}
                               [] r \in {"in_hyper", "inhibit"} -> FALSE
                               [] OTHER -> 0]]

(* Every name is freed, and a clone has the name of the symbol it was made  *)
(* from: that frees it twice.                                               *)
FreesTwice(mm) ==
  \/ \E i \in DOMAIN mm.symbols : mm.symbols[i].name \in mm.freed
  \/ \E i, j \in DOMAIN mm.symbols : i # j /\ mm.symbols[i].name = mm.symbols[j].name

test_init(mm) ==
  [machine_init(mm) EXCEPT !.failOver = TRUE, !.failUnder = TRUE,
                           !.symbols = <<>>, !.freed = {}, !.undefined = FreesTwice(mm)]

Fresh == machine_init([r |-> StartRegs, t |-> NoTerm, ram |-> <<>>, blame |-> <<>>,
                       symbols |-> <<>>, freed |-> {}, aborted |-> FALSE, undefined |-> FALSE,
                       count |-> 0, over |-> FALSE, under |-> FALSE, failOver |-> TRUE,
                       failUnder |-> TRUE, breakpoints |-> {}, log |-> <<>>, last |-> <<>>,
                       hyppo |-> <<>>])

-----------------------------------------------------------------------------
(* Values.  Hypervisor symbols come first, and are moved to their RAM.      *)

Named(symbols, name) == {i \in DOMAIN symbols : symbols[i].name = name}
First(S) == CHOOSE i \in S : \A j \in S : i <= j

Resolvable(mm, x) ==
  x.is = "hex" \/ (x.is = "label" /\ (Named(mm.hyppo, x.name) \cup Named(mm.symbols, x.name)) # {})

resolve_value32(mm, x) ==
  CASE x.is = "hex"        -> x.v
    [] ~Resolvable(mm, x)  -> 0
    [] OTHER               ->
         LET h == Named(mm.hyppo, x.name)
             s == Named(mm.symbols, x.name)
         IN IF h # {} THEN \hFFF0000 + mm.hyppo[First(h)].addr + x.delta
            ELSE mm.symbols[First(s)].addr + x.delta
resolve_value8(mm, x)  == resolve_value32(mm, x) % 256
resolve_value16(mm, x) == resolve_value32(mm, x) % \h10000

(* A value that cannot be resolved is an error, and 0 is used.  Comparing   *)
(* with a name that was freed is undefined.                                 *)
Looked(mm, x) ==
  [mm EXCEPT !.t.error = @ \/ ~Resolvable(mm, x),
             !.undefined = @ \/ (x.is = "label" /\ Named(mm.hyppo, x.name) = {} /\ mm.freed # {}
                                 /\ \E i \in DOMAIN mm.symbols : mm.symbols[i].name \in mm.freed)]
Failed(mm) == [mm EXCEPT !.t.error = TRUE]

(* The registers a script can name; F is the byte of flags, SP both halves. *)
Settable == {"a", "x", "y", "z", "b", "spl", "sph", "sp", "f", "pc"}
Assign(r, name, v) ==
  CASE name = "f"  -> [r EXCEPT !.flags = FlagsOf(v % 256)]
    [] name = "sp" -> [r EXCEPT !.spl = v % 256, !.sph = (v \div 256) % 256]
    [] name = "pc" -> [r EXCEPT !.pc = v % \h10000]
    [] OTHER       -> [r EXCEPT ![name] = v % 256]
Copied(r, name, from) ==
  CASE name = "f"  -> [r EXCEPT !.flags = from.flags]
    [] name = "sp" -> [r EXCEPT !.spl = from.spl, !.sph = from.sph]
    [] OTHER       -> [r EXCEPT ![name] = from[name]]

-----------------------------------------------------------------------------
(* Runs. *)

(* Mutant: only the chip RAM is remembered. *)
StashedChipRam(exp, mm) ==
  [a \in DOMAIN exp \cup DOMAIN mm.ram |-> IF Region(a) = "chip" THEN Stored(mm.ram, a) ELSE Stored(exp, a)]

(* The routine is called with its stack in the page that goes with where it *)
(* lies, and the memory is remembered, but not the colour RAM nor I/O.      *)
Stashed(exp, mm) ==
  [a \in DOMAIN exp \cup DOMAIN mm.ram |->
     IF Region(a) \in {"chip", "hyppo"} THEN Stored(mm.ram, a) ELSE Stored(exp, a)]

(* The log is freed, but what points into it is not reset. *)
cpu_log_reset(mm) ==
  [mm EXCEPT !.log = <<NullEntry(mm)>>, !.last = [a \in DOMAIN @ |-> 0]]

ReadyToCall(mm, addr) ==
  LET hyper == addr \in \h8000..\hBFFF
  IN [mm EXCEPT !.r.spl = \hFF, !.r.b = IF hyper THEN \hBF ELSE 0,
                !.r.sph = IF hyper THEN \hBE ELSE 1, !.r.in_hyper = hyper]

(* Mutant: a run forgets the errors of before. *)
EndedAlone(mm, run) == [mm EXCEPT !.t.error = @ /\ ~(run.what = "until brk" /\ mm.t.brk)]

(* The error of before the run is added to that of the run when it ends.    *)
(* Running until a BRK forgets every error of the run when it got there.    *)
Ended(mm, run) ==
  LET forgiven == run.what = "until brk" /\ mm.t.brk
  IN [mm EXCEPT !.t.error = (@ /\ ~forgiven) \/ run.prior]

(* The count in an entry that was freed may be anything. *)
LoopSuspected(mm, any) ==
  LET i == mm.last[mm.r.pc]
  IN IF i = 0 THEN any ELSE mm.log[i].count > INFINITE_LOOP_THRESHOLD

-----------------------------------------------------------------------------
(* Ghosts, which only the properties read.                                  *)

NoGhost == [writer |-> <<>>, frames |-> <<>>, wrong |-> FALSE, before |-> <<>>, stated |-> {}]

Changed(a, b) == {x \in DOMAIN b.ram : Stored(a.ram, x) # b.ram[x]}
Forget(f, S) == [x \in DOMAIN f \ S |-> f[x]]

(* Frames of the calls that are open: where each returns to, and where its  *)
(* return address lies; one that is written over is forgotten.              *)
FramesAfter(mm, n) ==
  LET op == Operation(read_memory(mm, mm.r.pc))
      sp == Sp(mm)
      kept == SelectSeq(ghost.frames, LAMBDA f : f.at \cap Changed(mm, n) = {})
      slot(k) == addr_to_28bit(mm, Sp(WithSp(mm, sp + k * \hFFFF)), FALSE)
  IN CASE op = "JSR" -> Append(kept, [back |-> mm.r.pc + 3, sp |-> Sp(n), at |-> {slot(0), slot(1)}])
       [] op = "RTS" /\ kept # <<>> -> SubSeq(kept, 1, Len(kept) - 1)
       [] op \in {"TXS", "TYS", "SEE", "MAP", "RTI"} -> <<>>
       [] OTHER -> kept

AfterStep(mm, n) ==
  IF n.log = mm.log THEN ghost
  ELSE [ghost EXCEPT
         !.writer = [x \in DOMAIN @ \cup Changed(mm, n) |->
                       IF x \in Changed(mm, n) THEN Len(mm.log) ELSE @[x]],
         !.frames = FramesAfter(mm, n)]
Touched(mm, n) ==
  [ghost EXCEPT !.writer = Forget(@, Changed(mm, n)),
                !.frames = IF <<mm.r, mm.ram>> = <<n.r, n.ram>> THEN @ ELSE <<>>]

-----------------------------------------------------------------------------
(* Reading a directive. *)

Directive == script[line]
Reads1(kind) == /\ running = Idle
                /\ line <= Len(script)
                /\ ~m.undefined
                /\ ~test.skipping
                /\ Directive.do = kind
NextLine == line' = line + 1 /\ UNCHANGED script

(* A directive that changes the machine at once, and one that changes only  *)
(* what is expected.                                                        *)
Machine(mm) == /\ m' = mm
               /\ ghost' = [Touched(m, mm) EXCEPT !.wrong = @ \/ mm.t.error]
               /\ NextLine
               /\ UNCHANGED <<expected, running, test>>
Expecting(mm, ex, stated) ==
  /\ m' = mm
  /\ expected' = ex
  /\ ghost' = [ghost EXCEPT !.wrong = @ \/ mm.t.error, !.stated = @ \cup stated]
  /\ NextLine
  /\ UNCHANGED <<running, test>>

(* jsr and jmp: nothing is called at address 0, nor at one that could not   *)
(* be resolved.  A jsr counts the returns.                                  *)
Begin(mm, run) == [mm EXCEPT !.t = [NoTerm EXCEPT !.rts = IF run \in {"jsr", "until rts"} THEN 1 ELSE 0]]
Call == \E kind \in {"jsr", "jmp"} :
  /\ Reads1(kind)
  /\ LET m1   == Looked(m, Directive.at)
         addr == resolve_value32(m, Directive.at)
         m2   == ReadyToCall(Begin(m1, kind), addr % \h10000)
         m3   == cpu_log_reset(m2)
     IN IF addr <= 0 THEN Machine(m1)
        ELSE /\ m' = [m3 EXCEPT !.r.pc = addr % \h10000, !.over = FALSE, !.under = FALSE]
             /\ expected' = [r |-> m2.r, ram |-> Stashed(expected.ram, m2)]
             /\ running' = [what |-> kind, left |-> 0, prior |-> m1.t.error]
             /\ ghost' = [NoGhost EXCEPT !.wrong = ghost.wrong \/ m1.t.error, !.before = m.ram]
             /\ NextLine
             /\ UNCHANGED test

RunUntil == \E kind \in {"until rts", "until brk"} :
  /\ Reads1(kind)
  /\ m' = [Begin(m, kind) EXCEPT !.over = FALSE, !.under = FALSE]
  /\ running' = [what |-> kind, left |-> 0, prior |-> m.t.error]
  /\ NextLine
  /\ UNCHANGED <<expected, test, ghost>>

(* Stepping does not reset the stack exceptions of the run before. *)
Stepping ==
  /\ Reads1("step")
  /\ m' = Begin(m, "step")
  /\ running' = [what |-> "step", left |-> Directive.count, prior |-> m.t.error]
  /\ NextLine
  /\ UNCHANGED <<expected, test, ghost>>

-----------------------------------------------------------------------------
(* While a run goes on: one instruction, or the end of it. *)

Over(mm) == /\ m' = Ended(mm, running)
            /\ running' = Idle
            /\ ghost' = [AfterStep(m, mm) EXCEPT !.wrong = @ \/ Ended(mm, running).t.error]
            /\ UNCHANGED <<expected, script, line, test>>

Ran(s, any) ==
  IF ~s.goOn THEN Over(s.m)
  ELSE IF LoopSuspected(s.m, any) THEN Over(Failed(s.m))
  ELSE /\ m' = s.m
       /\ ghost' = AfterStep(m, s.m)
       /\ UNCHANGED <<expected, script, line, running, test>>
cpu_run ==
  /\ running.what \in {"jsr", "jmp", "until rts", "until brk"}
  /\ ~m.undefined
  /\ Len(m.log) < MAX_LOG_LENGTH
  /\ \E dup, any \in BOOLEAN : Ran(cpu_step(m, dup), any)

(* Mutant: a full log is emptied, and the run goes on. *)
LogIsEmptied ==
  /\ running.what \in {"jsr", "jmp", "until rts", "until brk"}
  /\ ~m.undefined
  /\ Len(m.log) >= MAX_LOG_LENGTH
  /\ m' = cpu_log_reset(m)
  /\ UNCHANGED <<expected, script, line, running, test, ghost>>

(* A full log ends every run, but it is an error of a call only. *)
LogIsFull ==
  /\ running.what \in {"jsr", "jmp", "until rts", "until brk"}
  /\ ~m.undefined
  /\ Len(m.log) >= MAX_LOG_LENGTH
  /\ LET mm == IF running.what \in {"jsr", "jmp"} THEN Failed(m) ELSE m
     IN /\ m' = Ended(mm, running)
        /\ running' = Idle
        /\ ghost' = [ghost EXCEPT !.wrong = @ \/ Ended(mm, running).t.error]
        /\ UNCHANGED <<expected, script, line, test>>

(* Steps do not look for room in the log. *)
AfterAStep(s) ==
  IF ~s.goOn THEN Over(s.m)
  ELSE /\ m' = s.m
       /\ running' = [running EXCEPT !.left = @ - 1]
       /\ ghost' = AfterStep(m, s.m)
       /\ UNCHANGED <<expected, script, line, test>>
Step ==
  /\ running.what = "step"
  /\ ~m.undefined
  /\ IF running.left = 0 THEN Over(m)
     ELSE IF Len(m.log) >= MAX_LOG_LENGTH THEN Over([m EXCEPT !.undefined = TRUE])
     ELSE \E dup \in BOOLEAN : AfterAStep(cpu_step(m, dup))

-----------------------------------------------------------------------------
(* Checks and expectations. *)

Compared16 == {"a", "x", "y", "z", "b", "spl", "sph", "pc", "flags"}
compare_register_contents ==
  /\ Reads1("check regs")
  /\ Machine([m EXCEPT !.t.error = @ \/ \E r \in Compared16 : m.r[r] # expected.r[r]])

Unexpected == {a \in DOMAIN m.ram \cup DOMAIN expected.ram : Stored(m.ram, a) # Stored(expected.ram, a)}
compare_ram_contents ==
  /\ Reads1("check ram")
  /\ Machine([m EXCEPT !.t.error = @ \/ Unexpected # {}])

(* Only the changes of the chip RAM and of the hypervisor can be ignored. *)
ignore_ram_changes ==
  /\ Reads1("ignore")
  /\ LET low  == resolve_value32(m, Directive.low)
         high == resolve_value32(m, Directive.high)
         S    == {a \in low..high : Region(a) \in {"chip", "hyppo"}}
     IN Expecting(Looked(Looked(m, Directive.low), Directive.high),
                  [expected EXCEPT !.ram = [a \in S |-> Stored(m.ram, a)] @@ @], S)

IgnoreRegisters ==
  \/ /\ Reads1("ignore all regs")
     /\ Expecting(m, [expected EXCEPT !.r = m.r], {})
  \/ /\ Reads1("ignore reg")
     /\ IF Directive.reg \in Settable
        THEN Expecting(m, [expected EXCEPT !.r = Copied(@, Directive.reg, m.r)], {})
        ELSE Machine(Failed(m))

ExpectRegister ==
  /\ Reads1("expect reg")
  /\ IF Directive.reg \in Settable
     THEN LET v == resolve_value32(m, Directive.value)
          IN Expecting(Looked(m, Directive.value), [expected EXCEPT !.r = Assign(@, Directive.reg, v)], {})
     ELSE Machine(Failed(m))

ExpectFlag ==
  /\ Reads1("expect flag")
  /\ IF Directive.flag \in Flag
     THEN Expecting(m, [expected EXCEPT !.r.flags = IF Directive.on THEN @ \cup {Directive.flag}
                                                    ELSE @ \ {Directive.flag}], {})
     ELSE Machine(Failed(m))

(* Expecting a value where there is no memory is reported, but no error. *)
write_mem_expected28 ==
  /\ Reads1("expect at")
  /\ LET v  == resolve_value8(m, Directive.value)
         l  == resolve_value32(m, Directive.at)
         mm == Looked(Looked(m, Directive.value), Directive.at)
     IN IF Region(l) = "unmapped" THEN Expecting(mm, expected, {})
        ELSE Expecting(mm, [expected EXCEPT !.ram = (l :> v) @@ @], {l})

-----------------------------------------------------------------------------
(* Setting up the machine. *)

LetRegister ==
  /\ Reads1("let")
  /\ LET v == resolve_value32(m, Directive.value)
     IN Machine(IF Directive.reg \notin Settable THEN Failed(m)
                ELSE [Looked(m, Directive.value) EXCEPT !.r = Assign(@, Directive.reg, v)])

LetFlag ==
  /\ Reads1("flag")
  /\ Machine(IF Directive.flag \in Flag THEN WithFlag(m, Directive.flag, Directive.on) ELSE Failed(m))

(* Bytes are written one after the other, as the CPU would write them. *)
RECURSIVE Written(_, _, _)
Written(mm, addr, bytes) ==
  IF bytes = <<>> THEN mm ELSE Written(write_mem28(mm, addr, Head(bytes)), addr + 1, Tail(bytes))

RECURSIVE Poked(_, _, _)
Poked(mm, addr, values) ==
  IF values = <<>> THEN mm
  ELSE Poked(write_mem28(Looked(mm, Head(values)), addr, resolve_value8(mm, Head(values))),
             addr + 1, Tail(values))
Poke ==
  /\ Reads1("poke")
  /\ Machine(Poked(Looked(m, Directive.at), resolve_value32(m, Directive.at), Directive.values))

load_file ==
  /\ Reads1("load")
  /\ Machine(IF Directive.file = NoFile THEN Failed(m) ELSE Written(m, Directive.at, Directive.file))

(* The file of the hypervisor has a length and the bytes it begins with,    *)
(* the others being 0.  One that is too short has been read all the same.   *)
load_hyppo ==
  /\ Reads1("loadhyppo")
  /\ LET bytes == Directive.file
         first == \hFFF8000
         kept  == {a \in DOMAIN m.ram : a \notin first..(first + Directive.length - 1)}
         ram   == [a \in first..(first + Len(bytes) - 1) |-> bytes[a - first + 1]]
     IN Machine(IF bytes = NoFile THEN Failed(m)
                ELSE [m EXCEPT !.t.error = @ \/ Directive.length # \h4000,
                               !.ram = ram @@ [a \in kept |-> @[a]]])

(* Symbols are taken as long as there is room. *)
Room(symbols, max, more) == SubSeq(more, 1, IF max - Len(symbols) < Len(more) THEN max - Len(symbols) ELSE Len(more))
Shifted(symbols, offset) == [i \in DOMAIN symbols |-> [symbols[i] EXCEPT !.addr = @ + offset]]
WithSymbols(mm, more, offset) ==
  LET taken == Room(mm.symbols, MAX_SYMBOLS, more)
  IN [mm EXCEPT !.symbols = @ \o Shifted(taken, offset), !.t.error = @ \/ taken # more]

load_symbols ==
  /\ Reads1("loadsymbols")
  /\ Machine(IF Directive.file = NoFile THEN Failed(m)
             ELSE WithSymbols(m, Directive.file, Directive.offset))

load_hyppo_symbols ==
  /\ Reads1("loadhypposymbols")
  /\ LET taken == Room(m.hyppo, MAX_HYPPO_SYMBOLS, Directive.file)
     IN Machine(IF Directive.file = NoFile THEN Failed(m)
                ELSE [m EXCEPT !.hyppo = @ \o taken, !.t.error = @ \/ taken # Directive.file])

(* There is an error without room for another symbol, and it is written     *)
(* beyond the table all the same.                                           *)
Define ==
  /\ Reads1("define")
  /\ LET mm  == Looked(m, Directive.as)
         new == [name |-> Directive.name, addr |-> resolve_value32(m, Directive.as)]
     IN Machine(IF Len(m.symbols) >= MAX_SYMBOLS THEN [Failed(mm) EXCEPT !.undefined = TRUE]
                ELSE [mm EXCEPT !.symbols = Append(@, new)])

Breakpoint ==
  \/ /\ Reads1("clear all breakpoints")
     /\ Machine([m EXCEPT !.breakpoints = {}])
  \/ \E kind \in {"breakpoint", "clear breakpoint"} :
       /\ Reads1(kind)
       /\ LET addr == resolve_value16(m, Directive.at)
          IN Machine([Looked(m, Directive.at) EXCEPT
                        !.breakpoints = IF kind = "breakpoint" THEN @ \cup {addr} ELSE @ \ {addr}])

AllowStack ==
  /\ Reads1("stack")
  /\ Machine(IF Directive.which = "overflow" THEN [m EXCEPT !.failOver = ~Directive.allow]
             ELSE [m EXCEPT !.failUnder = ~Directive.allow])

(* The assembler is a program of its own: what it makes of the source is    *)
(* given with the directive.  Neither file that it may fail to write is an  *)
(* error.  Assembling at an address looks at the errors so far.             *)
Assembled(mm, pc, file, symbols) ==
  LET m1 == IF file = NoFile THEN mm ELSE Written(mm, pc, file)
  IN IF symbols = NoFile THEN m1
     ELSE LET m2 == WithSymbols(m1, symbols, 0) IN [m2 EXCEPT !.t.error = m1.t.error]
assemble_with_acme ==
  /\ Reads1("assemble")
  /\ LET mm == Looked(m, Directive.at)
         pc == resolve_value16(m, Directive.at)
     IN Machine(CASE mm.t.error /\ Directive.located -> mm
                  [] (~mm.t.error \/ ~Directive.located) /\ Directive.fails -> Failed(mm)
                  [] OTHER -> Assembled(mm, pc, Directive.file, Directive.symbols))

Unrecognised ==
  /\ Reads1("unrecognised")
  /\ Machine(Failed(m))

-----------------------------------------------------------------------------
(* Tests. *)

(* A test that begins before the one before has ended leaves it unjudged. *)
BeginTest ==
  /\ Reads1("test")
  /\ NextLine
  /\ IF test_target \in {NoTarget, Directive.name}
     THEN /\ m' = test_init(m)
          /\ expected' = ExpectedAtStart
          /\ test' = [test EXCEPT !.open = TRUE]
          /\ ghost' = NoGhost
          /\ UNCHANGED running
     ELSE /\ test' = [test EXCEPT !.skipping = TRUE]
          /\ UNCHANGED <<m, expected, running, ghost>>

Skip ==
  /\ test.skipping
  /\ line <= Len(script)
  /\ test' = [test EXCEPT !.skipping = Directive.do # "end test"]
  /\ NextLine
  /\ UNCHANGED <<m, expected, running, ghost>>

(* A failed test shows the screen; the program exits if there is no room    *)
(* for it, and reads no more.                                               *)
Exits  == m.t.error /\ TooLarge(get_video_state(m.ram))
Judged == CASE Exits     -> [test EXCEPT !.fails = @ + 1, !.open = FALSE]
            [] m.t.error /\ ~Exits -> [test EXCEPT !.fails = @ + 1, !.open = FALSE,
                                                  !.shots = fetch_ram(@, m.ram)]
            [] OTHER     -> [test EXCEPT !.passes = @ + 1, !.open = FALSE]
test_conclude ==
  /\ Reads1("end test")
  /\ test' = Judged
  /\ IF Exits THEN line' = Len(script) + 1 /\ UNCHANGED script ELSE NextLine
  /\ UNCHANGED <<m, expected, running, ghost>>

(* At the end of the script a test that is still open is judged. *)
EndOfScript ==
  /\ running = Idle
  /\ ~m.undefined
  /\ line > Len(script)
  /\ test.open
  /\ test' = Judged
  /\ UNCHANGED <<m, expected, script, line, running, ghost>>

-----------------------------------------------------------------------------
Init ==
  /\ m = Fresh
  /\ expected = ExpectedAtStart
  /\ script \in Scripts
  /\ line = 1
  /\ running = Idle
  /\ test = [open |-> FALSE, passes |-> 0, fails |-> 0, skipping |-> FALSE, shots |-> <<>>]
  /\ ghost = NoGhost

Run == cpu_run \/ LogIsFull \/ Step
Next ==
  \/ Call \/ RunUntil \/ Stepping \/ Run
  \/ compare_register_contents \/ compare_ram_contents \/ ignore_ram_changes
  \/ IgnoreRegisters \/ ExpectRegister \/ ExpectFlag \/ write_mem_expected28
  \/ LetRegister \/ LetFlag \/ Poke \/ load_file \/ load_hyppo \/ load_symbols
  \/ load_hyppo_symbols \/ Define \/ Breakpoint \/ AllowStack \/ assemble_with_acme
  \/ Unrecognised \/ BeginTest \/ Skip \/ test_conclude \/ EndOfScript

(* The program is one thread, which goes on with a run as long as one is    *)
(* going on.  This is the weak fairness of Run written out, with Busy for   *)
(* ENABLED Run: evaluating ENABLED would execute every instruction anew.    *)
Busy == running # Idle /\ ~m.undefined
RunGoesOn == []<>~Busy \/ []<><<Run>>_vars
Spec == Init /\ [][Next]_vars /\ RunGoesOn
-----------------------------------------------------------------------------
(* Properties. *)

Executing == running # Idle /\ Len(m'.log) = Len(m.log) + 1
Opcode    == read_memory(m, m.r.pc)
Entry     == NewEntry(m)

(* The machine, the log and the run stay in their types. *)
EmuTypeOK ==
  /\ \A r \in {"a", "x", "y", "z", "b", "spl", "sph", "maplomb", "maphimb"} : m.r[r] \in Byte
  /\ m.r.maplo \in Address16 /\ m.r.maphi \in Address16 /\ m.r.flags \subseteq Flag
  /\ m.undefined \/ m.r.pc \in Address16 \cup {\h10000}
  /\ m.t \in [done : BOOLEAN, error : BOOLEAN, brk : BOOLEAN, rts : Nat]
  /\ \A a \in DOMAIN m.ram : Region(a) # "unmapped" /\ m.ram[a] \in Byte
  /\ \A a \in DOMAIN m.last : m.last[a] \in 0..Len(m.log)
  /\ Len(m.log) <= MAX_LOG_LENGTH /\ Len(m.symbols) <= MAX_SYMBOLS
  /\ running.what \in {"idle", "jsr", "jmp", "until rts", "until brk", "step"}

(* The sum, the difference and the comparison of two bytes are those of the *)
(* numbers they stand for, and the flags tell carry, borrow and signed      *)
(* overflow (adc, sbc, update_cmp_flags).  A comparison is only taken for   *)
(* bytes less than 128 apart: the code takes its carry from the sign of the *)
(* difference.                                                              *)
Signed(v) == IF v < 128 THEN v ELSE v - 256
Says(flag, true) == (flag \in m'.r.flags) = true
ArithmeticIsExact ==
  [][LET op == Operation(Opcode)
         v  == Operand(m, Entry, Mode(Opcode))
         c  == Carry(m)
         sum  == m.r.a + v + c
         diff == m.r.a - v - (1 - c)
         left == m.r[Compared[op]]
     IN Executing /\ "D" \notin m.r.flags =>
        /\ op = "ADC" => /\ m'.r.a = sum % 256 /\ Says("C", sum > 255)
                         /\ Says("V", Signed(m.r.a) + Signed(v) + c \notin -128..127)
        /\ op = "SBC" => /\ m'.r.a = diff % 256 /\ Says("C", diff >= 0)
                         /\ Says("V", Signed(m.r.a) - Signed(v) - (1 - c) \notin -128..127)
        /\ op \in DOMAIN Compared => /\ Says("Z", left = v)
                                     /\ left - v \in -127..127 => Says("C", left >= v)]_m

(* What the listing says of an instruction is what was executed: its name,  *)
(* its mode, and for a taken branch its target.  The listing differs where  *)
(* the code does: EOR ($nn,X) is listed as EOR $nn,X, the target of a bit   *)
(* branch is one short, and the long branches are not looked at.            *)
SameMode(opcode) == \/ ListedMode(opcode) = Mode(opcode)
                    \/ opcode \in {\h00, \h1A, \h3A, \h41}
                    \/ ListedMode(opcode) = "rel16"
ListingNamesWhatRan ==
  [][LET d == disassemble_instruction(Entry)
         short == IF d.mode = "zprel" THEN 1 ELSE 0
     IN Executing /\ Operation(Opcode) # "none" =>
        /\ d.name = Numbered(Opcode) /\ SameMode(Opcode)
        /\ d.mode \in {"rel8", "zprel"} /\ m'.r.pc # m.r.pc + Length(Mode(Opcode))
           => m'.r.pc = d.operand + short]_m

(* A byte that instructions of the present log have changed is blamed on    *)
(* the last of them, or on a later one that wrote the same value again, so  *)
(* that the listing for an unexpected byte shows it: unless it is one of    *)
(* the first three of the log, or was left out as a repetition.             *)
CulpritIsShown ==
  \A a \in DOMAIN ghost.writer :
    /\ Blamed(m, a) \in ghost.writer[a]..Len(m.log)
    /\ Blamed(m, a) = ghost.writer[a] /\ ghost.writer[a] > 3
       => \/ ghost.writer[a] \in ShownForByte(m, a)
          \/ m.log[ghost.writer[a] + 1].dup

(* An address is named after the symbol at or next below it, in whatever    *)
(* order the symbols were loaded, defined, cloned and erased.               *)
LabelIsNearest ==
  \A i \in DOMAIN m.symbols, d \in {-1, 0, 1} :
    LET addr  == m.symbols[i].addr + d
        found == BestSoFar(m.symbols, addr, 1, NoSymbol)
    IN \A j \in DOMAIN m.symbols : m.symbols[j].addr <= addr => found.addr \in m.symbols[j].addr..addr

(* An RTS whose stack pointer is that of a call that is still open, with    *)
(* its return address as it was written, goes on after the call: whatever   *)
(* was pushed and pulled in between, in the page of the stack or beyond it. *)
CallsReturnToCaller ==
  [][LET frame == ghost.frames[Len(ghost.frames)]
     IN Executing /\ Operation(Opcode) = "RTS" /\ ghost.frames # <<>> /\ frame.sp = Sp(m)
        => m'.r.pc = frame.back]_m

(* A DMA job without options, between blocks that do not meet, leaves the   *)
(* bytes of the source, or the value of a fill, in the destination, and     *)
(* changes no other byte but the two that trigger it; the symbols outside   *)
(* of the destination stay where they are.  The value of a fill is only     *)
(* looked at where the code does not advance it.                            *)
Triggers == {\hFFD3700, \hFFD3705}
SimpleJob ==
  LET value == resolve_value8(m, Directive.values[1])
      m1    == Store(Store(m, \hFFD3700, value), \hFFD3705, value)
  IN ReadList(m1, NoOptions, ListAddress(m1) + (IF resolve_value32(m, Directive.at) = \hFFD3705 THEN 1 ELSE 0))
SimpleTrigger == Len(Directive.values) = 1 /\ resolve_value32(m, Directive.at) \in Triggers
BlockOf(p, n) == IF p.back THEN (p.w - n + 1)..p.w ELSE p.w..(p.w + n - 1)
IsSimple(job) ==
  LET source == IF job.cmd = 0 THEN BlockOf(job.s, job.count) ELSE {}
      dest   == BlockOf(job.d, job.count)
  IN /\ job.cmd \in {0, 3} /\ ~job.more /\ ~job.d.hold /\ job.count <= 64
     /\ job.cmd = 0 => ~job.s.hold /\ job.d.back = job.s.back
     /\ source \cap dest = {} /\ \A a \in source \cup dest : Region(a) = "chip" /\ a > 1
DmaMovesTheBlock ==
  [][LET job  == SimpleJob
         dest == BlockOf(job.d, job.count)
         from(a) == IF job.cmd = 3 THEN job.s.w % 256
                    ELSE Stored(m.ram, job.s.w + (a - job.d.w))
     IN Poke /\ SimpleTrigger /\ IsSimple(job) /\ ~m'.t.error
        => /\ \A a \in dest : job.cmd = 0 \/ job.s.hold \/ job.count = 1 => Stored(m'.ram, a) = from(a)
           /\ Changed(m, m') \subseteq dest \cup Triggers
           /\ \A i \in DOMAIN m.symbols :
                m.symbols[i].addr \notin dest => \E j \in DOMAIN m'.symbols : m'.symbols[j] = m.symbols[i]]_m

(* A test in which anything went wrong fails, and one in which nothing did  *)
(* passes: no later directive forgets an error of an earlier one, although  *)
(* each run starts without errors.  Only a run until BRK that gets there    *)
(* forgets what went wrong on its way.                                      *)
FailuresAreReported ==
  [][/\ test'.fails # test.fails => ghost.wrong
     /\ test'.passes # test.passes => ~ghost.wrong]_test

(* The position x, y of the screen v, of which the letters are looked at    *)
(* that are not full-colour and lie in the screen RAM with their colour.    *)
Position(v, x, y) ==
  LET i      == y * v.step + x * v.bytes
      code   == Stored(m.ram, v.screen + i)
      colour == Stored(m.ram, v.colour + i)
      next(area) == IF v.bytes = 2 THEN Stored(m.ram, v[area] + i + 1) ELSE 0
  IN [code |-> code, colour |-> colour, reverse |-> v.attribs /\ Bit(colour, 5),
      isLetter |-> /\ code % 128 \in 1..26 /\ next("screen") = 0 /\ ~Bit(next("colour"), 3)
                   /\ ~v.extended /\ ~v.fullLow /\ i < v.step * v.rows
                   /\ Region(v.screen + i) = "chip" /\ Region(v.colour + i) = "colour"]

(* A letter in the screen RAM is shown in its place in the log of a failed  *)
(* test, in lower or upper case, in reverse as its code says, and on the    *)
(* background unless its attribute exchanges ink and paper: whatever        *)
(* screens earlier tests left in the buffers (do_screen_shot_ascii).        *)
LettersAreShown ==
  [][test'.shots # test.shots =>
      LET v == get_video_state(m.ram)
          background == mega65_rgb(m.ram, VicReg(m.ram, \h21))
      IN \A y \in 0..(v.rows - 1), x \in 0..(v.width - 1) :
           LET p     == Position(v, x, y)
               shown == do_screen_shot_ascii(test'.shots, x, y)
           IN p.isLetter => /\ ~shown.full
                            /\ shown.text.char = (p.code % 128) + (IF v.upper THEN 64 ELSE 96)
                            /\ shown.text.rev = (p.code > 127)
                            /\ (IF p.reverse THEN shown.ink ELSE shown.paper) = background]_test

(* A check of the memory fails if a byte of the chip RAM or of the          *)
(* hypervisor is not as it was when the routine was called, and was neither *)
(* expected nor ignored.  If it fails, it is for such a byte, for one that  *)
(* was mentioned and is different, or for one of the memories that are not  *)
(* remembered at a call.                                                    *)
RamCheckIsExact ==
  [][LET stray == {a \in DOMAIN m.ram : Stored(m.ram, a) # Stored(ghost.before, a)} \ ghost.stated
         remembered == {a \in DOMAIN m.ram : Region(a) \in {"chip", "hyppo"}}
     IN compare_ram_contents =>
        /\ stray \cap remembered # {} => m'.t.error
        /\ m'.t.error /\ ~m.t.error => \/ stray \cap remembered # {} \/ Unexpected \cap ghost.stated # {}
                                       \/ Unexpected \ remembered # {}]_vars

(* Every run that a directive starts comes to an end, in an endless loop    *)
(* too, as long as the C program's behaviour is defined.                    *)
EveryRunEnds == running # Idle ~> (running = Idle \/ m.undefined)
=============================================================================
