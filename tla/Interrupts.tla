----------------------------- MODULE Interrupts -----------------------------
(***************************************************************************)
(* How interrupts reach the kernel: what idt_init (idt.c) makes of the     *)
(* interrupt controllers and the gates, the two stubs, and the keyboard's  *)
(* controller between the keyboard and keyboard_handler, from the cli at   *)
(* the start of boot on.                                                   *)
(*                                                                         *)
(* The controllers are modelled from how the code uses them: a line that   *)
(* rises is latched in irr, until the processor takes it; ICW1 clears the  *)
(* latches; a byte raises its line when it is put into the output buffer,  *)
(* which it is only once the byte before has been read.                    *)
(***************************************************************************)
EXTENDS Integers, Sequences, FiniteSets

CONSTANT MaxKeys  \* bound: bytes the keyboard sends

ASSUME KeysAssumption == MaxKeys \in Nat

Timer    == 0
Keyboard == 1
Drive    == 14  \* at the second controller: every read_sectors raises it
Lines    == {Timer, Keyboard, Drive}

Interrupt == 142  \* 0x8E: flags of a gate that clears the interrupt flag
Trap      == 143  \* 0x8F: of one that does not

VARIABLES
  pc,             \* where main() is
  IF_flag,        \* the processor's interrupt flag
  frames,         \* the stubs on the stack, the running one first
  fault,          \* an interrupt found no gate: the machine resets
  idt,            \* the gates that are present: vector, stub, flags
  base,           \* vectors of the two controllers, <<8, 112>> before idt_init
  mask, irr, isr, \* their registers, together
  obf, data,      \* the keyboard controller: port 0x64's bit 0, port 0x60
  sent, loaded,   \* bytes the keyboard has sent, and put into data
  handled,        \* history: the bytes keyboard_handler has read
  drained         \* history: the bytes keyboard_init has read

cpuVars  == <<IF_flag, frames, fault>>
picVars  == <<idt, base, mask, irr, isr>>
keyVars  == <<obf, data, sent, loaded>>
pastVars == <<handled, drained>>
vars     == <<pc, cpuVars, picVars, keyVars, pastVars>>

Init ==
  /\ pc = "boot" /\ IF_flag = FALSE /\ frames = << >> /\ fault = FALSE
  /\ idt = {} /\ base = <<8, 112>>
  /\ mask = {} /\ irr = {} /\ isr = {}
  /\ obf = FALSE /\ data = 0 /\ sent = 0 /\ loaded = 0
  /\ handled = << >> /\ drained = {}

-----------------------------------------------------------------------------
(* The environment.                                                        *)

Raise(line) == irr' = irr \cup {line}

(* The timer is never so fast that its own handler is still running.       *)
TimerRises ==
  /\ \A f \in 1 .. Len(frames) : frames[f].stub # "irq0_stub"
  /\ Timer \notin irr /\ Raise(Timer)
  /\ UNCHANGED <<pc, cpuVars, idt, base, mask, isr, keyVars, pastVars>>

DriveRises ==
  /\ Drive \notin irr /\ Raise(Drive)
  /\ UNCHANGED <<pc, cpuVars, idt, base, mask, isr, keyVars, pastVars>>

Send ==
  /\ sent < MaxKeys /\ sent' = sent + 1
  /\ UNCHANGED <<pc, cpuVars, picVars, obf, data, loaded, pastVars>>

Load ==
  /\ ~obf /\ loaded < sent
  /\ obf' = TRUE /\ data' = loaded + 1 /\ loaded' = loaded + 1
  /\ Raise(Keyboard)
  /\ UNCHANGED <<pc, cpuVars, idt, base, mask, isr, sent, pastVars>>

-----------------------------------------------------------------------------
(* The processor takes an interrupt between two instructions, not always   *)
(* at the first one.  A gate with flags 0x8E clears the interrupt flag.    *)

Vector(line) == IF line < 8 THEN base[1] + line ELSE base[2] + line - 8

Pending == irr \ mask

Acceptable(line) ==
  /\ IF_flag /\ ~fault
  /\ line \in Pending
  /\ \A other \in Pending : line <= other
  /\ \A serviced \in isr : line < serviced

Gates(line) == {g \in idt : g.vector = Vector(line)}

(* A stub begins with what its handler does first.                         *)
Frame(g) == [stub |-> g.stub,
             at   |-> IF g.stub = "irq0_stub" THEN "timer_handler" ELSE "inb"]

Accept(line) ==
  /\ Acceptable(line)
  /\ irr' = irr \ {line} /\ isr' = isr \cup {line}
  /\ fault' = (Gates(line) = {})
  /\ frames' = IF Gates(line) = {} THEN frames
                ELSE <<Frame(CHOOSE g \in Gates(line) : TRUE)>> \o frames
  /\ IF_flag' = \E g \in Gates(line) : g.flags # Interrupt
  /\ UNCHANGED <<pc, idt, base, mask, keyVars, pastVars>>

-----------------------------------------------------------------------------
(* The stubs and the handlers.                                             *)

InStub(at) == ~fault /\ frames # << >> /\ Head(frames).at = at
GoOn(at)   == frames' = [frames EXCEPT ![1].at = at]

timer_handler ==
  /\ InStub("timer_handler") /\ GoOn("eoi")
  /\ UNCHANGED <<pc, IF_flag, fault, picVars, keyVars, pastVars>>

(* Mutant: the handler reads the port a second time.                       *)
keyboard_handlerTwice ==
  /\ \/ InStub("inb") /\ GoOn("again") /\ UNCHANGED handled
     \/ InStub("again") /\ GoOn("eoi") /\ handled' = Append(handled, data)
  /\ obf' = FALSE
  /\ UNCHANGED <<pc, IF_flag, fault, picVars, data, sent, loaded, drained>>

(* keyboard_handler reads the byte, and does with it what Terminal says.   *)
keyboard_handler ==
  /\ InStub("inb") /\ GoOn("eoi")
  /\ handled' = Append(handled, data) /\ obf' = FALSE
  /\ UNCHANGED <<pc, IF_flag, fault, picVars, data, sent, loaded, drained>>

(* out 0x20, 0x20: the line of the highest priority is no longer served.   *)
EndOfInterrupt ==
  /\ InStub("eoi") /\ GoOn("iretq")
  /\ isr' = {line \in isr : \E other \in isr : other < line}
  /\ UNCHANGED <<pc, IF_flag, fault, idt, base, mask, irr, keyVars, pastVars>>

(* The flag was set when the interrupt was taken.                          *)
iretq ==
  /\ InStub("iretq")
  /\ frames' = Tail(frames) /\ IF_flag' = TRUE
  /\ UNCHANGED <<pc, fault, picVars, keyVars, pastVars>>

-----------------------------------------------------------------------------
(* main().                                                                 *)

At(label) == ~fault /\ frames = << >> /\ pc = label

(* ICW1 to ICW4, to both controllers.                                      *)
Remap ==
  /\ At("boot") /\ pc' = "mask"
  /\ base' = <<32, 40>> /\ mask' = {} /\ irr' = {} /\ isr' = {}
  /\ UNCHANGED <<cpuVars, idt, keyVars, pastVars>>

(* Mutant: the second controller is left open.                             *)
MaskFirst ==
  /\ At("mask") /\ pc' = "gates"
  /\ mask' = 2 .. 7
  /\ UNCHANGED <<cpuVars, idt, base, irr, isr, keyVars, pastVars>>

(* Mutant: the timer stays masked.                                         *)
MaskTimer ==
  /\ At("mask") /\ pc' = "gates"
  /\ mask' = {0} \cup 2 .. 15
  /\ UNCHANGED <<cpuVars, idt, base, irr, isr, keyVars, pastVars>>

(* 0xFC and 0xFF.                                                          *)
Mask ==
  /\ At("mask") /\ pc' = "gates"
  /\ mask' = 2 .. 15
  /\ UNCHANGED <<cpuVars, idt, base, irr, isr, keyVars, pastVars>>

Gate(vector, stub, flags) == [vector |-> vector, stub |-> stub, flags |-> flags]

(* Mutant: trap gates.                                                     *)
SetGatesTrap ==
  /\ At("gates") /\ pc' = "sti"
  /\ idt' = {Gate(32, "irq0_stub", Trap), Gate(33, "irq1_stub", Trap)}
  /\ UNCHANGED <<cpuVars, base, mask, irr, isr, keyVars, pastVars>>

SetGates ==
  /\ At("gates") /\ pc' = "sti"
  /\ idt' = {Gate(32, "irq0_stub", Interrupt), Gate(33, "irq1_stub", Interrupt)}
  /\ UNCHANGED <<cpuVars, base, mask, irr, isr, keyVars, pastVars>>

sti ==
  /\ At("sti") /\ pc' = "animation" /\ IF_flag' = TRUE
  /\ UNCHANGED <<frames, fault, picVars, keyVars, pastVars>>

welcome_animation ==
  /\ At("animation") /\ pc' = "status"
  /\ UNCHANGED <<cpuVars, picVars, keyVars, pastVars>>

(* Mutant: the test is inverted.                                           *)
DrainTestInverted ==
  /\ At("status") /\ pc' = IF obf THEN "loop" ELSE "data"
  /\ UNCHANGED <<cpuVars, picVars, keyVars, pastVars>>

(* Mutant: keyboard_init does not read what is there.                      *)
DrainTestNever ==
  /\ At("status") /\ pc' = "loop"
  /\ UNCHANGED <<cpuVars, picVars, keyVars, pastVars>>

(* keyboard_init: while there is a byte, read it.  The handler may have    *)
(* read it between the two.                                                *)
DrainTest ==
  /\ At("status") /\ pc' = IF obf THEN "data" ELSE "loop"
  /\ UNCHANGED <<cpuVars, picVars, keyVars, pastVars>>

DrainRead ==
  /\ At("data") /\ pc' = "status"
  /\ drained' = drained \cup {data} /\ obf' = FALSE
  /\ UNCHANGED <<cpuVars, picVars, data, sent, loaded, handled>>

Main == \/ Remap \/ Mask \/ SetGates \/ sti \/ welcome_animation
        \/ DrainTest \/ DrainRead

Stub == timer_handler \/ keyboard_handler \/ EndOfInterrupt \/ iretq

Next == \/ TimerRises \/ DriveRises \/ Send \/ Load
        \/ \E line \in Lines : Accept(line)
        \/ Stub \/ Main

(* The processor runs: a stub to its end, main() whenever no stub runs     *)
(* again and again, and it takes an interrupt that it could take again and *)
(* again.  The keyboard's controller passes on what it has.                *)
Spec ==
  /\ Init /\ [][Next]_vars
  /\ WF_vars(Stub) /\ SF_vars(Main) /\ WF_vars(Load)
  /\ \A line \in Lines : SF_vars(Accept(line))

-----------------------------------------------------------------------------
IntTypeOK ==
  /\ pc \in {"boot", "mask", "gates", "sti", "animation", "status", "data", "loop"}
  /\ IF_flag \in BOOLEAN /\ fault \in BOOLEAN /\ obf \in BOOLEAN
  /\ frames \in Seq([stub : {"irq0_stub", "irq1_stub"},
                     at : {"timer_handler", "inb", "eoi", "iretq"}])
  /\ irr \subseteq Lines /\ isr \subseteq Lines /\ mask \subseteq 0 .. 15
  /\ data \in 0 .. loaded /\ loaded \in 0 .. sent /\ sent \in 0 .. MaxKeys
  /\ (obf => data = loaded) /\ drained \subseteq 1 .. loaded
  /\ handled \in Seq(1 .. loaded)

(* A handler is never interrupted, by its own line or by another: what     *)
(* main() and the handlers share has at most two users.  The line that is  *)
(* served is the one whose stub runs.                                      *)
LineOf(f) == IF f.stub = "irq0_stub" THEN Timer ELSE Keyboard

OneHandler ==
  /\ Len(frames) <= 1 /\ (frames # << >> => ~IF_flag)
  /\ isr = {LineOf(frames[f]) : f \in {g \in 1 .. Len(frames) :
                                        frames[g].at # "iretq"}}

(* No interrupt comes without a gate, though gates 0 to 31 and the second  *)
(* controller's are empty and the drive interrupts whenever it is read.    *)
NoFault == ~fault

(* Keys are handled in the order they were typed, and each once, except    *)
(* that one may be handled again for each that keyboard_init dropped while *)
(* its interrupt was already on the way.                                   *)
Repeats == {k \in 2 .. Len(handled) : handled[k] = handled[k - 1]}

KeysInOrder ==
  /\ \A k \in 2 .. Len(handled) : handled[k - 1] <= handled[k]
  /\ Cardinality(Repeats) <= Cardinality(drained)

(* Every byte of the keyboard is read by the handler or dropped by         *)
(* keyboard_init: none stays in the controller and blocks all later ones,  *)
(* not even one that came before the interrupt controllers were set up.    *)
KeysArrive ==
  \A k \in 1 .. MaxKeys :
    (sent >= k) ~> (k \in drained \/ \E h \in 1 .. Len(handled) : handled[h] = k)

(* A tick reaches timer_handler, whatever the keyboard does, once the      *)
(* controllers are set up.                                                 *)
TicksArrive == (Timer \in irr /\ pc # "boot") ~> InStub("timer_handler")
=============================================================================
