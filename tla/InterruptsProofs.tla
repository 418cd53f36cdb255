-------------------------- MODULE InterruptsProofs --------------------------
(***************************************************************************)
(* Proofs about how interrupts reach the kernel, for any number of keys.   *)
(***************************************************************************)
EXTENDS Interrupts, FiniteSetTheorems, SequenceTheorems, TLAPS

Early == pc \in {"boot", "mask", "gates", "sti"}

(* What idt_init has set up is there as soon as it is past it, and before  *)
(* sti nothing is taken.                                                   *)
SetUp ==
  /\ Early => ~IF_flag /\ frames = << >> /\ isr = {} /\ handled = << >>
  /\ pc # "boot" => base = <<32, 40>>
  /\ pc \notin {"boot", "mask"} => mask = 2 .. 15
  /\ pc \notin {"boot", "mask", "gates"} =>
       idt = {Gate(32, "irq0_stub", Interrupt), Gate(33, "irq1_stub", Interrupt)}

(* After sti the flag is clear exactly while the one stub runs.            *)
OneStub ==
  /\ Len(frames) <= 1
  /\ ~Early => (IF_flag <=> frames = << >>)
  /\ frames # << >> =>
       /\ frames[1].stub = "irq0_stub" => frames[1].at # "inb"
       /\ frames[1].stub = "irq1_stub" => frames[1].at # "timer_handler"
  /\ isr = IF frames = << >> \/ frames[1].at = "iretq" THEN {}
            ELSE {LineOf(frames[1])}

(* The byte in the buffer is the last one loaded; while it is unread,      *)
(* nobody has it.                                                          *)
Fresh ==
  /\ data = loaded
  /\ obf => loaded > 0 /\ loaded \notin drained
                       /\ \A k \in 1 .. Len(handled) : handled[k] < loaded
  /\ pc = "data" => loaded > 0
  /\ Keyboard \in irr => loaded > 0
  /\ frames # << >> /\ frames[1].at = "inb" => loaded > 0

(* The interrupts of the keyboard on their way to the port for which there *)
(* is no byte of their own: each is a byte that keyboard_init has read.    *)
AtPort  == frames # << >> /\ frames[1].at = "inb"
Waiting == Keyboard \in irr

Surplus == IF obf THEN IF AtPort /\ Waiting THEN 1 ELSE 0
           ELSE (IF AtPort THEN 1 ELSE 0) + (IF Waiting THEN 1 ELSE 0)

Paid ==
  /\ \A k \in 2 .. Len(handled) : handled[k - 1] <= handled[k]
  /\ Cardinality(Repeats) + Surplus <= Cardinality(drained)

IInv == IntTypeOK /\ SetUp /\ OneStub /\ NoFault /\ Fresh /\ Paid

-----------------------------------------------------------------------------
(* What the steps do to the stack, with at most one stub on it.            *)

FrameSet == [stub : {"irq0_stub", "irq1_stub"},
             at : {"timer_handler", "inb", "eoi", "iretq"}]

(* At most one stub is on the processor's stack of frames.                 *)
LEMMA OneFrame ==
  ASSUME IInv
  PROVE  \/ frames = << >>
         \/ frames # << >> /\ frames[1] \in FrameSet /\ frames = <<frames[1]>>
<1>1. frames \in Seq(FrameSet) /\ Len(frames) <= 1
  BY DEF IInv, IntTypeOK, OneStub, FrameSet
<1>2. Len(frames) \in {0, 1}
  <2>1. Len(frames) \in Nat  BY <1>1
  <2> QED  BY <1>1, <2>1
<1>3. CASE Len(frames) = 0
  BY <1>1, <1>3
<1>4. CASE Len(frames) = 1
  <2>1. frames[1] \in FrameSet  BY <1>1, <1>4
  <2>2. <<frames[1]>> \in Seq(FrameSet) /\ Len(<<frames[1]>>) = 1
        /\ <<frames[1]>>[1] = frames[1]
    BY <2>1
  <2>3. frames = <<frames[1]>>  BY <1>1, <1>4, <2>2, SeqEqual
  <2>4. frames # << >>  BY <1>4
  <2> QED  BY <2>1, <2>3, <2>4
<1> QED  BY <1>2, <1>3, <1>4

(* An interrupt that is taken finds no other stub, is the timer's or the   *)
(* keyboard's, and finds its gate, which clears the flag.                  *)
LEMMA Taken ==
  ASSUME IInv, NEW line \in Lines, Accept(line)
  PROVE  /\ ~Early /\ frames = << >> /\ isr = {} /\ fault' = FALSE /\ IF_flag' = FALSE
         /\ isr' = {line} /\ irr' = irr \ {line} /\ line \in irr
         /\ \/ /\ line = Timer
               /\ frames' = <<[stub |-> "irq0_stub", at |-> "timer_handler"]>>
            \/ /\ line = Keyboard
               /\ frames' = <<[stub |-> "irq1_stub", at |-> "inb"]>>
<1>1. ~Early /\ frames = << >> /\ isr = {}
  BY DEF Accept, Acceptable, IInv, SetUp, OneStub
<1>2. base = <<32, 40>> /\ mask = 2 .. 15
      /\ idt = {Gate(32, "irq0_stub", Interrupt), Gate(33, "irq1_stub", Interrupt)}
  BY <1>1 DEF IInv, SetUp, Early, IntTypeOK
<1>3. line \in irr /\ line \notin 2 .. 15
  BY <1>2 DEF Accept, Acceptable, Pending
<1>4. line = Timer \/ line = Keyboard
  BY <1>3 DEF Lines, Timer, Keyboard, Drive
<1>5. Gates(line) = {IF line = Timer THEN Gate(32, "irq0_stub", Interrupt)
                     ELSE Gate(33, "irq1_stub", Interrupt)}
  BY <1>2, <1>4 DEF Gates, Gate, Vector, Timer, Keyboard
<1>6. /\ Gates(line) # {} /\ \A g \in Gates(line) : g.flags = Interrupt
      /\ frames' = <<Frame(CHOOSE g \in Gates(line) : TRUE)>> \o frames
      /\ fault' = FALSE /\ IF_flag' = FALSE
  <2>1. Gates(line) # {} /\ \A g \in Gates(line) : g.flags = Interrupt
    BY <1>5 DEF Gate
  <2> QED  BY <2>1 DEF Accept
<1>7. \E f : /\ f = Frame(IF line = Timer THEN Gate(32, "irq0_stub", Interrupt)
                           ELSE Gate(33, "irq1_stub", Interrupt))
             /\ frames' = <<f>>
  <2> DEFINE f == Frame(CHOOSE g \in Gates(line) : TRUE)
  <2>1. <<f>> \in Seq({f})  OBVIOUS
  <2>2. <<f>> \o << >> = <<f>>  BY <2>1, ConcatEmptySeq
  <2>3. (CHOOSE g \in Gates(line) : TRUE) =
          IF line = Timer THEN Gate(32, "irq0_stub", Interrupt)
          ELSE Gate(33, "irq1_stub", Interrupt)
    BY <1>5
  <2> QED  BY <1>1, <1>6, <2>2, <2>3
<1>8. CASE line = Timer
  BY <1>1, <1>3, <1>6, <1>7, <1>8 DEF Accept, Frame, Gate
<1>9. CASE line = Keyboard
  BY <1>1, <1>3, <1>6, <1>7, <1>9 DEF Accept, Frame, Gate, Timer, Keyboard
<1> QED  BY <1>4, <1>8, <1>9

(* A stub that goes on stays the one on the stack.                         *)
LEMMA Moved ==
  ASSUME IInv, NEW from, NEW to, InStub(from), GoOn(to)
  PROVE  /\ frames # << >> /\ frames[1] \in FrameSet /\ frames[1].at = from
         /\ frames' = <<[stub |-> frames[1].stub, at |-> to]>>
<1>1. frames # << >> /\ frames[1] \in FrameSet /\ frames = <<frames[1]>>
  BY OneFrame DEF InStub
<1>2. Head(frames) = frames[1]  BY <1>1
<1>3. frames' = <<[frames[1] EXCEPT !.at = to]>>  BY <1>1 DEF GoOn
<1>4. [frames[1] EXCEPT !.at = to] = [stub |-> frames[1].stub, at |-> to]
  BY <1>1 DEF FrameSet
<1> QED  BY <1>1, <1>2, <1>3, <1>4 DEF InStub

LEMMA Returned ==
  ASSUME IInv, iretq
  PROVE  frames # << >> /\ frames[1] \in FrameSet /\ frames[1].at = "iretq"
         /\ frames' = << >> /\ IF_flag' = TRUE
<1>1. frames # << >> /\ frames[1] \in FrameSet /\ frames = <<frames[1]>>
  BY OneFrame DEF InStub, iretq
<1>2. Head(frames) = frames[1]  BY <1>1
<1>3. Tail(frames) = << >>
  <2>1. <<frames[1]>> \in Seq(FrameSet) /\ Len(<<frames[1]>>) = 1  BY <1>1
  <2>2. Tail(frames) = SubSeq(frames, 2, 1)
    BY <1>1, <2>1, TailIsSubSeq
  <2> QED  BY <2>2, SubSeqEmpty
<1> QED  BY <1>1, <1>2, <1>3 DEF InStub, iretq

-----------------------------------------------------------------------------
(* The processor and the interrupt controllers.                            *)

LEMMA CpuInit == Init => SetUp /\ OneStub /\ NoFault
BY DEF Init, SetUp, OneStub, NoFault, Early

(* The set-up and the stub that runs are kept by every step.               *)
LEMMA CpuStep ==
  ASSUME IInv, [Next]_vars
  PROVE  SetUp' /\ OneStub' /\ NoFault'
<1> USE DEF SetUp, OneStub, NoFault, Early, Lines
<1>0. SetUp /\ OneStub /\ NoFault /\ IntTypeOK  BY DEF IInv
<1> DEFINE Rest == UNCHANGED <<pc, IF_flag, frames, fault, idt, base, mask, isr, handled>>
<1>1. CASE Rest  BY <1>0, <1>1
<1>2. CASE \E line \in Lines : Accept(line)
  <2> PICK line \in Lines : Accept(line)  BY <1>2
  <2>1. UNCHANGED <<pc, idt, base, mask, handled>>
    BY DEF Accept, pastVars
  <2> HIDE DEF Lines
  <2>2. /\ ~Early /\ fault' = FALSE /\ IF_flag' = FALSE /\ isr' = {line}
        /\ \/ /\ line = Timer
              /\ frames' = <<[stub |-> "irq0_stub", at |-> "timer_handler"]>>
           \/ /\ line = Keyboard
              /\ frames' = <<[stub |-> "irq1_stub", at |-> "inb"]>>
    BY Taken
  <2>3. /\ Len(frames') = 1 /\ frames' # << >>
        /\ frames'[1].stub = "irq0_stub" => frames'[1].at = "timer_handler"
        /\ frames'[1].stub = "irq1_stub" => frames'[1].at = "inb"
        /\ frames'[1].at # "iretq" /\ LineOf(frames'[1]) = line
    BY <2>2 DEF LineOf
  <2>4. SetUp'  BY <1>0, <2>1, <2>2
  <2>5. OneStub'  BY <2>1, <2>2, <2>3
  <2> QED  BY <2>2, <2>4, <2>5
<1> DEFINE Stays == UNCHANGED <<pc, IF_flag, fault, idt, base, mask>>
<1>3. CASE timer_handler \/ keyboard_handler
  <2>1. Stays /\ isr' = isr
    BY <1>3 DEF timer_handler, keyboard_handler, picVars
  <2>2. PICK from \in {"timer_handler", "inb"} : InStub(from) /\ GoOn("eoi")
    BY <1>3 DEF timer_handler, keyboard_handler
  <2>3. /\ frames # << >> /\ frames[1] \in FrameSet /\ frames[1].at = from
        /\ frames' = <<[stub |-> frames[1].stub, at |-> "eoi"]>>
    BY <2>2, Moved
  <2>4. ~Early /\ ~IF_flag /\ isr = {LineOf(frames[1])}
    BY <1>0, <2>3
  <2>5. /\ Len(frames') = 1 /\ frames' # << >>
        /\ frames'[1].stub = frames[1].stub /\ frames'[1].at = "eoi"
    BY <2>3
  <2>6. LineOf(frames'[1]) = LineOf(frames[1])  BY <2>5 DEF LineOf
  <2>7. SetUp'  BY <1>0, <2>1, <2>4
  <2>8. isr' = {LineOf(frames'[1])}  BY <2>1, <2>4, <2>6
  <2>9. OneStub'  BY <2>1, <2>4, <2>5, <2>8
  <2> QED  BY <1>0, <2>1, <2>7, <2>9
<1>4. CASE EndOfInterrupt
  <2>1. Stays /\ handled' = handled
    BY <1>4 DEF EndOfInterrupt, pastVars
  <2>2. /\ frames # << >> /\ frames[1] \in FrameSet /\ frames[1].at = "eoi"
        /\ frames' = <<[stub |-> frames[1].stub, at |-> "iretq"]>>
    BY <1>4, Moved DEF EndOfInterrupt
  <2>3. isr = {LineOf(frames[1])}  BY <1>0, <2>2
  <2>4. isr' = {}
    BY <1>4, <2>3 DEF EndOfInterrupt, LineOf, Timer, Keyboard
  <2>5. ~Early /\ ~IF_flag  BY <1>0, <2>2
  <2>6. /\ Len(frames') = 1 /\ frames' # << >>
        /\ frames'[1].at = "iretq"
    BY <2>2
  <2>7. SetUp'  BY <1>0, <2>1, <2>5
  <2>8. OneStub'  BY <1>0, <2>1, <2>4, <2>5, <2>6
  <2> QED  BY <1>0, <2>1, <2>7, <2>8
<1>5. CASE iretq
  <2>1. UNCHANGED <<pc, fault, idt, base, mask, isr, handled>>
    BY <1>5 DEF iretq, picVars, pastVars
  <2> QED  BY <1>0, <1>5, <2>1, Returned
<1>6. CASE Remap  BY <1>0, <1>6 DEF Remap, At, cpuVars, keyVars, pastVars
<1>7. CASE Mask  BY <1>0, <1>7 DEF Mask, At, cpuVars, keyVars, pastVars
<1>8. CASE SetGates  BY <1>0, <1>8 DEF SetGates, At, cpuVars, keyVars, pastVars
<1>9. CASE sti  BY <1>0, <1>9 DEF sti, At, picVars, keyVars, pastVars
<1>10. CASE welcome_animation \/ DrainTest \/ DrainRead
  <2>1. /\ pc \in {"animation", "status", "data"}
        /\ pc' \in {"status", "data", "loop"}
        /\ UNCHANGED <<IF_flag, frames, fault, idt, base, mask, isr, handled>>
    BY <1>10 DEF welcome_animation, DrainTest, DrainRead, At, cpuVars, picVars,
                 keyVars, pastVars
  <2> QED  BY <1>0, <2>1
<1>11. TimerRises \/ DriveRises \/ Send \/ Load \/ UNCHANGED vars => Rest
  BY DEF TimerRises, DriveRises, Send, Load, vars, cpuVars, picVars, keyVars, pastVars
<1> QED
  BY <1>1, <1>2, <1>3, <1>4, <1>5, <1>6, <1>7, <1>8, <1>9, <1>10, <1>11
     DEF Next, Stub, Main

-----------------------------------------------------------------------------
(* Type correctness.                                                       *)

LEMMA TypeInit == Init => IntTypeOK
<1> SUFFICES ASSUME Init PROVE IntTypeOK  OBVIOUS
<1>1. \A S : << >> \in Seq(S)  BY EmptySeq
<1>2. frames \in Seq(FrameSet) /\ handled \in Seq(1 .. loaded)
  BY <1>1 DEF Init
<1>3. data \in 0 .. loaded /\ loaded \in 0 .. sent /\ sent \in 0 .. MaxKeys
  BY KeysAssumption DEF Init
<1> QED  BY <1>2, <1>3 DEF Init, IntTypeOK, FrameSet

(* A frame on the stack has its type after the step too.                   *)
LEMMA FramesType ==
  ASSUME IInv, [Next]_vars
  PROVE  frames' \in Seq(FrameSet)
<1>0. frames \in Seq(FrameSet)  BY DEF IInv, IntTypeOK, FrameSet
<1>1. CASE UNCHANGED frames  BY <1>0, <1>1
<1>2. CASE \E line \in Lines : Accept(line)
  <2> PICK line \in Lines : Accept(line)  BY <1>2
  <2>1. PICK f \in FrameSet : frames' = <<f>>  BY Taken DEF FrameSet
  <2> QED  BY <2>1
<1>3. CASE timer_handler \/ keyboard_handler \/ EndOfInterrupt
  <2>1. PICK from \in {"timer_handler", "inb", "eoi"}, to \in {"eoi", "iretq"} :
          InStub(from) /\ GoOn(to)
    BY <1>3 DEF timer_handler, keyboard_handler, EndOfInterrupt
  <2>2. [stub |-> frames[1].stub, at |-> to] \in FrameSet
        /\ frames' = <<[stub |-> frames[1].stub, at |-> to]>>
    BY <2>1, Moved DEF FrameSet
  <2> QED  BY <2>2
<1>4. CASE iretq  BY <1>4, Returned, EmptySeq
<1>5. \/ TimerRises \/ DriveRises \/ Send \/ Load \/ Main \/ UNCHANGED vars
      => UNCHANGED frames
  BY DEF TimerRises, DriveRises, Send, Load, Main, Remap, Mask, SetGates, sti,
         welcome_animation, DrainTest, DrainRead, vars, cpuVars
<1> QED  BY <1>1, <1>2, <1>3, <1>4, <1>5 DEF Next, Stub

(* Every step keeps the types.                                             *)
LEMMA TypeStep ==
  ASSUME IInv, [Next]_vars
  PROVE  IntTypeOK'
<1>0. IntTypeOK /\ Fresh /\ SetUp  BY DEF IInv
<1>1. frames' \in Seq(FrameSet)  BY FramesType
<1>2. pc' \in {"boot", "mask", "gates", "sti", "animation", "status", "data", "loop"}
  BY <1>0
     DEF IntTypeOK, Next, Stub, Main, vars, keyVars, pastVars, TimerRises,
         DriveRises, Send, Load, Accept, timer_handler, keyboard_handler,
         EndOfInterrupt, iretq, Remap, Mask, SetGates, sti, welcome_animation,
         DrainTest, DrainRead
<1>3. IF_flag' \in BOOLEAN /\ fault' \in BOOLEAN /\ obf' \in BOOLEAN
  <2>1. IF_flag \in BOOLEAN /\ fault \in BOOLEAN /\ obf \in BOOLEAN
    BY <1>0 DEF IntTypeOK
  <2>2. \A line \in Lines : Accept(line) => IF_flag' = FALSE /\ fault' = FALSE
    BY Taken
  <2>3. Accept(Timer) \/ Accept(Keyboard) \/ Accept(Drive) => obf' = obf
    BY DEF Accept, keyVars
  <2> QED  BY <2>1, <2>2, <2>3
     DEF Next, Stub, Main, vars, cpuVars, keyVars, pastVars, TimerRises, DriveRises, Send, Load,
         timer_handler, keyboard_handler, EndOfInterrupt, iretq, Remap, Mask,
         SetGates, sti, welcome_animation, DrainTest, DrainRead, Lines
<1>4. irr' \subseteq Lines /\ isr' \subseteq Lines /\ mask' \subseteq 0 .. 15
  <2>1. irr \subseteq Lines /\ isr \subseteq Lines /\ mask \subseteq 0 .. 15
    BY <1>0 DEF IntTypeOK
  <2>2. \/ irr' = irr \/ irr' = {} \/ \E line \in Lines : irr' = irr \cup {line}
        \/ \E line \in Lines : irr' = irr \ {line}
    BY DEF Next, Stub, Main, vars, picVars, TimerRises, DriveRises, Send, Load,
           Raise, Accept, timer_handler, keyboard_handler, EndOfInterrupt,
           iretq, Remap, Mask, SetGates, sti, welcome_animation, DrainTest,
           DrainRead, Lines
  <2>3. \/ isr' \subseteq isr \/ \E line \in Lines : isr' = isr \cup {line}
    BY DEF Next, Stub, Main, vars, picVars, TimerRises, DriveRises, Send, Load,
           Accept, timer_handler, keyboard_handler, EndOfInterrupt, iretq,
           Remap, Mask, SetGates, sti, welcome_animation, DrainTest, DrainRead
  <2>4. mask' = mask \/ mask' = {} \/ mask' = 2 .. 15
    BY DEF Next, Stub, Main, vars, picVars, TimerRises, DriveRises, Send, Load,
           Accept, timer_handler, keyboard_handler, EndOfInterrupt, iretq,
           Remap, Mask, SetGates, sti, welcome_animation, DrainTest, DrainRead
  <2>5. irr' \subseteq Lines  BY <2>1, <2>2
  <2>6. isr' \subseteq Lines  BY <2>1, <2>3
  <2>7. 2 .. 15 \subseteq 0 .. 15  OBVIOUS
  <2>8. mask' \subseteq 0 .. 15  BY <2>1, <2>4, <2>7
  <2> QED  BY <2>5, <2>6, <2>8
<1>5. /\ data' \in 0 .. loaded' /\ loaded' \in 0 .. sent' /\ sent' \in 0 .. MaxKeys
      /\ (obf' => data' = loaded') /\ loaded <= loaded'
  <2>1. /\ data = loaded /\ loaded \in 0 .. sent /\ sent \in 0 .. MaxKeys
    BY <1>0 DEF IntTypeOK, Fresh
  <2>2. CASE Send  BY <2>1, <2>2, KeysAssumption DEF Send
  <2>3. CASE Load  BY <2>1, <2>3, KeysAssumption DEF Load
  <2>4. CASE UNCHANGED <<data, loaded, sent>>  BY <2>1, <2>4, KeysAssumption
  <2> QED  BY <2>2, <2>3, <2>4
     DEF Next, Stub, Main, vars, keyVars, TimerRises, DriveRises, Accept,
         timer_handler, keyboard_handler, EndOfInterrupt, iretq, Remap, Mask,
         SetGates, sti, welcome_animation, DrainTest, DrainRead
<1>6. drained' \subseteq 1 .. loaded' /\ handled' \in Seq(1 .. loaded')
  <2>1. drained \subseteq 1 .. loaded' /\ handled \in Seq(1 .. loaded')
    <3>1. 1 .. loaded \subseteq 1 .. loaded'  BY <1>0, <1>5 DEF IntTypeOK
    <3> QED  BY <1>0, <3>1, SeqMonotonic DEF IntTypeOK
  <2>2. CASE keyboard_handler
    <3>1. loaded > 0 /\ data = loaded /\ loaded' = loaded
          /\ drained' = drained /\ handled' = Append(handled, data)
      BY <1>0, <2>2, OneFrame DEF keyboard_handler, InStub, Fresh
    <3> QED  BY <1>0, <2>1, <3>1 DEF IntTypeOK
  <2>3. CASE DrainRead
    <3>1. data \in 1 .. loaded' /\ drained' = drained \cup {data} /\ handled' = handled
      BY <1>0, <2>3 DEF DrainRead, At, Fresh, IntTypeOK
    <3> QED  BY <2>1, <3>1
  <2>4. CASE UNCHANGED <<handled, drained>>  BY <2>1, <2>4
  <2> QED  BY <2>2, <2>3, <2>4
     DEF Next, Stub, Main, vars, pastVars, TimerRises, DriveRises, Send, Load,
         Accept, timer_handler, EndOfInterrupt, iretq, Remap, Mask, SetGates,
         sti, welcome_animation, DrainTest
<1> QED  BY <1>1, <1>2, <1>3, <1>4, <1>5, <1>6 DEF IntTypeOK, FrameSet

-----------------------------------------------------------------------------
(* The keys.                                                               *)

LEMMA FreshInit == Init => Fresh
BY DEF Init, Fresh

(* The byte that waits is the last one the keyboard sent.                  *)
LEMMA FreshStep ==
  ASSUME IInv, [Next]_vars
  PROVE  Fresh'
<1>0. /\ Fresh /\ IntTypeOK /\ SetUp
      /\ loaded \in Nat /\ drained \subseteq 1 .. loaded
      /\ handled \in Seq(1 .. loaded)
  BY KeysAssumption DEF IInv, IntTypeOK
<1> USE DEF Fresh
<1>1. CASE Load
  <2>1. /\ data' = loaded + 1 /\ loaded' = loaded + 1
        /\ UNCHANGED <<pc, frames, handled, drained>>
    BY <1>1 DEF Load, cpuVars, pastVars
  <2>2. loaded' \notin drained'  BY <1>0, <2>1
  <2>3. \A k \in 1 .. Len(handled) : handled[k] \in 1 .. loaded
    BY <1>0, ElementOfSeq
  <2>4. \A k \in 1 .. Len(handled') : handled'[k] < loaded'
    BY <1>0, <2>1, <2>3
  <2> QED  BY <1>0, <2>1, <2>2, <2>4
<1>2. CASE \E line \in Lines : Accept(line)
  <2> PICK line \in Lines : Accept(line)  BY <1>2
  <2>1. UNCHANGED <<pc, data, loaded, obf, handled, drained>>
    BY DEF Accept, keyVars, pastVars
  <2>2. irr' \subseteq irr  BY Taken
  <2>3. frames' # << >> /\ frames'[1].at = "inb" => Keyboard \in irr
    <3>1. \/ frames' = <<[stub |-> "irq0_stub", at |-> "timer_handler"]>>
          \/ line = Keyboard /\ line \in irr
      BY Taken
    <3> QED  BY <3>1
  <2> QED  BY <1>0, <2>1, <2>2, <2>3
<1>3. CASE keyboard_handler
  <2>1. obf' = FALSE /\ UNCHANGED <<pc, irr, data, loaded, drained>>
    BY <1>3 DEF keyboard_handler, picVars
  <2>2. frames'[1].at = "eoi"  BY <1>3, Moved DEF keyboard_handler
  <2> QED  BY <1>0, <2>1, <2>2
<1>4. CASE timer_handler \/ EndOfInterrupt \/ iretq
  <2>1. UNCHANGED <<pc, irr, obf, data, loaded, drained, handled>>
    BY <1>4 DEF timer_handler, EndOfInterrupt, iretq, picVars, keyVars, pastVars
  <2>2. frames' # << >> => frames'[1].at # "inb"
    <3>1. CASE timer_handler  BY <3>1, Moved DEF timer_handler
    <3>2. CASE EndOfInterrupt  BY <3>2, Moved DEF EndOfInterrupt
    <3>3. CASE iretq  BY <3>3, Returned
    <3> QED  BY <1>4, <3>1, <3>2, <3>3
  <2> QED  BY <1>0, <2>1, <2>2
<1>5. CASE DrainTest
  BY <1>0, <1>5 DEF DrainTest, At, cpuVars, picVars, keyVars, pastVars
<1>6. CASE DrainRead
  BY <1>0, <1>6 DEF DrainRead, At, cpuVars, picVars
<1>7. CASE \/ TimerRises \/ DriveRises \/ Send \/ Remap \/ Mask \/ SetGates \/ sti
           \/ welcome_animation \/ UNCHANGED vars
  <2>1. UNCHANGED <<frames, obf, data, loaded, handled, drained>>
    BY <1>7 DEF TimerRises, DriveRises, Send, Remap, Mask, SetGates, sti,
                welcome_animation, vars, cpuVars, keyVars, pastVars
  <2>2. Keyboard \in irr' => Keyboard \in irr
    BY <1>7 DEF TimerRises, DriveRises, Send, Remap, Mask, SetGates, sti,
                welcome_animation, vars, picVars, Raise, Timer, Keyboard, Drive
  <2>3. pc' = "data" => pc = "data"
    BY <1>7 DEF TimerRises, DriveRises, Send, Remap, Mask, SetGates, sti,
                welcome_animation, vars
  <2> QED  BY <1>0, <2>1, <2>2, <2>3
<1> QED
  BY <1>1, <1>2, <1>3, <1>4, <1>5, <1>6, <1>7 DEF Next, Stub, Main

LEMMA RepeatsFinite ==
  ASSUME NEW s \in Seq(Nat)
  PROVE  IsFiniteSet({k \in 2 .. Len(s) : s[k] = s[k - 1]})
<1>1. Len(s) \in Nat  OBVIOUS
<1>2. IsFiniteSet(2 .. Len(s))  BY <1>1, FS_Interval
<1> QED  BY <1>2, FS_Subset

LEMMA OneElementMore ==
  ASSUME NEW S, NEW x, IsFiniteSet(S)
  PROVE  /\ Cardinality(S) \in Nat /\ Cardinality(S \cup {x}) \in Nat
         /\ Cardinality(S \cup {x}) <= Cardinality(S) + 1
         /\ Cardinality(S \cup {x}) >= Cardinality(S)
         /\ x \notin S => Cardinality(S \cup {x}) = Cardinality(S) + 1
<1>1. Cardinality(S) \in Nat  BY FS_CardinalityType
<1>2. Cardinality(S \cup {x}) =
        IF x \in S THEN Cardinality(S) ELSE Cardinality(S) + 1
  BY FS_AddElement
<1> QED  BY <1>1, <1>2

(* A byte more is a repeat more only if it is the byte handled last.       *)
Again(s) == {k \in 2 .. Len(s) : s[k] = s[k - 1]}

LEMMA OneMoreHandled ==
  ASSUME NEW s \in Seq(Nat), NEW d \in Nat
  PROVE  Again(Append(s, d)) =
           IF s # << >> /\ s[Len(s)] = d THEN Again(s) \cup {Len(s) + 1}
           ELSE Again(s)
<1> DEFINE n == Len(s)
           u == Append(s, d)
<1>1. /\ n \in Nat /\ Len(u) = n + 1 /\ u[n + 1] = d
      /\ \A k \in 1 .. n : u[k] = s[k]
      /\ s # << >> <=> n >= 1
  BY EmptySeq
<1> HIDE DEF n, u
<1>2. \A k : k \in Again(u) <=> \/ k \in Again(s)
                                \/ k = n + 1 /\ n >= 1 /\ s[n] = d
  <2> TAKE k
  <2>1. CASE k \in 2 .. n
    <3>1. k - 1 \in 1 .. n /\ k \in 1 .. n /\ k \in 2 .. n + 1 /\ k # n + 1
      BY <1>1, <2>1
    <3> QED  BY <1>1, <2>1, <3>1 DEF n, Again
  <2>2. CASE k = n + 1 /\ n >= 1
    <3>1. k - 1 = n /\ n \in 1 .. n /\ k \in 2 .. n + 1 /\ k \notin 2 .. n
      BY <1>1, <2>2
    <3> QED  BY <1>1, <2>2, <3>1 DEF n, Again
  <2>3. CASE k \notin 2 .. n /\ ~(k = n + 1 /\ n >= 1)
    <3>1. k \notin 2 .. n + 1  BY <1>1, <2>3
    <3> QED  BY <1>1, <2>3, <3>1 DEF n, Again
  <2> QED  BY <2>1, <2>2, <2>3
<1> QED  BY <1>1, <1>2 DEF n, u

LEMMA PaidInit == Init => Paid
<1> SUFFICES ASSUME Init PROVE Paid  OBVIOUS
<1>1. handled = << >> /\ Len(handled) = 0  BY DEF Init
<1>2. Repeats = {}  BY <1>1 DEF Repeats
<1>3. Surplus = 0  BY DEF Init, Surplus, AtPort, Waiting
<1>4. Cardinality(Repeats) = 0 /\ Cardinality(drained) = 0
  BY <1>2, FS_EmptySet DEF Init
<1> QED  BY <1>1, <1>3, <1>4 DEF Paid

(* A key is read again at most as often as one was dropped.                *)
LEMMA PaidStep ==
  ASSUME IInv, [Next]_vars
  PROVE  Paid'
<1>0. /\ Paid /\ Fresh /\ OneStub /\ SetUp
      /\ loaded \in Nat /\ drained \subseteq 1 .. loaded /\ obf \in BOOLEAN
      /\ handled \in Seq(1 .. loaded) /\ data = loaded
  BY KeysAssumption DEF IInv, IntTypeOK, Fresh
<1>1. handled \in Seq(Nat)
  <2>1. 1 .. loaded \subseteq Nat  BY <1>0
  <2> QED  BY <1>0, <2>1, SeqMonotonic
<1>2. IsFiniteSet(Repeats) /\ Cardinality(Repeats) \in Nat
  BY <1>1, RepeatsFinite, FS_CardinalityType DEF Repeats
<1>3. IsFiniteSet(drained) /\ Cardinality(drained) \in Nat
  <2>1. IsFiniteSet(1 .. loaded)  BY <1>0, FS_Interval
  <2> QED  BY <1>0, <2>1, FS_Subset, FS_CardinalityType
<1>4. Surplus \in Nat /\ Surplus' \in Nat  BY DEF Surplus
<1> DEFINE Same == UNCHANGED <<handled, drained>>
<1>5. ASSUME Same, Surplus' <= Surplus  PROVE Paid'
  <2>1. Repeats' = Repeats /\ drained' = drained /\ handled' = handled
    BY <1>5 DEF Repeats
  <2> QED  BY <1>0, <1>2, <1>3, <1>4, <1>5, <2>1 DEF Paid
<1>6. CASE Load
  <2>1. Same /\ ~obf /\ obf' /\ frames' = frames
    BY <1>6 DEF Load, pastVars, cpuVars
  <2>2. Surplus' <= Surplus
    BY <2>1 DEF Surplus, AtPort, Waiting
  <2> QED  BY <1>5, <2>1, <2>2
<1>7. CASE \E line \in Lines : Accept(line)
  <2> PICK line \in Lines : Accept(line)  BY <1>7
  <2>1. Same /\ obf' = obf  BY DEF Accept, pastVars, keyVars
  <2>2. ~AtPort /\ irr' = irr \ {line} /\ line \in irr  BY Taken DEF AtPort
  <2>3. AtPort' => line = Keyboard
    <3>1. \/ frames' = <<[stub |-> "irq0_stub", at |-> "timer_handler"]>>
          \/ line = Keyboard
      BY Taken
    <3> QED  BY <3>1 DEF AtPort
  <2>4. Surplus' <= Surplus  BY <2>1, <2>2, <2>3 DEF Surplus, Waiting
  <2> QED  BY <1>5, <2>1, <2>4
<1>8. CASE keyboard_handler
  <2>1. AtPort /\ ~AtPort'
    BY <1>8, Moved DEF keyboard_handler, AtPort
  <2>2. /\ obf' = FALSE /\ UNCHANGED <<irr, data, loaded, drained>>
        /\ handled' = Append(handled, data)
    BY <1>8 DEF keyboard_handler, picVars
  <2>3. Repeats' = IF handled # << >> /\ handled[Len(handled)] = data
                   THEN Repeats \cup {Len(handled) + 1} ELSE Repeats
    <3>1. Repeats = Again(handled) /\ Repeats' = Again(handled')
      BY DEF Repeats, Again
    <3>2. data \in Nat  BY <1>0
    <3>3. Again(Append(handled, data)) =
            IF handled # << >> /\ handled[Len(handled)] = data
            THEN Again(handled) \cup {Len(handled) + 1} ELSE Again(handled)
      BY <1>1, <3>2, OneMoreHandled
    <3> QED  BY <2>2, <3>1, <3>3, Zenon
  <2>4. Cardinality(Repeats') + Surplus' <= Cardinality(Repeats) + Surplus
    <3>1. CASE handled # << >> /\ handled[Len(handled)] = data
      <4>1. Cardinality(Repeats') <= Cardinality(Repeats) + 1
            /\ Cardinality(Repeats') \in Nat
        <5>1. Repeats' = Repeats \cup {Len(handled) + 1}  BY <2>3, <3>1
        <5> QED  BY <1>2, <5>1, OneElementMore
      <4>2. ~obf
        <5>1. Len(handled) \in 1 .. Len(handled)  BY <1>1, <3>1, EmptySeq
        <5> QED  BY <1>0, <3>1, <5>1 DEF Fresh
      <4>3. Surplus' + 1 <= Surplus
        BY <2>1, <2>2, <4>2 DEF Surplus, Waiting
      <4>4. \A a, b, c, d \in Nat : a <= b + 1 /\ c + 1 <= d => a + c <= b + d
        OBVIOUS
      <4> QED  BY <1>2, <1>4, <4>1, <4>3, <4>4
    <3>2. CASE ~(handled # << >> /\ handled[Len(handled)] = data)
      <4>1. Repeats' = Repeats  BY <2>3, <3>2
      <4>2. Surplus' <= Surplus
        BY <2>1, <2>2, <1>0 DEF Surplus, Waiting
      <4>3. Cardinality(Repeats') = Cardinality(Repeats)  BY <4>1
      <4> QED  BY <1>2, <1>4, <4>2, <4>3
    <3> QED  BY <3>1, <3>2
  <2>5. \A k \in 2 .. Len(handled') : handled'[k - 1] <= handled'[k]
    <3> SUFFICES ASSUME NEW k \in 2 .. Len(handled')
                 PROVE  handled'[k - 1] <= handled'[k]
      OBVIOUS
    <3>1. /\ Len(handled) \in Nat /\ Len(handled') = Len(handled) + 1
          /\ handled'[Len(handled) + 1] = loaded
          /\ \A j \in 1 .. Len(handled) : handled'[j] = handled[j]
                                          /\ handled[j] \in 1 .. loaded
      BY <1>0, <1>1, <2>2, ElementOfSeq
    <3>2. CASE k = Len(handled) + 1
      <4>1. k - 1 \in 1 .. Len(handled)  BY <3>1, <3>2
      <4> QED  BY <1>0, <3>1, <3>2, <4>1
    <3>3. CASE k # Len(handled) + 1
      <4>1. k \in 2 .. Len(handled) /\ k \in 1 .. Len(handled)
            /\ k - 1 \in 1 .. Len(handled)
        BY <3>1, <3>3
      <4> QED  BY <1>0, <3>1, <4>1 DEF Paid
    <3> QED  BY <3>2, <3>3
  <2>6. Cardinality(Repeats') \in Nat
    <3>1. CASE Repeats' = Repeats
      <4>1. Cardinality(Repeats') = Cardinality(Repeats)  BY <3>1
      <4> QED  BY <1>2, <4>1
    <3>2. CASE Repeats' = Repeats \cup {Len(handled) + 1}
      BY <1>2, <3>2, OneElementMore
    <3> QED  BY <2>3, <3>1, <3>2
  <2>7. Cardinality(Repeats') + Surplus' <= Cardinality(drained)
    <3>1. Cardinality(Repeats) + Surplus <= Cardinality(drained)
      BY <1>0 DEF Paid
    <3> HIDE DEF Same
    <3> QED  BY <1>2, <1>3, <1>4, <2>4, <2>6, <3>1, SMTT(30)
  <2> QED  BY <2>2, <2>5, <2>7, Zenon DEF Paid
<1>9. CASE timer_handler \/ EndOfInterrupt \/ iretq
  <2>1. Same /\ UNCHANGED <<irr, obf>>
    BY <1>9 DEF timer_handler, EndOfInterrupt, iretq, picVars, keyVars, pastVars
  <2>2. ~AtPort'
    <3>1. CASE timer_handler  BY <3>1, Moved DEF timer_handler, AtPort
    <3>2. CASE EndOfInterrupt  BY <3>2, Moved DEF EndOfInterrupt, AtPort
    <3>3. CASE iretq  BY <3>3, Returned DEF AtPort
    <3> QED  BY <1>9, <3>1, <3>2, <3>3
  <2>3. Surplus' <= Surplus  BY <2>1, <2>2 DEF Surplus, Waiting
  <2> QED  BY <1>5, <2>1, <2>3
<1>10. CASE DrainRead
  <2>1. /\ frames = << >> /\ UNCHANGED <<frames, irr, handled>>
        /\ obf' = FALSE /\ drained' = drained \cup {data}
    BY <1>10 DEF DrainRead, At, cpuVars, picVars
  <2>2. ~AtPort /\ ~AtPort'  BY <2>1 DEF AtPort
  <2>3. Repeats' = Repeats  BY <2>1 DEF Repeats
  <2>4. Cardinality(drained') \in Nat
        /\ Cardinality(drained') >= Cardinality(drained)
        /\ (obf => Cardinality(drained') = Cardinality(drained) + 1)
    <3>1. obf => data \notin drained  BY <1>0 DEF Fresh
    <3> QED  BY <1>3, <2>1, <3>1, OneElementMore
  <2>5. Surplus' <= IF obf THEN Surplus + 1 ELSE Surplus
    BY <2>1, <2>2 DEF Surplus, Waiting
  <2> QED  BY <1>0, <1>2, <1>3, <1>4, <2>1, <2>3, <2>4, <2>5 DEF Paid
<1>11. CASE \/ TimerRises \/ DriveRises \/ Send \/ Remap \/ Mask \/ SetGates \/ sti
            \/ welcome_animation \/ DrainTest \/ UNCHANGED vars
  <2>1. Same /\ UNCHANGED <<frames, obf>>
    BY <1>11 DEF TimerRises, DriveRises, Send, Remap, Mask, SetGates, sti,
                 welcome_animation, DrainTest, vars, cpuVars, keyVars, pastVars
  <2>2. Keyboard \in irr' => Keyboard \in irr
    BY <1>11 DEF TimerRises, DriveRises, Send, Remap, Mask, SetGates, sti,
                 welcome_animation, DrainTest, vars, picVars, Raise, Timer, Keyboard, Drive
  <2>3. Surplus' <= Surplus
    BY <2>1, <2>2 DEF Surplus, Waiting, AtPort
  <2> QED  BY <1>5, <2>1, <2>3
<1> QED
  BY <1>6, <1>7, <1>8, <1>9, <1>10, <1>11 DEF Next, Stub, Main

-----------------------------------------------------------------------------
(* The theorems.                                                           *)

LEMMA Inductive == Spec => []IInv
<1>1. Init => IInv
  BY TypeInit, CpuInit, FreshInit, PaidInit DEF IInv
<1>2. IInv /\ [Next]_vars => IInv'
  BY TypeStep, CpuStep, FreshStep, PaidStep DEF IInv
<1> QED  BY <1>1, <1>2, PTL DEF Spec

(* Every reachable state has its type, for any number of keys.             *)
THEOREM TypeCorrect == Spec => []IntTypeOK
<1>1. IInv => IntTypeOK  BY DEF IInv
<1> QED  BY <1>1, Inductive, PTL

(* A handler runs to its end before another starts, and the controllers    *)
(* serve exactly the line whose stub runs: what main() and the handlers    *)
(* share has at most two users.                                            *)
THEOREM HandlersAlone == Spec => []OneHandler
<1>1. IInv => OneHandler
  <2> SUFFICES ASSUME IInv PROVE OneHandler  OBVIOUS
  <2>1. OneStub /\ SetUp  BY DEF IInv
  <2>2. frames # << >> => ~IF_flag  BY <2>1 DEF OneStub, SetUp
  <2>3. isr = {LineOf(frames[f]) : f \in {g \in 1 .. Len(frames) :
                                           frames[g].at # "iretq"}}
    <3>1. CASE frames = << >>
      BY <2>1, <3>1 DEF OneStub
    <3>2. CASE frames # << >>
      <4>1. Len(frames) = 1  BY <3>2, OneFrame
      <4>2. 1 .. Len(frames) = {1}  BY <4>1
      <4> QED  BY <2>1, <3>2, <4>2 DEF OneStub
    <3> QED  BY <3>1, <3>2
  <2> QED  BY <2>1, <2>2, <2>3 DEF OneHandler, OneStub
<1> QED  BY <1>1, Inductive, PTL

(* No interrupt comes without a gate: idt_init masks every line it makes   *)
(* no gate for, before sti.                                                *)
THEOREM NoInterruptFaults == Spec => []NoFault
<1>1. IInv => NoFault  BY DEF IInv
<1> QED  BY <1>1, Inductive, PTL

(* keyboard_handler reads the keys in the order they were typed, and reads *)
(* one again at most as often as keyboard_init has dropped one.            *)
THEOREM KeysStayInOrder == Spec => []KeysInOrder
<1>1. IInv => KeysInOrder
  <2> SUFFICES ASSUME IInv PROVE KeysInOrder  OBVIOUS
  <2>1. Paid /\ handled \in Seq(1 .. loaded) /\ drained \subseteq 1 .. loaded
        /\ loaded \in Nat
    BY KeysAssumption DEF IInv, IntTypeOK
  <2>2. handled \in Seq(Nat)
    <3>1. 1 .. loaded \subseteq Nat  BY <2>1
    <3> QED  BY <2>1, <3>1, SeqMonotonic
  <2>3. Cardinality(Repeats) \in Nat
    BY <2>2, RepeatsFinite, FS_CardinalityType DEF Repeats
  <2>4. Cardinality(drained) \in Nat
    <3>1. IsFiniteSet(1 .. loaded)  BY <2>1, FS_Interval
    <3> QED  BY <2>1, <3>1, FS_Subset, FS_CardinalityType
  <2>5. Surplus \in Nat  BY DEF Surplus
  <2> QED  BY <2>1, <2>3, <2>4, <2>5 DEF Paid, KeysInOrder
<1> QED  BY <1>1, Inductive, PTL
=============================================================================
