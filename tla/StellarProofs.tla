---------------------------- MODULE StellarProofs ----------------------------
(***************************************************************************)
(* Theorems about Stellar, for every source and all sizes of the tables:   *)
(* compile() writes code that the machine cannot leave, in which every     *)
(* opcode has its operands and every jump goes to an opcode.               *)
(***************************************************************************)
EXTENDS Stellar, FiniteSetTheorems, SequenceTheorems, TLAPS

-----------------------------------------------------------------------------
(* The form of the code.                                                   *)

IsSeq(s) == s \in Seq(Elements(s))

(* How many cells an instruction has, by the name of its opcode.           *)
Jumps     == {"JMP", "JZ"}
OnVar     == {"LOAD", "STORE", "INC", "DEC"}
VarVar    == {"ADD_VAR", "SUB_VAR", "MUL_VAR"}
VarConst  == {"ADD_CONST", "SUB_CONST", "MUL_CONST"}
Width(name) ==
  IF name \in Jumps \cup OnVar \cup {"PUSH"} THEN 2
  ELSE IF name \in VarVar \cup VarConst THEN 3 ELSE 1

OpCell(code, a) == a \in 0 .. Len(code) - 1 /\ CellAt(code, a).kind = "op"

(* Where code may go on: at an opcode, or at what will be written next.    *)
Target(code, a) == a = Len(code) \/ OpCell(code, a)

(* An opcode for ints has a variable that is an int.                       *)
VarCell(code, table, a, type) ==
  /\ CellAt(code, a).kind = "var"
  /\ CellAt(code, a).val \in 0 .. Len(table) - 1
  /\ type = "int" => table[CellAt(code, a).val + 1].type = "int"

(* An opcode has its operands, and another opcode after them.              *)
Complete(code, table, a) ==
  LET name == CellAt(code, a).name
      type == CellAt(code, a).type
  IN /\ a + Width(name) <= Len(code)
     /\ name \in Jumps => CellAt(code, a + 1).kind = "addr"
     /\ name \in OnVar \cup VarVar \cup VarConst => VarCell(code, table, a + 1, type)
     /\ name \in VarVar => VarCell(code, table, a + 2, type)
     /\ name # "JMP" => Target(code, a + Width(name))

CodeOK(code, table) ==
  /\ IsSeq(code) /\ Target(code, 0)
  /\ \A a \in 0 .. Len(code) - 1 :
       /\ CellAt(code, a).kind = "op" => Complete(code, table, a)
       /\ CellAt(code, a).kind = "addr" => Target(code, CellAt(code, a).val)

-----------------------------------------------------------------------------
(* The inductive invariant.                                                *)

NoneOr(names) == {<< >>} \cup {<<Op(name)>> : name \in names}

PendingOK ==
  /\ p_add_sub \in NoneOr({"ADD", "SUB"})
  /\ p_mul_div \in NoneOr({"MUL", "DIV", "MOD"})
  /\ p_cmp \in NoneOr(Comparison)

TableOK ==
  /\ IsSeq(symbol_table) /\ Len(symbol_table) <= Symbols
  /\ \A i \in 1 .. Len(symbol_table) : symbol_table[i].type \in VarType

ReaderOK ==
  /\ IsSeq(source) /\ \A i \in 1 .. Len(source) : TokenOK(source[i])
  /\ s_ptr \in 1 .. Len(source) + 1
  /\ var_store \in -2 .. Len(symbol_table) - 1
  /\ expect_print \in 0 .. 2 /\ paren_depth \in Int

(* As many loops are open as while_start and while_exit have places.       *)
Whiles(s) == {i \in 1 .. Len(s) : s[i] = "while"}

ScopesOK ==
  /\ scope_stack \in Seq({"if", "else", "while"})
  /\ IsSeq(if_stack) /\ IsSeq(exit_jmp_stack) /\ IsSeq(while_start) /\ IsSeq(while_exit)
  /\ Cardinality(Whiles(scope_stack)) = Len(while_start)
  /\ Len(while_start) = Len(while_exit)

(* What waits to be patched is a jump's address, which nothing else waits  *)
(* for.                                                                    *)
Hole(code, h) == h \in 0 .. Len(code) - 1 /\ CellAt(code, h) = Addr(0)

HolesOK ==
  /\ \A i \in 1 .. Len(if_stack) : Hole(out, if_stack[i])
  /\ \A i \in 1 .. Len(exit_jmp_stack) : Hole(out, exit_jmp_stack[i])
  /\ \A i \in 1 .. Len(while_exit) : while_exit[i] = NoVar \/ Hole(out, while_exit[i])
  /\ \A i \in 1 .. Len(while_start) : Target(out, while_start[i])

Distinct(s) == \A i, j \in 1 .. Len(s) : i # j /\ s[i] # NoVar => s[i] # s[j]
Disjoint(s, t) ==
  \A i \in 1 .. Len(s), j \in 1 .. Len(t) : s[i] # NoVar => s[i] # t[j]

HolesApart ==
  /\ Distinct(if_stack) /\ Distinct(exit_jmp_stack) /\ Distinct(while_exit)
  /\ Disjoint(if_stack, exit_jmp_stack)
  /\ Disjoint(if_stack, while_exit) /\ Disjoint(exit_jmp_stack, while_exit)

(* Once HALT is written, nothing leads beyond the code.                    *)
Compiled == status \in {"running", "halted", "wild", "fault"}

Closed(code) ==
  /\ OpCell(code, 0)
  /\ \A a \in 0 .. Len(code) - 1 :
       /\ CellAt(code, a).kind = "op" /\ CellAt(code, a).name \notin {"JMP", "HALT"}
            => OpCell(code, a + Width(CellAt(code, a).name))
       /\ CellAt(code, a).kind = "addr" => OpCell(code, CellAt(code, a).val)

MachineOK ==
  /\ status \in {"compiling", "error", "broken", "running", "halted", "wild", "fault"}
  /\ IsSeq(stack) /\ Len(stack) <= StackSize
  /\ DOMAIN variables = 0 .. Registers - 1
  /\ Compiled => Closed(out)
  /\ IF Compiled THEN OpCell(out, pc) ELSE pc = 0

SInv ==
  /\ CodeOK(out, symbol_table)
  /\ PendingOK /\ TableOK /\ ReaderOK /\ ScopesOK
  /\ HolesOK /\ HolesApart /\ MachineOK
-----------------------------------------------------------------------------
(* Sequences.                                                              *)

LEMMA SeqOf ==
  ASSUME NEW S, NEW s \in Seq(S) PROVE IsSeq(s) /\ Len(s) \in Nat
BY DEF IsSeq, Elements

LEMMA LenOf ==
  ASSUME NEW s, IsSeq(s) PROVE Len(s) \in Nat
BY DEF IsSeq

(* A place and its neighbours.                                             *)
LEMMA Joined ==
  ASSUME NEW s, NEW t, IsSeq(s), IsSeq(t)
  PROVE  /\ IsSeq(s \o t) /\ Len(s \o t) = Len(s) + Len(t)
         /\ Len(s) \in Nat /\ Len(t) \in Nat
         /\ \A i \in 1 .. Len(s) : (s \o t)[i] = s[i]
         /\ \A i \in 1 .. Len(t) : (s \o t)[Len(s) + i] = t[i]
<1> DEFINE All == Elements(s) \cup Elements(t)
<1>1. s \in Seq(All) /\ t \in Seq(All)
  BY DEF IsSeq
<1> HIDE DEF All
<1>2. /\ s \o t \in Seq(All) /\ Len(s \o t) = Len(s) + Len(t)
      /\ Len(s) \in Nat /\ Len(t) \in Nat
      /\ \A i \in 1 .. Len(s) : (s \o t)[i] = s[i]
      /\ \A i \in 1 .. Len(t) : (s \o t)[Len(s) + i] = t[i]
  BY <1>1
<1> QED BY <1>2, SeqOf

LEMMA JoinedNothing ==
  ASSUME NEW s, IsSeq(s) PROVE s \o << >> = s
BY DEF IsSeq

LEMMA JoinedThree ==
  ASSUME NEW s, NEW t, NEW u, IsSeq(s), IsSeq(t), IsSeq(u)
  PROVE  s \o (t \o u) = (s \o t) \o u
<1> DEFINE All == Elements(s) \cup Elements(t) \cup Elements(u)
<1>1. s \in Seq(All) /\ t \in Seq(All) /\ u \in Seq(All)
  BY DEF IsSeq
<1> HIDE DEF All
<1> QED BY <1>1

LEMMA Appended ==
  ASSUME NEW s, IsSeq(s), NEW x
  PROVE  /\ IsSeq(Append(s, x)) /\ Len(Append(s, x)) = Len(s) + 1 /\ Len(s) \in Nat
         /\ \A i \in 1 .. Len(s) : Append(s, x)[i] = s[i]
         /\ Append(s, x)[Len(s) + 1] = x
<1> DEFINE All == Elements(s) \cup {x}
<1>1. s \in Seq(All) /\ x \in All
  BY DEF IsSeq
<1> HIDE DEF All
<1>2. /\ Append(s, x) \in Seq(All) /\ Len(Append(s, x)) = Len(s) + 1 /\ Len(s) \in Nat
      /\ \A i \in 1 .. Len(s) : Append(s, x)[i] = s[i]
      /\ Append(s, x)[Len(s) + 1] = x
  BY <1>1
<1> QED BY <1>2, SeqOf

LEMMA Shortened ==
  ASSUME NEW s, IsSeq(s), NEW n \in 0 .. Len(s)
  PROVE  /\ IsSeq(SubSeq(s, 1, n)) /\ Len(SubSeq(s, 1, n)) = n
         /\ \A i \in 1 .. n : SubSeq(s, 1, n)[i] = s[i]
<1> DEFINE All == Elements(s)
<1>1. s \in Seq(All)
  BY DEF IsSeq
<1> HIDE DEF All
<1>2. /\ SubSeq(s, 1, n) \in Seq(All) /\ Len(SubSeq(s, 1, n)) = n
      /\ \A i \in 1 .. n : SubSeq(s, 1, n)[i] = s[i]
  BY <1>1, SubSeqProperties
<1> QED BY <1>2, SeqOf

LEMMA Popped ==
  ASSUME NEW s, IsSeq(s), s # << >>
  PROVE  /\ IsSeq(Pop(s)) /\ Len(Pop(s)) = Len(s) - 1 /\ Len(s) \in Nat /\ Len(s) > 0
         /\ \A i \in 1 .. Len(s) - 1 : Pop(s)[i] = s[i]
<1>1. Len(s) \in Nat /\ Len(s) # 0
  BY EmptySeq DEF IsSeq
<1>2. Len(s) - 1 \in 0 .. Len(s)
  BY <1>1
<1>3. \A n \in 0 .. Len(s) :
        /\ IsSeq(SubSeq(s, 1, n)) /\ Len(SubSeq(s, 1, n)) = n
        /\ \A i \in 1 .. n : SubSeq(s, 1, n)[i] = s[i]
  BY Shortened
<1>4. PICK m \in 0 .. Len(s) : m = Len(s) - 1
  BY <1>2
<1>5. Pop(s) = SubSeq(s, 1, m)
  BY <1>4 DEF Pop
<1>6. /\ IsSeq(Pop(s)) /\ Len(Pop(s)) = m
      /\ \A i \in 1 .. m : Pop(s)[i] = s[i]
  BY <1>3, <1>5
<1> QED BY <1>1, <1>4, <1>6

Put(s, n, x) == [s EXCEPT ![n] = x]

LEMMA Replaced ==
  ASSUME NEW s, IsSeq(s), NEW n \in 1 .. Len(s), NEW x
  PROVE  /\ IsSeq(Put(s, n, x)) /\ Len(Put(s, n, x)) = Len(s)
         /\ \A i \in 1 .. Len(s) : Put(s, n, x)[i] = IF i = n THEN x ELSE s[i]
<1> DEFINE All == Elements(s) \cup {x}
<1>1. s \in Seq(All) /\ x \in All
  BY DEF IsSeq
<1> HIDE DEF All
<1>2. /\ Put(s, n, x) \in Seq(All) /\ Len(Put(s, n, x)) = Len(s)
      /\ \A i \in 1 .. Len(s) : Put(s, n, x)[i] = IF i = n THEN x ELSE s[i]
  BY <1>1 DEF Put
<1> QED BY <1>2, SeqOf

LEMMA ElementsOfBoth ==
  ASSUME NEW s, NEW t, IsSeq(s), IsSeq(t)
  PROVE  IsSeq(s \o t) /\ Elements(s \o t) = Elements(s) \cup Elements(t)
<1>1. /\ IsSeq(s \o t) /\ Len(s \o t) = Len(s) + Len(t)
      /\ Len(s) \in Nat /\ Len(t) \in Nat
      /\ \A i \in 1 .. Len(s) : (s \o t)[i] = s[i]
      /\ \A i \in 1 .. Len(t) : (s \o t)[Len(s) + i] = t[i]
  BY Joined
<1>2. \A i \in 1 .. Len(t) : Len(s) + i \in 1 .. Len(s \o t)
  BY <1>1
<1>3. \A i \in 1 .. Len(s) : i \in 1 .. Len(s \o t)
  BY <1>1
<1>4. ASSUME NEW i \in 1 .. Len(s \o t)
      PROVE  (s \o t)[i] \in Elements(s) \cup Elements(t)
  <2>1. CASE i <= Len(s)
    BY <1>1, <2>1 DEF Elements
  <2>2. CASE i > Len(s)
    <3>1. i - Len(s) \in 1 .. Len(t) /\ i = Len(s) + (i - Len(s))
      BY <1>1, <2>2
    <3> QED BY <1>1, <3>1 DEF Elements
  <2> QED BY <1>1, <2>1, <2>2
<1>5. Elements(s \o t) \subseteq Elements(s) \cup Elements(t)
  BY <1>4 DEF Elements
<1>6. Elements(s) \cup Elements(t) \subseteq Elements(s \o t)
  BY <1>1, <1>2, <1>3 DEF Elements
<1> QED BY <1>1, <1>5, <1>6

-----------------------------------------------------------------------------
(* Writing code.                                                           *)

(* new begins with code, and goes on with an opcode.                       *)
Grows(code, new) ==
  /\ Len(code) <= Len(new)
  /\ \A a \in 0 .. Len(code) - 1 : CellAt(new, a) = CellAt(code, a)
  /\ Target(new, Len(code))

Extends(code, new, table) == CodeOK(new, table) /\ Grows(code, new)

(* An instruction: an opcode with its operands.  A jump is to be patched,  *)
(* or goes where the code may go on, or over a string behind it.           *)
Instruction(ins, code, table) ==
  /\ IsSeq(ins) /\ Width(ins[1].name) <= Len(ins)
  /\ ins[1].name # "JMP" => Len(ins) = Width(ins[1].name)
  /\ \A k \in 1 .. Len(ins) :
       /\ ins[k].kind = "op" <=> k = 1
       /\ ins[k].kind = "addr" <=> k = 2 /\ ins[1].name \in Jumps
       /\ ins[k].kind = "addr" =>
            \/ ins[k].val = 0 \/ Target(code, ins[k].val)
            \/ ins[k].val = Len(code) + Len(ins)
  /\ ins[1].name \in OnVar \cup VarVar \cup VarConst
       => VarCell(ins, table, 1, ins[1].type)
  /\ ins[1].name \in VarVar => VarCell(ins, table, 2, ins[1].type)

(* A target in the code is one still when more is written.                 *)
LEMMA TargetGrows ==
  ASSUME NEW code, NEW new, Grows(code, new), Len(code) \in Nat, Len(new) \in Nat,
         NEW a, Target(code, a)
  PROVE  Target(new, a)
BY DEF Grows, Target, OpCell

LEMMA WidthIs ==
  ASSUME NEW name PROVE Width(name) \in 1 .. 3 /\ (name \in Jumps \cup OnVar => Width(name) = 2)
                        /\ (name \in VarVar \cup VarConst => Width(name) = 3)
BY DEF Width, Jumps, OnVar, VarVar, VarConst

LEMMA GrowsNothing ==
  ASSUME NEW code, IsSeq(code) PROVE Grows(code, code)
BY LenOf DEF Grows, Target

LEMMA GrowsTwice ==
  ASSUME NEW code, NEW new, NEW newer, Len(code) \in Nat, Len(new) \in Nat, Len(newer) \in Nat,
         Grows(code, new), Grows(new, newer)
  PROVE  Grows(code, newer)
<1>1. Target(newer, Len(code))
  BY TargetGrows DEF Grows
<1> QED BY <1>1 DEF Grows

(* An instruction written after code that is right leaves it right.        *)
LEMMA EmitOne ==
  ASSUME NEW code, NEW table, CodeOK(code, table), NEW ins, Instruction(ins, code, table)
  PROVE  Extends(code, code \o ins, table)
<1> DEFINE new  == code \o ins
           n    == Len(code)
           name == ins[1].name
           size == Len(ins)
<1>1. /\ IsSeq(code) /\ IsSeq(ins) /\ Width(name) <= size
      /\ name # "JMP" => size = Width(name)
  BY DEF CodeOK, Instruction
<1>2. /\ IsSeq(new) /\ n \in Nat /\ Len(new) = n + size /\ size \in Nat /\ size > 0
      /\ Width(name) \in 1 .. 3
      /\ \A a \in 0 .. n - 1 : CellAt(new, a) = CellAt(code, a)
      /\ \A k \in 1 .. size : CellAt(new, n + k - 1) = ins[k]
  <2>1. /\ \A i \in 1 .. n : new[i] = code[i]
        /\ \A i \in 1 .. size : new[n + i] = ins[i]
        /\ n \in Nat /\ size \in Nat /\ Width(name) \in 1 .. 3
        /\ IsSeq(new) /\ Len(new) = n + size
    BY <1>1, Joined, WidthIs
  <2> HIDE DEF new, n, name, size
  <2> QED BY <1>1, <2>1 DEF CellAt
<1> HIDE DEF new, n, name, size
<1>3. Grows(code, new)
  <2>1. 1 \in 1 .. size /\ n + 1 - 1 = n
    BY <1>2
  <2>2. CellAt(new, n) = ins[1]
    BY <1>2, <2>1
  <2>3. ins[1].kind = "op"
    BY <2>1 DEF Instruction, size
  <2> QED BY <1>2, <2>2, <2>3 DEF Grows, Target, OpCell, n
<1>4. \A a : Target(code, a) => Target(new, a)
  BY <1>2, <1>3, TargetGrows DEF n
<1>5. Target(new, 0)
  BY <1>4 DEF CodeOK
<1>6. ASSUME NEW a \in 0 .. Len(new) - 1
      PROVE  /\ CellAt(new, a).kind = "op" => Complete(new, table, a)
             /\ CellAt(new, a).kind = "addr" => Target(new, CellAt(new, a).val)
  <2>1. CASE a < n
    <3>1. a \in 0 .. n - 1 /\ CellAt(new, a) = CellAt(code, a)
      BY <1>2, <2>1
    <3>2. CellAt(code, a).kind = "op" => Complete(code, table, a)
      BY <3>1 DEF CodeOK, n
    <3>3. Complete(code, table, a) => Complete(new, table, a)
      <4> DEFINE m == CellAt(code, a).name
      <4>1. Width(m) \in 1 .. 3 /\ (m \in Jumps \cup OnVar => Width(m) = 2)
            /\ (m \in VarVar \cup VarConst => Width(m) = 3)
        BY WidthIs
      <4>2. \A k \in 1 .. 2 : a + k < n => CellAt(new, a + k) = CellAt(code, a + k)
        BY <1>2, <3>1
      <4> HIDE DEF m
      <4>3. ASSUME a + Width(m) <= n
            PROVE  /\ m \in Jumps => CellAt(new, a + 1) = CellAt(code, a + 1)
                   /\ m \in OnVar \cup VarVar \cup VarConst
                        => CellAt(new, a + 1) = CellAt(code, a + 1)
                   /\ m \in VarVar => CellAt(new, a + 2) = CellAt(code, a + 2)
        BY <1>2, <3>1, <4>1, <4>2, <4>3
      <4>4. a + Width(m) <= n => a + Width(m) <= Len(new)
        BY <1>2, <4>1
      <4> QED BY <3>1, <4>3, <4>4, <1>4 DEF Complete, VarCell, m, n
    <3>4. CellAt(new, a).kind = "addr" => Target(code, CellAt(new, a).val)
      BY <3>1 DEF CodeOK, n
    <3> QED BY <3>1, <3>2, <3>3, <3>4, <1>4
  <2>2. CASE a >= n
    <3>1. PICK k \in 1 .. size : a = n + k - 1 /\ CellAt(new, a) = ins[k]
      <4>1. a - n + 1 \in 1 .. size /\ a = n + (a - n + 1) - 1
        BY <1>2, <2>2
      <4> QED BY <1>2, <4>1
    <3>2. CellAt(new, a).kind = "op" => k = 1 /\ a = n /\ CellAt(new, a) = ins[1]
      BY <1>2, <3>1 DEF Instruction, size
    <3>3. CellAt(new, a).kind = "addr" => Target(new, CellAt(new, a).val)
      <4>1. Target(new, n + size)
        BY <1>2 DEF Target
      <4> QED BY <1>4, <1>5, <3>1, <4>1 DEF Instruction, size, n
    <3>4. ASSUME CellAt(new, a).kind = "op" PROVE Complete(new, table, a)
      <4>1. /\ name \in Jumps \cup OnVar => Width(name) = 2
            /\ name \in VarVar \cup VarConst => Width(name) = 3
        BY WidthIs
      <4>2. /\ CellAt(new, a).name = name /\ CellAt(new, a).type = ins[1].type
            /\ a + Width(name) <= Len(new)
            /\ name # "JMP" => a + Width(name) = Len(new)
        BY <1>1, <1>2, <3>2, <3>4 DEF name
      <4>3. \A j \in 2 .. Width(name) : CellAt(new, a + j - 1) = ins[j]
        BY <1>1, <1>2, <3>2, <3>4
      <4>4. name \in Jumps => CellAt(new, a + 1).kind = "addr"
        <5> SUFFICES ASSUME name \in Jumps PROVE CellAt(new, a + 1).kind = "addr"
          OBVIOUS
        <5>1. 2 \in 2 .. Width(name) /\ 2 \in 1 .. Len(ins)
          BY <1>1, <1>2, <4>1 DEF size
        <5>2. CellAt(new, a + 2 - 1) = ins[2] /\ a + 2 - 1 = a + 1
          BY <4>3, <5>1, <3>1, <1>2
        <5> QED BY <5>1, <5>2 DEF Instruction, name
      <4>5. ASSUME name \in OnVar \cup VarVar \cup VarConst
            PROVE  VarCell(new, table, a + 1, ins[1].type)
        <5>1. 2 \in 2 .. Width(name)
          BY <4>1, <4>5
        <5>2. CellAt(new, a + 2 - 1) = ins[2] /\ a + 2 - 1 = a + 1
          BY <4>3, <5>1, <3>1, <1>2
        <5> QED BY <4>5, <5>2 DEF Instruction, VarCell, CellAt, name
      <4>6. ASSUME name \in VarVar PROVE VarCell(new, table, a + 2, ins[1].type)
        <5>1. 3 \in 2 .. Width(name)
          BY <4>1, <4>6
        <5>2. CellAt(new, a + 3 - 1) = ins[3] /\ a + 3 - 1 = a + 2
          BY <4>3, <5>1, <3>1, <1>2
        <5>3. CellAt(ins, 2) = ins[3] /\ CellAt(new, a + 2) = ins[3]
          BY <5>2 DEF CellAt
        <5>4. VarCell(ins, table, 2, ins[1].type)
          BY <4>6 DEF Instruction, name
        <5> QED BY <5>3, <5>4 DEF VarCell
      <4> QED BY <1>2, <4>2, <4>4, <4>5, <4>6 DEF Complete, Target
    <3> QED BY <3>3, <3>4
  <2> QED BY <1>2, <2>1, <2>2
<1> QED BY <1>2, <1>3, <1>5, <1>6 DEF Extends, CodeOK, new
LEMMA ExtendsTwice ==
  ASSUME NEW code, NEW new, NEW newer, NEW table, IsSeq(code),
         Extends(code, new, table), Extends(new, newer, table)
  PROVE  Extends(code, newer, table)
<1>1. Len(code) \in Nat /\ Len(new) \in Nat /\ Len(newer) \in Nat
  BY LenOf DEF Extends, CodeOK
<1> QED BY <1>1, GrowsTwice DEF Extends

(* Opcodes without operands.                                               *)
Alone(name) == name \notin Jumps \cup OnVar \cup {"PUSH"} \cup VarVar \cup VarConst

LEMMA EmitAlone ==
  ASSUME NEW code, NEW table, CodeOK(code, table), NEW name, Alone(name)
  PROVE  Extends(code, code \o <<Op(name)>>, table)
<1> DEFINE ins == <<Op(name)>>
<1>1. /\ IsSeq(ins) /\ Len(ins) = 1 /\ ins[1] = Op(name)
      /\ ins[1].kind = "op" /\ ins[1].name = name
  <2>1. ins \in Seq({Op(name)}) /\ Len(ins) = 1 /\ ins[1] = Op(name)
    OBVIOUS
  <2> QED BY <2>1, SeqOf DEF Op, TypedOp
<1>2. Width(name) = 1
  BY DEF Alone, Width
<1> HIDE DEF ins
<1>3. Instruction(ins, code, table)
  BY <1>1, <1>2 DEF Instruction, Alone
<1> QED BY <1>3, EmitOne DEF ins

LEMMA EmitPending ==
  ASSUME NEW code, NEW table, CodeOK(code, table),
         NEW names, \A name \in names : Alone(name), NEW p \in NoneOr(names)
  PROVE  Extends(code, code \o p, table) /\ IsSeq(p)
<1>1. CASE p = << >>
  <2>1. IsSeq(p)
    <3>1. p \in Seq({})
      BY <1>1, EmptySeq
    <3> QED BY <3>1, SeqOf
  <2>2. code \o p = code /\ Grows(code, code)
    BY <1>1, JoinedNothing, GrowsNothing DEF CodeOK
  <2> QED BY <2>1, <2>2 DEF Extends
<1>2. CASE p # << >>
  <2>1. PICK name \in names : p = <<Op(name)>>
    BY <1>2 DEF NoneOr
  <2>2. IsSeq(p)
    <3>1. p \in Seq({Op(name)})
      BY <2>1
    <3> QED BY <3>1, SeqOf
  <2> QED BY <2>1, <2>2, EmitAlone
<1> QED BY <1>1, <1>2

LEMMA AloneOperators ==
  \A name \in {"ADD", "SUB", "MUL", "DIV", "MOD"} \cup Comparison : Alone(name)
BY DEF Alone, Jumps, OnVar, VarVar, VarConst, Comparison

LEMMA PendingIs ==
  ASSUME PendingOK, NEW code, NEW table, CodeOK(code, table)
  PROVE  /\ Extends(code, code \o p_mul_div, table) /\ IsSeq(p_mul_div)
         /\ Extends(code, code \o p_add_sub, table) /\ IsSeq(p_add_sub)
         /\ Extends(code, code \o p_cmp, table) /\ IsSeq(p_cmp)
<1>1. \A names : names \subseteq {"ADD", "SUB", "MUL", "DIV", "MOD"} \cup Comparison =>
        \A p \in NoneOr(names) : Extends(code, code \o p, table) /\ IsSeq(p)
  BY EmitPending, AloneOperators
<1> QED BY <1>1 DEF PendingOK

(* Two pieces of code after each other.                                    *)
LEMMA EmitBoth ==
  ASSUME NEW code, NEW table, IsSeq(code), NEW s, NEW t, IsSeq(s), IsSeq(t),
         Extends(code, code \o s, table), Extends(code \o s, (code \o s) \o t, table)
  PROVE  Extends(code, code \o (s \o t), table) /\ IsSeq(s \o t)
<1>1. code \o (s \o t) = (code \o s) \o t
  BY JoinedThree
<1>2. Extends(code, (code \o s) \o t, table)
  BY ExtendsTwice
<1>3. IsSeq(s \o t)
  BY Joined
<1> QED BY <1>1, <1>2, <1>3

LEMMA EmitProduct ==
  ASSUME PendingOK, NEW code, NEW table, CodeOK(code, table)
  PROVE  Extends(code, code \o (p_mul_div \o p_add_sub), table) /\ IsSeq(p_mul_div \o p_add_sub)
<1>1. Extends(code, code \o p_mul_div, table) /\ IsSeq(p_mul_div) /\ IsSeq(p_add_sub)
  BY PendingIs
<1>2. Extends(code \o p_mul_div, (code \o p_mul_div) \o p_add_sub, table)
  BY <1>1, PendingIs DEF Extends
<1> QED BY <1>1, <1>2, EmitBoth DEF CodeOK

LEMMA EmitFlushed ==
  ASSUME PendingOK, NEW code, NEW table, CodeOK(code, table)
  PROVE  Extends(code, code \o Flushed, table) /\ IsSeq(Flushed)
<1> DEFINE s == p_mul_div \o p_add_sub
<1>1. Extends(code, code \o s, table) /\ IsSeq(s)
  BY EmitProduct
<1> HIDE DEF s
<1>2. Extends(code \o s, (code \o s) \o p_cmp, table) /\ IsSeq(p_cmp)
  BY <1>1, PendingIs DEF Extends
<1>3. Flushed = s \o p_cmp
  BY DEF Flushed, s
<1> QED BY <1>1, <1>2, <1>3, EmitBoth DEF CodeOK

(* A new variable changes nothing for the others.                          *)
LEMMA TableGrows ==
  ASSUME NEW code, NEW table, CodeOK(code, table), IsSeq(table), NEW x
  PROVE  CodeOK(code, Append(table, x))
<1>1. /\ Len(Append(table, x)) = Len(table) + 1 /\ Len(table) \in Nat
      /\ \A i \in 1 .. Len(table) : Append(table, x)[i] = table[i]
  BY Appended
<1>2. \A a, type : VarCell(code, table, a, type) => VarCell(code, Append(table, x), a, type)
  BY <1>1 DEF VarCell
<1>3. \A a : Complete(code, table, a) => Complete(code, Append(table, x), a)
  BY <1>2 DEF Complete
<1> QED BY <1>3 DEF CodeOK

(* Addresses that are patched go where the code may go on.                 *)
LEMMA PatchingKeeps ==
  ASSUME NEW code, NEW table, CodeOK(code, table), NEW t, Target(code, t),
         NEW new, IsSeq(new), Len(new) = Len(code),
         \A a \in 0 .. Len(code) - 1 :
           \/ CellAt(new, a) = CellAt(code, a)
           \/ CellAt(code, a).kind = "addr" /\ CellAt(new, a) = Addr(t)
  PROVE  CodeOK(new, table) /\ \A b : Target(code, b) => Target(new, b)
<1>1. \A a \in 0 .. Len(code) - 1 :
        /\ CellAt(new, a).kind = CellAt(code, a).kind
        /\ CellAt(code, a).kind # "addr" => CellAt(new, a) = CellAt(code, a)
        /\ CellAt(code, a).kind = "addr" =>
             CellAt(new, a).val \in {CellAt(code, a).val, t}
  BY DEF Addr
<1>2. Len(code) \in Nat
  BY LenOf DEF CodeOK
<1>3. \A b : Target(code, b) => Target(new, b)
  BY <1>1 DEF Target, OpCell
<1>4. ASSUME NEW a \in 0 .. Len(code) - 1, CellAt(code, a).kind = "op", Complete(code, table, a)
      PROVE  Complete(new, table, a)
  <2> DEFINE m == CellAt(code, a).name
             type == CellAt(code, a).type
  <2>1. /\ Width(m) \in 1 .. 3 /\ (m \in Jumps \cup OnVar => Width(m) = 2)
        /\ (m \in VarVar \cup VarConst => Width(m) = 3)
    BY WidthIs
  <2>2. CellAt(new, a) = CellAt(code, a)
    BY <1>1, <1>4
  <2>3. /\ a + Width(m) <= Len(code)
        /\ m \in Jumps => CellAt(code, a + 1).kind = "addr"
        /\ m \in OnVar \cup VarVar \cup VarConst => VarCell(code, table, a + 1, type)
        /\ m \in VarVar => VarCell(code, table, a + 2, type)
        /\ m # "JMP" => Target(code, a + Width(m))
    BY <1>4 DEF Complete
  <2> HIDE DEF m, type
  <2>4. m \in Jumps => CellAt(new, a + 1).kind = "addr"
    BY <1>1, <1>2, <2>1, <2>3
  <2>5. m \in OnVar \cup VarVar \cup VarConst => VarCell(new, table, a + 1, type)
    BY <1>1, <1>2, <2>1, <2>3 DEF VarCell
  <2>6. m \in VarVar => VarCell(new, table, a + 2, type)
    BY <1>1, <1>2, <2>1, <2>3 DEF VarCell
  <2> QED BY <1>3, <2>2, <2>3, <2>4, <2>5, <2>6 DEF Complete, m, type
<1>5. \A a \in 0 .. Len(new) - 1 :
        /\ CellAt(new, a).kind = "op" => Complete(new, table, a)
        /\ CellAt(new, a).kind = "addr" => Target(new, CellAt(new, a).val)
  BY <1>1, <1>3, <1>4 DEF CodeOK
<1> QED BY <1>3, <1>5 DEF CodeOK

(* Patching one address leaves the code whole, and fills the hole.         *)
LEMMA PatchOne ==
  ASSUME NEW code, NEW table, CodeOK(code, table), NEW t, Target(code, t),
         NEW pos \in 0 .. Len(code) - 1, CellAt(code, pos).kind = "addr"
  PROVE  /\ CodeOK(patch16(code, pos, t), table)
         /\ \A b : Target(code, b) => Target(patch16(code, pos, t), b)
         /\ Len(patch16(code, pos, t)) = Len(code)
         /\ \A a \in 0 .. Len(code) - 1 :
              a # pos => CellAt(patch16(code, pos, t), a) = CellAt(code, a)
<1> DEFINE new == patch16(code, pos, t)
<1>1. Len(code) \in Nat /\ IsSeq(code)
  BY LenOf DEF CodeOK
<1>2. pos + 1 \in 1 .. Len(code)
  BY <1>1
<1>3. /\ IsSeq(new) /\ Len(new) = Len(code)
      /\ \A i \in 1 .. Len(code) : new[i] = IF i = pos + 1 THEN Addr(t) ELSE code[i]
  <2>1. new = Put(code, pos + 1, Addr(t))
    BY DEF patch16, Put
  <2> QED BY <1>1, <1>2, <2>1, Replaced
<1> HIDE DEF new
<1>4. \A a \in 0 .. Len(code) - 1 :
        CellAt(new, a) = IF a = pos THEN Addr(t) ELSE CellAt(code, a)
  BY <1>1, <1>3 DEF CellAt
<1>5. CodeOK(new, table) /\ \A b : Target(code, b) => Target(new, b)
  BY <1>3, <1>4, PatchingKeeps
<1> QED BY <1>3, <1>4, <1>5 DEF new

(* And so does patching those of a whole chain.                            *)
LEMMA PatchMany ==
  ASSUME NEW code, NEW table, CodeOK(code, table), NEW t, Target(code, t), NEW holes,
         \A h \in holes : h \in 0 .. Len(code) - 1 /\ CellAt(code, h).kind = "addr"
  PROVE  /\ CodeOK(PatchAll(code, holes, t), table)
         /\ \A b : Target(code, b) => Target(PatchAll(code, holes, t), b)
         /\ Len(PatchAll(code, holes, t)) = Len(code)
         /\ \A a \in 0 .. Len(code) - 1 :
              a \notin holes => CellAt(PatchAll(code, holes, t), a) = CellAt(code, a)
<1> DEFINE new == PatchAll(code, holes, t)
<1>1. Len(code) \in Nat /\ IsSeq(code)
  BY LenOf DEF CodeOK
<1>2. /\ IsSeq(new) /\ Len(new) = Len(code)
      /\ \A i \in 1 .. Len(code) : new[i] = IF i - 1 \in holes THEN Addr(t) ELSE code[i]
  <2>1. new = [i \in 1 .. Len(code) |-> IF i - 1 \in holes THEN Addr(t) ELSE code[i]]
    BY DEF PatchAll
  <2>2. new \in Seq({Addr(t)} \cup Elements(code)) /\ Len(new) = Len(code)
    BY <1>1, <2>1 DEF Elements
  <2> HIDE DEF new
  <2> QED BY <2>1, <2>2, SeqOf
<1> HIDE DEF new
<1>3. \A a \in 0 .. Len(code) - 1 :
        CellAt(new, a) = IF a \in holes THEN Addr(t) ELSE CellAt(code, a)
  <2> SUFFICES ASSUME NEW a \in 0 .. Len(code) - 1
               PROVE  CellAt(new, a) = IF a \in holes THEN Addr(t) ELSE CellAt(code, a)
    OBVIOUS
  <2>1. a + 1 \in 1 .. Len(code) /\ (a + 1) - 1 = a
    BY <1>1
  <2> QED BY <1>2, <2>1 DEF CellAt
<1>4. CodeOK(new, table) /\ \A b : Target(code, b) => Target(new, b)
  BY <1>2, <1>3, PatchingKeeps
<1> QED BY <1>2, <1>3, <1>4 DEF new

(* The instructions of the compiler.                                       *)
LEMMA EmitPush ==
  ASSUME NEW code, NEW table, CodeOK(code, table), NEW v
  PROVE  Extends(code, code \o <<Op("PUSH"), Const(v)>>, table)
         /\ IsSeq(<<Op("PUSH"), Const(v)>>)
<1> DEFINE ins == <<Op("PUSH"), Const(v)>>
<1>1. /\ ins \in Seq({Op("PUSH"), Const(v)})
      /\ Len(ins) = 2 /\ ins[1] = Op("PUSH") /\ ins[2] = Const(v)
  OBVIOUS
<1>2. IsSeq(ins)
  BY <1>1, SeqOf
<1>3. /\ Op("PUSH").kind = "op" /\ Op("PUSH").name = "PUSH" /\ Const(v).kind = "const"
      /\ Width("PUSH") = 2
  BY DEF Op, TypedOp, Const, Width, Jumps, OnVar
<1> HIDE DEF ins
<1>4. Instruction(ins, code, table)
  BY <1>1, <1>2, <1>3 DEF Instruction, Jumps, OnVar, VarVar, VarConst
<1> QED BY <1>2, <1>4, EmitOne DEF ins

LEMMA EmitJump ==
  ASSUME NEW code, NEW table, CodeOK(code, table), NEW name \in Jumps,
         NEW t, t = 0 \/ Target(code, t)
  PROVE  Extends(code, code \o <<Op(name), Addr(t)>>, table)
         /\ IsSeq(<<Op(name), Addr(t)>>)
<1> DEFINE ins == <<Op(name), Addr(t)>>
<1>1. /\ ins \in Seq({Op(name), Addr(t)})
      /\ Len(ins) = 2 /\ ins[1] = Op(name) /\ ins[2] = Addr(t)
  OBVIOUS
<1>2. IsSeq(ins)
  BY <1>1, SeqOf
<1>3. /\ Op(name).kind = "op" /\ Op(name).name = name
      /\ Addr(t).kind = "addr" /\ Addr(t).val = t /\ Width(name) = 2
  BY DEF Op, TypedOp, Addr, Width, Jumps, OnVar
<1> HIDE DEF ins
<1>4. Instruction(ins, code, table)
  BY <1>1, <1>2, <1>3 DEF Instruction, Jumps, OnVar, VarVar, VarConst
<1> QED BY <1>2, <1>4, EmitOne DEF ins

(* A jump over a string.                                                   *)
LEMMA EmitSkip ==
  ASSUME NEW code, NEW table, CodeOK(code, table), NEW v
  PROVE  LET ins == <<Op("JMP"), Addr(Here(code) + 3), Text(v)>>
         IN Extends(code, code \o ins, table) /\ IsSeq(ins)
<1> DEFINE ins == <<Op("JMP"), Addr(Here(code) + 3), Text(v)>>
<1>1. /\ ins \in Seq({Op("JMP"), Addr(Here(code) + 3), Text(v)})
      /\ Len(ins) = 3
      /\ ins[1] = Op("JMP") /\ ins[2] = Addr(Here(code) + 3) /\ ins[3] = Text(v)
  OBVIOUS
<1>2. IsSeq(ins)
  BY <1>1, SeqOf
<1>3. /\ Op("JMP").kind = "op" /\ Op("JMP").name = "JMP" /\ Text(v).kind = "text"
      /\ Addr(Here(code) + 3).kind = "addr" /\ Addr(Here(code) + 3).val = Len(code) + 3
      /\ Width("JMP") = 2
  BY DEF Op, TypedOp, Addr, Text, Here, Width, Jumps, OnVar
<1> HIDE DEF ins
<1>4. Instruction(ins, code, table)
  BY <1>1, <1>2, <1>3 DEF Instruction, Jumps, OnVar, VarVar, VarConst
<1> QED BY <1>2, <1>4, EmitOne DEF ins

LEMMA EmitOnVar ==
  ASSUME NEW code, NEW table, CodeOK(code, table), NEW name \in OnVar, NEW type,
         NEW idx \in 0 .. Len(table) - 1, type = "int" => table[idx + 1].type = "int"
  PROVE  Extends(code, code \o <<TypedOp(name, type), Var(idx)>>, table)
         /\ IsSeq(<<TypedOp(name, type), Var(idx)>>)
<1> DEFINE ins == <<TypedOp(name, type), Var(idx)>>
<1>1. /\ ins \in Seq({TypedOp(name, type), Var(idx)})
      /\ Len(ins) = 2 /\ ins[1] = TypedOp(name, type) /\ ins[2] = Var(idx)
  OBVIOUS
<1>2. IsSeq(ins)
  BY <1>1, SeqOf
<1>3. /\ TypedOp(name, type).kind = "op" /\ TypedOp(name, type).name = name
      /\ TypedOp(name, type).type = type
      /\ Var(idx).kind = "var" /\ Var(idx).val = idx /\ Width(name) = 2
  BY DEF TypedOp, Var, Width, Jumps, OnVar
<1> HIDE DEF ins
<1>4. VarCell(ins, table, 1, type)
  BY <1>1, <1>3 DEF VarCell, CellAt
<1>5. Instruction(ins, code, table)
  BY <1>1, <1>2, <1>3, <1>4 DEF Instruction, Jumps, OnVar, VarVar, VarConst
<1> QED BY <1>2, <1>5, EmitOne DEF ins

LEMMA EmitVarConst ==
  ASSUME NEW code, NEW table, CodeOK(code, table), NEW name \in VarConst, NEW type, NEW v,
         NEW idx \in 0 .. Len(table) - 1, type = "int" => table[idx + 1].type = "int"
  PROVE  Extends(code, code \o <<TypedOp(name, type), Var(idx), Const(v)>>, table)
<1> DEFINE ins == <<TypedOp(name, type), Var(idx), Const(v)>>
<1>1. /\ ins \in Seq({TypedOp(name, type), Var(idx), Const(v)}) /\ Len(ins) = 3
      /\ ins[1] = TypedOp(name, type) /\ ins[2] = Var(idx) /\ ins[3] = Const(v)
  OBVIOUS
<1>2. IsSeq(ins)
  BY <1>1, SeqOf
<1>3. /\ TypedOp(name, type).kind = "op" /\ TypedOp(name, type).name = name
      /\ TypedOp(name, type).type = type /\ Const(v).kind = "const"
      /\ Var(idx).kind = "var" /\ Var(idx).val = idx /\ Width(name) = 3
  BY DEF TypedOp, Var, Const, Width, Jumps, OnVar, VarConst
<1> HIDE DEF ins
<1>4. VarCell(ins, table, 1, type)
  BY <1>1, <1>3 DEF VarCell, CellAt
<1>5. Instruction(ins, code, table)
  BY <1>1, <1>2, <1>3, <1>4 DEF Instruction, Jumps, OnVar, VarVar, VarConst
<1> QED BY <1>5, EmitOne DEF ins

LEMMA EmitVarVar ==
  ASSUME NEW code, NEW table, CodeOK(code, table), NEW name \in VarVar, NEW type,
         NEW idx \in 0 .. Len(table) - 1, NEW src \in 0 .. Len(table) - 1,
         type = "int" => table[idx + 1].type = "int" /\ table[src + 1].type = "int"
  PROVE  Extends(code, code \o <<TypedOp(name, type), Var(idx), Var(src)>>, table)
<1> DEFINE ins == <<TypedOp(name, type), Var(idx), Var(src)>>
<1>1. /\ ins \in Seq({TypedOp(name, type), Var(idx), Var(src)}) /\ Len(ins) = 3
      /\ ins[1] = TypedOp(name, type) /\ ins[2] = Var(idx) /\ ins[3] = Var(src)
  OBVIOUS
<1>2. IsSeq(ins)
  BY <1>1, SeqOf
<1>3. /\ TypedOp(name, type).kind = "op" /\ TypedOp(name, type).name = name
      /\ TypedOp(name, type).type = type
      /\ Var(idx).kind = "var" /\ Var(idx).val = idx
      /\ Var(src).kind = "var" /\ Var(src).val = src /\ Width(name) = 3
  BY DEF TypedOp, Var, Width, Jumps, OnVar, VarVar
<1> HIDE DEF ins
<1>4. VarCell(ins, table, 1, type) /\ VarCell(ins, table, 2, type)
  BY <1>1, <1>3 DEF VarCell, CellAt
<1>5. Instruction(ins, code, table)
  BY <1>1, <1>2, <1>3, <1>4 DEF Instruction, Jumps, OnVar, VarVar, VarConst
<1> QED BY <1>5, EmitOne DEF ins

(* Two instructions as one piece.                                          *)
LEMMA EmitPair ==
  ASSUME NEW code, NEW table, IsSeq(code), NEW s, NEW t, NEW u, IsSeq(s), IsSeq(t), u = s \o t,
         Extends(code, code \o s, table),
         CodeOK(code \o s, table) => Extends(code \o s, (code \o s) \o t, table)
  PROVE  Extends(code, code \o u, table) /\ IsSeq(u)
BY EmitBoth DEF Extends
-----------------------------------------------------------------------------
(* What the steps of compile() keep.                                       *)

(* Code that only grows leaves the addresses that wait where they are.     *)
LEMMA Written ==
  ASSUME CodeOK(out, symbol_table), ScopesOK, HolesOK, HolesApart,
         Extends(out, out', symbol_table'), UNCHANGED scopes
  PROVE  CodeOK(out, symbol_table)' /\ ScopesOK' /\ HolesOK' /\ HolesApart'
<1>1. Len(out) \in Nat /\ Len(out') \in Nat /\ Grows(out, out')
  BY LenOf DEF Extends, CodeOK
<1>2. UNCHANGED <<if_stack, while_start, while_exit, scope_stack, exit_jmp_stack>>
  BY DEF scopes, loops
<1>3. \A h : Hole(out, h) => Hole(out', h)
  BY <1>1 DEF Hole, Grows
<1>4. \A a : Target(out, a) => Target(out', a)
  BY <1>1, TargetGrows
<1>5. CodeOK(out, symbol_table)'
  BY DEF Extends
<1>6. HolesOK'
  BY <1>2, <1>3, <1>4 DEF HolesOK
<1>7. ScopesOK' /\ HolesApart'
  BY <1>2 DEF ScopesOK, HolesApart
<1> QED BY <1>5, <1>6, <1>7

LEMMA StillCompiling ==
  ASSUME MachineOK, status = "compiling", status' \in {"compiling", "error", "broken"},
         UNCHANGED machineVars
  PROVE  MachineOK'
BY DEF MachineOK, Compiled, machineVars

(* What a step leaves as it was, for the steps that write no jump that     *)
(* waits and open or close no block.                                       *)
Straight ==
  /\ status = "compiling" /\ status' \in {"compiling", "error", "broken"}
  /\ Extends(out, out', symbol_table')
  /\ UNCHANGED <<scopes, source, machineVars>>
  /\ PendingOK' /\ TableOK' /\ ReaderOK'

(* Actions that write no jump and touch no stack keep the invariant.       *)
LEMMA StraightKeeps == SInv /\ Straight => SInv'
<1> SUFFICES ASSUME SInv, Straight PROVE SInv'
  OBVIOUS
<1>1. CodeOK(out, symbol_table)' /\ ScopesOK' /\ HolesOK' /\ HolesApart'
  BY Written DEF SInv, Straight
<1>2. MachineOK'
  BY StillCompiling DEF SInv, Straight
<1> QED BY <1>1, <1>2 DEF SInv, Straight

(* A token other than the end is in the source.                            *)
LEMMA InSource ==
  ASSUME ReaderOK, NEW n \in Nat, Kind(n) # "end"
  PROVE  /\ s_ptr + n \in 1 .. Len(source) /\ s_ptr + (n + 1) \in 1 .. Len(source) + 1
         /\ TokenOK(Token(n))
<1>1. Len(source) \in Nat /\ s_ptr \in 1 .. Len(source) + 1
  BY LenOf DEF ReaderOK
<1>2. s_ptr + n <= Len(source)
  BY DEF Kind, Token, End
<1> QED BY <1>1, <1>2 DEF Token, ReaderOK

LEMMA KindOf ==
  ASSUME NEW n
  PROVE  /\ \A c : Token(n) = Sym(c) => Kind(n) = "sym"
         /\ \A w : Token(n) = Key(w) => Kind(n) = "key" /\ Value(n) = w
         /\ Token(n) = End => Kind(n) = "end"
<1>1. \A a, b : <<a, b>>[1] = a /\ <<a, b>>[2] = b
  OBVIOUS
<1> QED BY <1>1, ZenonT(60) DEF Sym, Key, End, Kind, Value

LEMMA ReadsThe ==
  ASSUME NEW token, token = Sym(token[2]) \/ token = Key(token[2]), ReadsToken(token)
  PROVE  /\ status = "compiling" /\ Kind(0) # "end" /\ ~Refused /\ ~Overflows
         /\ Token(0) = token
<1>1. token[1] # "end"
  BY DEF Sym, Key
<1> QED BY <1>1 DEF ReadsToken, Reads

LEMMA SymAndKey ==
  \A w : Sym(w)[2] = w /\ Key(w)[2] = w
BY DEF Sym, Key

LEMMA Found ==
  ASSUME TableOK, NEW name, Declared(name)
  PROVE  /\ find_variable(name) \in 0 .. Len(symbol_table) - 1
         /\ TypeOf(find_variable(name)) = symbol_table[find_variable(name) + 1].type
<1>1. PICK i \in 1 .. Len(symbol_table) : symbol_table[i].name = name
  BY DEF Declared
<1> DEFINE k == CHOOSE j \in 1 .. Len(symbol_table) : symbol_table[j].name = name
<1>2. k \in 1 .. Len(symbol_table)
  BY <1>1
<1> HIDE DEF k
<1>3. find_variable(name) = k - 1
  BY DEF find_variable, k
<1>4. Len(symbol_table) \in Nat
  BY LenOf DEF TableOK
<1> QED BY <1>2, <1>3, <1>4 DEF TypeOf

LEMMA ZeroAndOne == 0 + 1 = 1
OBVIOUS

(* ReaderOK when the step reads n tokens and declares nothing.             *)
LEMMA ReadsOn ==
  ASSUME ReaderOK, NEW n \in Nat, Kind(n) # "end", s_ptr' = s_ptr + (n + 1),
         UNCHANGED source,
         var_store' \in -2 .. Len(symbol_table') - 1,
         expect_print' \in 0 .. 2, paren_depth' \in Int
  PROVE  ReaderOK'
BY InSource DEF ReaderOK

(* The opcodes that read or write a variable.                              *)
LEMMA LoadIs ==
  ASSUME SInv, NEW name, Declared(name), NEW code, CodeOK(code, symbol_table)
  PROVE  /\ Extends(code, code \o LoadVar(find_variable(name)), symbol_table)
         /\ IsSeq(LoadVar(find_variable(name)))
<1> DEFINE idx == find_variable(name)
<1>1. idx \in 0 .. Len(symbol_table) - 1 /\ TypeOf(idx) = symbol_table[idx + 1].type
  BY Found DEF SInv
<1>2. "LOAD" \in OnVar
  BY DEF OnVar
<1> HIDE DEF idx
<1>3. Extends(code, code \o <<TypedOp("LOAD", TypeOf(idx)), Var(idx)>>, symbol_table)
      /\ IsSeq(<<TypedOp("LOAD", TypeOf(idx)), Var(idx)>>)
  BY <1>1, <1>2, EmitOnVar
<1> QED BY <1>3 DEF LoadVar, idx

(* The machine has not been started.                                       *)
Quiet == UNCHANGED <<machineVars, meaning>>

LEMMA OperandKeeps ==
  ASSUME SInv, status = "compiling", Kind(0) # "end", Quiet, NEW cells, IsSeq(cells),
         Extends(out, out \o cells, symbol_table), Operand(cells)
  PROVE  SInv'
<1>1. Extends(out \o cells, (out \o cells) \o p_mul_div, symbol_table) /\ IsSeq(p_mul_div)
  BY PendingIs DEF SInv, Extends
<1>2. Extends(out, out \o (cells \o p_mul_div), symbol_table)
  BY <1>1, EmitBoth DEF SInv, CodeOK
<1>3. /\ out' = out \o (cells \o p_mul_div) /\ p_mul_div' = << >> /\ s_ptr' = s_ptr + (0 + 1)
      /\ UNCHANGED <<source, status, p_add_sub, p_cmp, var_store, expect_print,
                     paren_depth, symbol_table, scopes>>
  BY DEF Operand, Emit, Skip
<1>4. PendingOK'
  BY <1>3 DEF SInv, PendingOK, NoneOr
<1>5. TableOK'
  BY <1>3 DEF SInv, TableOK
<1>6. ReaderOK'
  BY <1>3, ReadsOn DEF SInv, ReaderOK
<1> QED BY <1>2, <1>3, <1>4, <1>5, <1>6, StraightKeeps DEF Straight, Quiet

LEMMA NumberKeeps == SInv /\ Quiet /\ Number => SInv'
<1> SUFFICES ASSUME SInv, Quiet, Number PROVE SInv'
  OBVIOUS
<1>1. status = "compiling" /\ Kind(0) # "end" /\ Operand(<<Op("PUSH"), Const(Value(0))>>)
  BY DEF Number, Reads
<1>2. Extends(out, out \o <<Op("PUSH"), Const(Value(0))>>, symbol_table)
      /\ IsSeq(<<Op("PUSH"), Const(Value(0))>>)
  BY EmitPush DEF SInv
<1> QED BY <1>1, <1>2, OperandKeeps
(* A name that is accepted is a variable's.                                *)
LEMMA NameIsDeclared ==
  ASSUME Reads("name")
  PROVE  /\ Declared(Value(0)) /\ status = "compiling" /\ Kind(0) # "end"
         /\ Token(1) = Sym("[") => ~BadElement
<1>1. Token(0) # Sym(";") /\ ~Refused /\ Kind(0) = "name" /\ status = "compiling"
  BY KindOf DEF Reads
<1>2. Token(0) # End
  BY <1>1, KindOf
<1> QED BY <1>1, <1>2 DEF Refused, UnknownName

LEMMA ReadVariableKeeps == SInv /\ Quiet /\ ReadVariable => SInv'
<1> SUFFICES ASSUME SInv, Quiet, ReadVariable PROVE SInv'
  OBVIOUS
<1> DEFINE cells == LoadVar(find_variable(Value(0)))
<1>1. Declared(Value(0)) /\ status = "compiling" /\ Kind(0) # "end"
  BY NameIsDeclared DEF ReadVariable
<1>2. Operand(cells)
  BY DEF ReadVariable
<1>3. Extends(out, out \o cells, symbol_table) /\ IsSeq(cells)
  BY <1>1, LoadIs DEF SInv
<1> HIDE DEF cells
<1> QED BY <1>1, <1>2, <1>3, OperandKeeps

LEMMA NothingWritten ==
  ASSUME SInv, UNCHANGED <<out, symbol_table>>
  PROVE  Extends(out, out', symbol_table')
BY GrowsNothing DEF SInv, Extends, CodeOK

(* Steps that write what was pending.                                      *)
LEMMA OperatorKeeps == SInv /\ Quiet /\ (AddOperator \/ MulOperator \/ Compare) => SInv'
<1> SUFFICES ASSUME SInv, Quiet, AddOperator \/ MulOperator \/ Compare PROVE SInv'
  OBVIOUS
<1>1. /\ status = "compiling" /\ Kind(0) # "end" /\ s_ptr' = s_ptr + (0 + 1)
      /\ UNCHANGED <<source, status, var_store, expect_print, paren_depth,
                     symbol_table, scopes>>
  BY DEF AddOperator, MulOperator, Compare, Reads, Skip
<1>2. TokenOK(Token(0))
  BY <1>1, InSource DEF SInv
<1>3. /\ AddOperator => Value(0) \in {"ADD", "SUB"}
      /\ MulOperator => Value(0) \in {"MUL", "DIV", "MOD"}
      /\ Compare => Value(0) \in Comparison
  BY <1>2 DEF AddOperator, MulOperator, Compare, Reads, Kind, Value, TokenOK
<1>4. PendingOK'
  BY <1>3 DEF SInv, PendingOK, NoneOr, AddOperator, MulOperator, Compare
<1>5. Extends(out, out', symbol_table)
  <2>1. CASE AddOperator
    BY <2>1, PendingIs DEF SInv, AddOperator, Emit
  <2>2. CASE MulOperator
    BY <2>2, PendingIs DEF SInv, MulOperator, Emit
  <2>3. CASE Compare
    BY <2>3, EmitProduct DEF SInv, Compare, Emit
  <2> QED BY <2>1, <2>2, <2>3
<1>6. ReaderOK'
  BY <1>1, ReadsOn DEF SInv, ReaderOK
<1>7. TableOK'
  BY <1>1 DEF SInv, TableOK
<1> QED BY <1>1, <1>4, <1>5, <1>6, <1>7, StraightKeeps DEF Straight, Quiet

(* Steps that write nothing and leave the scopes alone.                    *)
LEMMA SilentKeeps ==
  SInv /\ Quiet /\ (OpenParen \/ Comment \/ BeginPrint \/ OpenBrace) => SInv'
<1> SUFFICES ASSUME SInv, Quiet, OpenParen \/ Comment \/ BeginPrint \/ OpenBrace
             PROVE  SInv'
  OBVIOUS
<1>1. /\ status = "compiling" /\ Kind(0) # "end" /\ s_ptr' = s_ptr + (0 + 1)
      /\ UNCHANGED <<source, out, status, p_add_sub, p_mul_div, p_cmp, var_store,
                     symbol_table, scopes>>
      /\ paren_depth' \in {paren_depth, paren_depth + 1}
      /\ expect_print' \in {expect_print, 1}
  <2>1. status = "compiling" /\ Kind(0) # "end"
    BY ReadsThe, SymAndKey DEF OpenParen, Comment, BeginPrint, OpenBrace, Reads
  <2>2. s_ptr' = s_ptr + (0 + 1)
    BY ZeroAndOne DEF OpenParen, Comment, BeginPrint, OpenBrace, Skip
  <2>3. UNCHANGED <<source, out, status, p_add_sub, p_mul_div, p_cmp, var_store,
                    symbol_table, scopes>>
    BY DEF OpenParen, Comment, BeginPrint, OpenBrace, pending
  <2>4. paren_depth' \in {paren_depth, paren_depth + 1} /\ expect_print' \in {expect_print, 1}
    BY DEF OpenParen, Comment, BeginPrint, OpenBrace
  <2> QED BY <2>1, <2>2, <2>3, <2>4
<1>2. ReaderOK'
  BY <1>1, ReadsOn DEF SInv, ReaderOK
<1>3. PendingOK' /\ TableOK'
  BY <1>1 DEF SInv, PendingOK, TableOK
<1> QED BY <1>1, <1>2, <1>3, NothingWritten, StraightKeeps DEF Straight, Quiet

LEMMA StopKeeps ==
  SInv /\ Quiet /\ (error_exit \/ Overflow \/ CloseUnconditional) => SInv'
<1> SUFFICES ASSUME SInv, Quiet, error_exit \/ Overflow \/ CloseUnconditional
             PROVE  SInv'
  OBVIOUS
<1>1. /\ status = "compiling" /\ status' \in {"error", "broken"}
      /\ UNCHANGED <<source, s_ptr, out, p_add_sub, p_mul_div, p_cmp, var_store,
                     expect_print, paren_depth, symbol_table, scopes>>
  BY DEF error_exit, Overflow, CloseUnconditional, Reads, ReadsToken, pending
<1>2. PendingOK' /\ TableOK' /\ ReaderOK'
  BY <1>1 DEF SInv, PendingOK, TableOK, ReaderOK
<1> QED BY <1>1, <1>2, NothingWritten, StraightKeeps DEF Straight, Quiet

LEMMA ThreeAndTwo ==
  \A a, b, c, d, e : <<a, b, c>> \o <<d, e>> = <<a, b, c, d, e>>
<1> SUFFICES ASSUME NEW a, NEW b, NEW c, NEW d, NEW e
             PROVE  <<a, b, c>> \o <<d, e>> = <<a, b, c, d, e>>
  OBVIOUS
<1> DEFINE s == <<a, b, c>>
           r == <<d, e>>
           all == <<a, b, c, d, e>>
           All == {a, b, c, d, e}
<1>1. /\ s \in Seq(All) /\ Len(s) = 3 /\ s[1] = a /\ s[2] = b /\ s[3] = c
      /\ r \in Seq(All) /\ Len(r) = 2 /\ r[1] = d /\ r[2] = e
      /\ all \in Seq(All) /\ Len(all) = 5
      /\ all[1] = a /\ all[2] = b /\ all[3] = c /\ all[4] = d /\ all[5] = e
  OBVIOUS
<1> HIDE DEF s, r, all, All
<1>2. /\ s \o r \in Seq(All) /\ Len(s \o r) = 5
      /\ \A i \in 1 .. 3 : (s \o r)[i] = s[i]
      /\ \A i \in 1 .. 2 : (s \o r)[3 + i] = r[i]
  <2>1. IsSeq(s) /\ IsSeq(r)
    BY <1>1, SeqOf
  <2>2. /\ Len(s \o r) = 3 + 2
        /\ \A i \in 1 .. 3 : (s \o r)[i] = s[i]
        /\ \A i \in 1 .. 2 : (s \o r)[3 + i] = r[i]
    <3>1. /\ Len(s \o r) = Len(s) + Len(r)
          /\ \A i \in 1 .. Len(s) : (s \o r)[i] = s[i]
          /\ \A i \in 1 .. Len(r) : (s \o r)[Len(s) + i] = r[i]
      BY <2>1, Joined
    <3> QED BY <1>1, <3>1
  <2>3. s \o r \in Seq(All)
    BY <1>1
  <2> QED BY <2>2, <2>3
<1>3. \A i \in 1 .. 5 : i \in {1, 2, 3, 4, 5}
  OBVIOUS
<1>4. /\ (s \o r)[1] = a /\ (s \o r)[2] = b /\ (s \o r)[3] = c
      /\ (s \o r)[4] = d /\ (s \o r)[5] = e
  <2>1. (s \o r)[3 + 1] = d /\ (s \o r)[3 + 2] = e
    BY <1>1, <1>2
  <2> QED BY <1>1, <1>2, <2>1
<1>5. \A i \in 1 .. Len(all) : (s \o r)[i] = all[i]
  BY <1>1, <1>3, <1>4
<1>6. s \o r = all
  BY <1>1, <1>2, <1>5, SeqEqual
<1> QED BY <1>6 DEF s, r, all

(* A string, and a jump over it.                                           *)
LEMMA StringKeeps == SInv /\ Quiet /\ String => SInv'
<1> SUFFICES ASSUME SInv, Quiet, String PROVE SInv'
  OBVIOUS
<1> DEFINE skip == <<Op("JMP"), Addr(Here(out) + 3), Text(Value(0))>>
           v    == One * (Here(out) + 2)
           push == <<Op("PUSH"), Const(v)>>
<1>1. /\ status = "compiling" /\ Kind(0) # "end" /\ s_ptr' = s_ptr + (0 + 1)
      /\ UNCHANGED <<source, status, p_add_sub, p_mul_div, p_cmp, var_store,
                     paren_depth, symbol_table, scopes>>
      /\ expect_print' \in {0, 2}
  BY DEF String, Reads, Skip, pending
<1>2. out' = out \o (skip \o push)
  <2>1. skip \o push = <<Op("JMP"), Addr(Here(out) + 3), Text(Value(0)),
                         Op("PUSH"), Const(v)>>
    BY ThreeAndTwo
  <2> QED BY <2>1 DEF String, Emit
<1>3. Extends(out, out \o skip, symbol_table) /\ IsSeq(skip)
  BY EmitSkip DEF SInv
<1> HIDE DEF skip, v
<1>4. Extends(out \o skip, (out \o skip) \o push, symbol_table) /\ IsSeq(push)
  BY <1>3, EmitPush DEF Extends
<1> HIDE DEF push
<1>5. Extends(out, out', symbol_table)
  BY <1>2, <1>3, <1>4, EmitBoth DEF SInv, CodeOK
<1>6. ReaderOK'
  BY <1>1, ReadsOn DEF SInv, ReaderOK
<1>7. PendingOK' /\ TableOK'
  BY <1>1 DEF SInv, PendingOK, TableOK
<1> QED BY <1>1, <1>5, <1>6, <1>7, StraightKeeps DEF Straight, Quiet

(* What ';' stores.                                                        *)
LEMMA StoredIs ==
  ASSUME SInv, NEW code, CodeOK(code, symbol_table)
  PROVE  Extends(code, code \o Stored, symbol_table) /\ IsSeq(Stored)
<1>1. CASE var_store = ArrayElement
  <2>1. Stored = <<Op("ARRAY_SET")>> /\ Stored \in Seq({Op("ARRAY_SET")})
    BY <1>1 DEF Stored
  <2>2. Alone("ARRAY_SET")
    BY DEF Alone, Jumps, OnVar, VarVar, VarConst
  <2> QED BY <2>1, <2>2, EmitAlone, SeqOf
<1>2. CASE var_store = NoVar
  <2>1. Stored = << >> /\ Stored \in Seq({})
    BY <1>2, EmptySeq DEF Stored, NoVar, ArrayElement
  <2> QED BY <2>1, SeqOf, JoinedNothing, GrowsNothing DEF Extends, CodeOK
<1>3. CASE var_store \notin {ArrayElement, NoVar}
  <2>1. Stored = <<TypedOp("STORE", TypeOf(var_store)), Var(var_store)>>
    BY <1>3 DEF Stored
  <2>2. Len(symbol_table) \in Nat
    BY LenOf DEF SInv, TableOK
  <2>3. var_store \in 0 .. Len(symbol_table) - 1
    BY <1>3, <2>2 DEF SInv, ReaderOK, NoVar, ArrayElement
  <2>4. "STORE" \in OnVar /\ TypeOf(var_store) = symbol_table[var_store + 1].type
    BY DEF OnVar, TypeOf
  <2> QED BY <2>1, <2>3, <2>4, EmitOnVar
<1> QED BY <1>1, <1>2, <1>3

LEMMA SemicolonKeeps == SInv /\ Quiet /\ Semicolon => SInv'
<1> SUFFICES ASSUME SInv, Quiet, Semicolon PROVE SInv'
  OBVIOUS
<1>1. /\ status = "compiling" /\ Kind(0) # "end" /\ s_ptr' = s_ptr + (0 + 1)
      /\ UNCHANGED <<source, status, expect_print, paren_depth, symbol_table, scopes>>
      /\ p_mul_div' = << >> /\ p_add_sub' = << >> /\ p_cmp' = << >> /\ var_store' = NoVar
      /\ out' = out \o (Flushed \o Stored)
  <2>1. status = "compiling" /\ Kind(0) # "end"
    BY ReadsThe, SymAndKey DEF Semicolon
  <2>2. /\ UNCHANGED <<source, status, expect_print, paren_depth, symbol_table, scopes>>
        /\ p_mul_div' = << >> /\ p_add_sub' = << >> /\ p_cmp' = << >> /\ var_store' = NoVar
    BY DEF Semicolon, Flush
  <2>3. s_ptr' = s_ptr + (0 + 1) /\ out' = out \o (Flushed \o Stored)
    BY ZeroAndOne DEF Semicolon, Skip, Emit
  <2> QED BY <2>1, <2>2, <2>3
<1>2. Extends(out, out \o Flushed, symbol_table) /\ IsSeq(Flushed)
  BY EmitFlushed DEF SInv
<1>3. Extends(out \o Flushed, (out \o Flushed) \o Stored, symbol_table) /\ IsSeq(Stored)
  BY <1>2, StoredIs DEF Extends
<1>4. Extends(out, out', symbol_table)
  BY <1>1, <1>2, <1>3, EmitBoth DEF SInv, CodeOK
<1>5. ReaderOK'
  <2>1. Len(symbol_table) \in Nat
    BY LenOf DEF SInv, TableOK
  <2>2. var_store' \in -2 .. Len(symbol_table') - 1
    BY <1>1, <2>1 DEF NoVar
  <2> QED BY <1>1, <2>2, ReadsOn DEF SInv, ReaderOK
<1>6. PendingOK' /\ TableOK'
  BY <1>1 DEF SInv, PendingOK, TableOK, NoneOr
<1> QED BY <1>1, <1>4, <1>5, <1>6, StraightKeeps DEF Straight, Quiet
LEMMA OneAndTwo ==
  \A a, b, c : <<a>> \o <<b, c>> = <<a, b, c>>
<1> SUFFICES ASSUME NEW a, NEW b, NEW c PROVE <<a>> \o <<b, c>> = <<a, b, c>>
  OBVIOUS
<1> DEFINE s == <<a>>
           r == <<b, c>>
           all == <<a, b, c>>
           All == {a, b, c}
<1>1. /\ s \in Seq(All) /\ Len(s) = 1 /\ s[1] = a
      /\ r \in Seq(All) /\ Len(r) = 2 /\ r[1] = b /\ r[2] = c
      /\ all \in Seq(All) /\ Len(all) = 3
      /\ all[1] = a /\ all[2] = b /\ all[3] = c
  OBVIOUS
<1> HIDE DEF s, r, all, All
<1>2. /\ s \o r \in Seq(All) /\ Len(s \o r) = 3
      /\ (s \o r)[1] = s[1] /\ (s \o r)[1 + 1] = r[1] /\ (s \o r)[1 + 2] = r[2]
  <2>1. IsSeq(s) /\ IsSeq(r) /\ s \o r \in Seq(All)
    BY <1>1, SeqOf
  <2>2. /\ Len(s \o r) = Len(s) + Len(r)
        /\ \A i \in 1 .. Len(s) : (s \o r)[i] = s[i]
        /\ \A i \in 1 .. Len(r) : (s \o r)[Len(s) + i] = r[i]
    BY <2>1, Joined
  <2> QED BY <1>1, <2>1, <2>2
<1>3. \A i \in 1 .. Len(all) : (s \o r)[i] = all[i]
  BY <1>1, <1>2
<1>4. s \o r = all
  BY <1>1, <1>2, <1>3, SeqEqual
<1> QED BY <1>4 DEF s, r, all

LEMMA TwoAndOne ==
  \A a, b, c : <<a, b>> \o <<c>> = <<a, b, c>>
<1> SUFFICES ASSUME NEW a, NEW b, NEW c PROVE <<a, b>> \o <<c>> = <<a, b, c>>
  OBVIOUS
<1> DEFINE s == <<a, b>>
           r == <<c>>
           all == <<a, b, c>>
           All == {a, b, c}
<1>1. /\ s \in Seq(All) /\ Len(s) = 2 /\ s[1] = a /\ s[2] = b
      /\ r \in Seq(All) /\ Len(r) = 1 /\ r[1] = c
      /\ all \in Seq(All) /\ Len(all) = 3
      /\ all[1] = a /\ all[2] = b /\ all[3] = c
  OBVIOUS
<1> HIDE DEF s, r, all, All
<1>2. /\ s \o r \in Seq(All) /\ Len(s \o r) = 3
      /\ (s \o r)[1] = s[1] /\ (s \o r)[2] = s[2] /\ (s \o r)[2 + 1] = r[1]
  <2>1. IsSeq(s) /\ IsSeq(r) /\ s \o r \in Seq(All)
    BY <1>1, SeqOf
  <2>2. /\ Len(s \o r) = Len(s) + Len(r)
        /\ \A i \in 1 .. Len(s) : (s \o r)[i] = s[i]
        /\ \A i \in 1 .. Len(r) : (s \o r)[Len(s) + i] = r[i]
    BY <2>1, Joined
  <2> QED BY <1>1, <2>1, <2>2
<1>3. \A i \in 1 .. Len(all) : (s \o r)[i] = all[i]
  BY <1>1, <1>2
<1>4. s \o r = all
  BY <1>1, <1>2, <1>3, SeqEqual
<1> QED BY <1>4 DEF s, r, all

(* Statements that are emitted at once.                                    *)
LEMMA AtOnceKeeps ==
  ASSUME SInv, Quiet, status = "compiling", NEW cells, NEW n \in Nat, Kind(n) # "end",
         Extends(out, out \o cells, symbol_table), AtOnce(cells, n + 1)
  PROVE  SInv'
<1>1. /\ out' = out \o cells /\ s_ptr' = s_ptr + (n + 1)
      /\ UNCHANGED <<source, status, p_add_sub, p_mul_div, p_cmp, var_store, expect_print,
                     paren_depth, symbol_table, scopes>>
  BY DEF AtOnce, Emit, Skip, pending
<1>2. PendingOK' /\ TableOK'
  BY <1>1 DEF SInv, PendingOK, TableOK
<1>3. ReaderOK'
  BY <1>1, ReadsOn DEF SInv, ReaderOK
<1> QED BY <1>1, <1>2, <1>3, StraightKeeps DEF Straight, Quiet

LEMMA InputIntoKeeps == SInv /\ Quiet /\ InputInto => SInv'
<1> SUFFICES ASSUME SInv, Quiet, InputInto PROVE SInv'
  OBVIOUS
<1> DEFINE idx   == find_variable(Value(2))
           store == <<TypedOp("STORE", "let"), Var(idx)>>
           input == <<Op("INPUT")>>
<1>1. /\ status = "compiling" /\ Token(0) = Key("input") /\ ~Refused
  BY ReadsThe, SymAndKey DEF InputInto
<1>2. Token(0) # End /\ Token(0) # Sym(";") /\ Token(3) = Sym(")") /\ Declared(Value(2))
  <2>1. Token(0) # End /\ Token(0) # Sym(";")
    BY <1>1, KindOf
  <2> QED BY <1>1, <2>1 DEF Refused, BadInput
<1>3. Kind(3) # "end"
  BY <1>2, KindOf
<1>4. idx \in 0 .. Len(symbol_table) - 1
  BY <1>2, Found DEF SInv
<1> HIDE DEF idx
<1>5. Extends(out, out \o input, symbol_table) /\ IsSeq(input)
  <2>1. Alone("INPUT") /\ input \in Seq({Op("INPUT")})
    BY DEF Alone, Jumps, OnVar, VarVar, VarConst
  <2> QED BY <2>1, EmitAlone, SeqOf DEF SInv
<1>6. Extends(out \o input, (out \o input) \o store, symbol_table) /\ IsSeq(store)
  <2>1. "STORE" \in OnVar
    BY DEF OnVar
  <2> QED BY <1>4, <1>5, <2>1, EmitOnVar DEF Extends
<1>7. input \o store = <<Op("INPUT"), Op("STORE"), Var(idx)>>
  <2>1. \A a, b, c : <<a>> \o <<b, c>> = <<a, b, c>>
    BY OneAndTwo
  <2> QED BY <2>1 DEF Op
<1> HIDE DEF input, store
<1>8. Extends(out, out \o (input \o store), symbol_table)
  BY <1>5, <1>6, EmitBoth DEF SInv, CodeOK
<1>9. AtOnce(input \o store, 3 + 1)
  <2>1. AtOnce(<<Op("INPUT"), Op("STORE"), Var(idx)>>, 4) /\ 3 + 1 = 4
    BY DEF InputInto, idx
  <2> QED BY <1>7, <2>1
<1> QED BY <1>1, <1>3, <1>8, <1>9, AtOnceKeeps

LEMMA IncDecKeeps == SInv /\ Quiet /\ IncDec => SInv'
<1> SUFFICES ASSUME SInv, Quiet, IncDec PROVE SInv'
  OBVIOUS
<1> DEFINE idx   == find_variable(Value(0))
           cells == <<TypedOp(Value(1), TypeOf(idx)), Var(idx)>>
<1>1. Declared(Value(0)) /\ status = "compiling" /\ Kind(1) = "step"
  BY NameIsDeclared DEF IncDec
<1>2. Value(1) \in {"INC", "DEC"}
  BY <1>1, InSource DEF SInv, Kind, Value, TokenOK
<1>3. idx \in 0 .. Len(symbol_table) - 1 /\ TypeOf(idx) = symbol_table[idx + 1].type
  BY <1>1, Found DEF SInv
<1>4. AtOnce(cells, 1 + 1)
  <2>1. 1 + 1 = 2
    OBVIOUS
  <2> QED BY <2>1 DEF IncDec
<1> HIDE DEF idx
<1>5. Extends(out, out \o cells, symbol_table)
  BY <1>2, <1>3, EmitOnVar DEF SInv, OnVar
<1> HIDE DEF cells
<1> QED BY <1>1, <1>4, <1>5, AtOnceKeeps

LEMMA UpdateAtOnceKeeps == SInv /\ Quiet /\ UpdateAtOnce => SInv'
<1> SUFFICES ASSUME SInv, Quiet, UpdateAtOnce PROVE SInv'
  OBVIOUS
<1> DEFINE idx   == find_variable(Value(0))
           src   == find_variable(Value(2))
           number == IF TypeOf(idx) = "int" THEN Truncated(Value(2)) ELSE Value(2)
           type  == IF TypeOf(src) = "int" THEN TypeOf(idx) ELSE "let"
           byConst == <<TypedOp(ByConst(Value(1)), TypeOf(idx)), Var(idx), Const(number)>>
           byVar   == <<TypedOp(ByVar(Value(1)), type), Var(idx), Var(src)>>
<1>1. Declared(Value(0)) /\ status = "compiling" /\ 2 + 1 = 3
  BY NameIsDeclared DEF UpdateAtOnce
<1>2. \/ Kind(2) = "num" /\ AtOnce(byConst, 3)
      \/ Kind(2) = "name" /\ Declared(Value(2)) /\ AtOnce(byVar, 3)
  BY DEF UpdateAtOnce
<1>3. idx \in 0 .. Len(symbol_table) - 1 /\ TypeOf(idx) = symbol_table[idx + 1].type
  BY <1>1, Found DEF SInv
<1>4. Declared(Value(2)) =>
        src \in 0 .. Len(symbol_table) - 1 /\ TypeOf(src) = symbol_table[src + 1].type
  BY Found DEF SInv
<1> HIDE DEF idx, src, number
<1>5. Extends(out, out \o byConst, symbol_table)
  <2>1. ByConst(Value(1)) \in VarConst
    BY DEF ByConst, VarConst
  <2> QED BY <1>3, <2>1, EmitVarConst DEF SInv
<1>6. Declared(Value(2)) => Extends(out, out \o byVar, symbol_table)
  <2>1. ByVar(Value(1)) \in VarVar
    BY DEF ByVar, VarVar
  <2>2. Declared(Value(2)) /\ type = "int" =>
          symbol_table[idx + 1].type = "int" /\ symbol_table[src + 1].type = "int"
    BY <1>3, <1>4
  <2> HIDE DEF type
  <2> QED BY <1>3, <1>4, <2>1, <2>2, EmitVarVar DEF SInv
<1> HIDE DEF byConst, byVar
<1> QED BY <1>1, <1>2, <1>5, <1>6, AtOnceKeeps

LEMMA UpdateByRestKeeps == SInv /\ Quiet /\ UpdateByRest => SInv'
<1> SUFFICES ASSUME SInv, Quiet, UpdateByRest PROVE SInv'
  OBVIOUS
<1> DEFINE idx == find_variable(Value(0))
<1>1. Declared(Value(0)) /\ status = "compiling" /\ Kind(1) = "update"
  BY NameIsDeclared DEF UpdateByRest
<1>2. Value(1) \in {"ADD", "SUB", "MUL"}
  BY <1>1, InSource DEF SInv, Kind, Value, TokenOK
<1>3. idx \in 0 .. Len(symbol_table) - 1
  BY <1>1, Found DEF SInv
<1>4. Extends(out, out \o LoadVar(idx), symbol_table)
  BY <1>1, LoadIs DEF SInv
<1>5. /\ out' = out \o LoadVar(idx) /\ var_store' = idx
      /\ UNCHANGED <<source, status, p_cmp, expect_print, paren_depth, symbol_table, scopes>>
      /\ \/ Value(1) = "MUL" /\ p_mul_div' = <<Op("MUL")>> /\ UNCHANGED p_add_sub
         \/ Value(1) # "MUL" /\ p_add_sub' = <<Op(Value(1))>> /\ UNCHANGED p_mul_div
  BY DEF UpdateByRest, Emit
<1>6. s_ptr' = s_ptr + (1 + 1)
  <2>1. 1 + 1 = 2
    OBVIOUS
  <2> QED BY <2>1 DEF UpdateByRest, Skip
<1> HIDE DEF idx
<1>7. PendingOK' /\ TableOK'
  BY <1>2, <1>5 DEF SInv, PendingOK, TableOK, NoneOr
<1>8. ReaderOK'
  <2>1. Len(symbol_table) \in Nat
    BY LenOf DEF SInv, TableOK
  <2>2. var_store' \in -2 .. Len(symbol_table') - 1
    BY <1>3, <1>5, <2>1
  <2> QED BY <1>1, <1>5, <1>6, <2>2, ReadsOn DEF SInv, ReaderOK
<1> QED BY <1>1, <1>4, <1>5, <1>7, <1>8, StraightKeeps DEF Straight, Quiet

LEMMA AssignKeeps == SInv /\ Quiet /\ Assign => SInv'
<1> SUFFICES ASSUME SInv, Quiet, Assign PROVE SInv'
  OBVIOUS
<1>1. Declared(Value(0)) /\ status = "compiling" /\ Token(1) = Sym("=")
  BY NameIsDeclared DEF Assign
<1>2. /\ var_store' = find_variable(Value(0))
      /\ UNCHANGED <<source, out, status, p_add_sub, p_mul_div, p_cmp, expect_print,
                     paren_depth, symbol_table, scopes>>
  BY DEF Assign, pending
<1>3. s_ptr' = s_ptr + (1 + 1)
  <2>1. 1 + 1 = 2
    OBVIOUS
  <2> QED BY <2>1 DEF Assign, Skip
<1>4. Kind(1) # "end"
  BY <1>1, KindOf
<1>5. ReaderOK'
  <2>1. Len(symbol_table) \in Nat /\ find_variable(Value(0)) \in 0 .. Len(symbol_table) - 1
    BY <1>1, LenOf, Found DEF SInv, TableOK
  <2>2. var_store' \in -2 .. Len(symbol_table') - 1
    BY <1>2, <2>1
  <2> QED BY <1>2, <1>3, <1>4, <2>2, ReadsOn DEF SInv, ReaderOK
<1>6. PendingOK' /\ TableOK'
  BY <1>2 DEF SInv, PendingOK, TableOK
<1> QED BY <1>1, <1>2, <1>5, <1>6, NothingWritten, StraightKeeps DEF Straight, Quiet
(* Cells that may be written after any code.                               *)
Emits(s, table) ==
  IsSeq(s) /\ \A code : CodeOK(code, table) => Extends(code, code \o s, table)

LEMMA EmitsBoth ==
  ASSUME NEW s, NEW t, NEW table, Emits(s, table), Emits(t, table)
  PROVE  Emits(s \o t, table)
<1>1. ASSUME NEW code, CodeOK(code, table) PROVE Extends(code, code \o (s \o t), table)
  <2>1. Extends(code, code \o s, table) /\ Extends(code \o s, (code \o s) \o t, table)
    BY <1>1 DEF Emits, Extends
  <2> QED BY <1>1, <2>1, EmitBoth DEF Emits, CodeOK
<1>2. IsSeq(s \o t)
  BY Joined DEF Emits
<1> QED BY <1>1, <1>2 DEF Emits

LEMMA EmitsNothing == \A table : Emits(<< >>, table)
<1>1. << >> \in Seq({})
  BY EmptySeq
<1> QED BY <1>1, SeqOf, JoinedNothing, GrowsNothing DEF Emits, Extends, CodeOK

LEMMA EmitsAlone ==
  ASSUME NEW table, NEW name, Alone(name) PROVE Emits(<<Op(name)>>, table)
<1>1. <<Op(name)>> \in Seq({Op(name)})
  OBVIOUS
<1> QED BY <1>1, SeqOf, EmitAlone DEF Emits

LEMMA EmitsPush ==
  ASSUME NEW table, NEW v PROVE Emits(<<Op("PUSH"), Const(v)>>, table)
<1>1. <<Op("PUSH"), Const(v)>> \in Seq({Op("PUSH"), Const(v)})
  OBVIOUS
<1>2. IsSeq(<<Op("PUSH"), Const(v)>>)
  BY <1>1, SeqOf
<1>3. \A code : CodeOK(code, table) => Extends(code, code \o <<Op("PUSH"), Const(v)>>, table)
  BY EmitPush
<1> QED BY <1>2, <1>3 DEF Emits

LEMMA EmitsOnVar ==
  ASSUME NEW table, NEW name \in OnVar, NEW type,
         NEW idx \in 0 .. Len(table) - 1, type = "int" => table[idx + 1].type = "int"
  PROVE  Emits(<<TypedOp(name, type), Var(idx)>>, table)
<1> DEFINE s == <<TypedOp(name, type), Var(idx)>>
<1>1. s \in Seq({TypedOp(name, type), Var(idx)})
  OBVIOUS
<1>2. \A code : CodeOK(code, table) => Extends(code, code \o s, table)
  BY EmitOnVar
<1> HIDE DEF s
<1>3. IsSeq(s)
  BY <1>1, SeqOf
<1>4. Emits(s, table)
  BY <1>2, <1>3 DEF Emits
<1> QED BY <1>4 DEF s

LEMMA EmitsLoad ==
  ASSUME SInv, NEW name, Declared(name)
  PROVE  Emits(LoadVar(find_variable(name)), symbol_table)
<1>1. /\ find_variable(name) \in 0 .. Len(symbol_table) - 1
      /\ TypeOf(find_variable(name)) = symbol_table[find_variable(name) + 1].type
      /\ "LOAD" \in OnVar
  BY Found DEF SInv, OnVar
<1> QED BY <1>1, EmitsOnVar DEF LoadVar

LEMMA EmitsPending ==
  ASSUME PendingOK, NEW table
  PROVE  Emits(p_mul_div, table) /\ Emits(p_add_sub, table) /\ Emits(Flushed, table)
<1>1. \A names : names \subseteq {"ADD", "SUB", "MUL", "DIV", "MOD"} \cup Comparison =>
        \A p \in NoneOr(names) : Emits(p, table)
  BY EmitsNothing, EmitsAlone, AloneOperators DEF NoneOr
<1>2. Emits(p_mul_div, table) /\ Emits(p_add_sub, table) /\ Emits(p_cmp, table)
  BY <1>1 DEF PendingOK
<1> QED BY <1>2, EmitsBoth DEF Flushed

(* An element, and the code for its index.                                 *)
LEMMA ElementKeeps == SInv /\ Quiet /\ Element => SInv'
<1> SUFFICES ASSUME SInv, Quiet, Element PROVE SInv'
  OBVIOUS
<1> DEFINE base  == <<Op("LOAD"), Var(find_variable(Value(0)))>>
           index == IF IndexLength = 0 THEN << >>
                    ELSE IF Kind(2) = "num" THEN <<Op("PUSH"), Const(Value(2))>>
                    ELSE LoadVar(find_variable(Value(2)))
           get   == <<Op("ARRAY_GET")>>
           n     == IndexLength
<1>1. /\ status = "compiling" /\ Declared(Value(0)) /\ ~BadElement
  BY NameIsDeclared DEF Element
<1>2. /\ IndexLength \in {0, 1} /\ (IndexLength = 1 => Kind(2) \in {"num", "name"})
      /\ Token(2 + IndexLength) = Sym("]") /\ (Kind(2) = "name" => Declared(Value(2)))
  BY <1>1 DEF IndexLength, BadElement
<1>3. Emits(base, symbol_table)
  <2>1. find_variable(Value(0)) \in 0 .. Len(symbol_table) - 1 /\ "LOAD" \in OnVar
    BY <1>1, Found DEF SInv, OnVar
  <2> QED BY <2>1, EmitsOnVar DEF Op
<1>4. Emits(index, symbol_table)
  <2>1. CASE IndexLength = 0
    BY <2>1, EmitsNothing
  <2>2. CASE IndexLength # 0 /\ Kind(2) = "num"
    BY <2>2, EmitsPush
  <2>3. CASE IndexLength # 0 /\ Kind(2) # "num"
    BY <1>2, <2>3, EmitsLoad
  <2> QED BY <2>1, <2>2, <2>3
<1>5. Emits(get, symbol_table)
  <2>1. Alone("ARRAY_GET")
    BY DEF Alone, Jumps, OnVar, VarVar, VarConst
  <2> QED BY <2>1, EmitsAlone
<1>6. /\ \/ /\ Token(3 + n) = Sym("=") /\ out' = out \o (base \o index)
            /\ var_store' = ArrayElement /\ s_ptr' = s_ptr + (4 + n)
            /\ UNCHANGED <<p_add_sub, p_mul_div, p_cmp>>
         \/ /\ out' = out \o (base \o index \o get \o p_mul_div \o p_add_sub)
            /\ p_mul_div' = << >> /\ p_add_sub' = << >> /\ s_ptr' = s_ptr + (3 + n)
            /\ UNCHANGED <<var_store, p_cmp>>
      /\ UNCHANGED <<source, status, expect_print, paren_depth, symbol_table, scopes>>
  BY DEF Element, Emit, Skip, pending
<1> HIDE DEF base, index, get
<1>7. Emits(base \o index, symbol_table)
      /\ Emits(base \o index \o get \o p_mul_div \o p_add_sub, symbol_table)
  BY <1>3, <1>4, <1>5, EmitsBoth, EmitsPending DEF SInv
<1>8. Extends(out, out', symbol_table')
  BY <1>6, <1>7 DEF SInv, Emits
<1>9. PendingOK' /\ TableOK'
  BY <1>6 DEF SInv, PendingOK, TableOK, NoneOr
<1>10. ReaderOK'
  <2>1. Len(symbol_table) \in Nat
    BY LenOf DEF SInv, TableOK
  <2>2. var_store' \in -2 .. Len(symbol_table') - 1
    BY <1>6, <2>1 DEF SInv, ReaderOK, ArrayElement
  <2>3. Kind(2 + n) # "end" /\ (Token(3 + n) = Sym("=") => Kind(3 + n) # "end")
    BY <1>2, KindOf
  <2>4. /\ 2 + n \in Nat /\ 3 + n \in Nat
        /\ 3 + n = (2 + n) + 1 /\ 4 + n = (3 + n) + 1
    BY <1>2
  <2> HIDE DEF n
  <2> QED BY <1>6, <2>2, <2>3, <2>4, ReadsOn DEF SInv, ReaderOK
<1> QED BY <1>1, <1>6, <1>8, <1>9, <1>10, StraightKeeps DEF Straight, Quiet
(* A declaration: the table may have one name more.                        *)
LEMMA DeclareKeeps == SInv /\ Quiet /\ Declare => SInv'
<1> SUFFICES ASSUME SInv, Quiet, Declare PROVE SInv'
  OBVIOUS
<1> DEFINE n    == 1 + NameTokens
           idx  == IF Declared(NewName) THEN find_variable(NewName)
                   ELSE Len(symbol_table)
           push == <<Op("PUSH"), Const(Value(n + 2))>>
           make == <<Op("ARRAY_MAKE")>>
           store == <<TypedOp("STORE", "let"), Var(idx)>>
<1>1. PICK type \in VarType : Token(0) = Key(type)
  BY DEF Declare
<1>2. /\ status = "compiling" /\ ~Refused /\ Value(0) = type /\ Kind(0) # "end"
      /\ Token(0) # End /\ Token(0) # Sym(";")
  BY <1>1, KindOf DEF Declare, Reads
<1>3. /\ Token(n) = Sym("=") /\ Token(n + 1) = Sym("[") => Token(n + 3) = Sym("]")
      /\ ~Declared(NewName) => Len(symbol_table) # Symbols
  <2>1. Token(0) \in {Key("let"), Key("int")}
    BY <1>1 DEF VarType
  <2>2. /\ ~(Token(n) = Sym("=") /\ Token(n + 1) = Sym("[") /\ BadArray(n + 2))
        /\ ~(~Declared(NewName) /\ Len(symbol_table) = Symbols)
    BY <1>2, <2>1 DEF Refused, BadDeclaration
  <2>3. NameTokens \in {0, 1}
    BY DEF NameTokens
  <2>4. (n + 2) + 1 = n + 3
    BY <2>3
  <2> QED BY <2>2, <2>4 DEF BadArray
<1>4. /\ NameTokens \in {0, 1} /\ n \in Nat /\ n > 0
      /\ Kind(n - 1) # "end"
  <2>1. NameTokens \in {0, 1} /\ (NameTokens = 1 => Kind(1) # "end")
    BY DEF NameTokens
  <2>2. n \in Nat /\ n > 0 /\ n - 1 = NameTokens
    BY <2>1
  <2> QED BY <1>2, <2>1, <2>2
<1>5. /\ symbol_table' = IF Declared(NewName) THEN symbol_table
                         ELSE Append(symbol_table, [name |-> NewName, type |-> type])
      /\ UNCHANGED <<source, status, p_add_sub, p_mul_div, p_cmp, expect_print,
                     paren_depth, scopes>>
      /\ \/ s_ptr' = s_ptr + n /\ UNCHANGED <<out, var_store>>
         \/ /\ Token(n) = Sym("=") /\ var_store' = idx /\ s_ptr' = s_ptr + (n + 1)
            /\ UNCHANGED out
         \/ /\ Token(n) = Sym("=") /\ Token(n + 1) = Sym("[")
            /\ out' = out \o <<Op("PUSH"), Const(Value(n + 2)), Op("ARRAY_MAKE"),
                               Op("STORE"), Var(idx)>>
            /\ s_ptr' = s_ptr + (n + 4) /\ UNCHANGED var_store
  BY <1>2 DEF Declare, Emit, Skip, pending
<1>6. IsSeq(symbol_table) /\ Len(symbol_table) \in Nat /\ Len(symbol_table) <= Symbols
      /\ Symbols \in Nat
  BY LenOf, StellarAssumption DEF SInv, TableOK
<1>7. /\ CodeOK(out, symbol_table') /\ TableOK' /\ idx \in 0 .. Len(symbol_table') - 1
      /\ Len(symbol_table') >= Len(symbol_table) /\ Len(symbol_table') \in Nat
  <2>1. CASE Declared(NewName)
    BY <1>5, <1>6, <2>1, Found DEF SInv, TableOK
  <2>2. CASE ~Declared(NewName)
    <3> DEFINE x == [name |-> NewName, type |-> type]
    <3>1. symbol_table' = Append(symbol_table, x) /\ idx = Len(symbol_table)
          /\ x.type \in VarType
      BY <1>1, <1>5, <2>2
    <3> HIDE DEF x, idx
    <3>2. /\ IsSeq(symbol_table') /\ Len(symbol_table') = Len(symbol_table) + 1
          /\ \A i \in 1 .. Len(symbol_table) : symbol_table'[i] = symbol_table[i]
          /\ symbol_table'[Len(symbol_table) + 1] = x
      BY <1>6, <3>1, Appended
    <3>3. TableOK'
      BY <1>3, <1>6, <2>2, <3>1, <3>2 DEF SInv, TableOK
    <3>4. CodeOK(out, symbol_table')
      BY <1>6, <3>1, TableGrows DEF SInv
    <3> QED BY <1>6, <3>1, <3>2, <3>3, <3>4
  <2> QED BY <2>1, <2>2
<1>8. Extends(out, out', symbol_table')
  <2>1. CASE UNCHANGED out
    BY <1>7, <2>1, GrowsNothing DEF Extends, CodeOK
  <2>2. CASE out' = out \o <<Op("PUSH"), Const(Value(n + 2)), Op("ARRAY_MAKE"),
                             Op("STORE"), Var(idx)>>
    <3>1. Emits(push, symbol_table')
      BY EmitsPush
    <3>2. Emits(make, symbol_table')
      <4>1. Alone("ARRAY_MAKE")
        BY DEF Alone, Jumps, OnVar, VarVar, VarConst
      <4> QED BY <4>1, EmitsAlone
    <3>3. Emits(store, symbol_table')
      <4>1. "STORE" \in OnVar
        BY DEF OnVar
      <4> HIDE DEF idx
      <4> QED BY <1>7, <4>1, EmitsOnVar
    <3>4. (push \o make) \o store
            = <<Op("PUSH"), Const(Value(n + 2)), Op("ARRAY_MAKE"), Op("STORE"), Var(idx)>>
      <4>1. push \o make = <<Op("PUSH"), Const(Value(n + 2)), Op("ARRAY_MAKE")>>
        BY TwoAndOne
      <4>2. store = <<Op("STORE"), Var(idx)>>
        BY DEF Op
      <4>3. \A a, b, c, d, e : <<a, b, c>> \o <<d, e>> = <<a, b, c, d, e>>
        BY ThreeAndTwo
      <4> HIDE DEF push, make, store, n, idx
      <4> QED BY <4>1, <4>2, <4>3
    <3> HIDE DEF push, make, store
    <3>5. Emits((push \o make) \o store, symbol_table')
      BY <3>1, <3>2, <3>3, EmitsBoth
    <3> QED BY <1>7, <2>2, <3>4, <3>5 DEF Emits
  <2> QED BY <1>5, <2>1, <2>2
<1>9. ReaderOK'
  <2>1. var_store' \in -2 .. Len(symbol_table') - 1
    <3>1. var_store' \in {var_store, idx}
      BY <1>5
    <3> HIDE DEF idx
    <3> QED BY <1>6, <1>7, <3>1 DEF SInv, ReaderOK
  <2>2. /\ s_ptr' \in {s_ptr + n, s_ptr + (n + 1), s_ptr + (n + 4)}
        /\ s_ptr' = s_ptr + (n + 1) => Kind(n) # "end"
        /\ s_ptr' = s_ptr + (n + 4) => Kind(n + 3) # "end"
    <3>1. s_ptr + n # s_ptr + (n + 1) /\ s_ptr + n # s_ptr + (n + 4)
          /\ s_ptr + (n + 1) # s_ptr + (n + 4)
      BY <1>4, LenOf DEF SInv, ReaderOK
    <3>2. /\ Token(n) = Sym("=") => Kind(n) # "end"
          /\ Token(n + 3) = Sym("]") => Kind(n + 3) # "end"
      BY KindOf
    <3> HIDE DEF n
    <3> QED BY <1>3, <1>5, <3>1, <3>2
  <2>3. /\ n - 1 \in Nat /\ n = (n - 1) + 1 /\ n + 3 \in Nat /\ n + 4 = (n + 3) + 1
    BY <1>4
  <2>4. UNCHANGED <<source, expect_print, paren_depth>>
    BY <1>5
  <2> HIDE DEF n, idx
  <2>5. ReaderOK /\ expect_print' \in 0 .. 2 /\ paren_depth' \in Int
    BY <2>4 DEF SInv, ReaderOK
  <2>6. CASE s_ptr' = s_ptr + n
    BY <1>4, <2>1, <2>3, <2>4, <2>5, <2>6, ReadsOn
  <2>7. CASE s_ptr' = s_ptr + (n + 1)
    BY <1>4, <2>1, <2>2, <2>4, <2>5, <2>7, ReadsOn
  <2>8. CASE s_ptr' = s_ptr + (n + 4)
    BY <2>1, <2>2, <2>3, <2>4, <2>5, <2>8, ReadsOn
  <2> QED BY <2>2, <2>6, <2>7, <2>8
<1>10. PendingOK'
  BY <1>5 DEF SInv, PendingOK
<1> QED BY <1>2, <1>5, <1>7, <1>8, <1>9, <1>10, StraightKeeps DEF Straight, Quiet
-----------------------------------------------------------------------------
(* The stacks of addresses that wait.                                      *)

(* new is s with x at place k, if k is one of its places: after a push, a  *)
(* change of the top, a pop or nothing.                                    *)
Renews(new, s, x, k) ==
  /\ IsSeq(new)
  /\ \A i \in 1 .. Len(new) :
       \/ i = k /\ new[i] = x
       \/ i # k /\ i \in 1 .. Len(s) /\ new[i] = s[i]

LEMMA RenewsSame == \A s, x : IsSeq(s) => Renews(s, s, x, 0)
BY LenOf DEF Renews

LEMMA RenewsPop ==
  ASSUME NEW s, IsSeq(s), s # << >> PROVE \A x : Renews(Pop(s), s, x, 0)
BY Popped DEF Renews

LEMMA RenewsPush ==
  ASSUME NEW s, IsSeq(s), NEW x PROVE Renews(Append(s, x), s, x, Len(s) + 1)
BY Appended DEF Renews

LEMMA RenewsTop ==
  ASSUME NEW s, IsSeq(s), s # << >>, NEW x
  PROVE  Renews([s EXCEPT ![Len(s)] = x], s, x, Len(s))
<1>1. Len(s) \in 1 .. Len(s)
  BY EmptySeq DEF IsSeq
<1> DEFINE n == Len(s)
<1>2. n \in 1 .. Len(s)
  BY <1>1
<1> HIDE DEF n
<1>3. /\ IsSeq(Put(s, n, x)) /\ Len(Put(s, n, x)) = Len(s)
      /\ \A i \in 1 .. Len(s) : Put(s, n, x)[i] = IF i = n THEN x ELSE s[i]
  BY <1>2, Replaced
<1>4. Renews(Put(s, n, x), s, x, n)
  BY <1>2, <1>3 DEF Renews
<1> QED BY <1>4 DEF Put, n

(* A stack that keeps or drops its places, and adds a new one, has no      *)
(* place twice.                                                            *)
LEMMA DistinctRenews ==
  ASSUME NEW s, NEW new, NEW x, NEW k, Renews(new, s, x, k), Distinct(s),
         k = 0 \/ x = NoVar \/ \A i \in 1 .. Len(s) : s[i] # x
  PROVE  Distinct(new)
BY DEF Renews, Distinct

LEMMA DisjointRenews ==
  ASSUME NEW s, NEW new, NEW t, NEW x, NEW k, Renews(new, s, x, k),
         k = 0 \/ x = NoVar \/ \A i \in 1 .. Len(t) : t[i] # x
  PROVE  /\ Disjoint(s, t) => Disjoint(new, t)
         /\ Disjoint(t, s) => Disjoint(t, new)
BY DEF Renews, Disjoint

(* Only one of the three stacks gets a new address.                        *)
LEMMA ApartRenews ==
  ASSUME HolesApart, NEW x, NEW k1, NEW k2, NEW k3,
         Renews(if_stack', if_stack, x, k1),
         Renews(exit_jmp_stack', exit_jmp_stack, x, k2),
         Renews(while_exit', while_exit, x, k3),
         (k1 = 0 /\ k2 = 0) \/ (k1 = 0 /\ k3 = 0) \/ (k2 = 0 /\ k3 = 0),
         \/ x = NoVar
         \/ /\ \A i \in 1 .. Len(if_stack) : if_stack[i] # x
            /\ \A i \in 1 .. Len(exit_jmp_stack) : exit_jmp_stack[i] # x
            /\ \A i \in 1 .. Len(while_exit) : while_exit[i] # x
  PROVE  HolesApart'
<1>1. Distinct(if_stack') /\ Distinct(exit_jmp_stack') /\ Distinct(while_exit')
  BY DistinctRenews DEF HolesApart
<1>2. \A i : /\ i \in 1 .. Len(if_stack') /\ k1 = 0 =>
                  i \in 1 .. Len(if_stack) /\ if_stack'[i] = if_stack[i]
             /\ i \in 1 .. Len(exit_jmp_stack') /\ k2 = 0 =>
                  i \in 1 .. Len(exit_jmp_stack) /\ exit_jmp_stack'[i] = exit_jmp_stack[i]
             /\ i \in 1 .. Len(while_exit') /\ k3 = 0 =>
                  i \in 1 .. Len(while_exit) /\ while_exit'[i] = while_exit[i]
  BY LenOf DEF Renews
<1>3. Disjoint(if_stack', exit_jmp_stack')
  <2>1. CASE k1 = 0
    <3>1. Disjoint(if_stack', exit_jmp_stack)
      BY <2>1, DisjointRenews DEF HolesApart
    <3>2. k2 = 0 \/ x = NoVar \/ \A i \in 1 .. Len(if_stack') : if_stack'[i] # x
      BY <1>2, <2>1
    <3> QED BY <3>1, <3>2, DisjointRenews
  <2>2. CASE k2 = 0
    <3>1. Disjoint(if_stack, exit_jmp_stack')
      BY <2>2, DisjointRenews DEF HolesApart
    <3>2. k1 = 0 \/ x = NoVar \/ \A i \in 1 .. Len(exit_jmp_stack') : exit_jmp_stack'[i] # x
      BY <1>2, <2>2
    <3> QED BY <3>1, <3>2, DisjointRenews
  <2> QED BY <2>1, <2>2
<1>4. Disjoint(if_stack', while_exit')
  <2>1. CASE k1 = 0
    <3>1. Disjoint(if_stack', while_exit)
      BY <2>1, DisjointRenews DEF HolesApart
    <3>2. k3 = 0 \/ x = NoVar \/ \A i \in 1 .. Len(if_stack') : if_stack'[i] # x
      BY <1>2, <2>1
    <3> QED BY <3>1, <3>2, DisjointRenews
  <2>2. CASE k3 = 0
    <3>1. Disjoint(if_stack, while_exit')
      BY <2>2, DisjointRenews DEF HolesApart
    <3>2. k1 = 0 \/ x = NoVar \/ \A i \in 1 .. Len(while_exit') : while_exit'[i] # x
      BY <1>2, <2>2
    <3> QED BY <3>1, <3>2, DisjointRenews
  <2> QED BY <2>1, <2>2
<1>5. Disjoint(exit_jmp_stack', while_exit')
  <2>1. CASE k2 = 0
    <3>1. Disjoint(exit_jmp_stack', while_exit)
      BY <2>1, DisjointRenews DEF HolesApart
    <3>2. k3 = 0 \/ x = NoVar \/ \A i \in 1 .. Len(exit_jmp_stack') : exit_jmp_stack'[i] # x
      BY <1>2, <2>1
    <3> QED BY <3>1, <3>2, DisjointRenews
  <2>2. CASE k3 = 0
    <3>1. Disjoint(exit_jmp_stack, while_exit')
      BY <2>2, DisjointRenews DEF HolesApart
    <3>2. k2 = 0 \/ x = NoVar \/ \A i \in 1 .. Len(while_exit') : while_exit'[i] # x
      BY <1>2, <2>2
    <3> QED BY <3>1, <3>2, DisjointRenews
  <2> QED BY <2>1, <2>2
<1> QED BY <1>1, <1>3, <1>4, <1>5 DEF HolesApart

(* The addresses that still wait are not among those that are patched.     *)
LEMMA HolesRenew ==
  ASSUME HolesOK, NEW x, NEW k1, NEW k2, NEW k3, NEW y, NEW k4,
         Renews(if_stack', if_stack, x, k1),
         Renews(exit_jmp_stack', exit_jmp_stack, x, k2),
         Renews(while_exit', while_exit, x, k3),
         Renews(while_start', while_start, y, k4),
         NEW patched, \A h : Hole(out, h) /\ h \notin patched => Hole(out', h),
         \A a : Target(out, a) => Target(out', a),
         \A i \in 1 .. Len(if_stack') : if_stack'[i] \notin patched,
         \A i \in 1 .. Len(exit_jmp_stack') : exit_jmp_stack'[i] \notin patched,
         \A i \in 1 .. Len(while_exit') : while_exit'[i] \notin patched,
         k1 # 0 \/ k2 # 0 => Hole(out', x),
         k3 # 0 => x = NoVar \/ Hole(out', x),
         k4 # 0 => Target(out', y)
  PROVE  HolesOK'
<1>0. /\ 0 \notin 1 .. Len(if_stack') /\ 0 \notin 1 .. Len(exit_jmp_stack')
      /\ 0 \notin 1 .. Len(while_exit') /\ 0 \notin 1 .. Len(while_start')
  BY LenOf DEF Renews
<1>1. \A i \in 1 .. Len(if_stack') : Hole(out', if_stack'[i])
  BY <1>0 DEF HolesOK, Renews
<1>2. \A i \in 1 .. Len(exit_jmp_stack') : Hole(out', exit_jmp_stack'[i])
  BY <1>0 DEF HolesOK, Renews
<1>3. \A i \in 1 .. Len(while_exit') : while_exit'[i] = NoVar \/ Hole(out', while_exit'[i])
  BY <1>0 DEF HolesOK, Renews
<1>4. \A i \in 1 .. Len(while_start') : Target(out', while_start'[i])
  BY <1>0 DEF HolesOK, Renews
<1> QED BY <1>1, <1>2, <1>3, <1>4 DEF HolesOK

(* The parts of the invariant that a step on blocks does not touch.        *)
BlockStep ==
  /\ status = "compiling" /\ status' = "compiling"
  /\ UNCHANGED <<source, symbol_table, machineVars>>

LEMMA BlockKeeps ==
  ASSUME SInv, BlockStep, CodeOK(out', symbol_table), PendingOK', ReaderOK',
         ScopesOK', HolesOK', HolesApart'
  PROVE  SInv'
<1>1. MachineOK'
  BY StillCompiling DEF SInv, BlockStep
<1>2. TableOK'
  BY DEF SInv, BlockStep, TableOK
<1> QED BY <1>1, <1>2 DEF SInv, BlockStep
(* The while blocks among the open ones.                                   *)
LEMMA WhilesFinite ==
  ASSUME NEW s, IsSeq(s) PROVE IsFiniteSet(Whiles(s)) /\ Cardinality(Whiles(s)) \in Nat
<1>1. IsFiniteSet(1 .. Len(s))
  BY LenOf, FS_Interval
<1>2. IsFiniteSet(Whiles(s))
  BY <1>1, FS_Subset DEF Whiles
<1> QED BY <1>2, FS_CardinalityType

LEMMA WhilesPush ==
  ASSUME NEW s, IsSeq(s), NEW x
  PROVE  Cardinality(Whiles(Append(s, x)))
           = Cardinality(Whiles(s)) + (IF x = "while" THEN 1 ELSE 0)
<1>1. /\ Len(Append(s, x)) = Len(s) + 1 /\ Len(s) \in Nat
      /\ \A i \in 1 .. Len(s) : Append(s, x)[i] = s[i]
      /\ Append(s, x)[Len(s) + 1] = x
  BY Appended
<1>2. CASE x = "while"
  <2>1. Whiles(Append(s, x)) = Whiles(s) \cup {Len(s) + 1} /\ Len(s) + 1 \notin Whiles(s)
    BY <1>1, <1>2 DEF Whiles
  <2> QED BY <1>2, <2>1, WhilesFinite, FS_AddElement
<1>3. CASE x # "while"
  <2>1. Whiles(Append(s, x)) = Whiles(s)
    BY <1>1, <1>3 DEF Whiles
  <2> QED BY <1>3, <2>1, WhilesFinite
<1> QED BY <1>2, <1>3

LEMMA WhilesPop ==
  ASSUME NEW s, IsSeq(s), s # << >>
  PROVE  Cardinality(Whiles(s))
           = Cardinality(Whiles(Pop(s))) + (IF TopOf(s) = "while" THEN 1 ELSE 0)
<1>1. /\ IsSeq(Pop(s)) /\ Len(Pop(s)) = Len(s) - 1 /\ Len(s) \in Nat /\ Len(s) > 0
      /\ \A i \in 1 .. Len(s) - 1 : Pop(s)[i] = s[i]
  BY Popped
<1>2. CASE TopOf(s) = "while"
  <2>1. Whiles(s) = Whiles(Pop(s)) \cup {Len(s)} /\ Len(s) \notin Whiles(Pop(s))
    BY <1>1, <1>2 DEF Whiles, TopOf
  <2> QED BY <1>1, <1>2, <2>1, WhilesFinite, FS_AddElement
<1>3. CASE TopOf(s) # "while"
  <2>1. Whiles(s) = Whiles(Pop(s))
    BY <1>1, <1>3 DEF Whiles, TopOf
  <2> QED BY <1>1, <1>3, <2>1, WhilesFinite
<1> QED BY <1>2, <1>3

LEMMA ScopesAre ==
  ASSUME ScopesOK
  PROVE  /\ IsSeq(scope_stack)
         /\ IsSeq(if_stack) /\ IsSeq(exit_jmp_stack) /\ IsSeq(while_start) /\ IsSeq(while_exit)
         /\ Cardinality(Whiles(scope_stack)) = Len(while_start)
         /\ Len(while_start) = Len(while_exit) /\ Len(while_start) \in Nat
BY SeqOf, LenOf DEF ScopesOK

(* An address that is not in the code yet waits nowhere.                   *)
LEMMA NewWaitsNowhere ==
  ASSUME HolesOK, NEW x \in Nat, x >= Len(out), Len(out) \in Nat
  PROVE  /\ \A i \in 1 .. Len(if_stack) : if_stack[i] # x
         /\ \A i \in 1 .. Len(exit_jmp_stack) : exit_jmp_stack[i] # x
         /\ \A i \in 1 .. Len(while_exit) : while_exit[i] # x
BY DEF HolesOK, Hole, NoVar

(* An if opens a scope and leaves its condition's jump for later.          *)
LEMMA IfKeeps == SInv /\ Quiet /\ If => SInv'
<1> SUFFICES ASSUME SInv, Quiet, If PROVE SInv'
  OBVIOUS
<1>1. status = "compiling" /\ Kind(0) # "end"
  BY ReadsThe, SymAndKey DEF If
<1>2. /\ scope_stack' = Append(scope_stack, "if")
      /\ UNCHANGED <<source, out, status, p_add_sub, p_mul_div, p_cmp, var_store, expect_print,
                     paren_depth, symbol_table, if_stack, while_start, while_exit,
                     exit_jmp_stack>>
  BY DEF If, Open, pending, loops
<1>3. s_ptr' = s_ptr + (0 + 1)
  BY ZeroAndOne DEF If, Skip
<1>4. PendingOK' /\ ReaderOK'
  BY <1>1, <1>2, <1>3, ReadsOn DEF SInv, PendingOK, ReaderOK
<1>5. ScopesOK'
  <2>1. IsSeq(scope_stack) /\ Cardinality(Whiles(scope_stack')) = Len(while_start)
    BY <1>2, ScopesAre, WhilesPush DEF SInv
  <2>2. scope_stack' \in Seq({"if", "else", "while"})
    BY <1>2 DEF SInv, ScopesOK
  <2> QED BY <1>2, <2>1, <2>2 DEF SInv, ScopesOK
<1>6. HolesOK' /\ HolesApart'
  BY <1>2 DEF SInv, HolesOK, HolesApart
<1>7. BlockStep
  BY <1>1, <1>2 DEF BlockStep, Quiet
<1> QED BY <1>2, <1>4, <1>5, <1>6, <1>7, BlockKeeps DEF SInv

(* A while remembers where its condition begins.                           *)
LEMMA WhileKeeps == SInv /\ Quiet /\ While => SInv'
<1> SUFFICES ASSUME SInv, Quiet, While PROVE SInv'
  OBVIOUS
<1>1. status = "compiling" /\ Kind(0) # "end"
  BY ReadsThe, SymAndKey DEF While
<1>2. /\ scope_stack' = Append(scope_stack, "while")
      /\ while_start' = Append(while_start, Len(out))
      /\ while_exit' = Append(while_exit, NoVar)
      /\ UNCHANGED <<source, out, status, p_add_sub, p_mul_div, p_cmp, var_store, expect_print,
                     paren_depth, symbol_table, if_stack, exit_jmp_stack>>
  BY DEF While, Open, pending, Here
<1>3. s_ptr' = s_ptr + (0 + 1)
  BY ZeroAndOne DEF While, Skip
<1>4. PendingOK' /\ ReaderOK'
  BY <1>1, <1>2, <1>3, ReadsOn DEF SInv, PendingOK, ReaderOK
<1>5. /\ IsSeq(scope_stack) /\ IsSeq(if_stack) /\ IsSeq(exit_jmp_stack)
      /\ IsSeq(while_start) /\ IsSeq(while_exit)
      /\ Cardinality(Whiles(scope_stack)) = Len(while_start)
      /\ Len(while_start) = Len(while_exit) /\ Len(while_start) \in Nat
  BY ScopesAre DEF SInv
<1>6. ScopesOK'
  <2>1. Cardinality(Whiles(scope_stack')) = Cardinality(Whiles(scope_stack)) + 1
    BY <1>2, <1>5, WhilesPush
  <2>2. scope_stack' \in Seq({"if", "else", "while"})
    BY <1>2 DEF SInv, ScopesOK
  <2>3. /\ IsSeq(while_start') /\ Len(while_start') = Len(while_start) + 1
        /\ IsSeq(while_exit') /\ Len(while_exit') = Len(while_exit) + 1
    BY <1>2, <1>5, Appended
  <2> QED BY <1>2, <1>5, <2>1, <2>2, <2>3 DEF ScopesOK
<1>7. /\ Renews(if_stack', if_stack, NoVar, 0)
      /\ Renews(exit_jmp_stack', exit_jmp_stack, NoVar, 0)
      /\ Renews(while_exit', while_exit, NoVar, Len(while_exit) + 1)
      /\ Renews(while_start', while_start, Len(out), Len(while_start) + 1)
  BY <1>2, <1>5, RenewsSame, RenewsPush
<1>8. HolesApart'
  BY <1>7, ApartRenews DEF SInv
<1>9. HolesOK'
  <2>1. Target(out', Len(out))
    BY <1>2 DEF Target
  <2> DEFINE patched == {}
  <2>2. /\ \A h : Hole(out, h) /\ h \notin patched => Hole(out', h)
        /\ \A a : Target(out, a) => Target(out', a)
    BY <1>2
  <2>3. /\ \A i \in 1 .. Len(if_stack') : if_stack'[i] \notin patched
        /\ \A i \in 1 .. Len(exit_jmp_stack') : exit_jmp_stack'[i] \notin patched
        /\ \A i \in 1 .. Len(while_exit') : while_exit'[i] \notin patched
    OBVIOUS
  <2> HIDE DEF patched
  <2> DEFINE x == NoVar
             k3 == Len(while_exit) + 1
             y == Len(out)
             k4 == Len(while_start) + 1
  <2>4. /\ Renews(if_stack', if_stack, x, 0)
        /\ Renews(exit_jmp_stack', exit_jmp_stack, x, 0)
        /\ Renews(while_exit', while_exit, x, k3)
        /\ Renews(while_start', while_start, y, k4)
        /\ x = NoVar /\ Target(out', y)
    BY <1>7, <2>1
  <2> HIDE DEF x, k3, y, k4
  <2> QED BY <2>2, <2>3, <2>4, HolesRenew DEF SInv
<1>10. BlockStep
  BY <1>1, <1>2 DEF BlockStep, Quiet
<1> QED BY <1>2, <1>4, <1>6, <1>8, <1>9, <1>10, BlockKeeps DEF SInv
(* What ')' writes, and where the jump of a condition is.                  *)
LEMMA EmitsPrint ==
  ASSUME NEW table, NEW name \in {"PRINT", "PRINT_STR"} PROVE Emits(<<Op(name)>>, table)
<1>1. Alone(name)
  BY DEF Alone, Jumps, OnVar, VarVar, VarConst
<1> QED BY <1>1, EmitsAlone

LEMMA EmitsJump ==
  ASSUME NEW table, NEW name \in Jumps PROVE Emits(<<Op(name), Addr(0)>>, table)
<1> DEFINE s == <<Op(name), Addr(0)>>
<1>1. s \in Seq({Op(name), Addr(0)})
  OBVIOUS
<1>2. \A code : CodeOK(code, table) => Extends(code, code \o s, table)
  BY EmitJump
<1> HIDE DEF s
<1>3. Emits(s, table)
  BY <1>1, <1>2, SeqOf DEF Emits
<1> QED BY <1>3 DEF s

(* The address of a jump that has just been written.                       *)
LEMMA HoleOfJump ==
  ASSUME NEW code, NEW name, IsSeq(code)
  PROVE  LET new == code \o <<Op(name), Addr(0)>>
         IN Len(new) = Len(code) + 2 /\ Len(code) \in Nat /\ Hole(new, Len(code) + 1)
<1> DEFINE s   == <<Op(name), Addr(0)>>
           new == code \o s
<1>1. s \in Seq({Op(name), Addr(0)}) /\ Len(s) = 2 /\ s[2] = Addr(0)
  OBVIOUS
<1>2. IsSeq(s)
  BY <1>1, SeqOf
<1> HIDE DEF s
<1>3. /\ Len(new) = Len(code) + Len(s) /\ Len(code) \in Nat
      /\ \A i \in 1 .. Len(s) : new[Len(code) + i] = s[i]
  BY <1>2, Joined
<1> HIDE DEF new
<1>4. /\ Len(new) = Len(code) + 2 /\ Len(code) \in Nat /\ new[Len(code) + 2] = Addr(0)
  BY <1>1, <1>3
<1>5. Len(code) + 1 \in 0 .. Len(new) - 1 /\ (Len(code) + 1) + 1 = Len(code) + 2
  BY <1>4
<1>6. Hole(new, Len(code) + 1)
  BY <1>4, <1>5 DEF Hole, CellAt
<1> QED BY <1>4, <1>6 DEF new, s

LEMMA HoleGrows ==
  ASSUME NEW code, NEW new, Grows(code, new), Len(code) \in Nat, Len(new) \in Nat
  PROVE  \A h : Hole(code, h) => Hole(new, h)
BY DEF Grows, Hole

LEMMA CloseParenKeeps == SInv /\ Quiet /\ CloseParen => SInv'
<1> SUFFICES ASSUME SInv, Quiet, CloseParen PROVE SInv'
  OBVIOUS
<1> DEFINE jz    == <<Op("JZ"), Addr(0)>>
           jump  == IF ClosesCondition THEN jz ELSE << >>
           print == IF expect_print = 0 THEN << >>
                    ELSE <<Op(IF expect_print = 2 THEN "PRINT_STR" ELSE "PRINT")>>
           c1    == out \o Flushed
           pos   == Len(c1) + 1
<1>1. status = "compiling" /\ Kind(0) # "end" /\ ~Overflows /\ Token(0) = Sym(")")
  BY ReadsThe, SymAndKey DEF CloseParen
<1>2. /\ out' = out \o ((Flushed \o jump) \o print)
      /\ IF ClosesCondition THEN PatchLater(pos) ELSE UNCHANGED scopes
      /\ p_mul_div' = << >> /\ p_add_sub' = << >> /\ p_cmp' = << >>
      /\ paren_depth' = paren_depth - 1 /\ expect_print' = 0
      /\ UNCHANGED <<source, status, var_store, symbol_table>>
  BY DEF CloseParen, Emit, Flush, Here
<1>3. s_ptr' = s_ptr + (0 + 1)
  BY ZeroAndOne DEF CloseParen, Skip
<1>4. /\ Emits(Flushed, symbol_table) /\ Emits(jump, symbol_table)
      /\ Emits(print, symbol_table)
  <2>1. Emits(Flushed, symbol_table)
    BY EmitsPending DEF SInv
  <2>2. Emits(jz, symbol_table)
    BY EmitsJump DEF Jumps
  <2>3. Emits(print, symbol_table)
    BY EmitsNothing, EmitsPrint
  <2> HIDE DEF jz
  <2>4. Emits(jump, symbol_table)
    BY <2>2, EmitsNothing
  <2> QED BY <2>1, <2>3, <2>4
<1> HIDE DEF print
<1>5. Extends(out, out', symbol_table')
  <2>1. Emits((Flushed \o jump) \o print, symbol_table)
    BY <1>4, EmitsBoth
  <2> QED BY <1>2, <2>1 DEF SInv, Emits
<1>6. PendingOK' /\ TableOK'
  BY <1>2 DEF SInv, PendingOK, TableOK, NoneOr
<1>7. ReaderOK'
  <2>1. /\ var_store' \in -2 .. Len(symbol_table') - 1
        /\ expect_print' \in 0 .. 2 /\ paren_depth' \in Int
    BY <1>2 DEF SInv, ReaderOK
  <2> QED BY <1>1, <1>2, <1>3, <2>1, ReadsOn DEF SInv
<1>8. CASE ~ClosesCondition
  BY <1>1, <1>2, <1>5, <1>6, <1>7, <1>8, StraightKeeps DEF Straight, Quiet
<1>9. CASE ClosesCondition
  <2>1. /\ \/ if_stack' = Append(if_stack, pos) /\ UNCHANGED <<while_start, while_exit>>
           \/ /\ while_exit # << >>
              /\ while_exit' = [while_exit EXCEPT ![Len(while_exit)] = pos]
              /\ UNCHANGED <<if_stack, while_start>>
        /\ UNCHANGED <<scope_stack, exit_jmp_stack>>
    BY <1>1, <1>2, <1>9 DEF PatchLater, Overflows, loops
  <2>2. /\ CodeOK(c1, symbol_table) /\ Grows(out, c1) /\ IsSeq(Flushed) /\ IsSeq(jz)
        /\ IsSeq(print) /\ IsSeq(out)
    BY <1>4, <1>9 DEF SInv, Emits, Extends, CodeOK
  <2>3. out' = (c1 \o jz) \o print
    <3>1. out' = (out \o (Flushed \o jz)) \o print
      <4>1. IsSeq(Flushed \o jz)
        BY <2>2, Joined
      <4> HIDE DEF jz
      <4> QED BY <1>2, <1>9, <2>2, <4>1, JoinedThree
    <3>2. out \o (Flushed \o jz) = c1 \o jz
      BY <2>2, JoinedThree
    <3> QED BY <3>1, <3>2
  <2>4. /\ pos \in Nat /\ pos >= Len(out) /\ Len(out) \in Nat /\ Hole(out', pos)
    <3>1. Len(c1 \o jz) = Len(c1) + 2 /\ Len(c1) \in Nat /\ Hole(c1 \o jz, Len(c1) + 1)
      BY <2>2, HoleOfJump DEF CodeOK
    <3>2. Len(out) \in Nat /\ Len(out) <= Len(c1)
      BY <2>2, LenOf DEF Grows
    <3>3. Grows(c1 \o jz, (c1 \o jz) \o print)
      <4>1. CodeOK(c1 \o jz, symbol_table)
        BY <1>4, <1>9, <2>2 DEF Emits, Extends
      <4> QED BY <1>4, <4>1 DEF Emits, Extends
    <3>4. Len(out') \in Nat
      BY <1>5, LenOf DEF Extends, CodeOK
    <3> HIDE DEF c1, jz
    <3> QED BY <2>3, <3>1, <3>2, <3>3, <3>4, HoleGrows
  <2> HIDE DEF c1, pos
  <2>5. PICK k1, k3 :
          /\ k1 = 0 \/ k3 = 0
          /\ Renews(if_stack', if_stack, pos, k1) /\ Renews(while_exit', while_exit, pos, k3)
    <3>1. IsSeq(if_stack) /\ IsSeq(while_exit)
      BY ScopesAre DEF SInv
    <3>2. CASE if_stack' = Append(if_stack, pos) /\ UNCHANGED <<while_start, while_exit>>
      BY <3>1, <3>2, RenewsPush, RenewsSame
    <3>3. CASE /\ while_exit # << >>
               /\ while_exit' = [while_exit EXCEPT ![Len(while_exit)] = pos]
               /\ UNCHANGED <<if_stack, while_start>>
      BY <3>1, <3>3, RenewsTop, RenewsSame
    <3> QED BY <2>1, <3>2, <3>3
  <2>6. /\ Renews(exit_jmp_stack', exit_jmp_stack, pos, 0)
        /\ Renews(while_start', while_start, pos, 0)
    BY <2>1, ScopesAre, RenewsSame DEF SInv
  <2>7. HolesApart'
    BY <2>4, <2>5, <2>6, NewWaitsNowhere, ApartRenews DEF SInv
  <2>8. HolesOK'
    <3> DEFINE patched == {}
    <3>1. Len(out') \in Nat /\ Grows(out, out')
      BY <1>5, LenOf DEF Extends, CodeOK
    <3>2. /\ \A h : Hole(out, h) /\ h \notin patched => Hole(out', h)
          /\ \A a : Target(out, a) => Target(out', a)
      BY <2>4, <3>1, HoleGrows, TargetGrows
    <3>3. /\ \A i \in 1 .. Len(if_stack') : if_stack'[i] \notin patched
          /\ \A i \in 1 .. Len(exit_jmp_stack') : exit_jmp_stack'[i] \notin patched
          /\ \A i \in 1 .. Len(while_exit') : while_exit'[i] \notin patched
      OBVIOUS
    <3> HIDE DEF patched
    <3> QED BY <2>4, <2>5, <2>6, <3>2, <3>3, HolesRenew DEF SInv
  <2>9. ScopesOK'
    <3>1. IsSeq(if_stack') /\ IsSeq(while_exit')
      BY <2>5 DEF Renews
    <3>2. Len(while_exit') = Len(while_exit)
      <4>1. CASE while_exit' = [while_exit EXCEPT ![Len(while_exit)] = pos]
        BY <4>1, ScopesAre DEF SInv, IsSeq
      <4> QED BY <2>1, <4>1
    <3> QED BY <2>1, <3>1, <3>2 DEF SInv, ScopesOK
  <2>10. BlockStep /\ CodeOK(out', symbol_table)
    BY <1>1, <1>2, <1>5 DEF BlockStep, Quiet, Extends
  <2> QED BY <1>6, <1>7, <2>7, <2>8, <2>9, <2>10, BlockKeeps
<1> QED BY <1>8, <1>9
(* The top of a stack of addresses is in no other place of the stacks.     *)
LEMMA TopAlone ==
  ASSUME NEW s, IsSeq(s), s # << >>, Distinct(s), TopOf(s) # NoVar
  PROVE  /\ Len(s) \in 1 .. Len(s)
         /\ \A i \in 1 .. Len(Pop(s)) : Pop(s)[i] # TopOf(s)
         /\ \A t : Disjoint(s, t) => \A i \in 1 .. Len(t) : t[i] # TopOf(s)
<1>1. /\ IsSeq(Pop(s)) /\ Len(Pop(s)) = Len(s) - 1 /\ Len(s) \in Nat /\ Len(s) > 0
      /\ \A i \in 1 .. Len(s) - 1 : Pop(s)[i] = s[i]
  BY Popped
<1>2. Len(s) \in 1 .. Len(s) /\ \A i \in 1 .. Len(s) - 1 : i \in 1 .. Len(s) /\ i # Len(s)
  BY <1>1
<1> QED BY <1>1, <1>2 DEF Distinct, Disjoint, TopOf

(* An else writes the jump over itself and patches the if's.               *)
LEMMA ElseKeeps == SInv /\ Quiet /\ Else => SInv'
<1> SUFFICES ASSUME SInv, Quiet, Else PROVE SInv'
  OBVIOUS
<1>1. status = "compiling" /\ Kind(0) # "end"
  BY ReadsThe, SymAndKey DEF Else
<1>2. UNCHANGED <<source, p_add_sub, p_mul_div, p_cmp, var_store, expect_print,
                  paren_depth, symbol_table>>
  BY DEF Else, pending
<1>3. PendingOK' /\ TableOK'
  BY <1>2 DEF SInv, PendingOK, TableOK
<1>4. CASE if_stack = << >>
  <2>1. status' = "broken" /\ UNCHANGED <<s_ptr, out, scopes>>
    BY <1>4 DEF Else
  <2>2. ReaderOK'
    BY <1>2, <2>1 DEF SInv, ReaderOK
  <2> QED BY <1>1, <1>2, <1>3, <2>1, <2>2, NothingWritten, StraightKeeps DEF Straight, Quiet
<1>5. CASE if_stack # << >>
  <2> DEFINE code == out \o <<Op("JMP"), Addr(0)>>
             top  == TopOf(if_stack)
             x    == Len(out) + 1
  <2>1. /\ out' = patch16(code, top, Len(code))
        /\ exit_jmp_stack' = Append(exit_jmp_stack, x)
        /\ if_stack' = Pop(if_stack)
        /\ \/ /\ Token(1) = Key("if") /\ scope_stack' = Append(scope_stack, "if")
              /\ s_ptr' = s_ptr + 2
           \/ scope_stack' = Append(scope_stack, "else") /\ s_ptr' = s_ptr + 1
        /\ UNCHANGED <<status, while_start, while_exit>>
    BY <1>5 DEF Else, Open, Skip, Here, loops
  <2>2. /\ IsSeq(scope_stack) /\ IsSeq(if_stack) /\ IsSeq(exit_jmp_stack)
        /\ IsSeq(while_start) /\ IsSeq(while_exit)
        /\ Cardinality(Whiles(scope_stack)) = Len(while_start)
        /\ Len(while_start) = Len(while_exit) /\ Len(while_start) \in Nat
    BY ScopesAre DEF SInv
  <2>3. Hole(out, top) /\ top # NoVar /\ Len(out) \in Nat /\ IsSeq(out)
    <3>1. Len(if_stack) \in 1 .. Len(if_stack)
      BY <1>5, <2>2, EmptySeq DEF IsSeq
    <3>2. Len(out) \in Nat /\ IsSeq(out)
      BY LenOf DEF SInv, CodeOK
    <3> QED BY <3>1, <3>2 DEF SInv, HolesOK, TopOf, Hole, NoVar
  <2>4. /\ Extends(out, code, symbol_table) /\ Len(code) = Len(out) + 2 /\ Hole(code, x)
    <3>1. Extends(out, code, symbol_table)
      BY EmitsJump DEF SInv, Emits, Jumps
    <3> QED BY <2>3, <3>1, HoleOfJump
  <2> HIDE DEF code, top
  <2>5. /\ top \in 0 .. Len(code) - 1 /\ CellAt(code, top).kind = "addr"
        /\ Target(code, Len(code)) /\ CodeOK(code, symbol_table)
        /\ \A h : Hole(out, h) => Hole(code, h)
        /\ \A a : Target(out, a) => Target(code, a)
    <3>1. /\ \A h : Hole(out, h) => Hole(code, h)
          /\ \A a : Target(out, a) => Target(code, a)
      BY <2>3, <2>4, HoleGrows, TargetGrows DEF Extends
    <3> QED BY <2>3, <2>4, <3>1 DEF Hole, Addr, Target, Extends
  <2>6. /\ CodeOK(out', symbol_table)
        /\ \A a : Target(code, a) => Target(out', a)
        /\ Len(out') = Len(code)
        /\ \A a \in 0 .. Len(code) - 1 : a # top => CellAt(out', a) = CellAt(code, a)
    BY <2>1, <2>5, PatchOne
  <2> DEFINE patched == {top}
  <2>7. /\ \A h : Hole(code, h) /\ h \notin patched => Hole(out', h)
        /\ x \in Nat /\ x >= Len(out) /\ x \notin patched
    BY <2>3, <2>6 DEF Hole
  <2> HIDE DEF x, patched
  <2>8. /\ Renews(if_stack', if_stack, x, 0)
        /\ Renews(exit_jmp_stack', exit_jmp_stack, x, Len(exit_jmp_stack) + 1)
        /\ Renews(while_exit', while_exit, x, 0)
        /\ Renews(while_start', while_start, x, 0)
    BY <1>5, <2>1, <2>2, RenewsPop, RenewsPush, RenewsSame
  <2>9. HolesApart'
    BY <2>3, <2>7, <2>8, NewWaitsNowhere, ApartRenews DEF SInv
  <2>10. /\ \A i \in 1 .. Len(if_stack') : if_stack'[i] \notin patched
         /\ \A i \in 1 .. Len(exit_jmp_stack') : exit_jmp_stack'[i] \notin patched
         /\ \A i \in 1 .. Len(while_exit') : while_exit'[i] \notin patched
    <3>1. /\ \A i \in 1 .. Len(Pop(if_stack)) : Pop(if_stack)[i] # top
          /\ \A i \in 1 .. Len(exit_jmp_stack) : exit_jmp_stack[i] # top
          /\ \A i \in 1 .. Len(while_exit) : while_exit[i] # top
      BY <1>5, <2>2, <2>3, TopAlone DEF SInv, HolesApart, top
    <3>2. \A i \in 1 .. Len(exit_jmp_stack') :
            exit_jmp_stack'[i] = x \/ \E j \in 1 .. Len(exit_jmp_stack) :
                                        exit_jmp_stack'[i] = exit_jmp_stack[j]
      BY <2>8 DEF Renews
    <3> QED BY <2>1, <2>7, <3>1, <3>2 DEF patched
  <2>11. HolesOK'
    <3>1. /\ \A h : Hole(out, h) /\ h \notin patched => Hole(out', h)
          /\ \A a : Target(out, a) => Target(out', a)
          /\ Hole(out', x)
      BY <2>4, <2>5, <2>6, <2>7
    <3> DEFINE k2 == Len(exit_jmp_stack) + 1
    <3>2. Renews(exit_jmp_stack', exit_jmp_stack, x, k2)
      BY <2>8
    <3> HIDE DEF k2
    <3> QED BY <2>8, <2>10, <3>1, <3>2, HolesRenew DEF SInv
  <2>12. ScopesOK'
    <3>1. PICK scope \in {"if", "else"} : scope_stack' = Append(scope_stack, scope)
      BY <2>1
    <3>2. Cardinality(Whiles(scope_stack')) = Len(while_start)
      BY <2>2, <3>1, WhilesPush
    <3>3. scope_stack' \in Seq({"if", "else", "while"})
      BY <3>1 DEF SInv, ScopesOK
    <3>4. IsSeq(if_stack') /\ IsSeq(exit_jmp_stack')
      BY <2>8 DEF Renews
    <3> QED BY <2>1, <2>2, <3>2, <3>3, <3>4 DEF ScopesOK
  <2>13. ReaderOK'
    <3>1. /\ var_store' \in -2 .. Len(symbol_table') - 1
          /\ expect_print' \in 0 .. 2 /\ paren_depth' \in Int
      BY <1>2 DEF SInv, ReaderOK
    <3>2. CASE s_ptr' = s_ptr + 1
      <4>1. s_ptr' = s_ptr + (0 + 1)
        BY <3>2, ZeroAndOne
      <4> QED BY <1>1, <1>2, <3>1, <4>1, ReadsOn DEF SInv
    <3>3. CASE Token(1) = Key("if") /\ s_ptr' = s_ptr + 2
      <4>1. s_ptr' = s_ptr + (1 + 1) /\ Kind(1) # "end"
        <5>1. 1 + 1 = 2
          OBVIOUS
        <5> QED BY <3>3, <5>1, KindOf
      <4> QED BY <1>2, <3>1, <4>1, ReadsOn DEF SInv
    <3> QED BY <2>1, <3>2, <3>3
  <2>14. BlockStep
    BY <1>1, <1>2, <2>1 DEF BlockStep, Quiet
  <2> QED BY <1>3, <2>6, <2>9, <2>11, <2>12, <2>13, <2>14, BlockKeeps
<1> QED BY <1>4, <1>5
LEMMA PoppedScopes ==
  ASSUME NEW S, NEW s \in Seq(S), s # << >> PROVE Pop(s) \in Seq(S)
<1>1. Len(s) - 1 \in 0 .. Len(s)
  BY EmptySeq
<1>2. SubSeq(s, 1, Len(s) - 1) \in Seq(S)
  BY <1>1, SubSeqProperties
<1> QED BY <1>2 DEF Pop

(* The end of a loop's block.                                              *)
LEMMA CloseLoopKeeps ==
  ASSUME SInv, scope_stack # << >>, ~Unconditional, CloseLoop, scope_stack' = Pop(scope_stack)
  PROVE  CodeOK(out', symbol_table) /\ ScopesOK' /\ HolesOK' /\ HolesApart'
<1> DEFINE code == out \o <<Op("JMP"), Addr(TopOf(while_start))>>
           top  == TopOf(while_exit)
<1>1. /\ TopOf(scope_stack) = "while"
      /\ out' = patch16(code, top, Len(code))
      /\ while_start' = Pop(while_start) /\ while_exit' = Pop(while_exit)
      /\ UNCHANGED <<if_stack, exit_jmp_stack>>
  BY DEF CloseLoop, Here
<1>2. /\ IsSeq(scope_stack) /\ IsSeq(if_stack) /\ IsSeq(exit_jmp_stack)
      /\ IsSeq(while_start) /\ IsSeq(while_exit)
      /\ Cardinality(Whiles(scope_stack)) = Len(while_start)
      /\ Len(while_start) = Len(while_exit) /\ Len(while_start) \in Nat
  BY ScopesAre DEF SInv
<1>3. /\ Cardinality(Whiles(scope_stack')) = Len(while_start) - 1
      /\ Len(while_start) > 0 /\ while_start # << >> /\ while_exit # << >>
  <2>1. /\ IsSeq(Pop(scope_stack)) /\ Cardinality(Whiles(Pop(scope_stack))) \in Nat
        /\ Cardinality(Whiles(scope_stack)) = Cardinality(Whiles(Pop(scope_stack))) + 1
    BY <1>1, <1>2, WhilesPop, Popped, WhilesFinite
  <2>2. Cardinality(Whiles(scope_stack')) = Len(while_start) - 1 /\ Len(while_start) > 0
    BY <1>2, <2>1
  <2>3. Len(<< >>) = 0
    OBVIOUS
  <2> QED BY <1>2, <2>2, <2>3
<1>4. /\ Len(out) \in Nat /\ top # NoVar /\ Hole(out, top)
      /\ Target(out, TopOf(while_start))
  <2>1. Len(while_exit) \in 1 .. Len(while_exit) /\ Len(while_start) \in 1 .. Len(while_start)
    BY <1>2, <1>3
  <2>2. Len(out) \in Nat
    BY LenOf DEF SInv, CodeOK
  <2> QED BY <1>1, <2>1, <2>2 DEF SInv, HolesOK, TopOf, Unconditional
<1>5. Extends(out, code, symbol_table) /\ "JMP" \in Jumps
  BY <1>4, EmitJump DEF SInv, Jumps
<1> HIDE DEF code, top
<1>6. /\ top \in 0 .. Len(code) - 1 /\ CellAt(code, top).kind = "addr"
      /\ Target(code, Len(code)) /\ CodeOK(code, symbol_table)
      /\ \A h : Hole(out, h) => Hole(code, h)
      /\ \A a : Target(out, a) => Target(code, a)
  <2>1. Len(code) \in Nat
    BY <1>5, LenOf DEF Extends, CodeOK
  <2>2. /\ \A h : Hole(out, h) => Hole(code, h)
        /\ \A a : Target(out, a) => Target(code, a)
    BY <1>4, <1>5, <2>1, HoleGrows, TargetGrows DEF Extends
  <2> QED BY <1>4, <1>5, <2>2 DEF Hole, Addr, Target, Extends
<1>7. /\ CodeOK(out', symbol_table)
      /\ \A a : Target(code, a) => Target(out', a)
      /\ Len(out') = Len(code)
      /\ \A a \in 0 .. Len(code) - 1 : a # top => CellAt(out', a) = CellAt(code, a)
  BY <1>1, <1>6, PatchOne
<1> DEFINE patched == {top}
           x == NoVar
<1>8. \A h : Hole(code, h) /\ h \notin patched => Hole(out', h)
  BY <1>7 DEF Hole
<1>9. /\ Renews(if_stack', if_stack, x, 0)
      /\ Renews(exit_jmp_stack', exit_jmp_stack, x, 0)
      /\ Renews(while_exit', while_exit, x, 0)
      /\ Renews(while_start', while_start, x, 0)
  BY <1>1, <1>2, <1>3, RenewsPop, RenewsSame
<1>10. HolesApart'
  BY <1>9, ApartRenews DEF SInv
<1>11. /\ \A i \in 1 .. Len(if_stack') : if_stack'[i] \notin patched
       /\ \A i \in 1 .. Len(exit_jmp_stack') : exit_jmp_stack'[i] \notin patched
       /\ \A i \in 1 .. Len(while_exit') : while_exit'[i] \notin patched
  <2>1. \A i \in 1 .. Len(Pop(while_exit)) : Pop(while_exit)[i] # top
    BY <1>2, <1>3, <1>4, TopAlone DEF SInv, HolesApart, top
  <2>2. /\ \A i \in 1 .. Len(if_stack) : if_stack[i] # top
        /\ \A i \in 1 .. Len(exit_jmp_stack) : exit_jmp_stack[i] # top
    <3>1. Len(while_exit) \in 1 .. Len(while_exit)
      BY <1>2, <1>3
    <3> QED BY <1>4, <3>1 DEF SInv, HolesApart, HolesOK, Disjoint, Hole, NoVar, TopOf, top
  <2> QED BY <1>1, <2>1, <2>2
<1>12. HolesOK'
  <2>1. /\ \A h : Hole(out, h) /\ h \notin patched => Hole(out', h)
        /\ \A a : Target(out, a) => Target(out', a)
    BY <1>6, <1>7, <1>8
  <2> HIDE DEF patched, x
  <2> QED BY <1>9, <1>11, <2>1, HolesRenew DEF SInv
<1>13. ScopesOK'
  <2>1. scope_stack' \in Seq({"if", "else", "while"})
    BY PoppedScopes DEF SInv, ScopesOK
  <2>2. /\ IsSeq(while_start') /\ Len(while_start') = Len(while_start) - 1
        /\ IsSeq(while_exit') /\ Len(while_exit') = Len(while_exit) - 1
    BY <1>1, <1>2, <1>3, Popped
  <2> QED BY <1>1, <1>2, <1>3, <2>1, <2>2 DEF ScopesOK
<1> QED BY <1>7, <1>10, <1>12, <1>13

(* The end of a chain of if and else.                                      *)
LEMMA CloseChainKeeps ==
  ASSUME SInv, scope_stack # << >>, ~Unconditional, CloseChain, scope_stack' = Pop(scope_stack)
  PROVE  CodeOK(out', symbol_table) /\ ScopesOK' /\ HolesOK' /\ HolesApart'
<1> DEFINE top  == TopOf(if_stack)
           own  == IF TopOf(scope_stack) = "if" THEN {top} ELSE {}
           patched == own \cup Elements(exit_jmp_stack)
           x == NoVar
<1>1. /\ TopOf(scope_stack) # "while"
      /\ TopOf(scope_stack) = "if" => if_stack # << >>
      /\ out' = PatchAll(out, patched, Len(out))
      /\ if_stack' = IF TopOf(scope_stack) = "if" THEN Pop(if_stack) ELSE if_stack
      /\ exit_jmp_stack' = << >>
      /\ UNCHANGED <<while_start, while_exit>>
  BY DEF CloseChain, Here, loops, Unconditional
<1>2. /\ IsSeq(scope_stack) /\ IsSeq(if_stack) /\ IsSeq(exit_jmp_stack)
      /\ IsSeq(while_start) /\ IsSeq(while_exit)
      /\ Cardinality(Whiles(scope_stack)) = Len(while_start)
      /\ Len(while_start) = Len(while_exit) /\ Len(while_start) \in Nat
  BY ScopesAre DEF SInv
<1>3. TopOf(scope_stack) = "if" =>
        Len(if_stack) \in 1 .. Len(if_stack) /\ Hole(out, top) /\ top # NoVar
  <2>1. if_stack # << >> => Len(if_stack) \in 1 .. Len(if_stack)
    BY <1>2, EmptySeq DEF IsSeq
  <2> QED BY <1>1, <2>1 DEF SInv, HolesOK, TopOf, Hole, NoVar
<1>4. \A h \in patched : h \in 0 .. Len(out) - 1 /\ CellAt(out, h).kind = "addr"
  BY <1>3 DEF SInv, HolesOK, Elements, Hole, Addr
<1>5. Target(out, Len(out)) /\ CodeOK(out, symbol_table)
  BY DEF Target, SInv
<1>6. /\ CodeOK(out', symbol_table)
      /\ \A a : Target(out, a) => Target(out', a)
      /\ Len(out') = Len(out)
      /\ \A a \in 0 .. Len(out) - 1 : a \notin patched => CellAt(out', a) = CellAt(out, a)
  <2> HIDE DEF patched
  <2> QED BY <1>1, <1>4, <1>5, PatchMany
<1>7. /\ \A i \in 1 .. Len(if_stack') : if_stack'[i] \notin patched
      /\ \A i \in 1 .. Len(exit_jmp_stack') : exit_jmp_stack'[i] \notin patched
      /\ \A i \in 1 .. Len(while_exit') : while_exit'[i] \notin patched
  <2>1. TopOf(scope_stack) = "if" =>
          /\ \A i \in 1 .. Len(if_stack') : if_stack'[i] # top
          /\ \A i \in 1 .. Len(while_exit) : while_exit[i] # top
    BY <1>1, <1>2, <1>3, TopAlone DEF SInv, HolesApart
  <2>2. \A i \in 1 .. Len(if_stack') :
          \E j \in 1 .. Len(if_stack) : if_stack'[i] = if_stack[j]
    <3>1. if_stack # << >> => \A i \in 1 .. Len(Pop(if_stack)) :
             i \in 1 .. Len(if_stack) /\ Pop(if_stack)[i] = if_stack[i]
      BY <1>2, Popped
    <3> QED BY <1>1, <3>1
  <2>3. \A j \in 1 .. Len(if_stack) : if_stack[j] \notin Elements(exit_jmp_stack)
    BY DEF SInv, HolesOK, HolesApart, Disjoint, Elements, Hole, NoVar
  <2>4. \A i \in 1 .. Len(while_exit) : while_exit[i] \notin Elements(exit_jmp_stack)
    BY DEF SInv, HolesOK, HolesApart, Disjoint, Elements, Hole, NoVar
  <2>5. Len(exit_jmp_stack') = 0
    BY <1>1
  <2> HIDE DEF top
  <2> QED BY <1>1, <2>1, <2>2, <2>3, <2>4, <2>5
<1> HIDE DEF patched, x
<1>8. /\ Renews(if_stack', if_stack, x, 0)
      /\ Renews(exit_jmp_stack', exit_jmp_stack, x, 0)
      /\ Renews(while_exit', while_exit, x, 0)
      /\ Renews(while_start', while_start, x, 0)
  <2>1. Renews(exit_jmp_stack', exit_jmp_stack, x, 0)
    <3>1. << >> \in Seq({}) /\ Len(<< >>) = 0
      BY EmptySeq
    <3>2. IsSeq(exit_jmp_stack') /\ Len(exit_jmp_stack') = 0
      BY <1>1, <3>1, SeqOf
    <3> QED BY <3>2 DEF Renews
  <2> QED BY <1>1, <1>2, <2>1, RenewsPop, RenewsSame
<1>9. HolesApart'
  BY <1>8, ApartRenews DEF SInv, x
<1>10. HolesOK'
  <2>1. \A h : Hole(out, h) /\ h \notin patched => Hole(out', h)
    BY <1>6 DEF Hole
  <2> QED BY <1>6, <1>7, <1>8, <2>1, HolesRenew DEF SInv
<1>11. ScopesOK'
  <2>1. scope_stack' \in Seq({"if", "else", "while"})
    BY PoppedScopes DEF SInv, ScopesOK
  <2>2. Cardinality(Whiles(scope_stack')) = Cardinality(Whiles(scope_stack))
    <3>1. Cardinality(Whiles(Pop(scope_stack))) \in Nat
      BY <1>2, Popped, WhilesFinite
    <3> QED BY <1>1, <1>2, <3>1, WhilesPop
  <2>3. IsSeq(if_stack') /\ IsSeq(exit_jmp_stack')
    BY <1>8 DEF Renews
  <2> QED BY <1>1, <1>2, <2>1, <2>2, <2>3 DEF ScopesOK
<1> QED BY <1>6, <1>9, <1>10, <1>11

(* The end of a block patches the jumps that wait for it, and no other.    *)
LEMMA CloseBlockKeeps ==
  ASSUME SInv, scope_stack # << >>, CloseBlock, scope_stack' = Pop(scope_stack)
  PROVE  CodeOK(out', symbol_table) /\ ScopesOK' /\ HolesOK' /\ HolesApart'
<1>1. /\ TopOf(scope_stack) # "while"
      /\ UNCHANGED <<out, if_stack, while_start, while_exit, exit_jmp_stack>>
  BY DEF CloseBlock, loops
<1>2. ScopesOK'
  <2>1. scope_stack' \in Seq({"if", "else", "while"})
    BY PoppedScopes DEF SInv, ScopesOK
  <2>2. Cardinality(Whiles(scope_stack')) = Cardinality(Whiles(scope_stack))
    <3>1. IsSeq(scope_stack)
      BY ScopesAre DEF SInv
    <3>2. Cardinality(Whiles(Pop(scope_stack))) \in Nat
      BY <3>1, Popped, WhilesFinite
    <3> QED BY <1>1, <3>1, <3>2, WhilesPop
  <2> QED BY <1>1, <2>1, <2>2 DEF SInv, ScopesOK
<1> QED BY <1>1, <1>2 DEF SInv, HolesOK, HolesApart

LEMMA CloseBraceKeeps == SInv /\ Quiet /\ CloseBrace => SInv'
<1> SUFFICES ASSUME SInv, Quiet, CloseBrace PROVE SInv'
  OBVIOUS
<1>1. status = "compiling" /\ Kind(0) # "end" /\ ~Refused /\ Token(0) = Sym("}")
  BY ReadsThe, SymAndKey DEF CloseBrace
<1>2. scope_stack # << >>
  <2>1. Sym("}") # Sym(";")
    <3>1. Sym("}")[2] = "}" /\ Sym(";")[2] = ";"
      BY SymAndKey
    <3>2. "}" # ";"
      OBVIOUS
    <3> QED BY <3>1, <3>2
  <2>2. Token(0) # End
    BY <1>1, KindOf
  <2> QED BY <1>1, <2>1, <2>2 DEF Refused, Unmatched
<1>3. /\ ~Unconditional /\ (CloseLoop \/ CloseChain \/ CloseBlock)
      /\ scope_stack' = Pop(scope_stack)
      /\ UNCHANGED <<source, status, p_add_sub, p_mul_div, p_cmp, var_store, expect_print,
                     paren_depth, symbol_table>>
  BY DEF CloseBrace, pending
<1>4. s_ptr' = s_ptr + (0 + 1)
  BY ZeroAndOne DEF CloseBrace, Skip
<1>5. CodeOK(out', symbol_table) /\ ScopesOK' /\ HolesOK' /\ HolesApart'
  BY <1>2, <1>3, CloseLoopKeeps, CloseChainKeeps, CloseBlockKeeps
<1>6. PendingOK' /\ ReaderOK'
  BY <1>1, <1>3, <1>4, ReadsOn DEF SInv, PendingOK, ReaderOK
<1>7. BlockStep
  BY <1>1, <1>3 DEF BlockStep, Quiet
<1> QED BY <1>5, <1>6, <1>7, BlockKeeps
-----------------------------------------------------------------------------
(* The end of compile().                                                   *)

LEMMA FinishKeeps == SInv /\ Quiet /\ Finish => SInv'
<1> SUFFICES ASSUME SInv, Quiet, Finish PROVE SInv'
  OBVIOUS
<1> DEFINE halt == <<Op("HALT")>>
           n    == Len(out)
<1>1. /\ status = "compiling" /\ out' = out \o halt /\ status' = "running"
      /\ UNCHANGED <<source, s_ptr, p_add_sub, p_mul_div, p_cmp, var_store, expect_print,
                     paren_depth, symbol_table, scopes>>
  BY DEF Finish, Reads, Emit, pending
<1>2. Extends(out, out', symbol_table')
  <2>1. Alone("HALT")
    BY DEF Alone, Jumps, OnVar, VarVar, VarConst
  <2> QED BY <1>1, <2>1, EmitAlone DEF SInv
<1>3. /\ n \in Nat /\ Len(out') = n + 1
      /\ \A a \in 0 .. n - 1 : CellAt(out', a) = CellAt(out, a)
      /\ CellAt(out', n) = Op("HALT")
  <2>1. halt \in Seq({Op("HALT")}) /\ Len(halt) = 1 /\ halt[1] = Op("HALT")
    OBVIOUS
  <2>2. IsSeq(halt) /\ IsSeq(out)
    BY <2>1, SeqOf DEF SInv, CodeOK
  <2> HIDE DEF halt
  <2>3. /\ Len(out') = n + 1 /\ n \in Nat
        /\ \A i \in 1 .. n : out'[i] = out[i]
        /\ out'[n + 1] = Op("HALT")
    <3>1. /\ Len(out') = Len(out) + Len(halt) /\ Len(out) \in Nat
          /\ \A i \in 1 .. Len(out) : out'[i] = out[i]
          /\ \A i \in 1 .. Len(halt) : out'[Len(out) + i] = halt[i]
      BY <1>1, <2>2, Joined
    <3> QED BY <2>1, <3>1
  <2> HIDE DEF n
  <2> QED BY <2>3 DEF CellAt
<1> HIDE DEF halt, n
<1>4. \A a : Target(out, a) => OpCell(out', a)
  <2>1. Op("HALT").kind = "op"
    BY DEF Op, TypedOp
  <2> QED BY <1>3, <2>1 DEF Target, OpCell, n
<1>5. Closed(out')
  <2>1. OpCell(out', 0)
    BY <1>4 DEF SInv, CodeOK
  <2>2. ASSUME NEW a \in 0 .. Len(out') - 1
        PROVE  /\ CellAt(out', a).kind = "op" /\ CellAt(out', a).name \notin {"JMP", "HALT"}
                    => OpCell(out', a + Width(CellAt(out', a).name))
               /\ CellAt(out', a).kind = "addr" => OpCell(out', CellAt(out', a).val)
    <3>1. CASE a < n
      <4>1. a \in 0 .. n - 1 /\ CellAt(out', a) = CellAt(out, a)
        BY <1>3, <3>1
      <4>2. /\ CellAt(out, a).kind = "op" => Complete(out, symbol_table, a)
            /\ CellAt(out, a).kind = "addr" => Target(out, CellAt(out, a).val)
        BY <4>1 DEF SInv, CodeOK, n
      <4> QED BY <1>4, <4>1, <4>2 DEF Complete
    <3>2. CASE a >= n
      <4>1. CellAt(out', a) = Op("HALT")
        BY <1>3, <3>2
      <4> QED BY <4>1 DEF Op, TypedOp
    <3> QED BY <1>3, <3>1, <3>2
  <2> QED BY <2>1, <2>2 DEF Closed
<1>6. MachineOK'
  <2>1. pc = 0 /\ UNCHANGED <<pc, stack, variables>>
    BY <1>1 DEF SInv, MachineOK, Compiled, Quiet, machineVars
  <2> QED BY <1>1, <1>5, <2>1 DEF SInv, MachineOK, Compiled, Closed
<1>7. CodeOK(out, symbol_table)' /\ ScopesOK' /\ HolesOK' /\ HolesApart'
  BY <1>1, <1>2, Written DEF SInv
<1>8. PendingOK' /\ TableOK' /\ ReaderOK'
  BY <1>1 DEF SInv, PendingOK, TableOK, ReaderOK
<1> QED BY <1>6, <1>7, <1>8 DEF SInv

(* Every action of compile() keeps the invariant.                          *)
LEMMA CompilerKeeps == SInv /\ CompilerNext /\ Quiet => SInv'
<1>1. SInv /\ Quiet /\ (Number \/ ReadVariable \/ Element \/ AddOperator \/ MulOperator
                          \/ Compare \/ OpenParen \/ CloseParen \/ String \/ Semicolon
                          \/ Comment \/ BeginPrint \/ OpenBrace) => SInv'
  BY NumberKeeps, ReadVariableKeeps, ElementKeeps, OperatorKeeps, SilentKeeps,
     CloseParenKeeps, StringKeeps, SemicolonKeeps
<1>2. SInv /\ Quiet /\ (Declare \/ Assign \/ UpdateAtOnce \/ UpdateByRest \/ IncDec
                          \/ InputInto \/ If \/ Else \/ While \/ CloseBrace
                          \/ CloseUnconditional \/ Finish \/ error_exit \/ Overflow) => SInv'
  BY DeclareKeeps, AssignKeeps, UpdateAtOnceKeeps, UpdateByRestKeeps, IncDecKeeps,
     InputIntoKeeps, IfKeeps, ElseKeeps, WhileKeeps, CloseBraceKeeps, StopKeeps, FinishKeeps
<1> QED BY <1>1, <1>2 DEF CompilerNext

-----------------------------------------------------------------------------
(* The machine.                                                            *)

(* Where it goes on.                                                       *)
LEMMA NextCell ==
  ASSUME SInv, NEW names, VM!Executes(names)
  PROVE  /\ status = "running" /\ OpCell(out, pc)
         /\ VM!Name \notin {"JMP", "HALT"} => OpCell(out, pc + Width(VM!Name))
         /\ VM!Name \in Jumps => OpCell(out, VM!Operand(1))
         /\ VM!Name \in names /\ Len(stack) >= VM!Pops(VM!Name)
         /\ VM!Name \in {"PUSH", "LOAD", "INPUT"} => Len(stack) < StackSize
<1>1. /\ status = "running" /\ VM!Name \in names /\ Len(stack) >= VM!Pops(VM!Name)
      /\ VM!Name \in {"PUSH", "LOAD", "INPUT"} => Len(stack) < StackSize
  BY DEF VM!Executes, VM!Fits
<1>2. /\ OpCell(out, pc) /\ Closed(out) /\ CodeOK(out, symbol_table)
  BY <1>1 DEF SInv, MachineOK, Compiled
<1>3. VM!Name = CellAt(out, pc).name /\ VM!Operand(1) = CellAt(out, pc + 1).val
  BY DEF VM!Name, VM!Operand, VM!CellAt, CellAt
<1>4. VM!Name \notin {"JMP", "HALT"} => OpCell(out, pc + Width(VM!Name))
  BY <1>2, <1>3 DEF Closed, OpCell
<1>5. ASSUME VM!Name \in Jumps PROVE OpCell(out, VM!Operand(1))
  <2>1. Complete(out, symbol_table, pc)
    BY <1>2 DEF CodeOK, OpCell
  <2>2. Width(VM!Name) = 2
    BY <1>5, WidthIs
  <2>3. pc + 1 \in 0 .. Len(out) - 1 /\ CellAt(out, pc + 1).kind = "addr"
    <3>1. pc + 2 <= Len(out) /\ CellAt(out, pc + 1).kind = "addr"
      BY <1>3, <1>5, <2>1, <2>2 DEF Complete
    <3>2. Len(out) \in Nat
      BY <1>2, LenOf DEF CodeOK
    <3> QED BY <1>2, <3>1, <3>2 DEF OpCell
  <2> QED BY <1>2, <1>3, <2>3 DEF Closed
<1> QED BY <1>1, <1>2, <1>4, <1>5

LEMMA StackMoves ==
  ASSUME SInv, NEW n \in Nat, n <= Len(stack)
  PROVE  /\ IsSeq(VM!Drop(n)) /\ Len(VM!Drop(n)) <= StackSize
         /\ n > 0 => \A x : /\ IsSeq(Append(VM!Drop(n), x))
                            /\ Len(Append(VM!Drop(n), x)) <= StackSize
<1>1. /\ IsSeq(stack) /\ Len(stack) <= StackSize /\ Len(stack) \in Nat /\ StackSize \in Nat
  BY LenOf, StellarAssumption DEF SInv, MachineOK
<1>2. Len(stack) - n \in 0 .. Len(stack)
  BY <1>1
<1> DEFINE s == VM!Drop(n)
           m == Len(stack) - n
<1>3. s = SubSeq(stack, 1, m)
  BY DEF VM!Drop
<1>4. m \in 0 .. Len(stack) /\ m <= StackSize /\ (n > 0 => m + 1 <= StackSize)
  BY <1>1, <1>2
<1> HIDE DEF s, m
<1>5. IsSeq(s) /\ Len(s) = m
  BY <1>1, <1>3, <1>4, Shortened
<1>6. \A x : IsSeq(Append(s, x)) /\ Len(Append(s, x)) = m + 1
  BY <1>5, Appended
<1> QED BY <1>4, <1>5, <1>6 DEF s

LEMMA StackGrows ==
  ASSUME SInv, Len(stack) < StackSize
  PROVE  \A x : IsSeq(Append(stack, x)) /\ Len(Append(stack, x)) <= StackSize
<1>1. IsSeq(stack) /\ Len(stack) \in Nat /\ StackSize \in Nat
  BY LenOf, StellarAssumption DEF SInv, MachineOK
<1>2. \A x : IsSeq(Append(stack, x)) /\ Len(Append(stack, x)) = Len(stack) + 1
  BY <1>1, Appended
<1> QED BY <1>1, <1>2
(* What a step of the machine leaves true of it.                           *)
MachineStep ==
  /\ status' \in {"running", "halted", "wild", "fault"}
  /\ OpCell(out, pc') /\ IsSeq(stack') /\ Len(stack') <= StackSize
  /\ DOMAIN variables' = DOMAIN variables

LEMMA StopSteps ==
  SInv /\ (VM!Halt \/ VM!GoWild) => MachineStep
<1> SUFFICES ASSUME SInv, VM!Halt \/ VM!GoWild PROVE MachineStep
  OBVIOUS
<1>1. /\ status = "running" /\ status' \in {"halted", "wild"}
      /\ UNCHANGED <<pc, stack, variables>>
  BY DEF VM!Halt, VM!GoWild, VM!Executes, VM!vmVars
<1> QED BY <1>1 DEF MachineStep, SInv, MachineOK, Compiled

LEMMA JumpSteps ==
  SInv /\ (VM!JumpIfZero \/ VM!Jump) => MachineStep
<1> SUFFICES ASSUME SInv, VM!JumpIfZero \/ VM!Jump PROVE MachineStep
  OBVIOUS
<1>1. CASE VM!Jump
  <2>1. /\ VM!Executes({"JMP"}) /\ pc' = VM!Operand(1)
        /\ UNCHANGED <<status, stack, variables>>
    BY <1>1 DEF VM!Jump
  <2>2. status = "running" /\ OpCell(out, VM!Operand(1))
    BY <2>1, NextCell DEF Jumps
  <2> QED BY <2>1, <2>2 DEF MachineStep, SInv, MachineOK
<1>2. CASE VM!JumpIfZero
  <2>1. /\ VM!Executes({"JZ"}) /\ pc' \in {VM!Operand(1), pc + 2}
        /\ stack' = VM!Drop(1) /\ UNCHANGED <<status, variables>>
    BY <1>2 DEF VM!JumpIfZero, VM!Advance
  <2>2. /\ status = "running" /\ VM!Name = "JZ" /\ Len(stack) >= VM!Pops("JZ")
        /\ OpCell(out, VM!Operand(1)) /\ OpCell(out, pc + Width("JZ"))
    BY <2>1, NextCell DEF Jumps
  <2>3. Width("JZ") = 2 /\ VM!Pops("JZ") = 1
    BY DEF Width, Jumps, VM!Pops, VM!Arithmetic, VM!Comparison
  <2>4. IsSeq(stack') /\ Len(stack') <= StackSize
    BY <2>1, <2>2, <2>3, StackMoves, LenOf DEF SInv, MachineOK
  <2> QED BY <2>1, <2>2, <2>3, <2>4 DEF MachineStep
<1> QED BY <1>1, <1>2

(* The opcodes that go on behind their operands.                           *)
LEMMA StepsOn ==
  ASSUME SInv, NEW names, VM!Executes(names), names \cap {"JMP", "HALT"} = {},
         NEW cells, \A name \in names : Width(name) = cells, VM!Advance(cells),
         UNCHANGED status, DOMAIN variables' = DOMAIN variables,
         IsSeq(stack'), Len(stack') <= StackSize
  PROVE  MachineStep
<1>1. /\ status = "running" /\ VM!Name \in names
      /\ VM!Name \notin {"JMP", "HALT"} => OpCell(out, pc + Width(VM!Name))
  BY NextCell
<1> QED BY <1>1 DEF MachineStep, VM!Advance

LEMMA PushSteps ==
  SInv /\ (VM!Push \/ VM!Load \/ VM!Input) => MachineStep
<1> SUFFICES ASSUME SInv, VM!Push \/ VM!Load \/ VM!Input PROVE MachineStep
  OBVIOUS
<1> DEFINE names == IF VM!Push THEN {"PUSH"} ELSE IF VM!Load THEN {"LOAD"} ELSE {"INPUT"}
           cells == IF VM!Push \/ VM!Load THEN 2 ELSE 1
<1>1. /\ VM!Executes(names) /\ VM!Advance(cells)
      /\ \E x : stack' = Append(stack, x)
      /\ UNCHANGED <<status, variables>>
  BY DEF VM!Push, VM!Load, VM!Input
<1>2. /\ \A name \in names : Width(name) = cells
      /\ names \cap {"JMP", "HALT"} = {} /\ names \subseteq {"PUSH", "LOAD", "INPUT"}
  BY DEF Width, Jumps, OnVar, VarVar, VarConst
<1> HIDE DEF names, cells
<1>3. Len(stack) < StackSize
  BY <1>1, <1>2, NextCell
<1> QED BY <1>1, <1>2, <1>3, StackGrows, StepsOn

(* The opcodes that take operands from the stack.                          *)
LEMMA PopSteps ==
  ASSUME SInv, NEW names, VM!Executes(names), names \cap {"JMP", "HALT"} = {},
         NEW cells, \A name \in names : Width(name) = cells, VM!Advance(cells),
         NEW n \in Nat, \A name \in names : VM!Pops(name) = n,
         \/ stack' = VM!Drop(n)
         \/ n > 0 /\ \E x : stack' = Append(VM!Drop(n), x),
         UNCHANGED status, DOMAIN variables' = DOMAIN variables
  PROVE  MachineStep
<1>1. Len(stack) >= n
  BY NextCell
<1>2. Len(stack) \in Nat
  BY LenOf DEF SInv, MachineOK
<1>3. IsSeq(stack') /\ Len(stack') <= StackSize
  BY <1>1, <1>2, StackMoves
<1> QED BY <1>3, StepsOn

LEMMA OperatorSteps ==
  SInv /\ (VM!Binary \/ VM!Remainder \/ VM!ArrayGet) => MachineStep
<1> SUFFICES ASSUME SInv, VM!Binary \/ VM!Remainder \/ VM!ArrayGet PROVE MachineStep
  OBVIOUS
<1> DEFINE names == VM!Arithmetic \cup VM!Comparison \cup {"MOD", "ARRAY_GET"}
<1>1. /\ \A name \in names : Width(name) = 1 /\ VM!Pops(name) = 2
      /\ names \cap {"JMP", "HALT"} = {}
  BY DEF Width, Jumps, OnVar, VarVar, VarConst, VM!Pops, VM!Arithmetic, VM!Comparison
<1>2. \/ VM!Executes(names) /\ status' = "fault" /\ UNCHANGED <<stack, pc, variables>>
      \/ /\ VM!Executes(names) /\ VM!Advance(1) /\ UNCHANGED <<status, variables>>
         /\ \E x : stack' = Append(VM!Drop(2), x)
  <2>1. \A sub : sub \subseteq names /\ VM!Executes(sub) => VM!Executes(names)
    BY DEF VM!Executes
  <2>2. /\ VM!Binary => VM!Executes(VM!Arithmetic \cup VM!Comparison)
        /\ VM!Remainder => VM!Executes({"MOD"})
        /\ VM!ArrayGet => VM!Executes({"ARRAY_GET"})
    BY DEF VM!Binary, VM!Remainder, VM!ArrayGet
  <2>3. VM!Executes(names)
    BY <2>1, <2>2
  <2>4. VM!Binary \/ VM!ArrayGet \/ (VM!Remainder /\ status' # "fault") =>
             /\ VM!Advance(1) /\ UNCHANGED <<status, variables>>
             /\ \E x : stack' = Append(VM!Drop(2), x)
    BY DEF VM!Binary, VM!ArrayGet, VM!Remainder
  <2> QED BY <2>3, <2>4 DEF VM!Binary, VM!ArrayGet, VM!Remainder
<1> HIDE DEF names
<1>3. CASE VM!Executes(names) /\ status' = "fault" /\ UNCHANGED <<stack, pc, variables>>
  <2>1. OpCell(out, pc)
    BY <1>3, NextCell
  <2> QED BY <1>3, <2>1 DEF MachineStep, SInv, MachineOK
<1>4. CASE /\ VM!Executes(names) /\ VM!Advance(1) /\ UNCHANGED <<status, variables>>
           /\ \E x : stack' = Append(VM!Drop(2), x)
  BY <1>1, <1>4, PopSteps
<1> QED BY <1>2, <1>3, <1>4

LEMMA RegisterSteps ==
  SInv /\ (VM!Store \/ VM!IncDec \/ VM!UpdateByVar \/ VM!UpdateByConst) => MachineStep
<1> SUFFICES ASSUME SInv, VM!Store \/ VM!IncDec \/ VM!UpdateByVar \/ VM!UpdateByConst
             PROVE  MachineStep
  OBVIOUS
<1>1. DOMAIN variables' = DOMAIN variables /\ UNCHANGED status
  BY DEF VM!Store, VM!IncDec, VM!UpdateByVar, VM!UpdateByConst, VM!Update
<1>2. CASE VM!Store
  <2>1. VM!Executes({"STORE"}) /\ VM!Advance(2) /\ stack' = VM!Drop(1)
    BY <1>2 DEF VM!Store
  <2>2. Width("STORE") = 2 /\ VM!Pops("STORE") = 1
    BY DEF Width, OnVar, Jumps, VM!Pops, VM!Arithmetic, VM!Comparison
  <2> QED BY <1>1, <2>1, <2>2, PopSteps
<1>3. CASE VM!IncDec \/ VM!UpdateByVar \/ VM!UpdateByConst
  <2>1. UNCHANGED stack /\ IsSeq(stack') /\ Len(stack') <= StackSize
    BY <1>3 DEF VM!IncDec, VM!UpdateByVar, VM!UpdateByConst, SInv, MachineOK
  <2>2. CASE VM!IncDec
    <3>1. VM!Executes({"INC", "DEC"}) /\ VM!Advance(2)
      BY <2>2 DEF VM!IncDec
    <3>2. \A name \in {"INC", "DEC"} : Width(name) = 2
      BY DEF Width, OnVar, Jumps
    <3> QED BY <1>1, <2>1, <3>1, <3>2, StepsOn
  <2>3. CASE VM!UpdateByVar
    <3>1. VM!Executes(VarVar) /\ VM!Advance(3)
      BY <2>3 DEF VM!UpdateByVar, VarVar
    <3>2. (\A name \in VarVar : Width(name) = 3) /\ VarVar \cap {"JMP", "HALT"} = {}
      BY WidthIs DEF VarVar
    <3> QED BY <1>1, <2>1, <3>1, <3>2, StepsOn
  <2>4. CASE VM!UpdateByConst
    <3>1. VM!Executes(VarConst) /\ VM!Advance(3)
      BY <2>4 DEF VM!UpdateByConst, VarConst
    <3>2. (\A name \in VarConst : Width(name) = 3) /\ VarConst \cap {"JMP", "HALT"} = {}
      BY WidthIs DEF VarConst
    <3> QED BY <1>1, <2>1, <3>1, <3>2, StepsOn
  <2> QED BY <1>3, <2>2, <2>3, <2>4
<1> QED BY <1>2, <1>3

LEMMA OutputSteps ==
  SInv /\ (VM!PrintNumber \/ VM!PrintText \/ VM!ArrayMake \/ VM!ArraySet) => MachineStep
<1> SUFFICES ASSUME SInv, VM!PrintNumber \/ VM!PrintText \/ VM!ArrayMake \/ VM!ArraySet
             PROVE  MachineStep
  OBVIOUS
<1>1. UNCHANGED <<status, variables>> /\ VM!Advance(1)
  BY DEF VM!PrintNumber, VM!PrintText, VM!ArrayMake, VM!ArraySet
<1>2. /\ \A name \in {"PRINT", "PRINT_STR", "ARRAY_MAKE", "ARRAY_SET"} : Width(name) = 1
      /\ \A name \in {"PRINT", "PRINT_STR", "ARRAY_MAKE"} : VM!Pops(name) = 1
      /\ VM!Pops("ARRAY_SET") = 3
  BY DEF Width, Jumps, OnVar, VarVar, VarConst, VM!Pops, VM!Arithmetic, VM!Comparison
<1>3. CASE VM!PrintNumber
  <2>1. VM!Executes({"PRINT"}) /\ stack' = VM!Drop(1)
    BY <1>3 DEF VM!PrintNumber
  <2> QED BY <1>1, <1>2, <2>1, PopSteps
<1>4. CASE VM!PrintText
  <2>1. VM!Executes({"PRINT_STR"}) /\ stack' = VM!Drop(1)
    BY <1>4 DEF VM!PrintText
  <2> QED BY <1>1, <1>2, <2>1, PopSteps
<1>5. CASE VM!ArrayMake
  <2>1. VM!Executes({"ARRAY_MAKE"}) /\ \E x : stack' = Append(VM!Drop(1), x)
    BY <1>5 DEF VM!ArrayMake
  <2> QED BY <1>1, <1>2, <2>1, PopSteps
<1>6. CASE VM!ArraySet
  <2>1. VM!Executes({"ARRAY_SET"}) /\ stack' = VM!Drop(3)
    BY <1>6 DEF VM!ArraySet
  <2> QED BY <1>1, <1>2, <2>1, PopSteps
<1> QED BY <1>3, <1>4, <1>5, <1>6

(* Every step of the machine keeps it.                                     *)
LEMMA MachineKeeps ==
  SInv /\ VM!VMNext /\ UNCHANGED <<source, s_ptr, out, pending, var_store, expect_print,
                                   force_semicolon_check, paren_depth, symbol_table, scopes>>
    => SInv'
<1> SUFFICES ASSUME SInv, VM!VMNext,
                    UNCHANGED <<source, s_ptr, out, pending, var_store, expect_print,
                                force_semicolon_check, paren_depth, symbol_table, scopes>>
             PROVE  SInv'
  OBVIOUS
<1>1. MachineStep
  BY StopSteps, JumpSteps, PushSteps, OperatorSteps, RegisterSteps, OutputSteps DEF VM!VMNext
<1>2. status = "running"
  BY DEF VM!VMNext, VM!Executes, VM!Push, VM!Binary, VM!Remainder, VM!JumpIfZero, VM!Jump,
         VM!Store, VM!Load, VM!IncDec, VM!UpdateByVar, VM!UpdateByConst, VM!PrintNumber,
         VM!PrintText, VM!ArrayMake, VM!ArraySet, VM!ArrayGet, VM!Input, VM!Halt, VM!GoWild
<1>3. MachineOK'
  BY <1>1, <1>2 DEF MachineStep, SInv, MachineOK, Compiled
<1>4. UNCHANGED <<source, s_ptr, out, p_add_sub, p_mul_div, p_cmp, var_store, expect_print,
                  paren_depth, symbol_table, if_stack, while_start, while_exit, scope_stack,
                  exit_jmp_stack>>
  BY DEF pending, scopes, loops
<1>5. CodeOK(out, symbol_table)' /\ PendingOK' /\ TableOK' /\ ReaderOK'
  BY <1>4 DEF SInv, PendingOK, TableOK, ReaderOK
<1>6. ScopesOK' /\ HolesOK' /\ HolesApart'
  BY <1>4 DEF SInv, ScopesOK, HolesOK, HolesApart
<1> QED BY <1>3, <1>5, <1>6 DEF SInv

(* It holds at the start, for any sequence of tokens.                      *)
LEMMA InitHolds == Init => SInv
<1> SUFFICES ASSUME Init PROVE SInv
  OBVIOUS
<1>1. /\ s_ptr = 1 /\ out = << >> /\ status = "compiling"
      /\ p_add_sub = << >> /\ p_mul_div = << >> /\ p_cmp = << >>
      /\ var_store = NoVar /\ expect_print = 0 /\ paren_depth = 0
      /\ symbol_table = << >>
      /\ if_stack = << >> /\ while_start = << >> /\ while_exit = << >>
      /\ scope_stack = << >> /\ exit_jmp_stack = << >>
      /\ pc = 0 /\ stack = << >> /\ DOMAIN variables = 0 .. Registers - 1
  BY DEF Init, CompilerInit, VM!VMInit, VM!Fresh
<1> DEFINE none == << >>
<1>2. IsSeq(none) /\ Len(none) = 0 /\ none \in Seq({"if", "else", "while"})
  <2>1. << >> \in Seq({}) /\ Len(<< >>) = 0 /\ << >> \in Seq({"if", "else", "while"})
    BY EmptySeq
  <2> QED BY <2>1, SeqOf
<1> HIDE DEF none
<1>3. /\ out = none /\ symbol_table = none /\ if_stack = none /\ while_start = none
      /\ while_exit = none /\ scope_stack = none /\ exit_jmp_stack = none /\ stack = none
  BY <1>1 DEF none
<1>4. 1 .. 0 = {} /\ 0 .. 0 - 1 = {}
  OBVIOUS
<1>5. CodeOK(out, symbol_table)
  BY <1>2, <1>3, <1>4 DEF CodeOK, Target
<1>6. PendingOK /\ TableOK
  BY <1>1, <1>2, <1>3, <1>4, StellarAssumption DEF PendingOK, NoneOr, TableOK
<1>7. ReaderOK
  <2>1. PICK p \in Programs : source = p.tokens
    BY DEF Init
  <2>2. IsSeq(source) /\ \A i \in 1 .. Len(source) : TokenOK(source[i])
    BY <2>1, StellarAssumption DEF IsSeq
  <2>3. Len(source) \in Nat
    BY <2>2, LenOf
  <2> QED BY <1>1, <1>2, <1>3, <2>2, <2>3 DEF ReaderOK, NoVar
<1>8. ScopesOK
  <2>1. Whiles(scope_stack) = {}
    BY <1>2, <1>3, <1>4 DEF Whiles
  <2> QED BY <1>2, <1>3, <2>1, FS_EmptySet DEF ScopesOK
<1>9. HolesOK /\ HolesApart
  BY <1>2, <1>3, <1>4 DEF HolesOK, HolesApart, Distinct, Disjoint
<1>10. MachineOK
  BY <1>1, <1>2, <1>3, StellarAssumption DEF MachineOK, Compiled
<1> QED BY <1>5, <1>6, <1>7, <1>8, <1>9, <1>10 DEF SInv

(* The inductive invariant: the code written so far is whole, what is to   *)
(* be patched is known, and a machine that runs is at an opcode.           *)
THEOREM Inductive == Spec => []SInv
<1>1. SInv /\ [Next]_stellarVars => SInv'
  <2> SUFFICES ASSUME SInv, [Next]_stellarVars PROVE SInv'
    OBVIOUS
  <2>1. CASE Next
    <3>1. CompilerNext /\ Quiet => SInv'
      BY CompilerKeeps
    <3> QED BY <2>1, <3>1, MachineKeeps DEF Next, Quiet
  <2>2. CASE UNCHANGED stellarVars
    <3>1. UNCHANGED <<source, s_ptr, out, status, p_add_sub, p_mul_div, p_cmp, var_store,
                      expect_print, paren_depth, symbol_table, if_stack, while_start,
                      while_exit, scope_stack, exit_jmp_stack, pc, stack, variables>>
      BY <2>2 DEF stellarVars, compilerVars, machineVars, pending, scopes, loops
    <3>2. CodeOK(out, symbol_table)' /\ PendingOK' /\ TableOK' /\ ReaderOK'
      BY <3>1 DEF SInv, PendingOK, TableOK, ReaderOK
    <3>3. ScopesOK' /\ HolesOK' /\ HolesApart' /\ MachineOK'
      BY <3>1 DEF SInv, ScopesOK, HolesOK, HolesApart, MachineOK, Compiled
    <3> QED BY <3>2, <3>3 DEF SInv
  <2> QED BY <2>1, <2>2
<1> QED BY <1>1, InitHolds, PTL DEF Spec

-----------------------------------------------------------------------------
(* The types, and: whatever the source was, the machine is always at an    *)
(* opcode of its code while it runs; compile() never writes code that it   *)
(* could leave, or in which it could run into an operand or a string.      *)
THEOREM StellarTypeCorrect == Spec => []StellarTypeOK
<1>1. SInv => StellarTypeOK
  <2> SUFFICES ASSUME SInv PROVE StellarTypeOK
    OBVIOUS
  <2>1. \A names : \A p \in NoneOr(names) : Len(p) <= 1
    <3>1. Len(<< >>) = 0 /\ \A x : Len(<<x>>) = 1
      OBVIOUS
    <3>2. \A names : \A p \in NoneOr(names) : p = << >> \/ \E x : p = <<x>>
      BY DEF NoneOr
    <3>3. ASSUME NEW names, NEW p \in NoneOr(names) PROVE Len(p) <= 1
      <4>1. CASE p = << >>
        BY <3>1, <4>1
      <4>2. CASE \E x : p = <<x>>
        <5>1. PICK x : p = <<x>>
          BY <4>2
        <5>2. Len(p) = 1
          BY <3>1, <5>1
        <5> QED BY <5>2
      <4> QED BY <3>2, <3>3, <4>1, <4>2
    <3> QED BY <3>3
  <2>2. \A p \in {p_add_sub, p_mul_div, p_cmp} : Len(p) <= 1
    BY <2>1 DEF SInv, PendingOK
  <2>3. status = "running" => VM!InCode
    BY DEF SInv, MachineOK, Compiled, OpCell, VM!InCode, VM!InCodeAt, VM!CellAt, CellAt
  <2> QED BY <2>2, <2>3 DEF StellarTypeOK, SInv, ReaderOK, ScopesOK, MachineOK
<1> QED BY <1>1, Inductive, PTL

(* Every address of a jump that has not been patched waits in one place of *)
(* the compiler's stacks, and every other jump goes to an opcode, or where *)
(* the next one will be written: whatever the source, also when it is no   *)
(* program and its blocks do not close.                                    *)
THEOREM JumpsAreKnown == Spec => []JumpsPatched
<1>1. SInv => WaitsOnce
  <2> SUFFICES ASSUME SInv PROVE WaitsOnce
    OBVIOUS
  <2> DEFINE n1 == Len(if_stack)
             n2 == Len(exit_jmp_stack)
             n3 == Len(while_exit)
             two == if_stack \o exit_jmp_stack
  <2>1. /\ IsSeq(if_stack) /\ IsSeq(exit_jmp_stack) /\ IsSeq(while_exit)
    BY ScopesAre DEF SInv
  <2>2. /\ IsSeq(two) /\ Len(two) = n1 + n2 /\ n1 \in Nat /\ n2 \in Nat
        /\ \A i \in 1 .. n1 : two[i] = if_stack[i]
        /\ \A i \in 1 .. n2 : two[n1 + i] = exit_jmp_stack[i]
    BY <2>1, Joined
  <2>3. /\ Len(Places) = n1 + n2 + n3 /\ n3 \in Nat
        /\ \A i \in 1 .. n1 + n2 : Places[i] = two[i]
        /\ \A i \in 1 .. n3 : Places[n1 + n2 + i] = while_exit[i]
    <3>1. Places = two \o while_exit
      BY DEF Places
    <3> HIDE DEF two
    <3>2. /\ Len(Places) = Len(two) + n3 /\ n3 \in Nat
          /\ \A i \in 1 .. Len(two) : Places[i] = two[i]
          /\ \A i \in 1 .. n3 : Places[Len(two) + i] = while_exit[i]
      <4>1. /\ Len(two \o while_exit) = Len(two) + Len(while_exit)
            /\ Len(while_exit) \in Nat
            /\ \A i \in 1 .. Len(two) : (two \o while_exit)[i] = two[i]
            /\ \A i \in 1 .. Len(while_exit) :
                 (two \o while_exit)[Len(two) + i] = while_exit[i]
        <5>1. IsSeq(two) /\ IsSeq(while_exit)
          BY <2>1, <2>2
        <5> QED BY <5>1, Joined
      <4> QED BY <3>1, <4>1
    <3> QED BY <2>2, <3>2
  <2> HIDE DEF n1, n2, n3, two
  <2>4. ASSUME NEW i \in 1 .. Len(Places)
        PROVE  \/ i \in 1 .. n1 /\ Places[i] = if_stack[i]
               \/ \E k \in 1 .. n2 : i = n1 + k /\ Places[i] = exit_jmp_stack[k]
               \/ \E k \in 1 .. n3 : i = n1 + n2 + k /\ Places[i] = while_exit[k]
    <3>1. CASE i <= n1
      BY <2>2, <2>3, <3>1
    <3>2. CASE i > n1 /\ i <= n1 + n2
      <4>1. i - n1 \in 1 .. n2 /\ i = n1 + (i - n1) /\ i \in 1 .. n1 + n2
        BY <2>2, <2>3, <3>2
      <4> QED BY <2>2, <2>3, <4>1
    <3>3. CASE i > n1 + n2
      <4>1. i - (n1 + n2) \in 1 .. n3 /\ i = n1 + n2 + (i - (n1 + n2))
        BY <2>2, <2>3, <3>3
      <4> QED BY <2>3, <4>1
    <3> QED BY <2>2, <2>3, <3>1, <3>2, <3>3
  <2>5. ASSUME NEW i \in 1 .. Len(Places), NEW j \in 1 .. Len(Places), i # j,
               Places[i] # NoVar, Places[i] = Places[j]
        PROVE  FALSE
    <3>1. /\ Distinct(if_stack) /\ Distinct(exit_jmp_stack) /\ Distinct(while_exit)
          /\ Disjoint(if_stack, exit_jmp_stack)
          /\ Disjoint(if_stack, while_exit) /\ Disjoint(exit_jmp_stack, while_exit)
      BY DEF SInv, HolesApart
    <3>2. CASE i \in 1 .. n1 /\ Places[i] = if_stack[i]
      <4>1. \A k \in 1 .. n1 : k # i => if_stack[k] # if_stack[i]
        BY <2>5, <3>1, <3>2 DEF Distinct, n1
      <4>2. \A k \in 1 .. n2 : exit_jmp_stack[k] # if_stack[i]
        BY <2>5, <3>1, <3>2 DEF Disjoint, n1, n2
      <4>3. \A k \in 1 .. n3 : while_exit[k] # if_stack[i]
        BY <2>5, <3>1, <3>2 DEF Disjoint, n1, n3
      <4> QED BY <2>4, <2>5, <3>2, <4>1, <4>2, <4>3
    <3>3. CASE \E k \in 1 .. n2 : i = n1 + k /\ Places[i] = exit_jmp_stack[k]
      <4>0. PICK k \in 1 .. n2 : i = n1 + k /\ Places[i] = exit_jmp_stack[k]
        BY <3>3
      <4>1. \A l \in 1 .. n2 : l # k => exit_jmp_stack[l] # exit_jmp_stack[k]
        BY <2>5, <3>1, <4>0 DEF Distinct, n2
      <4>2. \A l \in 1 .. n1 : if_stack[l] # exit_jmp_stack[k]
        BY <2>5, <3>1, <4>0 DEF Disjoint, n1, n2
      <4>3. \A l \in 1 .. n3 : while_exit[l] # exit_jmp_stack[k]
        BY <2>5, <3>1, <4>0 DEF Disjoint, n2, n3
      <4> QED BY <2>4, <2>5, <4>0, <4>1, <4>2, <4>3
    <3>4. CASE \E k \in 1 .. n3 : i = n1 + n2 + k /\ Places[i] = while_exit[k]
      <4>0. PICK k \in 1 .. n3 : i = n1 + n2 + k /\ Places[i] = while_exit[k]
        BY <3>4
      <4>1. \A l \in 1 .. n3 : l # k => while_exit[l] # while_exit[k]
        BY <2>5, <3>1, <4>0 DEF Distinct, n3
      <4>2. \A l \in 1 .. n1 : if_stack[l] # while_exit[k]
        BY <2>5, <3>1, <4>0 DEF Disjoint, n1, n3
      <4>3. \A l \in 1 .. n2 : exit_jmp_stack[l] # while_exit[k]
        BY <2>5, <3>1, <4>0 DEF Disjoint, n2, n3
      <4> QED BY <2>4, <2>5, <4>0, <4>1, <4>2, <4>3
    <3> QED BY <2>4, <3>2, <3>3, <3>4
  <2> QED BY <2>5 DEF WaitsOnce
<1>2. SInv => TargetsKnown
  <2> SUFFICES ASSUME SInv, NEW a \in 0 .. Len(out) - 1, CellAt(out, a).kind = "addr"
               PROVE  LET target == CellAt(out, a).val
                      IN IF a \in Waiting THEN target = 0
                         ELSE IF target = Len(out)
                              THEN status \in {"compiling", "error", "broken"}
                         ELSE VM!InCodeAt(target)
    BY DEF TargetsKnown
  <2> DEFINE target == CellAt(out, a).val
  <2>1. Target(out, target) /\ Len(out) \in Nat
    BY LenOf DEF SInv, CodeOK
  <2>2. a \in Waiting => Hole(out, a)
    <3>1. /\ IsSeq(if_stack) /\ IsSeq(exit_jmp_stack) /\ IsSeq(while_exit)
      BY ScopesAre DEF SInv
    <3>2. Elements(Places) = Elements(if_stack) \cup Elements(exit_jmp_stack)
                               \cup Elements(while_exit)
      <4>1. \A s, t : IsSeq(s) /\ IsSeq(t) =>
              IsSeq(s \o t) /\ Elements(s \o t) = Elements(s) \cup Elements(t)
        BY ElementsOfBoth
      <4> QED BY <3>1, <4>1 DEF Places
    <3> QED BY <3>2 DEF Waiting, Elements, SInv, HolesOK
  <2>3. a \in Waiting => target = 0
    BY <2>2 DEF Hole, Addr
  <2>4. target = Len(out) => status \in {"compiling", "error", "broken"}
    BY <2>1 DEF SInv, MachineOK, Compiled, Closed, OpCell
  <2>5. target # Len(out) => VM!InCodeAt(target)
    BY <2>1 DEF Target, OpCell, VM!InCodeAt, VM!CellAt, CellAt
  <2> QED BY <2>3, <2>4, <2>5
<1> QED BY <1>1, <1>2, Inductive, PTL DEF JumpsPatched

(* An opcode that reads or writes variables is only ever executed with     *)
(* registers that the machine has, and one for ints with a variable that   *)
(* was declared as an int.                                                 *)
RegistersKnown ==
  status = "running" =>
    \A n \in {1, 2} :
      VM!Name \in VarVar \/ (n = 1 /\ VM!Name \in OnVar \cup VarConst) =>
        /\ VM!Operand(n) \in DOMAIN variables
        /\ VM!Operand(n) \in 0 .. Len(symbol_table) - 1
        /\ VM!Type = "int" => TypeOf(VM!Operand(n)) = "int"

(* The machine, on code of compile(), reads no variable that was not       *)
(* declared, and none as an int that is not one, whatever the source.      *)
THEOREM RegistersAreKnown == Spec => []RegistersKnown
<1>1. SInv => RegistersKnown
  <2> SUFFICES ASSUME SInv, status = "running", NEW n \in {1, 2},
                      VM!Name \in VarVar \/ (n = 1 /\ VM!Name \in OnVar \cup VarConst)
               PROVE  /\ VM!Operand(n) \in DOMAIN variables
                      /\ VM!Operand(n) \in 0 .. Len(symbol_table) - 1
                      /\ VM!Type = "int" => TypeOf(VM!Operand(n)) = "int"
    BY DEF RegistersKnown
  <2>1. /\ VM!Name = CellAt(out, pc).name /\ VM!Type = CellAt(out, pc).type
        /\ VM!Operand(n) = CellAt(out, pc + n).val
    BY DEF VM!Name, VM!Type, VM!Operand, VM!CellAt, CellAt
  <2>2. Complete(out, symbol_table, pc)
    BY DEF SInv, CodeOK, MachineOK, Compiled, OpCell
  <2>3. VarCell(out, symbol_table, pc + n, VM!Type)
    BY <2>1, <2>2 DEF Complete
  <2>4. VM!Operand(n) \in 0 .. Len(symbol_table) - 1
        /\ (VM!Type = "int" => TypeOf(VM!Operand(n)) = "int")
    BY <2>1, <2>3 DEF VarCell, TypeOf
  <2>5. /\ DOMAIN variables = 0 .. Registers - 1 /\ Len(symbol_table) <= Symbols
        /\ Symbols <= Registers /\ Symbols \in Nat /\ Registers \in Nat
        /\ Len(symbol_table) \in Nat
    BY LenOf, StellarAssumption DEF SInv, MachineOK, TableOK
  <2> QED BY <2>4, <2>5
<1> QED BY <1>1, Inductive, PTL
=============================================================================
