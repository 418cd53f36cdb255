-------------------------- MODULE StellarStackProofs --------------------------
(***************************************************************************)
(* Theorems about the stack of the machine, for every text that has the    *)
(* form of a program: between statements it is empty, and no more than     *)
(* seven places of it are ever used.  Every place of the code has a level, *)
(* how many values are on the stack whenever the machine is there.         *)
(***************************************************************************)
EXTENDS StellarForm, StellarProofs

-----------------------------------------------------------------------------
(* The steps of the automaton.                                             *)

Form(s) ==
  /\ s = [at |-> s.at, mode |-> s.mode, parens |-> s.parens, compared |-> s.compared]
  /\ s.parens \in Int

Is(t, at, mode, parens, compared) ==
  Form(t) /\ t.at = at /\ t.mode = mode /\ t.parens = parens /\ t.compared = compared

(* Follows, with the parts of the state after the token.                   *)
FollowsParts(s, k, v, t) ==
  \/ /\ s.mode = "none"
     /\ \/ OnPath(s.at, k, v, t.at) /\ Is(t, t.at, "none", 0, 0)
        \/ Beginning(s.at, k, v, t.mode) /\ Is(t, "operand", t.mode, Outermost(t.mode), 0)
  \/ /\ s.mode # "none"
     /\ \/ Inside(s.at, k, v, t.at) /\ Is(t, t.at, s.mode, s.parens, s.compared)
        \/ /\ s.at = "operand" /\ k = "sym" /\ v = "("
           /\ Is(t, "operand", s.mode, s.parens + 1, s.compared)
        \/ /\ s.at = "operator" /\ k = "cmp" /\ s.compared = 0
           /\ Is(t, "operand", s.mode, s.parens, 1)
        \/ /\ s.at = "operator" /\ k = "sym" /\ v = ")" /\ s.parens > Outermost(s.mode)
           /\ Is(t, "operator", s.mode, s.parens - 1, 0)
        \/ /\ s.at = "operator" /\ s.parens = Outermost(s.mode)
           /\ Ending(s.mode, k, v, t.at) /\ Is(t, t.at, "none", 0, 0)

LEMMA PlainIs ==
  \A at : Is(Plain(at), at, "none", 0, 0)
BY DEF Is, Plain, Form

LEMMA BegunIs ==
  \A mode : Is(Begun(mode), "operand", mode, Outermost(mode), 0)
BY DEF Is, Begun, Form, Outermost

LEMMA FollowsAre ==
  ASSUME NEW s, Form(s), NEW token, NEW t, Follows(s, token, t)
  PROVE  FollowsParts(s, token[1], token[2], t)
<1> DEFINE k == token[1]
           v == token[2]
<1>1. \A a : t = [s EXCEPT !.at = a] => Is(t, a, s.mode, s.parens, s.compared)
  BY DEF Form, Is
<1>2. t = [s EXCEPT !.parens = @ + 1] => Is(t, s.at, s.mode, s.parens + 1, s.compared)
  BY DEF Form, Is
<1>3. t = [s EXCEPT !.at = "operand", !.compared = 1]
        => Is(t, "operand", s.mode, s.parens, 1)
  BY DEF Form, Is
<1>4. t = [s EXCEPT !.parens = @ - 1, !.compared = 0]
        => Is(t, s.at, s.mode, s.parens - 1, 0)
  <2> SUFFICES ASSUME t = [s EXCEPT !.parens = @ - 1, !.compared = 0]
               PROVE  Is(t, s.at, s.mode, s.parens - 1, 0)
    OBVIOUS
  <2> DEFINE r == [s EXCEPT !.parens = @ - 1]
  <2>1. r = [at |-> s.at, mode |-> s.mode, parens |-> s.parens - 1, compared |-> s.compared]
    BY DEF Form
  <2>2. t = [r EXCEPT !.compared = 0]
    OBVIOUS
  <2> HIDE DEF r
  <2>3. t = [at |-> s.at, mode |-> s.mode, parens |-> s.parens - 1, compared |-> 0]
    BY <2>1, <2>2
  <2>4. s.parens - 1 \in Int
    BY DEF Form
  <2> QED BY <2>3, <2>4 DEF Is, Form
<1>5. \/ /\ s.mode = "none"
         /\ \/ t = Plain(t.at) /\ OnPath(s.at, k, v, t.at)
            \/ t = Begun(t.mode) /\ Beginning(s.at, k, v, t.mode)
      \/ /\ s.mode # "none"
         /\ \/ t = [s EXCEPT !.at = t.at] /\ Inside(s.at, k, v, t.at)
            \/ s.at = "operand" /\ k = "sym" /\ v = "(" /\ t = [s EXCEPT !.parens = @ + 1]
            \/ /\ s.at = "operator" /\ k = "cmp" /\ s.compared = 0
               /\ t = [s EXCEPT !.at = "operand", !.compared = 1]
            \/ /\ s.at = "operator" /\ k = "sym" /\ v = ")" /\ s.parens > Outermost(s.mode)
               /\ t = [s EXCEPT !.parens = @ - 1, !.compared = 0]
            \/ /\ s.at = "operator" /\ s.parens = Outermost(s.mode)
               /\ t = Plain(t.at) /\ Ending(s.mode, k, v, t.at)
  BY DEF Follows
<1>6. /\ t = Plain(t.at) => Is(t, t.at, "none", 0, 0)
      /\ t = Begun(t.mode) => Is(t, "operand", t.mode, Outermost(t.mode), 0)
  BY PlainIs, BegunIs
<1>7. t = [s EXCEPT !.at = t.at] => Is(t, t.at, s.mode, s.parens, s.compared)
  BY <1>1
<1> HIDE DEF k, v
<1>8. FollowsParts(s, k, v, t)
  BY <1>2, <1>3, <1>4, <1>5, <1>6, <1>7 DEF FollowsParts
<1> QED BY <1>8 DEF k, v
(* A run of it over the source.  Now is its state before the token that    *)
(* compile() is about to read.                                             *)
Shape == CHOOSE shape : Shaped(source, shape)
At(n) == Shape[s_ptr + n]
Now == At(0)

LEMMA ShapeIs == Tidy(source) => Shaped(source, Shape)
BY DEF Tidy, Shape

LEMMA TokenFollows ==
  ASSUME ReaderOK, Tidy(source), NEW n \in Nat, s_ptr + n <= Len(source) + 1,
         Form(At(n)), Kind(n) # "end" \/ At(n).at # "statement"
  PROVE  /\ s_ptr + (n + 1) <= Len(source) + 1
         /\ FollowsParts(At(n), Kind(n), Value(n), At(n + 1))
         /\ Form(At(n + 1))
<1>1. Len(source) \in Nat /\ s_ptr \in 1 .. Len(source) + 1
  BY LenOf DEF ReaderOK
<1>2. Shaped(source, Shape)
  BY ShapeIs
<1>3. s_ptr + n <= Len(source)
  <2>1. SUFFICES ASSUME s_ptr + n > Len(source) PROVE FALSE
    BY <1>1
  <2>2. s_ptr + n = Len(source) + 1
    BY <1>1, <2>1
  <2>3. At(n) = Start
    BY <1>2, <2>2 DEF Shaped, At
  <2>4. At(n).at = "statement"
    BY <2>3 DEF Start, Plain
  <2>5. Kind(n) = "end"
    BY <1>1, <2>1 DEF Kind, Token, End
  <2> QED BY <2>4, <2>5
<1>4. s_ptr + n \in 1 .. Len(source) /\ (s_ptr + n) + 1 = s_ptr + (n + 1)
  BY <1>1, <1>3
<1>5. Token(n) = source[s_ptr + n]
  BY <1>3 DEF Token
<1>6. Follows(At(n), Token(n), At(n + 1))
  BY <1>2, <1>4, <1>5 DEF Shaped, At
<1>7. FollowsParts(At(n), Kind(n), Value(n), At(n + 1))
  BY <1>6, FollowsAre DEF Kind, Value
<1>8. Form(At(n + 1))
  BY <1>7 DEF FollowsParts, Is
<1> QED BY <1>1, <1>3, <1>7, <1>8

-----------------------------------------------------------------------------
(* The levels of a code.                                                   *)

Most == 7

Pushes(name) ==
  IF name \in Arithmetic \cup Comparison
                \cup {"MOD", "ARRAY_GET", "PUSH", "LOAD", "INPUT", "ARRAY_MAKE"}
  THEN 1 ELSE 0

(* What was pushed before the opcode at a is the address of a string.      *)
TextBefore(code, a) ==
  /\ a \in 2 .. Len(code)
  /\ CellAt(code, a - 2).kind = "op" /\ CellAt(code, a - 2).name = "PUSH"
  /\ CellAt(code, a - 1).kind = "const"
  /\ \E t \in 0 .. Len(code) - 1 :
       CellAt(code, t).kind = "text" /\ CellAt(code, a - 1).val = One * t

(* An opcode finds its operands, and nothing is left at a jump.            *)
Flows(code, level, a) ==
  LET name == CellAt(code, a).name
      next == a + Width(name)
  IN /\ next <= Len(code)
     /\ VM!Pops(name) <= level[a]
     /\ level[next] = level[a] - VM!Pops(name) + Pushes(name)
     /\ name \in Jumps \cup {"HALT"} => level[next] = 0
     /\ name = "PRINT_STR" => TextBefore(code, a)

Arrives(code, level, a) == a \in 0 .. Len(code) /\ level[a] = 0

Levels(code, level) ==
  /\ level \in [0 .. Len(code) -> 0 .. Most] /\ level[0] = 0
  /\ \A a \in 0 .. Len(code) - 1 :
       /\ CellAt(code, a).kind = "op" => Flows(code, level, a)
       /\ CellAt(code, a).kind = "addr" => Arrives(code, level, CellAt(code, a).val)

Leads(code, level, h) == IsSeq(code) /\ Levels(code, level) /\ level[Len(code)] = h

(* The levels of longer code are those of the code it began with.          *)
Reaches(code, level, new, h) ==
  \E longer : Leads(new, longer, h) /\ \A a \in 0 .. Len(code) : longer[a] = level[a]

(* An instruction that may be written where the level is from.             *)
Raises(ins, code, level, from, to) ==
  LET name == ins[1].name
  IN /\ IsSeq(ins) /\ Width(name) <= Len(ins)
     /\ \A k \in 1 .. Len(ins) :
          /\ ins[k].kind = "op" => k = 1
          /\ ins[k].kind = "addr" =>
               \/ Arrives(code, level, ins[k].val)
               \/ ins[k].val = Len(code) + Len(ins) /\ to = 0
     /\ VM!Pops(name) <= from
     /\ to = from - VM!Pops(name) + Pushes(name) /\ to \in 0 .. Most
     /\ name \in Jumps \cup {"HALT"} => to = 0
     /\ name = "PRINT_STR" => TextBefore(code, Len(code))

LEMMA PopsPushes ==
  \A name : VM!Pops(name) \in 0 .. 3 /\ Pushes(name) \in 0 .. 1
BY DEF VM!Pops, Pushes

LEMMA TextStays ==
  ASSUME NEW code, NEW new, Len(code) \in Nat, Len(new) \in Nat, Len(code) <= Len(new),
         \A a \in 0 .. Len(code) - 1 : CellAt(new, a) = CellAt(code, a),
         NEW b, TextBefore(code, b)
  PROVE  TextBefore(new, b)
<1>1. b \in 2 .. Len(code) /\ b - 2 \in 0 .. Len(code) - 1 /\ b - 1 \in 0 .. Len(code) - 1
  BY DEF TextBefore
<1>2. \A t \in 0 .. Len(code) - 1 : t \in 0 .. Len(new) - 1
  OBVIOUS
<1> QED BY <1>1, <1>2 DEF TextBefore

(* An instruction written after code with levels.                          *)
LEMMA LiftOne ==
  ASSUME NEW code, NEW level, NEW from, NEW to, NEW ins,
         Leads(code, level, from), Raises(ins, code, level, from, to)
  PROVE  Reaches(code, level, code \o ins, to)
<1> DEFINE new  == code \o ins
           n    == Len(code)
           size == Len(ins)
           name == ins[1].name
           longer == [a \in 0 .. n + size |-> IF a <= n THEN level[a] ELSE to]
<1>1. /\ IsSeq(code) /\ IsSeq(ins) /\ Width(name) <= size /\ Width(name) \in 1 .. 3
      /\ to \in 0 .. Most
  BY WidthIs DEF Leads, Raises
<1>2. /\ IsSeq(new) /\ Len(new) = n + size /\ n \in Nat /\ size \in Nat
      /\ \A i \in 1 .. n : new[i] = code[i]
      /\ \A i \in 1 .. size : new[n + i] = ins[i]
  BY <1>1, Joined
<1>3. /\ level \in [0 .. n -> 0 .. Most] /\ level[0] = 0 /\ level[n] = from
      /\ \A a \in 0 .. n - 1 :
           /\ CellAt(code, a).kind = "op" => Flows(code, level, a)
           /\ CellAt(code, a).kind = "addr" => Arrives(code, level, CellAt(code, a).val)
  BY DEF Leads, Levels
<1> HIDE DEF new, n, size, name
<1>4. /\ longer \in [0 .. n + size -> 0 .. Most]
      /\ \A a \in 0 .. n : longer[a] = level[a]
      /\ \A a \in n + 1 .. n + size : longer[a] = to
  BY <1>1, <1>2, <1>3
<1> HIDE DEF longer
<1>5. /\ \A a \in 0 .. n - 1 : CellAt(new, a) = CellAt(code, a)
      /\ \A a \in n .. n + size - 1 :
           a - n + 1 \in 1 .. size /\ CellAt(new, a) = ins[a - n + 1]
  <2>1. \A a \in 0 .. n - 1 : CellAt(new, a) = CellAt(code, a)
    BY <1>2 DEF CellAt
  <2>2. ASSUME NEW a \in n .. n + size - 1
        PROVE  a - n + 1 \in 1 .. size /\ CellAt(new, a) = ins[a - n + 1]
    <3>1. a - n + 1 \in 1 .. size /\ n + (a - n + 1) = a + 1
      BY <1>2
    <3> QED BY <1>2, <3>1 DEF CellAt
  <2> QED BY <2>1, <2>2
<1>6. \A b : Arrives(code, level, b) => Arrives(new, longer, b)
  BY <1>2, <1>4 DEF Arrives, n
<1>7. \A b : TextBefore(code, b) => TextBefore(new, b)
  BY <1>2, <1>5, TextStays DEF n
<1>8. ASSUME NEW a \in 0 .. Len(new) - 1
      PROVE  /\ CellAt(new, a).kind = "op" => Flows(new, longer, a)
             /\ CellAt(new, a).kind = "addr" => Arrives(new, longer, CellAt(new, a).val)
  <2>1. CASE a < n
    <3>1. a \in 0 .. n - 1 /\ CellAt(new, a) = CellAt(code, a)
      BY <1>2, <1>5, <2>1
    <3>2. CellAt(new, a).kind = "addr" => Arrives(new, longer, CellAt(new, a).val)
      BY <1>3, <1>6, <3>1
    <3>3. ASSUME CellAt(new, a).kind = "op" PROVE Flows(new, longer, a)
      <4> DEFINE m == CellAt(code, a).name
                 next == a + Width(m)
      <4>1. /\ next <= Len(code) /\ VM!Pops(m) <= level[a]
            /\ level[next] = level[a] - VM!Pops(m) + Pushes(m)
            /\ m \in Jumps \cup {"HALT"} => level[next] = 0
            /\ m = "PRINT_STR" => TextBefore(code, a)
        BY <1>3, <3>1, <3>3 DEF Flows
      <4>2. Width(m) \in 1 .. 3
        BY WidthIs
      <4>3. next \in 0 .. n /\ longer[next] = level[next] /\ longer[a] = level[a]
            /\ next <= Len(new)
        BY <1>2, <1>4, <3>1, <4>1, <4>2 DEF n
      <4> QED BY <1>7, <3>1, <4>1, <4>3 DEF Flows
    <3> QED BY <3>2, <3>3
  <2>2. CASE a >= n
    <3>1. PICK k \in 1 .. size : k = a - n + 1 /\ CellAt(new, a) = ins[k]
      BY <1>2, <1>5, <2>2
    <3>2. CellAt(new, a).kind = "addr" => Arrives(new, longer, CellAt(new, a).val)
      <4>1. to = 0 => Arrives(new, longer, n + size)
        <5>1. n + size \in n + 1 .. n + size
          BY <1>1, <1>2
        <5> QED BY <1>2, <1>4, <5>1 DEF Arrives
      <4> QED BY <1>6, <3>1, <4>1 DEF Raises, n, size
    <3>3. ASSUME CellAt(new, a).kind = "op" PROVE Flows(new, longer, a)
      <4>1. k = 1 /\ a = n /\ CellAt(new, a).name = name
        <5>1. k = 1
          BY <3>1, <3>3 DEF Raises, size
        <5>2. a = n
          BY <1>2, <3>1, <5>1
        <5>3. CellAt(new, a) = ins[1]
          BY <3>1, <5>1
        <5> QED BY <5>1, <5>2, <5>3 DEF name
      <4>2. n + Width(name) \in n + 1 .. n + size
        BY <1>1, <1>2
      <4>3. longer[n + Width(name)] = to /\ longer[n] = from
        BY <1>2, <1>3, <1>4, <4>2
      <4>4. /\ VM!Pops(name) <= from /\ to = from - VM!Pops(name) + Pushes(name)
            /\ name \in Jumps \cup {"HALT"} => to = 0
            /\ name = "PRINT_STR" => TextBefore(code, n)
        BY DEF Raises, name, n
      <4> QED BY <1>2, <1>7, <4>1, <4>2, <4>3, <4>4 DEF Flows
    <3> QED BY <3>2, <3>3
  <2> QED BY <1>2, <2>1, <2>2
<1>9. Leads(new, longer, to)
  <2>1. longer[Len(new)] = to
    <3>1. n + size \in n + 1 .. n + size
      BY <1>1, <1>2
    <3> QED BY <1>2, <1>4, <3>1
  <2>2. longer[0] = 0
    BY <1>2, <1>3, <1>4
  <2> QED BY <1>2, <1>4, <1>8, <2>1, <2>2 DEF Leads, Levels
<1>10. \A a \in 0 .. Len(code) : longer[a] = level[a]
  BY <1>4 DEF n
<1>11. Reaches(code, level, new, to)
  BY <1>9, <1>10 DEF Reaches
<1> QED BY <1>11 DEF new
(* Cells that may be written after any code of the level from.             *)
Lifts(s, from, to) ==
  /\ IsSeq(s)
  /\ \A code, level : Leads(code, level, from) => Reaches(code, level, code \o s, to)

LEMMA LiftsNothing ==
  \A h : Lifts(<< >>, h, h)
<1>1. IsSeq(<< >>)
  BY EmitsNothing DEF Emits
<1>2. ASSUME NEW h, NEW code, NEW level, Leads(code, level, h)
      PROVE  Reaches(code, level, code \o << >>, h)
  <2>1. code \o << >> = code
    BY <1>2, JoinedNothing DEF Leads
  <2> QED BY <1>2, <2>1 DEF Reaches
<1> QED BY <1>1, <1>2 DEF Lifts

LEMMA LiftsBoth ==
  ASSUME NEW s, NEW t, NEW from, NEW mid, NEW to, Lifts(s, from, mid), Lifts(t, mid, to)
  PROVE  Lifts(s \o t, from, to)
<1>1. ASSUME NEW code, NEW level, Leads(code, level, from)
      PROVE  Reaches(code, level, code \o (s \o t), to)
  <2>1. PICK longer : Leads(code \o s, longer, mid) /\ \A a \in 0 .. Len(code) : longer[a] = level[a]
    BY <1>1 DEF Lifts, Reaches
  <2>2. PICK longest : /\ Leads((code \o s) \o t, longest, to)
                       /\ \A a \in 0 .. Len(code \o s) : longest[a] = longer[a]
    <3>1. \A c : Leads(c, longer, mid) => Reaches(c, longer, c \o t, to)
      BY DEF Lifts
    <3>2. Reaches(code \o s, longer, (code \o s) \o t, to)
      BY <2>1, <3>1
    <3> QED BY <3>2, Zenon DEF Reaches
  <2>3. Len(code \o s) = Len(code) + Len(s) /\ Len(code) \in Nat /\ Len(s) \in Nat
    BY <1>1, Joined DEF Leads, Lifts
  <2>4. \A a \in 0 .. Len(code) : longest[a] = level[a]
    BY <2>1, <2>2, <2>3
  <2>5. code \o (s \o t) = (code \o s) \o t
    BY <1>1, JoinedThree DEF Leads, Lifts
  <2> QED BY <2>2, <2>4, <2>5 DEF Reaches
<1>2. IsSeq(s \o t)
  BY Joined DEF Lifts
<1> QED BY <1>1, <1>2 DEF Lifts

(* An instruction with no address in it.                                   *)
Simple(ins, name) ==
  /\ IsSeq(ins) /\ ins[1].name = name /\ Width(name) <= Len(ins)
  /\ \A k \in 1 .. Len(ins) :
       (ins[k].kind = "op" => k = 1) /\ ins[k].kind # "addr"
  /\ name \notin Jumps \cup {"HALT", "PRINT_STR"}

LEMMA LiftsSimple ==
  ASSUME NEW ins, NEW name, Simple(ins, name), NEW from, NEW to,
         VM!Pops(name) <= from, to = from - VM!Pops(name) + Pushes(name), to \in 0 .. Most
  PROVE  Lifts(ins, from, to)
<1>1. ASSUME NEW code, NEW level, Leads(code, level, from)
      PROVE  Reaches(code, level, code \o ins, to)
  <2>1. Raises(ins, code, level, from, to)
    BY DEF Raises, Simple
  <2> QED BY <1>1, <2>1, LiftOne
<1> QED BY <1>1 DEF Lifts, Simple

LEMMA SimpleAlone ==
  ASSUME NEW name, Alone(name), name \notin {"HALT", "PRINT_STR"}
  PROVE  Simple(<<Op(name)>>, name)
<1> DEFINE ins == <<Op(name)>>
<1>1. ins \in Seq({Op(name)}) /\ Len(ins) = 1 /\ ins[1] = Op(name)
  OBVIOUS
<1>2. IsSeq(ins)
  BY <1>1, SeqOf
<1>3. Op(name).name = name /\ Op(name).kind = "op" /\ Width(name) = 1 /\ name \notin Jumps
  BY DEF Op, TypedOp, Alone, Width
<1> HIDE DEF ins
<1>4. Simple(ins, name)
  BY <1>1, <1>2, <1>3 DEF Simple
<1> QED BY <1>4 DEF ins

LEMMA SimpleTwo ==
  ASSUME NEW name, name \in OnVar \cup {"PUSH"}, NEW type, NEW x, x.kind \in {"var", "const"}
  PROVE  Simple(<<TypedOp(name, type), x>>, name)
<1> DEFINE op  == TypedOp(name, type)
           ins == <<op, x>>
<1>1. ins \in Seq({op, x}) /\ Len(ins) = 2 /\ ins[1] = op /\ ins[2] = x
  OBVIOUS
<1>2. IsSeq(ins)
  BY <1>1, SeqOf
<1>3. op.name = name /\ op.kind = "op" /\ Width(name) = 2
      /\ name \notin Jumps \cup {"HALT", "PRINT_STR"}
  BY DEF TypedOp, Width, Jumps, OnVar
<1> HIDE DEF ins, op
<1>4. Simple(ins, name)
  BY <1>1, <1>2, <1>3 DEF Simple
<1> QED BY <1>4 DEF ins, op

LEMMA SimpleThree ==
  ASSUME NEW name, name \in VarVar \cup VarConst, NEW type,
         NEW x, x.kind = "var", NEW y, y.kind \in {"var", "const"}
  PROVE  Simple(<<TypedOp(name, type), x, y>>, name)
<1> DEFINE op  == TypedOp(name, type)
           ins == <<op, x, y>>
<1>1. ins \in Seq({op, x, y}) /\ Len(ins) = 3 /\ ins[1] = op /\ ins[2] = x /\ ins[3] = y
  OBVIOUS
<1>2. IsSeq(ins)
  BY <1>1, SeqOf
<1>3. op.name = name /\ op.kind = "op" /\ Width(name) = 3
      /\ name \notin Jumps \cup {"HALT", "PRINT_STR"}
  BY DEF TypedOp, Width, Jumps, OnVar, VarVar, VarConst
<1> HIDE DEF ins, op
<1>4. Simple(ins, name)
  BY <1>1, <1>2, <1>3 DEF Simple
<1> QED BY <1>4 DEF ins, op

LEMMA KindsAre ==
  /\ \A v : Const(v).kind = "const" /\ Const(v).val = v
  /\ \A v : Var(v).kind = "var" /\ Text(v).kind = "text"
  /\ \A v : Addr(v).kind = "addr" /\ Addr(v).val = v
BY DEF Const, Var, Text, Addr

(* The pieces of code the compiler writes.                                 *)
LEMMA LiftsPush ==
  ASSUME NEW v, NEW h \in 0 .. 6
  PROVE  Lifts(<<Op("PUSH"), Const(v)>>, h, h + 1)
<1>1. Simple(<<TypedOp("PUSH", "let"), Const(v)>>, "PUSH")
  BY SimpleTwo, KindsAre
<1>2. VM!Pops("PUSH") = 0 /\ Pushes("PUSH") = 1
  BY DEF VM!Pops, Pushes, VM!Arithmetic, VM!Comparison
<1>3. VM!Pops("PUSH") <= h /\ h + 1 = h - VM!Pops("PUSH") + Pushes("PUSH") /\ h + 1 \in 0 .. Most
  BY <1>2 DEF Most
<1>4. Lifts(<<TypedOp("PUSH", "let"), Const(v)>>, h, h + 1)
  BY <1>1, <1>3, LiftsSimple
<1> QED BY <1>4 DEF Op

LEMMA LiftsLoad ==
  ASSUME NEW type, NEW idx, NEW h \in 0 .. 6
  PROVE  Lifts(<<TypedOp("LOAD", type), Var(idx)>>, h, h + 1)
<1>1. Simple(<<TypedOp("LOAD", type), Var(idx)>>, "LOAD")
  BY SimpleTwo, KindsAre DEF OnVar
<1>2. VM!Pops("LOAD") = 0 /\ Pushes("LOAD") = 1
  BY DEF VM!Pops, Pushes, VM!Arithmetic, VM!Comparison
<1>3. VM!Pops("LOAD") <= h /\ h + 1 = h - VM!Pops("LOAD") + Pushes("LOAD") /\ h + 1 \in 0 .. Most
  BY <1>2 DEF Most
<1> QED BY <1>1, <1>3, LiftsSimple

LEMMA LiftsStore ==
  ASSUME NEW type, NEW idx
  PROVE  Lifts(<<TypedOp("STORE", type), Var(idx)>>, 1, 0)
<1>1. Simple(<<TypedOp("STORE", type), Var(idx)>>, "STORE")
  BY SimpleTwo, KindsAre DEF OnVar
<1>2. VM!Pops("STORE") = 1 /\ Pushes("STORE") = 0
  BY DEF VM!Pops, Pushes, Arithmetic, Comparison, VM!Arithmetic, VM!Comparison
<1>3. VM!Pops("STORE") <= 1 /\ 0 = 1 - VM!Pops("STORE") + Pushes("STORE") /\ 0 \in 0 .. Most
  BY <1>2 DEF Most
<1> QED BY <1>1, <1>3, LiftsSimple

(* The opcodes that work on a register.                                    *)
LEMMA RegisterMoves ==
  ASSUME NEW name \in {"INC", "DEC"} \cup VarVar \cup VarConst
  PROVE  /\ VM!Pops(name) <= 0 /\ 0 = 0 - VM!Pops(name) + Pushes(name)
         /\ 0 \in 0 .. Most
<1>1. VM!Pops(name) = 0 /\ Pushes(name) = 0
  BY DEF VM!Pops, Pushes, Arithmetic, Comparison, VM!Arithmetic, VM!Comparison, VarVar, VarConst
<1> QED BY <1>1 DEF Most

LEMMA LiftsStep ==
  ASSUME NEW name \in {"INC", "DEC"}, NEW type, NEW idx
  PROVE  Lifts(<<TypedOp(name, type), Var(idx)>>, 0, 0)
<1>1. Simple(<<TypedOp(name, type), Var(idx)>>, name)
  BY SimpleTwo, KindsAre DEF OnVar
<1> QED BY <1>1, RegisterMoves, LiftsSimple

LEMMA LiftsUpdate ==
  ASSUME NEW name \in VarVar \cup VarConst, NEW type, NEW idx,
         NEW y, y.kind \in {"var", "const"}
  PROVE  Lifts(<<TypedOp(name, type), Var(idx), y>>, 0, 0)
<1>1. Simple(<<TypedOp(name, type), Var(idx), y>>, name)
  BY SimpleThree, KindsAre
<1> QED BY <1>1, RegisterMoves, LiftsSimple

Operators == {"ADD", "SUB", "MUL", "DIV", "MOD"} \cup Comparison

LEMMA AloneNames ==
  \A name \in Operators \cup {"INPUT", "ARRAY_MAKE", "ARRAY_GET", "ARRAY_SET", "PRINT"} :
    Alone(name) /\ name \notin {"HALT", "PRINT_STR"}
BY DEF Operators, Comparison, Alone, Jumps, OnVar, VarVar, VarConst

LEMMA AloneMoves ==
  /\ \A name \in Operators : VM!Pops(name) = 2 /\ Pushes(name) = 1
  /\ VM!Pops("INPUT") = 0 /\ Pushes("INPUT") = 1
  /\ VM!Pops("ARRAY_MAKE") = 1 /\ Pushes("ARRAY_MAKE") = 1
  /\ VM!Pops("ARRAY_GET") = 2 /\ Pushes("ARRAY_GET") = 1
  /\ VM!Pops("ARRAY_SET") = 3 /\ Pushes("ARRAY_SET") = 0
  /\ VM!Pops("PRINT") = 1 /\ Pushes("PRINT") = 0
BY DEF Operators, VM!Pops, Pushes, Arithmetic, Comparison, VM!Arithmetic, VM!Comparison

LEMMA LiftsAlone ==
  ASSUME NEW name \in Operators \cup {"INPUT", "ARRAY_MAKE", "ARRAY_GET", "ARRAY_SET", "PRINT"},
         NEW from \in 0 .. Most, VM!Pops(name) <= from,
         NEW to \in 0 .. Most, to = from - VM!Pops(name) + Pushes(name)
  PROVE  Lifts(<<Op(name)>>, from, to)
BY AloneNames, SimpleAlone, LiftsSimple

LEMMA LiftsOperator ==
  ASSUME NEW name \in Operators, NEW h \in 2 .. Most
  PROVE  Lifts(<<Op(name)>>, h, h - 1)
<1>1. VM!Pops(name) = 2 /\ Pushes(name) = 1
  BY AloneMoves
<1>2. /\ h \in 0 .. Most /\ h - 1 \in 0 .. Most /\ VM!Pops(name) <= h
      /\ h - 1 = h - VM!Pops(name) + Pushes(name)
  BY <1>1 DEF Most
<1> QED BY <1>2, LiftsAlone

LEMMA LiftsAnElement ==
  ASSUME NEW h \in 2 .. Most PROVE Lifts(<<Op("ARRAY_GET")>>, h, h - 1)
<1>1. VM!Pops("ARRAY_GET") = 2 /\ Pushes("ARRAY_GET") = 1
  BY AloneMoves
<1>2. /\ h \in 0 .. Most /\ h - 1 \in 0 .. Most /\ VM!Pops("ARRAY_GET") <= h
      /\ h - 1 = h - VM!Pops("ARRAY_GET") + Pushes("ARRAY_GET")
  BY <1>1 DEF Most
<1> QED BY <1>2, LiftsAlone

LEMMA LiftsStatements ==
  /\ Lifts(<<Op("INPUT")>>, 0, 1) /\ Lifts(<<Op("ARRAY_MAKE")>>, 1, 1)
  /\ Lifts(<<Op("ARRAY_SET")>>, 3, 0) /\ Lifts(<<Op("PRINT")>>, 1, 0)
<1>1. /\ {0, 1, 3} \subseteq 0 .. Most
      /\ VM!Pops("INPUT") <= 0 /\ 1 = 0 - VM!Pops("INPUT") + Pushes("INPUT")
      /\ VM!Pops("ARRAY_MAKE") <= 1 /\ 1 = 1 - VM!Pops("ARRAY_MAKE") + Pushes("ARRAY_MAKE")
      /\ VM!Pops("ARRAY_SET") <= 3 /\ 0 = 3 - VM!Pops("ARRAY_SET") + Pushes("ARRAY_SET")
      /\ VM!Pops("PRINT") <= 1 /\ 0 = 1 - VM!Pops("PRINT") + Pushes("PRINT")
  BY AloneMoves DEF Most
<1> QED BY <1>1, LiftsAlone

(* A pending operation, or none, takes two values and leaves one.          *)
LEMMA LiftsPending ==
  ASSUME NEW names, names \subseteq Operators, NEW p \in NoneOr(names),
         NEW h \in 1 + Len(p) .. Most
  PROVE  Lifts(p, h, h - Len(p)) /\ Len(p) \in 0 .. 1 /\ (Len(p) = 0 <=> p = << >>)
<1>1. Len(<< >>) = 0 /\ \A x : Len(<<x>>) = 1
  OBVIOUS
<1>2. CASE p = << >>
  <2>1. h - Len(p) = h
    BY <1>1, <1>2 DEF Most
  <2> QED BY <1>1, <1>2, <2>1, LiftsNothing
<1>3. CASE p # << >>
  <2>1. PICK name \in names : p = <<Op(name)>>
    BY <1>3 DEF NoneOr
  <2>2. Len(p) = 1
    BY <1>1, <2>1
  <2>3. h \in 2 .. Most
    BY <2>2 DEF Most
  <2> QED BY <1>3, <2>1, <2>2, <2>3, LiftsOperator
<1> QED BY <1>2, <1>3

LEMMA PendingLengths ==
  ASSUME PendingOK
  PROVE  \A p \in {p_add_sub, p_mul_div, p_cmp} :
           Len(p) \in 0 .. 1 /\ (Len(p) = 0 <=> p = << >>)
<1>1. Len(<< >>) = 0 /\ \A x : Len(<<x>>) = 1
  OBVIOUS
<1>2. \A names : \A p \in NoneOr(names) : p = << >> \/ \E x : p = <<x>>
  BY DEF NoneOr
<1>3. \A p \in {p_add_sub, p_mul_div, p_cmp} : p = << >> \/ \E x : p = <<x>>
  BY <1>2 DEF PendingOK
<1>4. ASSUME NEW p, p = << >> \/ \E x : p = <<x>>
      PROVE  Len(p) \in 0 .. 1 /\ (Len(p) = 0 <=> p = << >>)
  <2>1. CASE p = << >>
    BY <1>1, <2>1
  <2>2. CASE \E x : p = <<x>>
    <3>1. PICK x : p = <<x>>
      BY <2>2
    <3>2. Len(p) = 1 /\ p # << >>
      BY <1>1, <3>1
    <3> QED BY <3>2
  <2> QED BY <1>4, <2>1, <2>2
<1> QED BY <1>3, <1>4

LEMMA LiftsEachPending ==
  ASSUME PendingOK
  PROVE  /\ \A h \in 1 + Len(p_add_sub) .. Most : Lifts(p_add_sub, h, h - Len(p_add_sub))
         /\ \A h \in 1 + Len(p_mul_div) .. Most : Lifts(p_mul_div, h, h - Len(p_mul_div))
         /\ \A h \in 1 + Len(p_cmp) .. Most : Lifts(p_cmp, h, h - Len(p_cmp))
<1>1. {"ADD", "SUB"} \subseteq Operators /\ {"MUL", "DIV", "MOD"} \subseteq Operators
      /\ Comparison \subseteq Operators
  BY DEF Operators
<1> QED BY <1>1, LiftsPending DEF PendingOK

LEMMA LiftsProduct ==
  ASSUME PendingOK, NEW h \in 1 + Len(p_mul_div) + Len(p_add_sub) .. Most
  PROVE  Lifts(p_mul_div \o p_add_sub, h, h - Len(p_mul_div) - Len(p_add_sub))
<1> DEFINE m == Len(p_mul_div)
           a == Len(p_add_sub)
<1>1. m \in 0 .. 1 /\ a \in 0 .. 1
  BY PendingLengths
<1>2. h \in 1 + m .. Most /\ h - m \in 1 + a .. Most
  BY <1>1 DEF Most
<1>3. Lifts(p_mul_div, h, h - m)
  BY <1>2, LiftsEachPending
<1>4. Lifts(p_add_sub, h - m, (h - m) - a)
  BY <1>2, LiftsEachPending
<1> QED BY <1>3, <1>4, LiftsBoth

LEMMA LiftsFlushed ==
  ASSUME PendingOK,
         NEW h \in 1 + Len(p_mul_div) + Len(p_add_sub) + Len(p_cmp) .. Most
  PROVE  Lifts(Flushed, h, h - Len(p_mul_div) - Len(p_add_sub) - Len(p_cmp))
<1> DEFINE m == Len(p_mul_div)
           a == Len(p_add_sub)
           c == Len(p_cmp)
<1>1. m \in 0 .. 1 /\ a \in 0 .. 1 /\ c \in 0 .. 1
  BY PendingLengths
<1>2. h \in 1 + m + a .. Most /\ h - m - a \in 1 + c .. Most
  BY <1>1 DEF Most
<1>3. Lifts(p_mul_div \o p_add_sub, h, h - m - a)
  BY <1>2, LiftsProduct
<1>4. Lifts(p_cmp, h - m - a, (h - m - a) - c)
  BY <1>2, LiftsEachPending
<1> QED BY <1>3, <1>4, LiftsBoth DEF Flushed

-----------------------------------------------------------------------------
(* Jumps and strings.                                                      *)

LEMMA LiftsJump ==
  /\ Lifts(<<Op("JZ"), Addr(0)>>, 1, 0) /\ Lifts(<<Op("JMP"), Addr(0)>>, 0, 0)
<1>1. VM!Pops("JZ") = 1 /\ Pushes("JZ") = 0 /\ VM!Pops("JMP") = 0 /\ Pushes("JMP") = 0
  BY DEF VM!Pops, Pushes, Arithmetic, Comparison, VM!Arithmetic, VM!Comparison
<1>2. ASSUME NEW name \in Jumps, NEW code, NEW level, NEW h, Leads(code, level, h),
             h = VM!Pops(name)
      PROVE  /\ Reaches(code, level, code \o <<Op(name), Addr(0)>>, 0)
             /\ IsSeq(<<Op(name), Addr(0)>>)
  <2> DEFINE ins == <<Op(name), Addr(0)>>
  <2>1. ins \in Seq({Op(name), Addr(0)}) /\ Len(ins) = 2 /\ ins[1] = Op(name) /\ ins[2] = Addr(0)
    OBVIOUS
  <2>2. IsSeq(ins)
    BY <2>1, SeqOf
  <2>3. /\ Op(name).kind = "op" /\ Op(name).name = name /\ Width(name) = 2
        /\ Addr(0).kind = "addr" /\ Addr(0).val = 0
    BY DEF Op, TypedOp, Addr, Width, Jumps, OnVar
  <2>4. Arrives(code, level, 0)
    BY <1>2, LenOf DEF Arrives, Leads, Levels
  <2>5. h - VM!Pops(name) + Pushes(name) = 0 /\ name # "PRINT_STR"
    BY <1>1, <1>2 DEF Jumps
  <2> HIDE DEF ins
  <2>6. Raises(ins, code, level, h, 0)
    <3>1. 0 \in 0 .. Most /\ VM!Pops(name) <= h
      BY <1>1, <1>2 DEF Most, Jumps
    <3>2. \A k \in 1 .. Len(ins) : (ins[k].kind = "op" => k = 1)
            /\ (ins[k].kind = "addr" => Arrives(code, level, ins[k].val))
      BY <2>1, <2>3, <2>4
    <3> QED BY <2>1, <2>2, <2>3, <2>5, <3>1, <3>2 DEF Raises
  <2> QED BY <1>2, <2>2, <2>6, LiftOne DEF ins
<1>3. IsSeq(<<Op("JZ"), Addr(0)>>) /\ IsSeq(<<Op("JMP"), Addr(0)>>)
  BY EmitsJump DEF Jumps, Emits
<1>4. \A code, level : Leads(code, level, 1) => Reaches(code, level, code \o <<Op("JZ"), Addr(0)>>, 0)
  BY <1>1, <1>2 DEF Jumps
<1>5. \A code, level : Leads(code, level, 0) => Reaches(code, level, code \o <<Op("JMP"), Addr(0)>>, 0)
  BY <1>1, <1>2 DEF Jumps
<1> QED BY <1>3, <1>4, <1>5 DEF Lifts

(* A jump to where nothing is on the stack.                                *)
LEMMA ReachesBack ==
  ASSUME NEW code, NEW level, Leads(code, level, 0), NEW t, Arrives(code, level, t)
  PROVE  Reaches(code, level, code \o <<Op("JMP"), Addr(t)>>, 0)
<1> DEFINE ins == <<Op("JMP"), Addr(t)>>
<1>1. ins \in Seq({Op("JMP"), Addr(t)}) /\ Len(ins) = 2 /\ ins[1] = Op("JMP") /\ ins[2] = Addr(t)
  OBVIOUS
<1>2. IsSeq(ins)
  BY <1>1, SeqOf
<1>3. /\ Op("JMP").kind = "op" /\ Op("JMP").name = "JMP" /\ Width("JMP") = 2
      /\ Addr(t).kind = "addr" /\ Addr(t).val = t
  BY DEF Op, TypedOp, Addr, Width, Jumps, OnVar
<1>4. VM!Pops("JMP") = 0 /\ Pushes("JMP") = 0
  BY DEF VM!Pops, Pushes, Arithmetic, Comparison, VM!Arithmetic, VM!Comparison
<1> HIDE DEF ins
<1>5. Raises(ins, code, level, 0, 0)
  <2>1. 0 \in 0 .. Most /\ VM!Pops("JMP") <= 0 /\ 0 = 0 - VM!Pops("JMP") + Pushes("JMP")
    BY <1>4 DEF Most
  <2>2. \A k \in 1 .. Len(ins) : (ins[k].kind = "op" => k = 1)
          /\ (ins[k].kind = "addr" => Arrives(code, level, ins[k].val))
    BY <1>1, <1>3
  <2> QED BY <1>1, <1>2, <1>3, <2>1, <2>2 DEF Raises
<1> QED BY <1>5, LiftOne DEF ins
-----------------------------------------------------------------------------
(* The invariant while compile() reads: how its variables go with the      *)
(* state of the automaton, and the level of what it writes next.           *)

Idle == p_add_sub = << >> /\ p_mul_div = << >> /\ p_cmp = << >> /\ var_store = NoVar

(* A statement is over, and only ';' may come.                             *)
Demanding(s) ==
  /\ Idle /\ expect_print = 0 /\ s.at \notin {"statement", "said"}
  /\ s.mode # "print" => paren_depth = 0 /\ expecting_cond = {}

Between(s) ==
  /\ Idle /\ s.mode = "none"
  /\ s.at \in {"statement", "print", "string", "said", "condition"}
  /\ paren_depth = IF s.at \in {"string", "said"} THEN 1 ELSE 0
  /\ expect_print = IF s.at \in {"print", "string"} THEN 1
                    ELSE IF s.at = "said" THEN 2 ELSE 0
  /\ expecting_cond = IF s.at = "condition" THEN {Depth} ELSE {}

Expressed(s) ==
  /\ s.at \in {"operand", "operator"} /\ s.mode \in {"value", "print", "condition"}
  /\ paren_depth = s.parens
  /\ s.mode = "value" <=> var_store # NoVar
  /\ expect_print = IF s.mode = "print" THEN 1 ELSE 0
  /\ expecting_cond = IF s.mode = "condition" THEN {Depth} ELSE {}
  /\ s.at = "operator" => p_mul_div = << >>
  /\ s.compared = 0 => p_cmp = << >>

Reading(s) ==
  /\ Form(s)
  /\ IF force_semicolon_check THEN Demanding(s) ELSE Between(s) \/ Expressed(s)

(* How many values have been written that nothing has taken yet.           *)
Height(s) ==
  IF force_semicolon_check THEN 0
  ELSE IF s.mode = "none" THEN IF s.at = "said" THEN 1 ELSE 0
  ELSE (IF var_store = ArrayElement THEN 2 ELSE 0)
       + Len(p_mul_div) + Len(p_add_sub) + Len(p_cmp)
       + (IF s.at = "operator" THEN 1 ELSE 0)

(* Where loops go back to, nothing is on the stack.                        *)
LoopsAt(code, level, starts) ==
  \A i \in 1 .. Len(starts) : Arrives(code, level, starts[i])

WrittenTo(h) == \E level : Leads(out, level, h) /\ LoopsAt(out, level, while_start)

(* While compile() is at work: flags and pending operations are as the     *)
(* automaton has it, and the code ends at the level that they need.        *)
CompileOK ==
  /\ stack = << >> /\ Reading(Now) /\ WrittenTo(Height(Now))
  /\ Now.at = "said" => TextBefore(out, Len(out))
Fine == SInv /\ Tidy(source) /\ CompileOK

LEMMA TokenIs ==
  ASSUME ReaderOK, NEW n \in Nat PROVE Token(n) = <<Kind(n), Value(n)>>
<1>1. CASE s_ptr + n <= Len(source)
  <2>1. s_ptr + n \in 1 .. Len(source)
    BY <1>1, LenOf DEF ReaderOK
  <2>2. TokenOK(Token(n))
    BY <1>1, <2>1 DEF ReaderOK, Token
  <2> QED BY <2>2 DEF TokenOK, Kind, Value
<1>2. CASE ~(s_ptr + n <= Len(source))
  BY <1>2 DEF Token, Kind, Value, End
<1> QED BY <1>1, <1>2

LEMMA SymIs ==
  ASSUME NEW n, NEW c, Token(n) = Sym(c) PROVE Kind(n) = "sym" /\ Value(n) = c
BY KindOf, SymAndKey DEF Value

LEMMA NowMoves ==
  ASSUME ReaderOK, UNCHANGED source, NEW n \in Nat, s_ptr' = s_ptr + n
  PROVE  Now' = At(n)
<1>1. Shape' = Shape
  BY DEF Shape
<1>2. s_ptr' + 0 = s_ptr + n
  BY DEF ReaderOK
<1> QED BY <1>1, <1>2 DEF Now, At

LEMMA InPlace == ReaderOK => s_ptr + 0 <= Len(source) + 1
<1>1. ReaderOK => Len(source) \in Nat /\ s_ptr \in 1 .. Len(source) + 1
  BY LenOf DEF ReaderOK
<1> QED BY <1>1

(* The token that is read, when no ';' is demanded.                        *)
LEMMA FirstToken ==
  ASSUME Fine, ~Refused, Kind(0) # "end", Token(0) # Sym(";")
  PROVE  /\ ~force_semicolon_check /\ Form(Now) /\ (Between(Now) \/ Expressed(Now))
         /\ FollowsParts(Now, Kind(0), Value(0), At(1)) /\ Form(At(1))
         /\ s_ptr + 1 <= Len(source) + 1
<1>1. Token(0) # End
  BY KindOf
<1>2. ~force_semicolon_check
  BY <1>1 DEF Refused
<1>3. Form(Now) /\ (Between(Now) \/ Expressed(Now))
  BY <1>2 DEF Fine, CompileOK, Reading
<1>4. s_ptr + 0 <= Len(source) + 1
  BY InPlace DEF Fine, SInv
<1>5. /\ s_ptr + (0 + 1) <= Len(source) + 1
      /\ FollowsParts(At(0), Kind(0), Value(0), At(0 + 1)) /\ Form(At(0 + 1))
  BY <1>3, <1>4, TokenFollows DEF Fine, SInv, Now
<1> QED BY <1>2, <1>3, <1>5, ZeroAndOne DEF Now

(* Code with levels, longer than the code was, is the new code.            *)
LEMMA ReachesOn ==
  ASSUME Fine, UNCHANGED <<stack, while_start>>, NEW level, Leads(out, level, Height(Now)),
         LoopsAt(out, level, while_start), Len(out') \in Nat, Len(out) <= Len(out'),
         Reaches(out, level, out', Height(Now)'), Reading(Now)',
         Now'.at = "said" => TextBefore(out', Len(out'))
  PROVE  CompileOK'
<1>1. PICK longer : Leads(out', longer, Height(Now)')
                    /\ \A a \in 0 .. Len(out) : longer[a] = level[a]
  BY Zenon DEF Reaches
<1>2. Len(out) \in Nat
  BY LenOf DEF Leads
<1>3. \A t : Arrives(out, level, t) => Arrives(out', longer, t)
  BY <1>1, <1>2 DEF Arrives
<1>4. LoopsAt(out', longer, while_start')
  BY <1>3 DEF LoopsAt
<1>5. WrittenTo(Height(Now))'
  BY <1>1, <1>4 DEF WrittenTo
<1> QED BY <1>5 DEF Fine, CompileOK

(* A step that writes cells and opens or closes no loop.                   *)
LEMMA WritesOn ==
  ASSUME Fine, UNCHANGED <<stack, while_start>>, NEW cells, out' = out \o cells,
         NEW h, Lifts(cells, Height(Now), h), Height(Now)' = h, Reading(Now)',
         Now'.at = "said" => TextBefore(out', Len(out'))
  PROVE  CompileOK'
<1>1. PICK level : Leads(out, level, Height(Now)) /\ LoopsAt(out, level, while_start)
  BY DEF Fine, CompileOK, WrittenTo
<1>2. Reaches(out, level, out', Height(Now)')
  BY <1>1 DEF Lifts
<1>3. Len(out') \in Nat /\ Len(out) <= Len(out')
  BY <1>1, Joined DEF Lifts, Leads
<1> QED BY <1>1, <1>2, <1>3, ReachesOn

LEMMA FewValues ==
  \A base \in {0, 2}, m, a, c \in 0 .. 1, top \in {0, 1} :
    (top = 1 => m = 0) => base + m + a + c + top \in 0 .. 5
OBVIOUS

(* How many values an expression has on the stack.                         *)
LEMMA HeightIs ==
  ASSUME Fine, ~force_semicolon_check, Expressed(Now)
  PROVE  /\ Height(Now) = (IF var_store = ArrayElement THEN 2 ELSE 0)
                          + Len(p_mul_div) + Len(p_add_sub) + Len(p_cmp)
                          + (IF Now.at = "operator" THEN 1 ELSE 0)
         /\ Len(p_mul_div) \in 0 .. 1 /\ Len(p_add_sub) \in 0 .. 1 /\ Len(p_cmp) \in 0 .. 1
         /\ Now.at = "operator" => Len(p_mul_div) = 0
         /\ Now.compared = 0 => Len(p_cmp) = 0
         /\ Height(Now) \in 0 .. 5
<1>1. \A p \in {p_add_sub, p_mul_div, p_cmp} : Len(p) \in 0 .. 1 /\ (Len(p) = 0 <=> p = << >>)
  BY PendingLengths DEF Fine, SInv
<1>2. Now.mode # "none"
  BY DEF Expressed
<1>3. Height(Now) = (IF var_store = ArrayElement THEN 2 ELSE 0)
                    + Len(p_mul_div) + Len(p_add_sub) + Len(p_cmp)
                    + (IF Now.at = "operator" THEN 1 ELSE 0)
  BY <1>2 DEF Height
<1>4. (Now.at = "operator" => Len(p_mul_div) = 0) /\ (Now.compared = 0 => Len(p_cmp) = 0)
  BY <1>1 DEF Expressed
<1> DEFINE base == IF var_store = ArrayElement THEN 2 ELSE 0
           top  == IF Now.at = "operator" THEN 1 ELSE 0
<1>5. /\ base \in {0, 2} /\ top \in {0, 1} /\ (top = 1 => Len(p_mul_div) = 0)
      /\ Height(Now) = base + Len(p_mul_div) + Len(p_add_sub) + Len(p_cmp) + top
  BY <1>3, <1>4
<1> HIDE DEF base, top
<1>6. Height(Now) \in 0 .. 5
  <2>1. Len(p_mul_div) \in 0 .. 1 /\ Len(p_add_sub) \in 0 .. 1 /\ Len(p_cmp) \in 0 .. 1
    BY <1>1
  <2>2. base + Len(p_mul_div) + Len(p_add_sub) + Len(p_cmp) + top \in 0 .. 5
    <3>1. top = 1 => Len(p_mul_div) = 0
      BY <1>5
    <3> HIDE <1>1, <1>3, <1>4
    <3> QED BY <1>5, <2>1, <3>1, FewValues, Zenon
  <2> QED BY <1>5, <2>2
<1> QED BY <1>1, <1>3, <1>4, <1>6 DEF base, top
Base == IF var_store = ArrayElement THEN 2 ELSE 0
HeightAfter(at) ==
  Base + Len(p_mul_div') + Len(p_add_sub') + Len(p_cmp') + (IF at = "operator" THEN 1 ELSE 0)

(* A step within an expression.                                            *)
LEMMA ExpressionGoesOn ==
  ASSUME Fine, Quiet, ~force_semicolon_check, Expressed(Now),
         NEW n \in Nat, s_ptr' = s_ptr + n,
         UNCHANGED <<source, var_store, expect_print, force_semicolon_check>>, UNCHANGED scopes,
         NEW at \in {"operand", "operator"}, Is(At(n), at, Now.mode, At(n).parens, At(n).compared),
         paren_depth' = At(n).parens,
         at = "operator" => p_mul_div' = << >>, At(n).compared = 0 => p_cmp' = << >>,
         NEW cells, out' = out \o cells, Lifts(cells, Height(Now), HeightAfter(at))
  PROVE  CompileOK'
<1>1. Now' = At(n)
  BY NowMoves DEF Fine, SInv
<1>2. UNCHANGED <<while_start, scope_stack, expecting_cond>>
  BY DEF scopes, loops
<1>3. Now'.mode = Now.mode /\ Now'.at = at /\ Now.mode # "none" /\ Form(Now')
  BY <1>1 DEF Is, Expressed
<1>4. Height(Now)' = HeightAfter(at)
  BY <1>3 DEF Height, HeightAfter, Base
<1>5. Reading(Now)'
  <2>1. Expressed(Now)'
    BY <1>1, <1>2, <1>3 DEF Expressed, Depth
  <2>2. Form(Now)'
    BY <1>3 DEF Form
  <2> QED BY <2>1, <2>2 DEF Reading
<1>6. Now'.at # "said"
  BY <1>3
<1> QED BY <1>2, <1>4, <1>5, <1>6, WritesOn DEF Quiet, machineVars

LEMMA OperandWrites ==
  ASSUME Fine, Quiet, ~force_semicolon_check, Expressed(Now), Now.at = "operand",
         Is(At(1), "operator", Now.mode, Now.parens, Now.compared),
         NEW cells, \A h \in 0 .. 6 : Lifts(cells, h, h + 1), Operand(cells)
  PROVE  CompileOK'
<1>1. /\ out' = out \o (cells \o p_mul_div) /\ p_mul_div' = << >> /\ s_ptr' = s_ptr + 1
      /\ UNCHANGED <<source, p_add_sub, p_cmp, var_store, expect_print, force_semicolon_check,
                     paren_depth>> /\ UNCHANGED scopes
  BY DEF Operand, Emit, Skip
<1> DEFINE base == Base
           m == Len(p_mul_div)
           a == Len(p_add_sub)
           c == Len(p_cmp)
           h == base + m + a + c
<1>2. /\ Height(Now) = h + 0 /\ m \in 0 .. 1 /\ a \in 0 .. 1 /\ c \in 0 .. 1
      /\ base \in {0, 2}
  BY HeightIs DEF Base
<1>3. HeightAfter("operator") = base + 0 + a + c + 1
  <2>1. Len(<< >>) = 0
    OBVIOUS
  <2> QED BY <1>1, <2>1 DEF HeightAfter
<1> HIDE DEF base, m, a, c
<1>4. /\ h \in 0 .. 6 /\ h + 1 \in 1 + m .. Most /\ (h + 1) - m = base + 0 + a + c + 1
      /\ h + 0 = h
  BY <1>2 DEF Most
<1> HIDE DEF h
<1>5. Lifts(cells, h, h + 1)
  BY <1>4
<1>6. Lifts(p_mul_div, h + 1, (h + 1) - m)
  BY <1>4, LiftsEachPending DEF Fine, SInv, m
<1>7. Lifts(cells \o p_mul_div, Height(Now), HeightAfter("operator"))
  BY <1>2, <1>3, <1>4, <1>5, <1>6, LiftsBoth
<1>8. /\ Is(At(1), "operator", Now.mode, At(1).parens, At(1).compared)
      /\ At(1).parens = Now.parens /\ At(1).compared = Now.compared
  BY DEF Is
<1>9. paren_depth' = At(1).parens /\ (At(1).compared = 0 => p_cmp' = << >>)
  BY <1>1, <1>8 DEF Expressed
<1> QED BY <1>1, <1>7, <1>8, <1>9, ExpressionGoesOn

LEMMA NumberWrites == Fine /\ Quiet /\ Number => CompileOK'
<1> SUFFICES ASSUME Fine, Quiet, Number PROVE CompileOK'
  OBVIOUS
<1>1. ~Refused /\ Kind(0) = "num" /\ Operand(<<Op("PUSH"), Const(Value(0))>>)
  BY DEF Number, Reads
<1>2. Kind(0) # "end" /\ Token(0) # Sym(";")
  BY <1>1, KindOf
<1>3. /\ ~force_semicolon_check /\ (Between(Now) \/ Expressed(Now))
      /\ FollowsParts(Now, "num", Value(0), At(1))
  BY <1>1, <1>2, FirstToken
<1>4. Expressed(Now) /\ Now.at = "operand"
      /\ Is(At(1), "operator", Now.mode, Now.parens, Now.compared)
  BY <1>3 DEF FollowsParts, OnPath, Beginning, Inside, Ending, Between, Expressed, Is
<1> QED BY <1>1, <1>3, <1>4, LiftsPush, OperandWrites

(* A name in an expression is a variable's, or an array's.                 *)
LEMMA NameInExpression ==
  ASSUME Fine, Reads("name"), Now.mode # "none"
  PROVE  /\ ~force_semicolon_check /\ Expressed(Now) /\ Now.at = "operand"
         /\ \/ /\ Is(At(1), "operator", Now.mode, Now.parens, Now.compared)
               /\ Token(1) # Sym("[")
            \/ /\ Is(At(1), "array", Now.mode, Now.parens, Now.compared)
               /\ Token(1) = Sym("[") /\ Is(At(2), "index", Now.mode, Now.parens, Now.compared)
         /\ Form(At(1)) /\ s_ptr + 1 <= Len(source) + 1
         /\ Kind(1) \notin {"step", "update"} /\ Token(1) # Sym("=")
<1>1. ~Refused /\ Kind(0) = "name"
  BY DEF Reads
<1>2. Kind(0) # "end" /\ Token(0) # Sym(";")
  BY <1>1, KindOf
<1>3. /\ ~force_semicolon_check /\ (Between(Now) \/ Expressed(Now))
      /\ FollowsParts(Now, "name", Value(0), At(1)) /\ Form(At(1))
      /\ s_ptr + 1 <= Len(source) + 1
  BY <1>1, <1>2, FirstToken
<1>4. Expressed(Now) /\ Now.at = "operand"
      /\ At(1).at \in {"operator", "array"}
      /\ Is(At(1), At(1).at, Now.mode, Now.parens, Now.compared)
  BY <1>3 DEF FollowsParts, OnPath, Beginning, Inside, Ending, Between, Expressed, Is
<1>5. FollowsParts(At(1), Kind(1), Value(1), At(2))
  <2>1. FollowsParts(At(1), Kind(1), Value(1), At(1 + 1))
    BY <1>3, <1>4, TokenFollows DEF Fine, SInv
  <2>2. 1 + 1 = 2
    OBVIOUS
  <2> QED BY <2>1, <2>2
<1>6. At(1).mode = Now.mode /\ At(1).parens = Now.parens /\ At(1).compared = Now.compared
  BY <1>4 DEF Is
<1>7. CASE At(1).at = "array"
  <2>1. /\ Kind(1) = "sym" /\ Value(1) = "["
        /\ Is(At(2), "index", Now.mode, Now.parens, Now.compared)
    BY <1>5, <1>6, <1>7 DEF FollowsParts, OnPath, Beginning, Inside, Ending, Is
  <2>2. Token(1) = Sym("[")
    BY <2>1, TokenIs DEF Fine, SInv, Sym
  <2>3. Token(1) # Sym("=")
    BY <2>2, SymAndKey
  <2> QED BY <1>3, <1>4, <1>7, <2>1, <2>2, <2>3
<1>8. CASE At(1).at = "operator"
  <2>1. Kind(1) \in {"add", "mul", "cmp"} \/ (Kind(1) = "sym" /\ Value(1) \in {")", ";"})
    BY <1>3, <1>5, <1>6, <1>8 DEF FollowsParts, OnPath, Beginning, Inside, Ending
  <2>2. Token(1) # Sym("=") /\ Token(1) # Sym("[")
    <3>1. /\ Token(1) = Sym("=") => Kind(1) = "sym" /\ Value(1) = "="
          /\ Token(1) = Sym("[") => Kind(1) = "sym" /\ Value(1) = "["
      BY SymIs
    <3> QED BY <2>1, <3>1
  <2> QED BY <1>3, <1>4, <1>8, <2>1, <2>2
<1> QED BY <1>4, <1>7, <1>8

LEMMA ReadVariableInExpression ==
  ASSUME Fine, Quiet, ReadVariable, Now.mode # "none" PROVE CompileOK'
<1>1. Reads("name") /\ Token(1) # Sym("[") /\ Operand(LoadVar(find_variable(Value(0))))
  BY DEF ReadVariable
<1>2. /\ ~force_semicolon_check /\ Expressed(Now) /\ Now.at = "operand"
      /\ Is(At(1), "operator", Now.mode, Now.parens, Now.compared)
  BY <1>1, NameInExpression
<1>3. \A h \in 0 .. 6 : Lifts(LoadVar(find_variable(Value(0))), h, h + 1)
  BY LiftsLoad DEF LoadVar
<1> QED BY <1>1, <1>2, <1>3, OperandWrites
(* A name at the start of a statement.                                     *)
LEMMA NameInStatement ==
  ASSUME Fine, Reads("name"), Now.mode = "none"
  PROVE  /\ ~force_semicolon_check /\ Between(Now) /\ Now.at = "statement"
         /\ \/ Kind(1) = "step" /\ Is(At(2), "ended", "none", 0, 0)
            \/ Kind(1) = "update" /\ Is(At(2), "operand", "value", 0, 0)
            \/ Token(1) = Sym("[") /\ Is(At(2), "place", "none", 0, 0)
            \/ Token(1) = Sym("=") /\ Is(At(2), "operand", "value", 0, 0)
         /\ s_ptr + 2 <= Len(source) + 1
<1>1. ~Refused /\ Kind(0) = "name"
  BY DEF Reads
<1>2. Kind(0) # "end" /\ Token(0) # Sym(";")
  BY <1>1, KindOf
<1>3. /\ ~force_semicolon_check /\ (Between(Now) \/ Expressed(Now))
      /\ FollowsParts(Now, "name", Value(0), At(1)) /\ Form(At(1))
      /\ s_ptr + 1 <= Len(source) + 1
  BY <1>1, <1>2, FirstToken
<1>4. Between(Now) /\ Now.at = "statement" /\ Is(At(1), "target", "none", 0, 0)
  BY <1>3 DEF FollowsParts, OnPath, Beginning, Between, Expressed, Is
<1>5. At(1).at = "target" /\ At(1).mode = "none"
  BY <1>4 DEF Is
<1>6. FollowsParts(At(1), Kind(1), Value(1), At(2)) /\ s_ptr + 2 <= Len(source) + 1
  <2>1. /\ FollowsParts(At(1), Kind(1), Value(1), At(1 + 1))
        /\ s_ptr + (1 + 1) <= Len(source) + 1
    BY <1>3, <1>5, TokenFollows DEF Fine, SInv
  <2>2. 1 + 1 = 2
    OBVIOUS
  <2> QED BY <2>1, <2>2
<1>7. \/ Kind(1) = "step" /\ Is(At(2), "ended", "none", 0, 0)
      \/ Kind(1) = "update" /\ Is(At(2), "operand", "value", 0, 0)
      \/ Kind(1) = "sym" /\ Value(1) = "[" /\ Is(At(2), "place", "none", 0, 0)
      \/ Kind(1) = "sym" /\ Value(1) = "=" /\ Is(At(2), "operand", "value", 0, 0)
  BY <1>5, <1>6 DEF FollowsParts, OnPath, Beginning, Outermost, Is
<1>8. \A c : Kind(1) = "sym" /\ Value(1) = c => Token(1) = Sym(c)
  BY TokenIs DEF Fine, SInv, Sym
<1>9. \/ Kind(1) = "step" /\ Is(At(2), "ended", "none", 0, 0)
      \/ Kind(1) = "update" /\ Is(At(2), "operand", "value", 0, 0)
      \/ Token(1) = Sym("[") /\ Is(At(2), "place", "none", 0, 0)
      \/ Token(1) = Sym("=") /\ Is(At(2), "operand", "value", 0, 0)
  BY <1>7, <1>8
<1> QED BY <1>3, <1>4, <1>6, <1>9

LEMMA ReadVariableWrites == Fine /\ Quiet /\ ReadVariable => CompileOK'
<1> SUFFICES ASSUME Fine, Quiet, ReadVariable PROVE CompileOK'
  OBVIOUS
<1>1. /\ Reads("name") /\ Kind(1) \notin {"update", "step"}
      /\ Token(1) # Sym("=") /\ Token(1) # Sym("[")
  BY DEF ReadVariable
<1>2. Now.mode # "none"
  BY <1>1, NameInStatement
<1> QED BY <1>2, ReadVariableInExpression

(* Operators: what is complete is written.                                 *)
LEMMA AddOperatorWrites == Fine /\ Quiet /\ AddOperator => CompileOK'
<1> SUFFICES ASSUME Fine, Quiet, AddOperator PROVE CompileOK'
  OBVIOUS
<1>1. /\ ~Refused /\ Kind(0) = "add" /\ out' = out \o p_add_sub
      /\ p_add_sub' = <<Op(Value(0))>> /\ s_ptr' = s_ptr + 1
      /\ UNCHANGED <<source, p_mul_div, p_cmp, var_store, expect_print,
                     force_semicolon_check, paren_depth>> /\ UNCHANGED scopes
  BY DEF AddOperator, Reads, Emit, Skip
<1>2. Kind(0) # "end" /\ Token(0) # Sym(";")
  BY <1>1, KindOf
<1>3. /\ ~force_semicolon_check /\ (Between(Now) \/ Expressed(Now))
      /\ FollowsParts(Now, "add", Value(0), At(1))
  BY <1>1, <1>2, FirstToken
<1>4. Expressed(Now) /\ Now.at = "operator"
      /\ Is(At(1), "operand", Now.mode, Now.parens, Now.compared)
  BY <1>3 DEF FollowsParts, OnPath, Beginning, Inside, Ending, Between, Expressed, Is
<1> DEFINE base == Base
           m == Len(p_mul_div)
           a == Len(p_add_sub)
           c == Len(p_cmp)
           h == base + m + a + c + 1
<1>5. /\ Height(Now) = h /\ m = 0 /\ a \in 0 .. 1 /\ c \in 0 .. 1 /\ base \in {0, 2}
  BY <1>3, <1>4, HeightIs DEF Base
<1>6. HeightAfter("operand") = base + m + 1 + c + 0
  <2>1. \A x : Len(<<x>>) = 1
    OBVIOUS
  <2> QED BY <1>1, <2>1 DEF HeightAfter
<1> HIDE DEF base, m, a, c
<1>7. h \in 1 + a .. Most /\ h - a = base + m + 1 + c + 0
  BY <1>5 DEF Most
<1> HIDE DEF h
<1>8. Lifts(p_add_sub, Height(Now), HeightAfter("operand"))
  BY <1>5, <1>6, <1>7, LiftsEachPending DEF Fine, SInv, a
<1>9. /\ Is(At(1), "operand", Now.mode, At(1).parens, At(1).compared)
      /\ paren_depth' = At(1).parens /\ (At(1).compared = 0 => p_cmp' = << >>)
  BY <1>1, <1>4 DEF Is, Expressed
<1> QED BY <1>1, <1>3, <1>4, <1>8, <1>9, ExpressionGoesOn
LEMMA MulOperatorWrites == Fine /\ Quiet /\ MulOperator => CompileOK'
<1> SUFFICES ASSUME Fine, Quiet, MulOperator PROVE CompileOK'
  OBVIOUS
<1>1. /\ ~Refused /\ Kind(0) = "mul" /\ out' = out \o p_mul_div
      /\ p_mul_div' = <<Op(Value(0))>> /\ s_ptr' = s_ptr + 1
      /\ UNCHANGED <<source, p_add_sub, p_cmp, var_store, expect_print,
                     force_semicolon_check, paren_depth>> /\ UNCHANGED scopes
  BY DEF MulOperator, Reads, Emit, Skip
<1>2. Kind(0) # "end" /\ Token(0) # Sym(";")
  BY <1>1, KindOf
<1>3. /\ ~force_semicolon_check /\ (Between(Now) \/ Expressed(Now))
      /\ FollowsParts(Now, "mul", Value(0), At(1))
  BY <1>1, <1>2, FirstToken
<1>4. Expressed(Now) /\ Now.at = "operator"
      /\ Is(At(1), "operand", Now.mode, Now.parens, Now.compared)
  BY <1>3 DEF FollowsParts, OnPath, Beginning, Inside, Ending, Between, Expressed, Is
<1> DEFINE base == Base
           m == Len(p_mul_div)
           a == Len(p_add_sub)
           c == Len(p_cmp)
           h == base + m + a + c + 1
<1>5. /\ Height(Now) = h /\ m = 0 /\ a \in 0 .. 1 /\ c \in 0 .. 1 /\ base \in {0, 2}
  BY <1>3, <1>4, HeightIs DEF Base
<1>6. HeightAfter("operand") = base + 1 + a + c + 0
  <2>1. \A x : Len(<<x>>) = 1
    OBVIOUS
  <2> QED BY <1>1, <2>1 DEF HeightAfter
<1> HIDE DEF base, m, a, c
<1>7. h \in 1 + m .. Most /\ h - m = base + 1 + a + c + 0
  BY <1>5 DEF Most
<1> HIDE DEF h
<1>8. Lifts(p_mul_div, Height(Now), HeightAfter("operand"))
  BY <1>5, <1>6, <1>7, LiftsEachPending DEF Fine, SInv, m
<1>9. /\ Is(At(1), "operand", Now.mode, At(1).parens, At(1).compared)
      /\ paren_depth' = At(1).parens /\ (At(1).compared = 0 => p_cmp' = << >>)
  BY <1>1, <1>4 DEF Is, Expressed
<1> QED BY <1>1, <1>3, <1>4, <1>8, <1>9, ExpressionGoesOn

(* No comparison waits when another is read.                               *)
LEMMA CompareWrites == Fine /\ Quiet /\ Compare => CompileOK'
<1> SUFFICES ASSUME Fine, Quiet, Compare PROVE CompileOK'
  OBVIOUS
<1>1. /\ ~Refused /\ Kind(0) = "cmp" /\ out' = out \o (p_mul_div \o p_add_sub)
      /\ p_mul_div' = << >> /\ p_add_sub' = << >> /\ p_cmp' = <<Op(Value(0))>>
      /\ s_ptr' = s_ptr + 1
      /\ UNCHANGED <<source, var_store, expect_print,
                     force_semicolon_check, paren_depth>> /\ UNCHANGED scopes
  BY DEF Compare, Reads, Emit, Skip
<1>2. Kind(0) # "end" /\ Token(0) # Sym(";")
  BY <1>1, KindOf
<1>3. /\ ~force_semicolon_check /\ (Between(Now) \/ Expressed(Now))
      /\ FollowsParts(Now, "cmp", Value(0), At(1))
  BY <1>1, <1>2, FirstToken
<1>4. Expressed(Now) /\ Now.at = "operator" /\ Now.compared = 0
      /\ Is(At(1), "operand", Now.mode, Now.parens, 1)
  BY <1>3 DEF FollowsParts, OnPath, Beginning, Inside, Ending, Between, Expressed, Is
<1> DEFINE base == Base
           m == Len(p_mul_div)
           a == Len(p_add_sub)
           c == Len(p_cmp)
           h == base + m + a + c + 1
<1>5. /\ Height(Now) = h /\ m = 0 /\ a \in 0 .. 1 /\ c = 0 /\ base \in {0, 2}
  BY <1>3, <1>4, HeightIs DEF Base
<1>6. HeightAfter("operand") = base + 0 + 0 + 1 + 0
  <2>1. Len(<< >>) = 0 /\ \A x : Len(<<x>>) = 1
    OBVIOUS
  <2> QED BY <1>1, <2>1 DEF HeightAfter
<1> HIDE DEF base, m, a, c
<1>7. h \in 1 + m + a .. Most /\ h - m - a = base + 0 + 0 + 1 + 0
  BY <1>5 DEF Most
<1> HIDE DEF h
<1>8. Lifts(p_mul_div \o p_add_sub, Height(Now), HeightAfter("operand"))
  BY <1>5, <1>6, <1>7, LiftsProduct DEF Fine, SInv, m, a
<1>9. /\ Is(At(1), "operand", Now.mode, At(1).parens, At(1).compared)
      /\ paren_depth' = At(1).parens /\ (At(1).compared = 0 => p_cmp' = << >>)
  BY <1>1, <1>4 DEF Is, Expressed
<1> QED BY <1>1, <1>3, <1>4, <1>8, <1>9, ExpressionGoesOn

(* After a step: between the parts of a statement, or at its ';'.          *)
LEMMA BetweenNext ==
  ASSUME Fine, Quiet, UNCHANGED while_start, ~force_semicolon_check', Form(Now'),
         Between(Now)', Now'.at # "said",
         NEW cells, out' = out \o cells, Lifts(cells, Height(Now), 0)
  PROVE  CompileOK'
<1>1. Height(Now)' = 0
  BY DEF Height, Between
<1>2. Reading(Now)'
  BY DEF Reading, Form
<1> QED BY <1>1, <1>2, WritesOn DEF Quiet, machineVars

LEMMA DemandedNext ==
  ASSUME Fine, Quiet, UNCHANGED while_start, force_semicolon_check', Form(Now'),
         Demanding(Now)', NEW cells, out' = out \o cells, Lifts(cells, Height(Now), 0)
  PROVE  CompileOK'
<1>1. Height(Now)' = 0 /\ Now'.at # "said"
  BY DEF Height, Demanding
<1>2. Reading(Now)'
  BY DEF Reading, Form
<1> QED BY <1>1, <1>2, WritesOn DEF Quiet, machineVars

LEMMA ExpressionNext ==
  ASSUME Fine, Quiet, UNCHANGED while_start, ~force_semicolon_check', Form(Now'),
         Expressed(Now)', NEW cells, out' = out \o cells,
         Lifts(cells, Height(Now), Height(Now)')
  PROVE  CompileOK'
<1>1. Now'.at # "said"
  BY DEF Expressed
<1>2. Reading(Now)'
  BY DEF Reading, Form
<1> QED BY <1>1, <1>2, WritesOn DEF Quiet, machineVars

LEMMA NothingIsWritten ==
  ASSUME Fine, UNCHANGED out PROVE out' = out \o << >>
BY JoinedNothing DEF Fine, SInv, CodeOK

(* A comment, in an expression or before a statement.                      *)
LEMMA CommentWrites == Fine /\ Quiet /\ Comment => CompileOK'
<1> SUFFICES ASSUME Fine, Quiet, Comment PROVE CompileOK'
  OBVIOUS
<1>1. /\ ~Refused /\ Kind(0) = "comment" /\ UNCHANGED out /\ s_ptr' = s_ptr + 1
      /\ UNCHANGED <<source, p_mul_div, p_add_sub, p_cmp, var_store, expect_print,
                     force_semicolon_check, paren_depth, while_start, scope_stack,
                     expecting_cond>>
  BY DEF Comment, Reads, Skip, pending, scopes, loops
<1>2. Kind(0) # "end" /\ Token(0) # Sym(";")
  BY <1>1, KindOf
<1>3. /\ ~force_semicolon_check /\ (Between(Now) \/ Expressed(Now)) /\ Form(Now)
      /\ FollowsParts(Now, "comment", Value(0), At(1))
  BY <1>1, <1>2, FirstToken
<1>4. Now' = At(1) /\ out' = out \o << >>
  BY <1>1, NowMoves, NothingIsWritten DEF Fine, SInv
<1>5. CASE Between(Now)
  <2>1. Now.at = "statement" /\ Now.mode = "none" /\ Is(At(1), "statement", "none", 0, 0)
    BY <1>3, <1>5 DEF FollowsParts, OnPath, Beginning, Between, Is
  <2>2. Between(Now)' /\ Form(Now') /\ Now'.at # "said"
    BY <1>1, <1>4, <1>5, <2>1 DEF Between, Is, Idle
  <2>3. Height(Now) = 0
    BY <1>3, <2>1 DEF Height
  <2>4. Lifts(<< >>, Height(Now), 0)
    BY <2>3, LiftsNothing
  <2> QED BY <1>1, <1>3, <1>4, <2>2, <2>4, BetweenNext
<1>6. CASE Expressed(Now)
  <2>1. Now.at = "operand" /\ Is(At(1), "operand", Now.mode, Now.parens, Now.compared)
    BY <1>3, <1>6 DEF FollowsParts, Inside, Ending, Expressed, Is
  <2>2. Expressed(Now)' /\ Form(Now')
    BY <1>1, <1>4, <1>6, <2>1 DEF Expressed, Is, Depth
  <2>3. Height(Now)' = Height(Now)
    BY <1>1, <1>4, <2>1 DEF Height, Is
  <2>4. Lifts(<< >>, Height(Now), Height(Now)')
    BY <2>3, LiftsNothing
  <2> QED BY <1>1, <1>3, <1>4, <2>2, <2>4, ExpressionNext
<1> QED BY <1>3, <1>5, <1>6
LEMMA ReadsSym ==
  ASSUME NEW c, ReadsToken(Sym(c))
  PROVE  /\ ~Refused /\ Kind(0) = "sym" /\ Value(0) = c /\ Kind(0) # "end"
         /\ c # ";" => Token(0) # Sym(";")
<1>1. ~Refused /\ Token(0) = Sym(c)
  BY DEF ReadsToken, Reads
<1>2. Kind(0) = "sym" /\ Value(0) = c
  BY <1>1, SymIs
<1>3. Token(0) = Sym(";") => Value(0) = ";"
  BY SymIs
<1> QED BY <1>1, <1>2, <1>3

LEMMA ReadsKey ==
  ASSUME NEW w, ReadsToken(Key(w))
  PROVE  /\ ~Refused /\ Kind(0) = "key" /\ Value(0) = w /\ Kind(0) # "end"
         /\ Token(0) # Sym(";")
<1>1. ~Refused /\ Token(0) = Key(w)
  BY DEF ReadsToken, Reads
<1>2. Kind(0) = "key" /\ Value(0) = w
  BY <1>1, KindOf
<1>3. Token(0) # Sym(";")
  BY <1>2, KindOf
<1> QED BY <1>1, <1>2, <1>3

(* Nothing is pending when a statement is between two of its parts.        *)
LEMMA NothingPending ==
  ASSUME Fine, ~force_semicolon_check, Between(Now)
  PROVE  Height(Now) = (IF Now.at = "said" THEN 1 ELSE 0)
BY DEF Height, Between

(* '(' begins a print or a condition, or is in an expression.              *)
LEMMA OpenParenWrites == Fine /\ Quiet /\ OpenParen => CompileOK'
<1> SUFFICES ASSUME Fine, Quiet, OpenParen PROVE CompileOK'
  OBVIOUS
<1>1. /\ UNCHANGED out /\ s_ptr' = s_ptr + 1 /\ paren_depth' = paren_depth + 1
      /\ UNCHANGED <<source, p_mul_div, p_add_sub, p_cmp, var_store, expect_print,
                     force_semicolon_check, while_start, scope_stack, expecting_cond>>
  BY DEF OpenParen, Skip, pending, scopes, loops
<1>2. ~Refused /\ Kind(0) = "sym" /\ Value(0) = "(" /\ Kind(0) # "end" /\ Token(0) # Sym(";")
  BY ReadsSym DEF OpenParen
<1>3. /\ ~force_semicolon_check /\ (Between(Now) \/ Expressed(Now)) /\ Form(Now)
      /\ FollowsParts(Now, "sym", "(", At(1))
  BY <1>2, FirstToken
<1>4. Now' = At(1) /\ out' = out \o << >>
  BY <1>1, NowMoves, NothingIsWritten DEF Fine, SInv
<1>5. CASE Between(Now)
  <2>1. /\ Now.at \in {"print", "condition"}
        /\ \/ Now.at = "print" /\ Is(At(1), "string", "none", 0, 0)
           \/ Is(At(1), "operand", Now.at, 1, 0)
    BY <1>3, <1>5 DEF FollowsParts, OnPath, Beginning, Between, Outermost
  <2>2. Lifts(<< >>, Height(Now), 0)
    BY <1>3, <1>5, <2>1, NothingPending, LiftsNothing
  <2>3. CASE Now.at = "print" /\ Is(At(1), "string", "none", 0, 0)
    <3>1. Between(Now)' /\ Form(Now') /\ Now'.at # "said"
      BY <1>1, <1>4, <1>5, <2>3 DEF Between, Is, Idle
    <3> QED BY <1>1, <1>3, <1>4, <2>2, <3>1, BetweenNext
  <2>4. CASE Is(At(1), "operand", Now.at, 1, 0)
    <3>1. Expressed(Now)' /\ Form(Now')
      BY <1>1, <1>4, <1>5, <2>1, <2>4 DEF Between, Expressed, Is, Idle, Depth
    <3>2. Height(Now)' = 0
      <4>1. /\ p_mul_div' = << >> /\ p_add_sub' = << >> /\ p_cmp' = << >>
            /\ var_store' # ArrayElement /\ Now'.mode # "none" /\ Now'.at # "operator"
        BY <1>1, <1>4, <1>5, <2>1, <2>4 DEF Between, Is, Idle, NoVar, ArrayElement
      <4>2. Len(<< >>) = 0
        OBVIOUS
      <4> QED BY <1>1, <1>3, <4>1, <4>2 DEF Height
    <3> QED BY <1>1, <1>3, <1>4, <2>2, <3>1, <3>2, ExpressionNext
  <2> QED BY <2>1, <2>3, <2>4
<1>6. CASE Expressed(Now)
  <2>1. Now.at = "operand" /\ Is(At(1), "operand", Now.mode, Now.parens + 1, Now.compared)
    BY <1>3, <1>6 DEF FollowsParts, Inside, Ending, Expressed
  <2>2. Expressed(Now)' /\ Form(Now')
    BY <1>1, <1>4, <1>6, <2>1 DEF Expressed, Is, Depth
  <2>3. Height(Now)' = Height(Now)
    BY <1>1, <1>4, <2>1 DEF Height, Is
  <2>4. Lifts(<< >>, Height(Now), Height(Now)')
    BY <2>3, LiftsNothing
  <2> QED BY <1>1, <1>3, <1>4, <2>2, <2>4, ExpressionNext
<1> QED BY <1>3, <1>5, <1>6

(* What ';' stores takes all that is on the stack.                         *)
LEMMA LiftsStored ==
  Lifts(Stored, Base + (IF var_store = NoVar THEN 0 ELSE 1), 0)
<1>1. CASE var_store = ArrayElement
  <2>1. Base + (IF var_store = NoVar THEN 0 ELSE 1) = 3 /\ Stored = <<Op("ARRAY_SET")>>
    BY <1>1 DEF Base, Stored, NoVar, ArrayElement
  <2> QED BY <2>1, LiftsStatements
<1>2. CASE var_store = NoVar
  <2>1. Base + (IF var_store = NoVar THEN 0 ELSE 1) = 0 /\ Stored = << >>
    BY <1>2 DEF Base, Stored, NoVar, ArrayElement
  <2> QED BY <2>1, LiftsNothing
<1>3. CASE var_store # NoVar /\ var_store # ArrayElement
  <2>1. Base + (IF var_store = NoVar THEN 0 ELSE 1) = 1
        /\ Stored = <<TypedOp("STORE", TypeOf(var_store)), Var(var_store)>>
    BY <1>3 DEF Base, Stored
  <2> QED BY <2>1, LiftsStore
<1> QED BY <1>1, <1>2, <1>3

(* An expression that ends is written whole: its value is left.            *)
LEMMA LiftsExpression ==
  ASSUME Fine, ~force_semicolon_check, Expressed(Now), Now.at = "operator"
  PROVE  Lifts(Flushed, Height(Now), Base + 1)
<1> DEFINE base == Base
           m == Len(p_mul_div)
           a == Len(p_add_sub)
           c == Len(p_cmp)
           h == base + m + a + c + 1
<1>1. /\ Height(Now) = h /\ m = 0 /\ a \in 0 .. 1 /\ c \in 0 .. 1 /\ base \in {0, 2}
  BY HeightIs DEF Base
<1> HIDE DEF base, m, a, c
<1>2. h \in 1 + m + a + c .. Most /\ h - m - a - c = base + 1
  BY <1>1 DEF Most
<1> HIDE DEF h
<1>3. Lifts(Flushed, h, h - m - a - c)
  BY <1>2, LiftsFlushed DEF Fine, SInv, m, a, c
<1> QED BY <1>1, <1>2, <1>3 DEF base

LEMMA IdleFlushed ==
  Idle => Flushed = << >> /\ Stored = << >>
<1> SUFFICES ASSUME Idle PROVE Flushed = << >> /\ Stored = << >>
  OBVIOUS
<1>1. Flushed = << >> \o << >> \o << >>
  BY DEF Idle, Flushed
<1>2. << >> \o << >> = << >>
  BY EmitsNothing, JoinedNothing DEF Emits
<1>3. Stored = << >>
  BY DEF Idle, Stored, NoVar, ArrayElement
<1> QED BY <1>1, <1>2, <1>3
(* ';' ends a statement.                                                   *)
LEMMA SemicolonWrites == Fine /\ Quiet /\ Semicolon => CompileOK'
<1> SUFFICES ASSUME Fine, Quiet, Semicolon PROVE CompileOK'
  OBVIOUS
<1>1. /\ out' = out \o (Flushed \o Stored) /\ s_ptr' = s_ptr + 1
      /\ p_mul_div' = << >> /\ p_add_sub' = << >> /\ p_cmp' = << >>
      /\ var_store' = NoVar /\ ~force_semicolon_check'
      /\ UNCHANGED <<source, expect_print, paren_depth, while_start, scope_stack,
                     expecting_cond>>
  BY DEF Semicolon, Skip, Emit, Flush, scopes, loops
<1>2. Kind(0) = "sym" /\ Value(0) = ";" /\ Kind(0) # "end"
  BY ReadsSym DEF Semicolon
<1>3. Reading(Now) /\ Form(Now)
  BY DEF Fine, CompileOK, Reading
<1>4. FollowsParts(Now, "sym", ";", At(1))
  <2>1. s_ptr + 0 <= Len(source) + 1
    BY InPlace DEF Fine, SInv
  <2>2. FollowsParts(At(0), Kind(0), Value(0), At(0 + 1))
    BY <1>2, <1>3, <2>1, TokenFollows DEF Fine, SInv, Now
  <2> QED BY <1>2, <2>2, ZeroAndOne DEF Now
<1>5. /\ Is(At(1), "statement", "none", 0, 0)
      /\ \/ Now.mode = "none" /\ Now.at = "ended"
         \/ Now.mode = "value" /\ Now.at = "operator" /\ Now.parens = 0
  BY <1>4 DEF FollowsParts, OnPath, Beginning, Inside, Ending, Outermost, Is
<1>6. Now' = At(1)
  BY <1>1, NowMoves DEF Fine, SInv
<1>7. CASE force_semicolon_check
  <2>1. Demanding(Now) /\ Now.mode # "print"
    BY <1>3, <1>5, <1>7 DEF Reading
  <2>2. Between(Now)' /\ Form(Now') /\ Now'.at # "said"
    BY <1>1, <1>5, <1>6, <2>1 DEF Demanding, Between, Idle, Is
  <2>3. Height(Now) = 0
    BY <1>7 DEF Height
  <2>4. Flushed \o Stored = << >>
    <3>1. << >> \o << >> = << >>
      BY EmitsNothing, JoinedNothing DEF Emits
    <3> QED BY <2>1, <3>1, IdleFlushed DEF Demanding
  <2>5. Lifts(Flushed \o Stored, Height(Now), 0)
    BY <2>3, <2>4, LiftsNothing
  <2> QED BY <1>1, <2>2, <2>5, BetweenNext
<1>8. CASE ~force_semicolon_check
  <2>1. Expressed(Now) /\ Now.mode = "value" /\ Now.at = "operator" /\ Now.parens = 0
    <3>1. Between(Now) \/ Expressed(Now)
      BY <1>3, <1>8, Zenon DEF Reading
    <3>2. ~Between(Now)
      BY <1>5 DEF Between
    <3>3. Now.mode = "none" => ~Expressed(Now)
      BY DEF Expressed
    <3> QED BY <1>5, <3>1, <3>2, <3>3
  <2>2. Between(Now)' /\ Form(Now') /\ Now'.at # "said"
    BY <1>1, <1>5, <1>6, <2>1 DEF Expressed, Between, Idle, Is
  <2>3. Lifts(Stored, Base + 1, 0)
    BY <2>1, LiftsStored DEF Expressed
  <2>4. Lifts(Flushed \o Stored, Height(Now), 0)
    BY <1>8, <2>1, <2>3, LiftsExpression, LiftsBoth
  <2> QED BY <1>1, <2>2, <2>4, BetweenNext
<1> QED BY <1>7, <1>8

(* A string is printed right after its address was pushed.                 *)
LEMMA ReachesPrinted ==
  ASSUME NEW code, NEW level, Leads(code, level, 1), TextBefore(code, Len(code))
  PROVE  Reaches(code, level, code \o <<Op("PRINT_STR")>>, 0)
<1> DEFINE ins == <<Op("PRINT_STR")>>
<1>1. ins \in Seq({Op("PRINT_STR")}) /\ Len(ins) = 1 /\ ins[1] = Op("PRINT_STR")
  OBVIOUS
<1>2. IsSeq(ins)
  BY <1>1, SeqOf
<1>3. /\ Op("PRINT_STR").kind = "op" /\ Op("PRINT_STR").name = "PRINT_STR"
      /\ Width("PRINT_STR") = 1
  BY DEF Op, TypedOp, Width, Jumps, OnVar, VarVar, VarConst
<1>4. VM!Pops("PRINT_STR") = 1 /\ Pushes("PRINT_STR") = 0 /\ "PRINT_STR" \notin Jumps \cup {"HALT"}
  BY DEF VM!Pops, Pushes, Arithmetic, Comparison, VM!Arithmetic, VM!Comparison, Jumps
<1> HIDE DEF ins
<1>5. Raises(ins, code, level, 1, 0)
  <2>1. 0 \in 0 .. Most /\ VM!Pops("PRINT_STR") <= 1
        /\ 0 = 1 - VM!Pops("PRINT_STR") + Pushes("PRINT_STR")
    BY <1>4 DEF Most
  <2>2. \A k \in 1 .. Len(ins) : k = 1 /\ ins[k].kind = "op"
    BY <1>1, <1>3
  <2> QED BY <1>1, <1>2, <1>3, <1>4, <2>1, <2>2 DEF Raises
<1> QED BY <1>5, LiftOne DEF ins
(* ')' ends a print or a condition, or is in an expression.                *)
LEMMA CloseParenWrites == Fine /\ Quiet /\ CloseParen => CompileOK'
<1> SUFFICES ASSUME Fine, Quiet, CloseParen PROVE CompileOK'
  OBVIOUS
<1> DEFINE jump  == IF ClosesCondition THEN <<Op("JZ"), Addr(0)>> ELSE << >>
           print == IF expect_print = 0 THEN << >>
                    ELSE <<Op(IF expect_print = 2 THEN "PRINT_STR" ELSE "PRINT")>>
<1>1. /\ out' = out \o (Flushed \o jump \o print) /\ s_ptr' = s_ptr + 1
      /\ p_mul_div' = << >> /\ p_add_sub' = << >> /\ p_cmp' = << >>
      /\ paren_depth' = paren_depth - 1 /\ expect_print' = 0
      /\ force_semicolon_check' = (force_semicolon_check \/ expect_print > 0)
      /\ UNCHANGED <<source, var_store>>
  BY DEF CloseParen, Skip, Emit, Flush
<1>2. /\ UNCHANGED <<while_start, scope_stack>>
      /\ ClosesCondition => expecting_cond' = expecting_cond \ {Depth}
      /\ ~ClosesCondition => expecting_cond' = expecting_cond
  BY DEF CloseParen, PatchLater, scopes, loops
<1>3. ~Refused /\ Kind(0) = "sym" /\ Value(0) = ")" /\ Kind(0) # "end" /\ Token(0) # Sym(";")
  BY ReadsSym DEF CloseParen
<1>4. /\ ~force_semicolon_check /\ (Between(Now) \/ Expressed(Now)) /\ Form(Now)
      /\ FollowsParts(Now, "sym", ")", At(1))
  BY <1>3, FirstToken
<1>5. Now' = At(1)
  BY <1>1, NowMoves DEF Fine, SInv
<1>6. << >> \o << >> = << >> /\ IsSeq(<< >>)
  BY EmitsNothing, JoinedNothing DEF Emits
<1> HIDE DEF jump, print
<1>9. /\ expect_print > 0 => force_semicolon_check'
      /\ ~(expect_print > 0) => ~force_semicolon_check'
  BY <1>1, <1>4, Zenon
<1>10. /\ expect_print \in {1, 2} => force_semicolon_check'
       /\ expect_print = 0 => ~force_semicolon_check'
  BY <1>9
<1>7. CASE Between(Now)
  <2>1. Now.at = "said" /\ Is(At(1), "ended", "none", 0, 0)
    BY <1>4, <1>7 DEF FollowsParts, OnPath, Beginning, Between, Is
  <2>2. expect_print = 2 /\ paren_depth = 1 /\ expecting_cond = {} /\ Idle
    BY <1>7, <2>1 DEF Between
  <2>3. ~ClosesCondition /\ jump = << >> /\ print = <<Op("PRINT_STR")>>
    BY <2>2 DEF ClosesCondition, jump, print
  <2>4. out' = out \o <<Op("PRINT_STR")>>
    <3>1. Flushed = << >>
      BY <2>2, IdleFlushed
    <3>2. << >> \o <<Op("PRINT_STR")>> = <<Op("PRINT_STR")>>
      OBVIOUS
    <3> QED BY <1>1, <1>6, <2>3, <3>1, <3>2
  <2>5. Demanding(Now)' /\ Form(Now') /\ force_semicolon_check'
    BY <1>1, <1>10, <1>2, <1>5, <2>1, <2>2, <2>3 DEF Demanding, Idle, Is
  <2>6. Height(Now)' = 0 /\ Height(Now) = 1
    BY <1>4, <1>7, <2>1, <2>5, NothingPending DEF Height
  <2>7. PICK level : Leads(out, level, Height(Now)) /\ LoopsAt(out, level, while_start)
    BY DEF Fine, CompileOK, WrittenTo
  <2>8. TextBefore(out, Len(out))
    BY <2>1 DEF Fine, CompileOK
  <2>9. Reaches(out, level, out', Height(Now)')
    BY <2>4, <2>6, <2>7, <2>8, ReachesPrinted
  <2>10. Len(out') \in Nat /\ Len(out) <= Len(out')
    <3>1. IsSeq(<<Op("PRINT_STR")>>)
      <4>1. <<Op("PRINT_STR")>> \in Seq({Op("PRINT_STR")})
        OBVIOUS
      <4> QED BY <4>1, SeqOf
    <3> QED BY <2>4, <2>7, <3>1, Joined DEF Leads
  <2>11. Reading(Now)' /\ Now'.at # "said"
    BY <2>5 DEF Reading, Form, Demanding
  <2> QED BY <1>2, <2>7, <2>9, <2>10, <2>11, ReachesOn DEF Quiet, machineVars
<1>8. CASE Expressed(Now)
  <2>1. /\ Now.at = "operator" /\ Now.parens \in Int
        /\ \/ /\ Now.parens > Outermost(Now.mode)
              /\ Is(At(1), "operator", Now.mode, Now.parens - 1, 0)
           \/ /\ Now.parens = 1 /\ Now.mode = "print" /\ Is(At(1), "ended", "none", 0, 0)
           \/ /\ Now.parens = 1 /\ Now.mode = "condition"
              /\ Is(At(1), "statement", "none", 0, 0)
    BY <1>4, <1>8 DEF FollowsParts, Inside, Ending, Expressed, Outermost, Form, Is
  <2>2. Lifts(Flushed, Height(Now), Base + 1)
    BY <1>4, <1>8, <2>1, LiftsExpression
  <2>3. CASE Now.mode = "print"
    <3>1. expect_print = 1 /\ expecting_cond = {} /\ var_store = NoVar /\ paren_depth = Now.parens
      BY <1>8, <2>3 DEF Expressed
    <3>2. ~ClosesCondition /\ jump = << >> /\ print = <<Op("PRINT")>>
      BY <3>1 DEF ClosesCondition, jump, print
    <3>3. Base + 1 = 1
      BY <3>1 DEF Base, NoVar, ArrayElement
    <3>4. Lifts(Flushed \o jump \o print, Height(Now), 0)
      BY <2>2, <3>2, <3>3, LiftsNothing, LiftsBoth, LiftsStatements
    <3>5. Demanding(Now)' /\ Form(Now') /\ force_semicolon_check'
      BY <1>1, <1>10, <1>2, <1>5, <2>1, <2>3, <3>1, <3>2 DEF Demanding, Idle, Is
    <3> QED BY <1>1, <1>2, <3>4, <3>5, DemandedNext
  <2>4. CASE Now.mode = "condition" /\ Now.parens = 1
    <3>1. /\ expect_print = 0 /\ expecting_cond = {Depth} /\ var_store = NoVar /\ paren_depth = 1
          /\ Is(At(1), "statement", "none", 0, 0)
      BY <1>8, <2>1, <2>4 DEF Expressed, Outermost
    <3>2. ClosesCondition /\ jump = <<Op("JZ"), Addr(0)>> /\ print = << >>
      BY <3>1 DEF ClosesCondition, jump, print
    <3>3. Base + 1 = 1
      BY <3>1 DEF Base, NoVar, ArrayElement
    <3>4. Lifts(Flushed \o jump \o print, Height(Now), 0)
      BY <2>2, <3>2, <3>3, LiftsNothing, LiftsBoth, LiftsJump
    <3>5. expecting_cond' = {}
      BY <1>2, <3>1, <3>2
    <3>6. Between(Now)' /\ Form(Now') /\ ~force_semicolon_check' /\ Now'.at # "said"
      BY <1>1, <1>2, <1>10, <1>5, <3>1, <3>5 DEF Between, Idle, Is
    <3> QED BY <1>1, <1>2, <3>4, <3>6, BetweenNext
  <2>5. CASE Now.mode # "print" /\ ~(Now.mode = "condition" /\ Now.parens = 1)
    <3>1. /\ expect_print = 0 /\ paren_depth = Now.parens
          /\ Is(At(1), "operator", Now.mode, Now.parens - 1, 0)
      BY <1>8, <2>1, <2>5 DEF Expressed
    <3>2. ~ClosesCondition /\ jump = << >> /\ print = << >>
      <4>1. ~ClosesCondition
        BY <1>8, <2>1, <2>5, <3>1 DEF Expressed, ClosesCondition, Outermost
      <4> QED BY <3>1, <4>1 DEF jump, print
    <3>3. Lifts(Flushed \o jump \o print, Height(Now), Base + 1)
      BY <2>2, <3>2, LiftsNothing, LiftsBoth
    <3>4. Expressed(Now)' /\ Form(Now') /\ ~force_semicolon_check'
      BY <1>1, <1>2, <1>10, <1>5, <1>8, <3>1, <3>2 DEF Expressed, Is, Depth
    <3>5. Height(Now)' = Base + 1
      <4>1. Now'.mode # "none" /\ Now'.at = "operator" /\ Base' = Base
        BY <1>1, <1>5, <1>8, <3>1 DEF Is, Expressed, Base
      <4>2. Len(<< >>) = 0 /\ Base \in {0, 2}
        BY DEF Base
      <4> QED BY <1>1, <3>4, <4>1, <4>2 DEF Height, Base
    <3> QED BY <1>1, <1>2, <3>3, <3>4, <3>5, ExpressionNext
  <2> QED BY <2>3, <2>4, <2>5
<1> QED BY <1>4, <1>7, <1>8
(* Five cells, written as three and two.                                   *)
FiveOK(code, new, a, b, c, d, e) ==
  /\ new = (code \o <<a, b, c>>) \o <<d, e>>
  /\ Len(new) = Len(code) + 5 /\ Len(code) \in Nat /\ Len(code) <= Len(code \o <<a, b, c>>)
  /\ CellAt(new, Len(code) + 2) = c
  /\ CellAt(new, Len(code) + 3) = d /\ CellAt(new, Len(code) + 4) = e
  /\ IsSeq(<<a, b, c>>) /\ IsSeq(<<d, e>>)

LEMMA JoinedFive ==
  ASSUME NEW code, IsSeq(code), NEW a, NEW b, NEW c, NEW d, NEW e
  PROVE  FiveOK(code, code \o <<a, b, c, d, e>>, a, b, c, d, e)
<1> DEFINE s   == <<a, b, c>>
           r   == <<d, e>>
           all == <<a, b, c, d, e>>
           new == code \o all
           n   == Len(code)
<1>1. /\ all \in Seq({a, b, c, d, e}) /\ Len(all) = 5
      /\ all[3] = c /\ all[4] = d /\ all[5] = e
      /\ s \in Seq({a, b, c}) /\ Len(s) = 3 /\ r \in Seq({d, e})
  OBVIOUS
<1>2. IsSeq(all) /\ IsSeq(s) /\ IsSeq(r)
  BY <1>1, SeqOf
<1>3. all = s \o r
  BY ThreeAndTwo
<1> HIDE DEF s, r, all
<1>4. new = (code \o s) \o r
  <2>1. code \o (s \o r) = (code \o s) \o r
    BY <1>2, JoinedThree
  <2> QED BY <1>3, <2>1
<1>5. Len(code \o s) = n + 3 /\ n \in Nat
  <2>1. Len(code \o s) = n + Len(s) /\ n \in Nat
    BY <1>2, Joined
  <2> QED BY <1>1, <2>1
<1>6. /\ Len(new) = n + 5
      /\ \A i \in 1 .. 5 : new[n + i] = all[i]
  <2>1. /\ Len(new) = n + Len(all)
        /\ \A i \in 1 .. Len(all) : new[n + i] = all[i]
    BY <1>2, Joined
  <2> QED BY <1>1, <2>1
<1> HIDE DEF new, n
<1>7. new[n + 3] = c /\ new[n + 4] = d /\ new[n + 5] = e
  BY <1>1, <1>6
<1>8. (n + 2) + 1 = n + 3 /\ (n + 3) + 1 = n + 4 /\ (n + 4) + 1 = n + 5 /\ n <= n + 3
  BY <1>5
<1>9. CellAt(new, n + 2) = c /\ CellAt(new, n + 3) = d /\ CellAt(new, n + 4) = e
  BY <1>7, <1>8 DEF CellAt
<1>10. n <= Len(code \o s)
  BY <1>5, <1>8
<1>11. FiveOK(code, new, a, b, c, d, e)
  BY <1>2, <1>4, <1>5, <1>6, <1>9, <1>10 DEF FiveOK, s, r, n
<1> QED BY <1>11 DEF new, all

(* A string in the code, a jump over it, and its address on the stack.     *)
LEMMA ReachesString ==
  ASSUME NEW code, NEW level, Leads(code, level, 0), NEW v, NEW new,
         new = code \o <<Op("JMP"), Addr(Len(code) + 3), Text(v),
                         Op("PUSH"), Const(One * (Len(code) + 2))>>
  PROVE  /\ Reaches(code, level, new, 1) /\ TextBefore(new, Len(new))
         /\ Len(new) \in Nat /\ Len(code) <= Len(new)
<1> DEFINE n    == Len(code)
           skip == <<Op("JMP"), Addr(n + 3), Text(v)>>
           k    == Const(One * (n + 2))
           push == <<Op("PUSH"), k>>
<1>1. /\ Len(skip) = 3
      /\ skip[1] = Op("JMP") /\ skip[2] = Addr(n + 3) /\ skip[3] = Text(v)
  OBVIOUS
<1>2. IsSeq(code)
  BY DEF Leads
<1>3. /\ new = (code \o skip) \o push /\ Len(new) = n + 5 /\ n \in Nat
      /\ n <= Len(code \o skip)
      /\ CellAt(new, n + 2) = Text(v) /\ CellAt(new, n + 3) = Op("PUSH")
      /\ CellAt(new, n + 4) = k /\ IsSeq(skip)
  <2>1. FiveOK(code, code \o <<Op("JMP"), Addr(n + 3), Text(v), Op("PUSH"), k>>,
               Op("JMP"), Addr(n + 3), Text(v), Op("PUSH"), k)
    BY <1>2, JoinedFive
  <2>2. FiveOK(code, new, Op("JMP"), Addr(n + 3), Text(v), Op("PUSH"), k)
    BY <2>1
  <2> HIDE DEF k
  <2> QED BY <2>2, Zenon DEF FiveOK
<1>4. /\ Op("JMP").kind = "op" /\ Op("JMP").name = "JMP" /\ Width("JMP") = 2
      /\ Op("PUSH").kind = "op" /\ Op("PUSH").name = "PUSH"
      /\ Addr(n + 3).kind = "addr" /\ Addr(n + 3).val = n + 3 /\ Text(v).kind = "text"
      /\ k.kind = "const" /\ k.val = One * (n + 2)
  BY DEF Op, TypedOp, Addr, Text, Const, Width, Jumps, OnVar
<1>5. VM!Pops("JMP") = 0 /\ Pushes("JMP") = 0
  BY DEF VM!Pops, Pushes, Arithmetic, Comparison, VM!Arithmetic, VM!Comparison
<1>6. Lifts(push, 0, 0 + 1)
  BY LiftsPush
<1> HIDE DEF skip, push, k
<1>7. Raises(skip, code, level, 0, 0)
  <2>1. 0 \in 0 .. Most /\ VM!Pops("JMP") <= 0 /\ 0 = 0 - VM!Pops("JMP") + Pushes("JMP")
    BY <1>5 DEF Most
  <2>2. ASSUME NEW i \in 1 .. Len(skip)
        PROVE  /\ skip[i].kind = "op" => i = 1
               /\ skip[i].kind = "addr" => skip[i].val = Len(code) + Len(skip)
    <3>1. i \in {1, 2, 3}
      BY <1>1
    <3> QED BY <1>1, <1>4, <3>1
  <2>3. Width("JMP") <= Len(skip) /\ skip[1].name = "JMP" /\ "JMP" # "PRINT_STR"
    BY <1>1, <1>4
  <2> QED BY <1>3, <2>1, <2>2, <2>3 DEF Raises
<1>8. PICK longer : Leads(code \o skip, longer, 0) /\ \A a \in 0 .. Len(code) : longer[a] = level[a]
  <2>1. Reaches(code, level, code \o skip, 0)
    BY <1>7, LiftOne
  <2> QED BY <2>1, Zenon DEF Reaches
<1>9. PICK longest : /\ Leads(new, longest, 1)
                     /\ \A a \in 0 .. Len(code \o skip) : longest[a] = longer[a]
  <2>1. Lifts(push, 0, 1)
    BY <1>6, ZeroAndOne
  <2>2. Reaches(code \o skip, longer, new, 1)
    BY <1>3, <1>8, <2>1 DEF Lifts
  <2> QED BY <2>2, Zenon DEF Reaches
<1>10. Len(code \o skip) \in Nat
  BY <1>8, LenOf DEF Leads
<1>11. Reaches(code, level, new, 1)
  <2>1. \A a \in 0 .. Len(code) : longest[a] = level[a]
    BY <1>3, <1>8, <1>9, <1>10
  <2> QED BY <1>9, <2>1 DEF Reaches
<1> HIDE DEF n
<1>12. TextBefore(new, Len(new))
  <2>1. /\ Len(new) - 2 = n + 3 /\ Len(new) - 1 = n + 4
        /\ n + 2 \in 0 .. Len(new) - 1 /\ Len(new) \in 2 .. Len(new)
    BY <1>3
  <2> QED BY <1>3, <1>4, <2>1 DEF TextBefore
<1>13. Len(new) \in Nat /\ Len(code) <= Len(new)
  BY <1>3 DEF n
<1> QED BY <1>11, <1>12, <1>13

LEMMA StringWrites == Fine /\ Quiet /\ String => CompileOK'
<1> SUFFICES ASSUME Fine, Quiet, String PROVE CompileOK'
  OBVIOUS
<1>1. /\ ~Refused /\ Kind(0) = "text" /\ s_ptr' = s_ptr + 1
      /\ out' = out \o <<Op("JMP"), Addr(Len(out) + 3), Text(Value(0)),
                         Op("PUSH"), Const(One * (Len(out) + 2))>>
      /\ expect_print' = IF expect_print > 0 THEN 2 ELSE 0
      /\ UNCHANGED <<source, p_mul_div, p_add_sub, p_cmp, var_store, force_semicolon_check,
                     paren_depth, while_start, scope_stack, expecting_cond>>
  BY DEF String, Reads, Emit, Skip, Here, pending, scopes, loops
<1>2. Kind(0) # "end" /\ Token(0) # Sym(";")
  BY <1>1, KindOf
<1>3. /\ ~force_semicolon_check /\ (Between(Now) \/ Expressed(Now))
      /\ FollowsParts(Now, "text", Value(0), At(1))
  BY <1>1, <1>2, FirstToken
<1>4. Now' = At(1)
  BY <1>1, NowMoves DEF Fine, SInv
<1>5. Between(Now) /\ Now.at = "string" /\ Is(At(1), "said", "none", 0, 0)
  BY <1>3 DEF FollowsParts, OnPath, Beginning, Inside, Ending, Between, Expressed, Is
<1>6. expect_print = 1 /\ expect_print' = 2
  BY <1>1, <1>5 DEF Between
<1>7. Between(Now)' /\ Form(Now')
  BY <1>1, <1>4, <1>5, <1>6 DEF Between, Idle, Is
<1>8. Reading(Now)' /\ Height(Now)' = 1 /\ Height(Now) = 0
  <2>1. Height(Now)' = 1
    BY <1>1, <1>3, <1>4, <1>5 DEF Height, Is
  <2>2. Height(Now) = 0
    BY <1>3, <1>5, NothingPending
  <2>3. Reading(Now)'
    <3>1. Form(Now)'
      BY <1>7 DEF Form
    <3> QED BY <1>1, <1>3, <1>7, <3>1 DEF Reading
  <2> QED BY <2>1, <2>2, <2>3
<1>9. PICK level : Leads(out, level, Height(Now)) /\ LoopsAt(out, level, while_start)
  BY DEF Fine, CompileOK, WrittenTo
<1>10. /\ Reaches(out, level, out', 1) /\ TextBefore(out', Len(out'))
       /\ Len(out') \in Nat /\ Len(out) <= Len(out')
  BY <1>1, <1>8, <1>9, ReachesString
<1> QED BY <1>1, <1>8, <1>9, <1>10, ReachesOn DEF Quiet, machineVars
(* A keyword begins a statement, or goes before a block.                   *)
LEMMA KeyInStatement ==
  ASSUME Fine, NEW w, ReadsToken(Key(w))
  PROVE  /\ ~force_semicolon_check /\ Between(Now) /\ Now.at = "statement"
         /\ Form(At(1)) /\ s_ptr + 1 <= Len(source) + 1
         /\ Is(At(1), At(1).at, "none", 0, 0) /\ OnPath("statement", "key", w, At(1).at)
<1>1. ~Refused /\ Kind(0) = "key" /\ Value(0) = w /\ Kind(0) # "end" /\ Token(0) # Sym(";")
  BY ReadsKey
<1>2. /\ ~force_semicolon_check /\ (Between(Now) \/ Expressed(Now))
      /\ FollowsParts(Now, "key", w, At(1)) /\ Form(At(1)) /\ s_ptr + 1 <= Len(source) + 1
  BY <1>1, FirstToken
<1>3. /\ Between(Now) /\ OnPath(Now.at, "key", w, At(1).at)
      /\ Is(At(1), At(1).at, "none", 0, 0)
  BY <1>2 DEF FollowsParts, Beginning, Inside, Ending, Between, Expressed
<1>4. Now.at = "statement"
  BY <1>3 DEF OnPath
<1> QED BY <1>2, <1>3, <1>4

(* A step between the parts of a statement that writes nothing.            *)
LEMMA SilentNext ==
  ASSUME Fine, Quiet, UNCHANGED <<out, while_start>>,
         ~force_semicolon_check, Between(Now), Now.at # "said",
         ~force_semicolon_check', Form(Now'), Between(Now)', Now'.at # "said"
  PROVE  CompileOK'
<1>1. out' = out \o << >>
  BY NothingIsWritten
<1>2. Lifts(<< >>, Height(Now), 0)
  BY NothingPending, LiftsNothing
<1> QED BY <1>1, <1>2, BetweenNext

LEMMA BeginPrintWrites == Fine /\ Quiet /\ BeginPrint => CompileOK'
<1> SUFFICES ASSUME Fine, Quiet, BeginPrint PROVE CompileOK'
  OBVIOUS
<1>1. /\ s_ptr' = s_ptr + 1 /\ expect_print' = 1
      /\ UNCHANGED <<source, out, p_mul_div, p_add_sub, p_cmp, var_store, paren_depth,
                     while_start, scope_stack, expecting_cond, force_semicolon_check>>
  BY DEF BeginPrint, Skip, pending, scopes, loops
<1>2. /\ ~force_semicolon_check /\ Between(Now) /\ Now.at = "statement"
      /\ Is(At(1), At(1).at, "none", 0, 0) /\ OnPath("statement", "key", "print", At(1).at)
  BY KeyInStatement DEF BeginPrint
<1>3. At(1).at = "print"
  BY <1>2 DEF OnPath, VarType
<1>4. Now' = At(1)
  BY <1>1, NowMoves DEF Fine, SInv
<1>5. Between(Now)' /\ Form(Now') /\ Now'.at # "said"
  BY <1>1, <1>2, <1>3, <1>4 DEF Between, Idle, Is
<1> QED BY <1>1, <1>2, <1>5, SilentNext

LEMMA OpenBraceWrites == Fine /\ Quiet /\ OpenBrace => CompileOK'
<1> SUFFICES ASSUME Fine, Quiet, OpenBrace PROVE CompileOK'
  OBVIOUS
<1>1. /\ s_ptr' = s_ptr + 1
      /\ UNCHANGED <<source, out, p_mul_div, p_add_sub, p_cmp, var_store, paren_depth,
                     expect_print, while_start, scope_stack, expecting_cond,
                     force_semicolon_check>>
  BY DEF OpenBrace, Skip, pending, scopes, loops
<1>2. ~Refused /\ Kind(0) = "sym" /\ Value(0) = "{" /\ Kind(0) # "end" /\ Token(0) # Sym(";")
  BY ReadsSym DEF OpenBrace
<1>3. /\ ~force_semicolon_check /\ (Between(Now) \/ Expressed(Now))
      /\ FollowsParts(Now, "sym", "{", At(1))
  BY <1>2, FirstToken
<1>4. Between(Now) /\ Now.at = "statement" /\ Is(At(1), "statement", "none", 0, 0)
  BY <1>3 DEF FollowsParts, OnPath, Beginning, Inside, Ending, Between, Expressed, Is
<1>5. Now' = At(1)
  BY <1>1, NowMoves DEF Fine, SInv
<1>6. Between(Now)' /\ Form(Now') /\ Now'.at # "said"
  BY <1>1, <1>4, <1>5 DEF Between, Idle, Is
<1> QED BY <1>1, <1>3, <1>4, <1>6, SilentNext

(* A block is opened, and its condition comes next.                        *)
LEMMA ConditionNext ==
  ASSUME Fine, NEW n \in Nat, s_ptr' = s_ptr + n, Is(At(n), "condition", "none", 0, 0),
         ~force_semicolon_check, Between(Now), Now.at = "statement",
         NEW scope, Open(scope), ExpectCondition,
         UNCHANGED <<source, p_mul_div, p_add_sub, p_cmp, var_store, expect_print,
                     force_semicolon_check, paren_depth>>
  PROVE  /\ ~force_semicolon_check' /\ Form(Now') /\ Between(Now)' /\ Now'.at # "said"
<1>1. Now' = At(n)
  BY NowMoves DEF Fine, SInv
<1>2. Depth' = Depth + 1
  BY DEF Fine, SInv, ScopesOK, Open, Depth
<1>3. expecting_cond' = {Depth'}
  <2>1. expecting_cond = {}
    BY DEF Between
  <2> QED BY <1>2, <2>1 DEF ExpectCondition
<1>4. Between(Now)' /\ Form(Now') /\ Now'.at # "said"
  BY <1>1, <1>3 DEF Between, Idle, Is
<1> QED BY <1>4

LEMMA IfWrites == Fine /\ Quiet /\ If => CompileOK'
<1> SUFFICES ASSUME Fine, Quiet, If PROVE CompileOK'
  OBVIOUS
<1>1. /\ s_ptr' = s_ptr + 1 /\ Open("if") /\ ExpectCondition
      /\ UNCHANGED <<source, out, p_mul_div, p_add_sub, p_cmp, var_store, paren_depth,
                     expect_print, while_start, force_semicolon_check>>
  BY DEF If, Skip, pending, loops
<1>2. /\ ~force_semicolon_check /\ Between(Now) /\ Now.at = "statement"
      /\ Is(At(1), At(1).at, "none", 0, 0) /\ OnPath("statement", "key", "if", At(1).at)
  BY KeyInStatement DEF If
<1>3. At(1).at = "condition"
  BY <1>2 DEF OnPath, VarType
<1>4. Between(Now)' /\ Form(Now') /\ Now'.at # "said" /\ ~force_semicolon_check'
  BY <1>1, <1>2, <1>3, ConditionNext
<1> QED BY <1>1, <1>2, <1>4, SilentNext

LEMMA WhileWrites == Fine /\ Quiet /\ While => CompileOK'
<1> SUFFICES ASSUME Fine, Quiet, While PROVE CompileOK'
  OBVIOUS
<1>1. /\ s_ptr' = s_ptr + 1 /\ Open("while") /\ ExpectCondition
      /\ while_start' = Append(while_start, Len(out))
      /\ UNCHANGED <<source, out, p_mul_div, p_add_sub, p_cmp, var_store, paren_depth,
                     expect_print, force_semicolon_check>>
  BY DEF While, Skip, pending, Here
<1>2. /\ ~force_semicolon_check /\ Between(Now) /\ Now.at = "statement"
      /\ Is(At(1), At(1).at, "none", 0, 0) /\ OnPath("statement", "key", "while", At(1).at)
  BY KeyInStatement DEF While
<1>3. At(1).at = "condition"
  BY <1>2 DEF OnPath, VarType
<1>4. Between(Now)' /\ Form(Now)' /\ Now'.at # "said" /\ ~force_semicolon_check'
  <2>1. Between(Now)' /\ Form(Now') /\ Now'.at # "said" /\ ~force_semicolon_check'
    BY <1>1, <1>2, <1>3, ConditionNext
  <2> QED BY <2>1 DEF Form
<1>5. Height(Now) = 0 /\ Height(Now)' = 0
  <2>1. Height(Now)' = 0
    BY <1>4 DEF Height, Between
  <2> QED BY <1>2, <2>1, NothingPending
<1>6. PICK level : Leads(out, level, 0) /\ LoopsAt(out, level, while_start)
  BY <1>5 DEF Fine, CompileOK, WrittenTo
<1>7. LoopsAt(out, level, while_start')
  <2>1. /\ Len(while_start') = Len(while_start) + 1 /\ Len(while_start) \in Nat
        /\ \A i \in 1 .. Len(while_start) : while_start'[i] = while_start[i]
        /\ while_start'[Len(while_start) + 1] = Len(out)
    BY <1>1, Appended DEF Fine, SInv, ScopesOK
  <2>2. Arrives(out, level, Len(out))
    BY <1>6, LenOf DEF Leads, Arrives
  <2>3. ASSUME NEW i \in 1 .. Len(while_start') PROVE Arrives(out, level, while_start'[i])
    <3>1. CASE i \in 1 .. Len(while_start)
      BY <1>6, <2>1, <3>1 DEF LoopsAt
    <3>2. CASE i = Len(while_start) + 1
      BY <2>1, <2>2, <3>2
    <3> QED BY <2>1, <3>1, <3>2
  <2> QED BY <2>3 DEF LoopsAt
<1>8. Reading(Now)'
  BY <1>4 DEF Reading
<1>9. WrittenTo(Height(Now))'
  BY <1>1, <1>5, <1>6, <1>7 DEF WrittenTo
<1> QED BY <1>4, <1>8, <1>9 DEF Fine, CompileOK, Quiet, machineVars
(* A statement that is written at once: its ';' is demanded.               *)
LEMMA AtOnceNext ==
  ASSUME Fine, Quiet, ~force_semicolon_check, Between(Now), Now.at = "statement",
         NEW cells, NEW n \in Nat, AtOnce(cells, n), Lifts(cells, 0, 0),
         Form(At(n)), At(n).at \notin {"statement", "said"}, At(n).mode # "print"
  PROVE  CompileOK'
<1>1. /\ out' = out \o cells /\ s_ptr' = s_ptr + n /\ force_semicolon_check'
      /\ UNCHANGED <<source, p_mul_div, p_add_sub, p_cmp, var_store, expect_print,
                     paren_depth, while_start, expecting_cond>>
  BY DEF AtOnce, Emit, Skip, pending, scopes, loops
<1>2. Now' = At(n)
  BY <1>1, NowMoves DEF Fine, SInv
<1>3. Demanding(Now)' /\ Form(Now')
  BY <1>1, <1>2 DEF Demanding, Between, Idle
<1>4. Height(Now) = 0
  BY NothingPending
<1> QED BY <1>1, <1>3, <1>4, DemandedNext

LEMMA InputIntoWrites == Fine /\ Quiet /\ InputInto => CompileOK'
<1> SUFFICES ASSUME Fine, Quiet, InputInto PROVE CompileOK'
  OBVIOUS
<1> DEFINE idx   == find_variable(Value(2))
           cells == <<Op("INPUT"), Op("STORE"), Var(idx)>>
<1>1. /\ ~force_semicolon_check /\ Between(Now) /\ Now.at = "statement"
      /\ Form(At(1)) /\ s_ptr + 1 <= Len(source) + 1
      /\ Is(At(1), At(1).at, "none", 0, 0) /\ OnPath("statement", "key", "input", At(1).at)
  BY KeyInStatement DEF InputInto
<1>2. At(1).at = "input" /\ At(1).mode = "none"
  BY <1>1 DEF OnPath, VarType, Is
<1>3. Token(1) = Sym("(") /\ Token(3) = Sym(")")
  <2>1. ~Refused /\ Token(0) = Key("input") /\ Token(0) # Sym(";")
    BY ReadsKey DEF InputInto, ReadsToken
  <2>2. Token(0) # End
    BY <2>1, KindOf
  <2> QED BY <2>1, <2>2 DEF Refused, BadInput
<1>4. Is(At(2), "into", "none", 0, 0) /\ s_ptr + 2 <= Len(source) + 1
  <2>1. /\ FollowsParts(At(1), Kind(1), Value(1), At(1 + 1))
        /\ s_ptr + (1 + 1) <= Len(source) + 1
    BY <1>1, <1>2, TokenFollows DEF Fine, SInv
  <2>2. 1 + 1 = 2 /\ Kind(1) = "sym" /\ Value(1) = "("
    BY <1>3, SymIs
  <2> QED BY <1>2, <2>1, <2>2 DEF FollowsParts, OnPath, Beginning, Is
<1>5. Is(At(3), "read", "none", 0, 0) /\ s_ptr + 3 <= Len(source) + 1
  <2>1. /\ FollowsParts(At(2), Kind(2), Value(2), At(2 + 1))
        /\ s_ptr + (2 + 1) <= Len(source) + 1
    BY <1>4, TokenFollows DEF Fine, SInv, Is
  <2>2. 2 + 1 = 3
    OBVIOUS
  <2> QED BY <1>4, <2>1, <2>2 DEF FollowsParts, OnPath, Beginning, Is
<1>6. Is(At(4), "ended", "none", 0, 0)
  <2>1. FollowsParts(At(3), Kind(3), Value(3), At(3 + 1))
    BY <1>5, TokenFollows DEF Fine, SInv, Is
  <2>2. 3 + 1 = 4
    OBVIOUS
  <2> QED BY <1>5, <2>1, <2>2 DEF FollowsParts, OnPath, Beginning, Is
<1>7. AtOnce(cells, 4)
  BY DEF InputInto
<1>8. cells = <<Op("INPUT")>> \o <<TypedOp("STORE", "let"), Var(idx)>>
  <2>1. \A a, b, c : <<a, b, c>> = <<a>> \o <<b, c>>
    BY OneAndTwo
  <2> QED BY <2>1 DEF Op
<1> HIDE DEF cells
<1>9. Lifts(cells, 0, 0)
  BY <1>8, LiftsStatements, LiftsStore, LiftsBoth
<1> QED BY <1>1, <1>6, <1>7, <1>9, AtOnceNext DEF Is

(* A name at the start of a statement, by the token after it.              *)
LEMMA NameOfStatement ==
  ASSUME Fine, Reads("name"), Kind(1) \in {"step", "update"} \/ Token(1) = Sym("=")
  PROVE  /\ ~force_semicolon_check /\ Between(Now) /\ Now.at = "statement"
         /\ Kind(1) = "step" => Is(At(2), "ended", "none", 0, 0)
         /\ Kind(1) = "update" \/ Token(1) = Sym("=") => Is(At(2), "operand", "value", 0, 0)
         /\ s_ptr + 2 <= Len(source) + 1
<1>1. Now.mode = "none"
  BY NameInExpression
<1>2. /\ ~force_semicolon_check /\ Between(Now) /\ Now.at = "statement"
      /\ \/ Kind(1) = "step" /\ Is(At(2), "ended", "none", 0, 0)
         \/ Kind(1) = "update" /\ Is(At(2), "operand", "value", 0, 0)
         \/ Token(1) = Sym("[") /\ Is(At(2), "place", "none", 0, 0)
         \/ Token(1) = Sym("=") /\ Is(At(2), "operand", "value", 0, 0)
      /\ s_ptr + 2 <= Len(source) + 1
  BY <1>1, NameInStatement
<1>3. \A c : Token(1) = Sym(c) => Kind(1) = "sym" /\ Value(1) = c
  BY SymIs
<1> QED BY <1>2, <1>3

LEMMA IncDecWrites == Fine /\ Quiet /\ IncDec => CompileOK'
<1> SUFFICES ASSUME Fine, Quiet, IncDec PROVE CompileOK'
  OBVIOUS
<1> DEFINE idx   == find_variable(Value(0))
           cells == <<TypedOp(Value(1), TypeOf(idx)), Var(idx)>>
<1>1. Reads("name") /\ Kind(1) = "step" /\ AtOnce(cells, 2)
  BY DEF IncDec
<1>2. Value(1) \in {"INC", "DEC"}
  BY <1>1, InSource DEF Fine, SInv, Kind, Value, TokenOK
<1>3. /\ ~force_semicolon_check /\ Between(Now) /\ Now.at = "statement"
      /\ Is(At(2), "ended", "none", 0, 0)
  BY <1>1, NameOfStatement
<1>4. Lifts(cells, 0, 0)
  <2>1. Lifts(<<TypedOp(Value(1), TypeOf(idx)), Var(idx)>>, 0, 0)
    BY <1>2, LiftsStep
  <2> QED BY <2>1
<1> HIDE DEF cells
<1> QED BY <1>1, <1>3, <1>4, AtOnceNext DEF Is

(* x += 1 is complete, or is followed by what is never accepted.           *)
LEMMA UpdateAtOnceWrites == Fine /\ Quiet /\ UpdateAtOnce => CompileOK'
<1> SUFFICES ASSUME Fine, Quiet, UpdateAtOnce PROVE CompileOK'
  OBVIOUS
<1> DEFINE idx   == find_variable(Value(0))
           src   == find_variable(Value(2))
           number == IF TypeOf(idx) = "int" THEN Truncated(Value(2)) ELSE Value(2)
           type  == IF TypeOf(src) = "int" THEN TypeOf(idx) ELSE "let"
           byConst == <<TypedOp(ByConst(Value(1)), TypeOf(idx)), Var(idx), Const(number)>>
           byVar   == <<TypedOp(ByVar(Value(1)), type), Var(idx), Var(src)>>
<1>1. Reads("name") /\ Kind(1) = "update"
  BY DEF UpdateAtOnce
<1>2. \/ Kind(2) = "num" /\ AtOnce(byConst, 3)
      \/ Kind(2) = "name" /\ AtOnce(byVar, 3)
  BY DEF UpdateAtOnce
<1>3. /\ ~force_semicolon_check /\ Between(Now) /\ Now.at = "statement"
      /\ Is(At(2), "operand", "value", 0, 0) /\ s_ptr + 2 <= Len(source) + 1
  BY <1>1, NameOfStatement
<1>4. Form(At(3)) /\ At(3).at \in {"operator", "array"} /\ At(3).mode = "value"
  <2>1. FollowsParts(At(2), Kind(2), Value(2), At(2 + 1)) /\ Form(At(2 + 1))
    BY <1>3, TokenFollows DEF Fine, SInv, Is
  <2>2. 2 + 1 = 3
    OBVIOUS
  <2> QED BY <1>2, <1>3, <2>1, <2>2 DEF FollowsParts, Inside, Ending, Is
<1>5. ByConst(Value(1)) \in VarVar \cup VarConst /\ ByVar(Value(1)) \in VarVar \cup VarConst
  BY DEF ByConst, ByVar, VarConst, VarVar
<1>6. Lifts(byConst, 0, 0) /\ Lifts(byVar, 0, 0)
  <2>1. Const(number).kind \in {"var", "const"} /\ Var(src).kind \in {"var", "const"}
    BY KindsAre
  <2> QED BY <1>5, <2>1, LiftsUpdate
<1> HIDE DEF byConst, byVar
<1> QED BY <1>2, <1>3, <1>4, <1>6, AtOnceNext

LEMMA AssignWrites == Fine /\ Quiet /\ Assign => CompileOK'
<1> SUFFICES ASSUME Fine, Quiet, Assign PROVE CompileOK'
  OBVIOUS
<1>1. /\ Reads("name") /\ Token(1) = Sym("=") /\ s_ptr' = s_ptr + 2
      /\ var_store' = find_variable(Value(0))
      /\ UNCHANGED <<source, out, p_mul_div, p_add_sub, p_cmp, expect_print, paren_depth,
                     force_semicolon_check, while_start, expecting_cond>>
  BY DEF Assign, Skip, pending, scopes, loops
<1>2. /\ ~force_semicolon_check /\ Between(Now) /\ Now.at = "statement"
      /\ Is(At(2), "operand", "value", 0, 0)
  BY <1>1, NameOfStatement
<1>3. Now' = At(2)
  BY <1>1, NowMoves DEF Fine, SInv
<1>4. var_store' \notin {NoVar, ArrayElement}
  <2>1. Declared(Value(0))
    BY <1>1, NameIsDeclared
  <2>2. find_variable(Value(0)) \in 0 .. Len(symbol_table) - 1
    BY <2>1, Found DEF Fine, SInv
  <2> QED BY <1>1, <2>2 DEF NoVar, ArrayElement
<1>5. Expressed(Now)' /\ Form(Now') /\ ~force_semicolon_check'
  BY <1>1, <1>2, <1>3, <1>4 DEF Expressed, Between, Idle, Is
<1>6. Height(Now)' = 0 /\ Height(Now) = 0
  <2>1. /\ p_mul_div' = << >> /\ p_add_sub' = << >> /\ p_cmp' = << >>
        /\ Now'.mode # "none" /\ Now'.at # "operator"
    BY <1>1, <1>2, <1>3 DEF Between, Idle, Is
  <2>2. Len(<< >>) = 0
    OBVIOUS
  <2>3. Height(Now)' = 0
    BY <1>4, <1>5, <2>1, <2>2 DEF Height
  <2> QED BY <1>2, <2>3, NothingPending
<1>7. out' = out \o << >> /\ Lifts(<< >>, Height(Now), Height(Now)')
  BY <1>1, <1>6, NothingIsWritten, LiftsNothing
<1> QED BY <1>1, <1>5, <1>7, ExpressionNext

(* x += e: x is the first operand of the operation that waits.             *)
LEMMA UpdateByRestWrites == Fine /\ Quiet /\ UpdateByRest => CompileOK'
<1> SUFFICES ASSUME Fine, Quiet, UpdateByRest PROVE CompileOK'
  OBVIOUS
<1> DEFINE idx == find_variable(Value(0))
<1>1. /\ Reads("name") /\ Kind(1) = "update" /\ s_ptr' = s_ptr + 2
      /\ out' = out \o LoadVar(idx) /\ var_store' = idx
      /\ UNCHANGED <<source, p_cmp, expect_print, paren_depth,
                     force_semicolon_check, while_start, expecting_cond>>
  BY DEF UpdateByRest, Skip, Emit, scopes, loops
<1>2. \/ Value(1) = "MUL" /\ p_mul_div' = <<Op("MUL")>> /\ UNCHANGED p_add_sub
      \/ Value(1) # "MUL" /\ p_add_sub' = <<Op(Value(1))>> /\ UNCHANGED p_mul_div
  BY DEF UpdateByRest
<1>3. /\ ~force_semicolon_check /\ Between(Now) /\ Now.at = "statement"
      /\ Is(At(2), "operand", "value", 0, 0)
  BY <1>1, NameOfStatement
<1>4. Now' = At(2)
  BY <1>1, NowMoves DEF Fine, SInv
<1>5. var_store' \notin {NoVar, ArrayElement}
  <2>1. Declared(Value(0))
    BY <1>1, NameIsDeclared
  <2>2. find_variable(Value(0)) \in 0 .. Len(symbol_table) - 1
    BY <2>1, Found DEF Fine, SInv
  <2> QED BY <1>1, <2>2 DEF NoVar, ArrayElement
<1> HIDE DEF idx
<1>6. Expressed(Now)' /\ Form(Now') /\ ~force_semicolon_check'
  BY <1>1, <1>3, <1>4, <1>5 DEF Expressed, Between, Idle, Is
<1>7. Height(Now)' = 1 /\ Height(Now) = 0
  <2>1. p_cmp' = << >> /\ p_add_sub = << >> /\ p_mul_div = << >>
        /\ Now'.mode # "none" /\ Now'.at # "operator"
    BY <1>1, <1>3, <1>4 DEF Between, Idle, Is
  <2>2. Len(<< >>) = 0 /\ \A x : Len(<<x>>) = 1
    OBVIOUS
  <2>3. /\ Len(p_cmp') = 0
        /\ \/ Len(p_mul_div') = 1 /\ Len(p_add_sub') = 0
           \/ Len(p_mul_div') = 0 /\ Len(p_add_sub') = 1
    BY <1>2, <2>1, <2>2
  <2>5. Height(Now)' = 0 + Len(p_mul_div') + Len(p_add_sub') + Len(p_cmp') + 0
    BY <1>5, <1>6, <2>1 DEF Height
  <2>6. Height(Now) = 0
    BY <1>3, NothingPending
  <2>7. 0 + 1 + 0 + 0 + 0 = 1 /\ 0 + 0 + 1 + 0 + 0 = 1
    OBVIOUS
  <2>8. Height(Now)' = 1
    BY <2>3, <2>5, <2>7, Zenon
  <2> QED BY <2>6, <2>8
<1>8. Lifts(LoadVar(idx), Height(Now), Height(Now)')
  <2>1. Lifts(LoadVar(idx), 0, 0 + 1)
    BY LiftsLoad DEF LoadVar
  <2> QED BY <1>7, <2>1, ZeroAndOne
<1> QED BY <1>1, <1>6, <1>8, ExpressionNext
(* A token between the parts of a statement.                               *)
LEMMA StepOnPath ==
  ASSUME Fine, NEW n \in Nat, s_ptr + n <= Len(source) + 1,
         NEW at, at # "statement", Is(At(n), at, "none", 0, 0)
  PROVE  /\ s_ptr + (n + 1) <= Len(source) + 1
         /\ \/ /\ OnPath(at, Kind(n), Value(n), At(n + 1).at)
               /\ Is(At(n + 1), At(n + 1).at, "none", 0, 0)
            \/ /\ Beginning(at, Kind(n), Value(n), At(n + 1).mode)
               /\ Is(At(n + 1), "operand", At(n + 1).mode, Outermost(At(n + 1).mode), 0)
<1>1. Form(At(n)) /\ At(n).at = at /\ At(n).mode = "none"
  BY DEF Is
<1>2. /\ s_ptr + (n + 1) <= Len(source) + 1
      /\ FollowsParts(At(n), Kind(n), Value(n), At(n + 1))
  BY <1>1, TokenFollows DEF Fine, SInv
<1> QED BY <1>1, <1>2 DEF FollowsParts

(* The name of a declaration, and its '='.                                 *)
LEMMA DeclarationBegins ==
  ASSUME Fine, NEW type \in VarType, ReadsToken(Key(type))
  PROVE  /\ ~force_semicolon_check /\ Between(Now) /\ Now.at = "statement"
         /\ Kind(1) = "name" /\ Token(2) = Sym("=") /\ s_ptr + 3 <= Len(source) + 1
         /\ Is(At(3), "list", "none", 0, 0) \/ Is(At(3), "operand", "value", 0, 0)
<1>1. /\ ~force_semicolon_check /\ Between(Now) /\ Now.at = "statement"
      /\ s_ptr + 1 <= Len(source) + 1
      /\ Is(At(1), At(1).at, "none", 0, 0) /\ OnPath("statement", "key", type, At(1).at)
  BY KeyInStatement
<1>2. Is(At(1), "declared", "none", 0, 0)
  BY <1>1 DEF OnPath, VarType
<1>3. Kind(1) = "name" /\ Is(At(2), "named", "none", 0, 0) /\ s_ptr + 2 <= Len(source) + 1
  <2>1. 1 + 1 = 2
    OBVIOUS
  <2>2. /\ s_ptr + (1 + 1) <= Len(source) + 1
        /\ \/ /\ OnPath("declared", Kind(1), Value(1), At(1 + 1).at)
              /\ Is(At(1 + 1), At(1 + 1).at, "none", 0, 0)
           \/ Beginning("declared", Kind(1), Value(1), At(1 + 1).mode)
    BY <1>1, <1>2, StepOnPath
  <2> QED BY <2>1, <2>2 DEF OnPath, Beginning
<1>4. /\ Kind(2) = "sym" /\ Value(2) = "=" /\ s_ptr + 3 <= Len(source) + 1
      /\ Is(At(3), "list", "none", 0, 0) \/ Is(At(3), "operand", "value", 0, 0)
  <2>1. 2 + 1 = 3
    OBVIOUS
  <2>2. /\ s_ptr + (2 + 1) <= Len(source) + 1
        /\ \/ /\ OnPath("named", Kind(2), Value(2), At(2 + 1).at)
              /\ Is(At(2 + 1), At(2 + 1).at, "none", 0, 0)
           \/ /\ Beginning("named", Kind(2), Value(2), At(2 + 1).mode)
              /\ Is(At(2 + 1), "operand", At(2 + 1).mode, Outermost(At(2 + 1).mode), 0)
    BY <1>3, StepOnPath
  <2> QED BY <2>1, <2>2 DEF OnPath, Beginning, Outermost
<1>5. Token(2) = Sym("=")
  BY <1>4, TokenIs DEF Fine, SInv, Sym
<1> QED BY <1>1, <1>3, <1>4, <1>5

(* The three tokens of a list.                                             *)
LEMMA ListEnds ==
  ASSUME Fine, s_ptr + 3 <= Len(source) + 1, Is(At(3), "list", "none", 0, 0)
  PROVE  Token(3) = Sym("[") /\ Is(At(6), "ended", "none", 0, 0)
<1>1. /\ Kind(3) = "sym" /\ Value(3) = "[" /\ s_ptr + 4 <= Len(source) + 1
      /\ Is(At(4), "size", "none", 0, 0)
  <2>1. 3 + 1 = 4
    OBVIOUS
  <2>2. /\ s_ptr + (3 + 1) <= Len(source) + 1
        /\ \/ /\ OnPath("list", Kind(3), Value(3), At(3 + 1).at)
              /\ Is(At(3 + 1), At(3 + 1).at, "none", 0, 0)
           \/ Beginning("list", Kind(3), Value(3), At(3 + 1).mode)
    BY StepOnPath
  <2> QED BY <2>1, <2>2 DEF OnPath, Beginning
<1>2. s_ptr + 5 <= Len(source) + 1 /\ Is(At(5), "sized", "none", 0, 0)
  <2>1. 4 + 1 = 5
    OBVIOUS
  <2>2. /\ s_ptr + (4 + 1) <= Len(source) + 1
        /\ \/ /\ OnPath("size", Kind(4), Value(4), At(4 + 1).at)
              /\ Is(At(4 + 1), At(4 + 1).at, "none", 0, 0)
           \/ Beginning("size", Kind(4), Value(4), At(4 + 1).mode)
    BY <1>1, StepOnPath
  <2> QED BY <2>1, <2>2 DEF OnPath, Beginning
<1>3. Is(At(6), "ended", "none", 0, 0)
  <2>1. 5 + 1 = 6
    OBVIOUS
  <2>2. \/ /\ OnPath("sized", Kind(5), Value(5), At(5 + 1).at)
           /\ Is(At(5 + 1), At(5 + 1).at, "none", 0, 0)
        \/ Beginning("sized", Kind(5), Value(5), At(5 + 1).mode)
    BY <1>2, StepOnPath
  <2> QED BY <2>1, <2>2 DEF OnPath, Beginning
<1>4. Token(3) = Sym("[")
  BY <1>1, TokenIs DEF Fine, SInv, Sym
<1> QED BY <1>3, <1>4

(* An array is made, and stored.                                           *)
LEMMA LiftsArray ==
  ASSUME NEW v, NEW idx
  PROVE  Lifts(<<Op("PUSH"), Const(v), Op("ARRAY_MAKE"), Op("STORE"), Var(idx)>>, 0, 0)
<1> DEFINE push  == <<Op("PUSH"), Const(v)>>
           make  == <<Op("ARRAY_MAKE")>>
           store == <<TypedOp("STORE", "let"), Var(idx)>>
<1>1. (push \o make) \o store
        = <<Op("PUSH"), Const(v), Op("ARRAY_MAKE"), Op("STORE"), Var(idx)>>
  <2>1. push \o make = <<Op("PUSH"), Const(v), Op("ARRAY_MAKE")>>
    BY TwoAndOne
  <2>2. \A a, b, c, d, e : <<a, b, c>> \o <<d, e>> = <<a, b, c, d, e>>
    BY ThreeAndTwo
  <2> QED BY <2>1, <2>2 DEF Op
<1>2. Lifts(push, 0, 1)
  <2>1. Lifts(push, 0, 0 + 1)
    BY LiftsPush
  <2> QED BY <2>1, ZeroAndOne
<1>3. Lifts(make, 1, 1) /\ Lifts(store, 1, 0)
  BY LiftsStatements, LiftsStore
<1> HIDE DEF push, make, store
<1>4. Lifts((push \o make) \o store, 0, 0)
  BY <1>2, <1>3, LiftsBoth
<1> QED BY <1>1, <1>4

LEMMA DeclareWrites == Fine /\ Quiet /\ Declare => CompileOK'
<1> SUFFICES ASSUME Fine, Quiet, Declare PROVE CompileOK'
  OBVIOUS
<1> DEFINE idx == IF Declared(NewName) THEN find_variable(NewName) ELSE Len(symbol_table)
<1>1. PICK type \in VarType : ReadsToken(Key(type))
  BY DEF Declare, ReadsToken, Key
<1>2. /\ ~force_semicolon_check /\ Between(Now) /\ Now.at = "statement"
      /\ Kind(1) = "name" /\ Token(2) = Sym("=") /\ s_ptr + 3 <= Len(source) + 1
      /\ Is(At(3), "list", "none", 0, 0) \/ Is(At(3), "operand", "value", 0, 0)
  BY <1>1, DeclarationBegins
<1>3. NameTokens = 1 /\ 1 + NameTokens = 2 /\ 2 + 1 = 3 /\ 2 + 4 = 6 /\ 2 + 2 = 4
  BY <1>2 DEF NameTokens
<1>4. /\ UNCHANGED <<source, p_mul_div, p_add_sub, p_cmp, expect_print, paren_depth,
                     while_start, expecting_cond>>
      /\ IF Token(3) # Sym("[")
         THEN var_store' = idx /\ s_ptr' = s_ptr + 3 /\ UNCHANGED <<out, force_semicolon_check>>
         ELSE /\ out' = out \o <<Op("PUSH"), Const(Value(4)), Op("ARRAY_MAKE"),
                                 Op("STORE"), Var(idx)>>
              /\ force_semicolon_check' = TRUE /\ s_ptr' = s_ptr + 6 /\ UNCHANGED var_store
  BY <1>2, <1>3 DEF Declare, Emit, Skip, pending, scopes, loops
<1>5. idx \in 0 .. Len(symbol_table) /\ Len(symbol_table) \in Nat
  BY LenOf, Found DEF Fine, SInv, TableOK
<1> HIDE DEF idx
<1>6. CASE Is(At(3), "list", "none", 0, 0)
  <2>1. Token(3) = Sym("[") /\ Is(At(6), "ended", "none", 0, 0)
    BY <1>2, <1>6, ListEnds
  <2>2. Now' = At(6)
    BY <1>4, <2>1, NowMoves DEF Fine, SInv
  <2>3. Demanding(Now)' /\ Form(Now') /\ force_semicolon_check'
    BY <1>2, <1>4, <2>1, <2>2 DEF Demanding, Between, Idle, Is
  <2>4. Lifts(<<Op("PUSH"), Const(Value(4)), Op("ARRAY_MAKE"), Op("STORE"), Var(idx)>>,
              Height(Now), 0)
    BY <1>2, NothingPending, LiftsArray
  <2> QED BY <1>4, <2>1, <2>3, <2>4, DemandedNext
<1>7. CASE Is(At(3), "operand", "value", 0, 0)
  <2>1. Token(3) # Sym("[")
    <3>1. FollowsParts(At(3), Kind(3), Value(3), At(3 + 1))
      BY <1>2, <1>7, TokenFollows DEF Fine, SInv, Is
    <3>2. ~(Kind(3) = "sym" /\ Value(3) = "[")
      BY <1>7, <3>1 DEF FollowsParts, Inside, Is
    <3>3. Token(3) = Sym("[") => Kind(3) = "sym" /\ Value(3) = "["
      BY SymIs
    <3> QED BY <3>2, <3>3
  <2>2. /\ var_store' = idx /\ s_ptr' = s_ptr + 3
        /\ UNCHANGED <<out, force_semicolon_check>>
    BY <1>4, <2>1
  <2>3. Now' = At(3)
    BY <1>4, <2>2, NowMoves DEF Fine, SInv
  <2>4. var_store' \notin {NoVar, ArrayElement}
    BY <1>5, <2>2 DEF NoVar, ArrayElement
  <2>5. Expressed(Now)' /\ Form(Now') /\ ~force_semicolon_check'
    BY <1>2, <1>4, <1>7, <2>2, <2>3, <2>4 DEF Expressed, Between, Idle, Is
  <2>6. Height(Now)' = 0 /\ Height(Now) = 0
    <3>1. /\ p_mul_div' = << >> /\ p_add_sub' = << >> /\ p_cmp' = << >>
          /\ Now'.mode # "none" /\ Now'.at # "operator"
      BY <1>2, <1>4, <1>7, <2>3 DEF Between, Idle, Is
    <3>2. Len(<< >>) = 0
      OBVIOUS
    <3>3. Height(Now)' = 0
      BY <2>4, <2>5, <3>1, <3>2 DEF Height
    <3> QED BY <1>2, <3>3, NothingPending
  <2>7. out' = out \o << >> /\ Lifts(<< >>, Height(Now), Height(Now)')
    BY <2>2, <2>6, NothingIsWritten, LiftsNothing
  <2> QED BY <1>4, <2>5, <2>7, ExpressionNext
<1> QED BY <1>2, <1>6, <1>7
(* The index of an element, whose place is before its closing bracket.     *)
LEMMA IndexWrites ==
  ASSUME NEW h \in 0 .. 6, IndexLength = 1
  PROVE  Lifts(IF IndexLength = 0 THEN << >>
               ELSE IF Kind(2) = "num" THEN <<Op("PUSH"), Const(Value(2))>>
               ELSE LoadVar(find_variable(Value(2))), h, h + 1)
<1>1. CASE Kind(2) = "num"
  BY <1>1, LiftsPush
<1>2. CASE Kind(2) # "num"
  <2>1. Lifts(LoadVar(find_variable(Value(2))), h, h + 1)
    BY LiftsLoad DEF LoadVar
  <2> QED BY <1>2, <2>1
<1> QED BY <1>1, <1>2

(* An element in an expression: two values on top of what there is.        *)
LEMMA ElementInExpression ==
  ASSUME Fine, Quiet, Element, Now.mode # "none" PROVE CompileOK'
<1> DEFINE base  == <<Op("LOAD"), Var(find_variable(Value(0)))>>
           index == IF IndexLength = 0 THEN << >>
                    ELSE IF Kind(2) = "num" THEN <<Op("PUSH"), Const(Value(2))>>
                    ELSE LoadVar(find_variable(Value(2)))
           get   == <<Op("ARRAY_GET")>>
<1>1. Reads("name") /\ Token(1) = Sym("[")
  BY DEF Element
<1>2. /\ ~force_semicolon_check /\ Expressed(Now) /\ Now.at = "operand"
      /\ Is(At(2), "index", Now.mode, Now.parens, Now.compared)
      /\ Form(At(1)) /\ s_ptr + 1 <= Len(source) + 1
      /\ Is(At(1), "array", Now.mode, Now.parens, Now.compared)
  BY <1>1, NameInExpression
<1>3. s_ptr + 2 <= Len(source) + 1
  <2>1. s_ptr + (1 + 1) <= Len(source) + 1
    BY <1>2, TokenFollows DEF Fine, SInv, Is
  <2>2. 1 + 1 = 2
    OBVIOUS
  <2> QED BY <2>1, <2>2
<1>4. /\ Kind(2) \in {"num", "name"} /\ s_ptr + 3 <= Len(source) + 1
      /\ Is(At(3), "indexed", Now.mode, Now.parens, Now.compared)
  <2>1. s_ptr + (2 + 1) <= Len(source) + 1 /\ FollowsParts(At(2), Kind(2), Value(2), At(2 + 1))
    BY <1>2, <1>3, TokenFollows DEF Fine, SInv, Is
  <2>2. 2 + 1 = 3
    OBVIOUS
  <2>3. Now.mode # "none" /\ At(2).mode = Now.mode /\ At(2).at = "index"
        /\ At(2).parens = Now.parens /\ At(2).compared = Now.compared
    BY <1>2 DEF Is
  <2> QED BY <2>1, <2>2, <2>3 DEF FollowsParts, Inside, Ending
<1>5. s_ptr + 4 <= Len(source) + 1 /\ Is(At(4), "operator", Now.mode, Now.parens, Now.compared)
  <2>1. s_ptr + (3 + 1) <= Len(source) + 1 /\ FollowsParts(At(3), Kind(3), Value(3), At(3 + 1))
    BY <1>4, TokenFollows DEF Fine, SInv, Is
  <2>2. 3 + 1 = 4
    OBVIOUS
  <2>3. Now.mode # "none" /\ At(3).mode = Now.mode /\ At(3).at = "indexed"
        /\ At(3).parens = Now.parens /\ At(3).compared = Now.compared
    BY <1>4 DEF Is
  <2> QED BY <2>1, <2>2, <2>3 DEF FollowsParts, Inside, Ending
<1>6. Token(4) # Sym("=")
  <2>1. FollowsParts(At(4), Kind(4), Value(4), At(4 + 1))
    BY <1>5, TokenFollows DEF Fine, SInv, Is
  <2>2. Now.mode # "none" /\ At(4).mode = Now.mode /\ At(4).at = "operator"
    BY <1>5 DEF Is
  <2>3. ~(Kind(4) = "sym" /\ Value(4) = "=")
    BY <2>1, <2>2 DEF FollowsParts, Inside, Ending
  <2>4. Token(4) = Sym("=") => Kind(4) = "sym" /\ Value(4) = "="
    BY SymIs
  <2> QED BY <2>3, <2>4
<1>7. IndexLength = 1 /\ 3 + IndexLength = 4
  BY <1>4 DEF IndexLength
<1>8. /\ out' = out \o (base \o index \o get \o p_mul_div \o p_add_sub)
      /\ p_mul_div' = << >> /\ p_add_sub' = << >> /\ s_ptr' = s_ptr + 4
      /\ UNCHANGED <<source, var_store, p_cmp, expect_print, force_semicolon_check, paren_depth>>
      /\ UNCHANGED scopes
  BY <1>6, <1>7 DEF Element, Emit, Skip
<1> DEFINE b == Base
           m == Len(p_mul_div)
           a == Len(p_add_sub)
           c == Len(p_cmp)
           h == b + m + a + c
<1>9. /\ Height(Now) = h + 0 /\ m \in 0 .. 1 /\ a \in 0 .. 1 /\ c \in 0 .. 1 /\ b \in {0, 2}
  BY <1>2, HeightIs DEF Base
<1>10. HeightAfter("operator") = b + 0 + 0 + c + 1
  <2>1. Len(<< >>) = 0
    OBVIOUS
  <2> QED BY <1>8, <2>1 DEF HeightAfter
<1>11. \A g \in 0 .. 6 : Lifts(index, g, g + 1)
  BY <1>7, IndexWrites
<1> HIDE DEF b, m, a, c, index
<1>12. /\ h \in 0 .. 6 /\ h + 1 \in 0 .. 6 /\ (h + 1) + 1 \in 2 .. Most
       /\ ((h + 1) + 1) - 1 = h + 1 /\ h + 1 \in 1 + m .. Most
       /\ (h + 1) - m \in 1 + a .. Most /\ ((h + 1) - m) - a = b + 0 + 0 + c + 1 /\ h + 0 = h
  BY <1>9 DEF Most
<1> HIDE DEF h
<1>13. Lifts(base, h, h + 1)
  <2>1. \A idx : Lifts(<<TypedOp("LOAD", "let"), Var(idx)>>, h, h + 1)
    BY <1>12, LiftsLoad
  <2> QED BY <2>1 DEF Op
<1>14. Lifts(index, h + 1, (h + 1) + 1)
  BY <1>11, <1>12
<1>15. Lifts(get, (h + 1) + 1, h + 1)
  <2>1. Lifts(get, (h + 1) + 1, ((h + 1) + 1) - 1)
    BY <1>12, LiftsAnElement
  <2> QED BY <1>12, <2>1
<1>16. Lifts(p_mul_div, h + 1, (h + 1) - m) /\ Lifts(p_add_sub, (h + 1) - m, ((h + 1) - m) - a)
  BY <1>12, LiftsEachPending DEF Fine, SInv, m, a
<1> HIDE DEF base, get
<1>17. Lifts(base \o index \o get \o p_mul_div \o p_add_sub, Height(Now), HeightAfter("operator"))
  <2>1. Lifts(base \o index, h, (h + 1) + 1)
    BY <1>13, <1>14, LiftsBoth
  <2>2. Lifts(base \o index \o get, h, h + 1)
    BY <1>15, <2>1, LiftsBoth
  <2>3. Lifts(base \o index \o get \o p_mul_div, h, (h + 1) - m)
    BY <1>16, <2>2, LiftsBoth
  <2>4. Lifts(base \o index \o get \o p_mul_div \o p_add_sub, h, ((h + 1) - m) - a)
    BY <1>16, <2>3, LiftsBoth
  <2> QED BY <1>9, <1>10, <1>12, <2>4
<1>18. /\ Is(At(4), "operator", Now.mode, At(4).parens, At(4).compared)
       /\ At(4).parens = Now.parens /\ At(4).compared = Now.compared
  BY <1>5 DEF Is
<1>19. paren_depth' = At(4).parens /\ (At(4).compared = 0 => p_cmp' = << >>)
  BY <1>2, <1>8, <1>18 DEF Expressed
<1> QED BY <1>2, <1>8, <1>17, <1>18, <1>19, ExpressionGoesOn

(* The element that a statement stores into.                               *)
LEMMA ElementInStatement ==
  ASSUME Fine, Quiet, Element, Now.mode = "none" PROVE CompileOK'
<1> DEFINE base  == <<Op("LOAD"), Var(find_variable(Value(0)))>>
           index == IF IndexLength = 0 THEN << >>
                    ELSE IF Kind(2) = "num" THEN <<Op("PUSH"), Const(Value(2))>>
                    ELSE LoadVar(find_variable(Value(2)))
<1>1. Reads("name") /\ Token(1) = Sym("[")
  BY DEF Element
<1>2. /\ ~force_semicolon_check /\ Between(Now) /\ Now.at = "statement"
      /\ Is(At(2), "place", "none", 0, 0) /\ s_ptr + 2 <= Len(source) + 1
  <2>1. /\ ~force_semicolon_check /\ Between(Now) /\ Now.at = "statement"
        /\ \/ Kind(1) = "step" /\ Is(At(2), "ended", "none", 0, 0)
           \/ Kind(1) = "update" /\ Is(At(2), "operand", "value", 0, 0)
           \/ Token(1) = Sym("[") /\ Is(At(2), "place", "none", 0, 0)
           \/ Token(1) = Sym("=") /\ Is(At(2), "operand", "value", 0, 0)
        /\ s_ptr + 2 <= Len(source) + 1
    BY <1>1, NameInStatement
  <2>2. /\ Kind(1) = "sym" /\ Value(1) = "["
        /\ Token(1) = Sym("=") => Value(1) = "="
    BY <1>1, SymIs
  <2> QED BY <2>1, <2>2
<1>3. /\ Kind(2) \in {"num", "name"} /\ s_ptr + 3 <= Len(source) + 1
      /\ Is(At(3), "placed", "none", 0, 0)
  <2>1. 2 + 1 = 3
    OBVIOUS
  <2>2. /\ s_ptr + (2 + 1) <= Len(source) + 1
        /\ \/ /\ OnPath("place", Kind(2), Value(2), At(2 + 1).at)
              /\ Is(At(2 + 1), At(2 + 1).at, "none", 0, 0)
           \/ Beginning("place", Kind(2), Value(2), At(2 + 1).mode)
    BY <1>2, StepOnPath
  <2> QED BY <2>1, <2>2 DEF OnPath, Beginning
<1>4. s_ptr + 4 <= Len(source) + 1 /\ Is(At(4), "element", "none", 0, 0)
  <2>1. 3 + 1 = 4
    OBVIOUS
  <2>2. /\ s_ptr + (3 + 1) <= Len(source) + 1
        /\ \/ /\ OnPath("placed", Kind(3), Value(3), At(3 + 1).at)
              /\ Is(At(3 + 1), At(3 + 1).at, "none", 0, 0)
           \/ Beginning("placed", Kind(3), Value(3), At(3 + 1).mode)
    BY <1>3, StepOnPath
  <2> QED BY <2>1, <2>2 DEF OnPath, Beginning
<1>5. Kind(4) = "sym" /\ Value(4) = "=" /\ Is(At(5), "operand", "value", 0, 0)
  <2>1. 4 + 1 = 5
    OBVIOUS
  <2>2. \/ OnPath("element", Kind(4), Value(4), At(4 + 1).at)
        \/ /\ Beginning("element", Kind(4), Value(4), At(4 + 1).mode)
           /\ Is(At(4 + 1), "operand", At(4 + 1).mode, Outermost(At(4 + 1).mode), 0)
    BY <1>4, StepOnPath
  <2> QED BY <2>1, <2>2 DEF OnPath, Beginning, Outermost
<1>6. Token(4) = Sym("=")
  BY <1>5, TokenIs DEF Fine, SInv, Sym
<1>7. IndexLength = 1 /\ 3 + IndexLength = 4 /\ 4 + IndexLength = 5
  BY <1>3 DEF IndexLength
<1>8. /\ out' = out \o (base \o index) /\ var_store' = ArrayElement /\ s_ptr' = s_ptr + 5
      /\ UNCHANGED <<source, p_mul_div, p_add_sub, p_cmp, expect_print, force_semicolon_check,
                     paren_depth, while_start, expecting_cond>>
  BY <1>6, <1>7 DEF Element, Emit, Skip, pending, scopes, loops
<1>9. Now' = At(5)
  BY <1>8, NowMoves DEF Fine, SInv
<1>10. Expressed(Now)' /\ Form(Now') /\ ~force_semicolon_check'
  <2>1. var_store' # NoVar
    BY <1>8 DEF NoVar, ArrayElement
  <2> QED BY <1>2, <1>5, <1>8, <1>9, <2>1 DEF Expressed, Between, Idle, Is
<1>11. Height(Now)' = 2 /\ Height(Now) = 0
  <2>1. /\ p_mul_div' = << >> /\ p_add_sub' = << >> /\ p_cmp' = << >>
        /\ Now'.mode # "none" /\ Now'.at # "operator"
    BY <1>2, <1>5, <1>8, <1>9 DEF Between, Idle, Is
  <2>2. Len(<< >>) = 0
    OBVIOUS
  <2>3. Height(Now)' = 2
    BY <1>8, <1>10, <2>1, <2>2 DEF Height
  <2> QED BY <1>2, <2>3, NothingPending
<1>12. Lifts(base, 0, 1) /\ Lifts(index, 1, 2)
  <2>1. Lifts(<<TypedOp("LOAD", "let"), Var(find_variable(Value(0)))>>, 0, 0 + 1)
    BY LiftsLoad
  <2>2. Lifts(index, 1, 1 + 1)
    BY <1>7, IndexWrites
  <2>3. 0 + 1 = 1 /\ 1 + 1 = 2
    OBVIOUS
  <2> HIDE DEF index
  <2> QED BY <2>1, <2>2, <2>3 DEF Op
<1> HIDE DEF base, index
<1>13. Lifts(base \o index, Height(Now), Height(Now)')
  BY <1>11, <1>12, LiftsBoth
<1> QED BY <1>8, <1>10, <1>13, ExpressionNext

LEMMA ElementWrites == Fine /\ Quiet /\ Element => CompileOK'
BY ElementInExpression, ElementInStatement
-----------------------------------------------------------------------------
(* Blocks: jumps are patched to where nothing is on the stack.             *)

Patches(code, new, t) ==
  /\ IsSeq(new) /\ Len(new) = Len(code)
  /\ \A a \in 0 .. Len(code) - 1 :
       \/ CellAt(new, a) = CellAt(code, a)
       \/ CellAt(code, a).kind = "addr" /\ CellAt(new, a) = Addr(t)

LEMMA PatchedText ==
  ASSUME NEW code, NEW new, NEW t, Patches(code, new, t), Len(code) \in Nat,
         NEW b, TextBefore(code, b)
  PROVE  TextBefore(new, b)
<1>1. /\ b \in 2 .. Len(code) /\ b - 2 \in 0 .. Len(code) - 1 /\ b - 1 \in 0 .. Len(code) - 1
      /\ CellAt(code, b - 2).kind = "op" /\ CellAt(code, b - 2).name = "PUSH"
      /\ CellAt(code, b - 1).kind = "const"
  BY DEF TextBefore
<1>2. PICK u \in 0 .. Len(code) - 1 :
        CellAt(code, u).kind = "text" /\ CellAt(code, b - 1).val = One * u
  BY DEF TextBefore
<1>3. ASSUME NEW a \in 0 .. Len(code) - 1, CellAt(code, a).kind # "addr"
      PROVE  CellAt(new, a) = CellAt(code, a)
  BY <1>3 DEF Patches
<1>4. /\ CellAt(new, b - 2) = CellAt(code, b - 2) /\ CellAt(new, b - 1) = CellAt(code, b - 1)
      /\ CellAt(new, u) = CellAt(code, u)
  BY <1>1, <1>2, <1>3
<1>5. Len(new) = Len(code)
  BY DEF Patches
<1> QED BY <1>1, <1>2, <1>4, <1>5 DEF TextBefore

LEMMA PatchedLeads ==
  ASSUME NEW code, NEW level, NEW h, Leads(code, level, h),
         NEW t, Arrives(code, level, t), NEW new, Patches(code, new, t)
  PROVE  Leads(new, level, h)
<1>1. /\ IsSeq(code) /\ Len(code) \in Nat /\ IsSeq(new) /\ Len(new) = Len(code)
      /\ level \in [0 .. Len(code) -> 0 .. Most] /\ level[0] = 0 /\ level[Len(code)] = h
  BY LenOf DEF Leads, Levels, Patches
<1>2. Addr(t).kind = "addr" /\ Addr(t).val = t
  BY KindsAre
<1>3. \A b : Arrives(code, level, b) => Arrives(new, level, b)
  BY <1>1 DEF Arrives
<1>4. ASSUME NEW a \in 0 .. Len(new) - 1
      PROVE  /\ CellAt(new, a).kind = "op" => Flows(new, level, a)
             /\ CellAt(new, a).kind = "addr" => Arrives(new, level, CellAt(new, a).val)
  <2>1. a \in 0 .. Len(code) - 1
    BY <1>1
  <2>2. CASE CellAt(new, a) = CellAt(code, a)
    <3>1. /\ CellAt(code, a).kind = "op" => Flows(code, level, a)
          /\ CellAt(code, a).kind = "addr" => Arrives(code, level, CellAt(code, a).val)
      BY <2>1 DEF Leads, Levels
    <3>2. ASSUME Flows(code, level, a) PROVE Flows(new, level, a)
      <4>1. TextBefore(code, a) => TextBefore(new, a)
        BY <1>1, PatchedText
      <4> QED BY <1>1, <2>2, <3>2, <4>1 DEF Flows
    <3> QED BY <1>3, <2>2, <3>1, <3>2
  <2>3. CASE CellAt(code, a).kind = "addr" /\ CellAt(new, a) = Addr(t)
    BY <1>2, <1>3, <2>3
  <2> QED BY <2>1, <2>2, <2>3 DEF Patches
<1> QED BY <1>1, <1>4 DEF Leads, Levels

LEMMA PatchesOne ==
  ASSUME NEW code, IsSeq(code), NEW pos \in 0 .. Len(code) - 1,
         CellAt(code, pos).kind = "addr", NEW t
  PROVE  Patches(code, patch16(code, pos, t), t)
<1> DEFINE new == patch16(code, pos, t)
<1>1. Len(code) \in Nat /\ pos + 1 \in 1 .. Len(code)
  BY LenOf
<1>2. /\ IsSeq(new) /\ Len(new) = Len(code)
      /\ \A i \in 1 .. Len(code) : new[i] = IF i = pos + 1 THEN Addr(t) ELSE code[i]
  <2>1. new = Put(code, pos + 1, Addr(t))
    BY DEF patch16, Put
  <2> QED BY <1>1, <2>1, Replaced
<1> HIDE DEF new
<1>3. ASSUME NEW a \in 0 .. Len(code) - 1
      PROVE  CellAt(new, a) = IF a = pos THEN Addr(t) ELSE CellAt(code, a)
  <2>1. a + 1 \in 1 .. Len(code)
    BY <1>1
  <2> QED BY <1>1, <1>2, <2>1 DEF CellAt
<1>4. Patches(code, new, t)
  BY <1>2, <1>3 DEF Patches
<1> QED BY <1>4 DEF new

LEMMA PatchesMany ==
  ASSUME NEW code, IsSeq(code), NEW t, NEW holes,
         \A h \in holes : h \in 0 .. Len(code) - 1 /\ CellAt(code, h).kind = "addr"
  PROVE  Patches(code, PatchAll(code, holes, t), t)
<1> DEFINE new == PatchAll(code, holes, t)
<1>1. Len(code) \in Nat
  BY LenOf
<1>2. /\ IsSeq(new) /\ Len(new) = Len(code)
      /\ \A i \in 1 .. Len(code) : new[i] = IF i - 1 \in holes THEN Addr(t) ELSE code[i]
  <2>1. new = [i \in 1 .. Len(code) |-> IF i - 1 \in holes THEN Addr(t) ELSE code[i]]
    BY DEF PatchAll
  <2>2. new \in Seq({Addr(t)} \cup Elements(code)) /\ Len(new) = Len(code)
    BY <1>1, <2>1 DEF Elements
  <2> HIDE DEF new
  <2> QED BY <2>1, <2>2, SeqOf
<1> HIDE DEF new
<1>3. ASSUME NEW a \in 0 .. Len(code) - 1
      PROVE  CellAt(new, a) = IF a \in holes THEN Addr(t) ELSE CellAt(code, a)
  <2>1. a + 1 \in 1 .. Len(code) /\ (a + 1) - 1 = a
    BY <1>1
  <2> QED BY <1>2, <2>1 DEF CellAt
<1>4. Patches(code, new, t)
  BY <1>2, <1>3 DEF Patches
<1> QED BY <1>4 DEF new

(* A step before or after a block.                                         *)
LEMMA BlockNext ==
  ASSUME Fine, Quiet, ~force_semicolon_check', Form(Now'), Between(Now)', Now'.at # "said",
         NEW level, Leads(out', level, 0), LoopsAt(out', level, while_start')
  PROVE  CompileOK'
<1>1. Height(Now)' = 0
  BY DEF Height, Between
<1>2. Reading(Now)'
  BY DEF Reading, Form
<1>3. WrittenTo(Height(Now))'
  BY <1>1 DEF WrittenTo
<1> QED BY <1>2, <1>3 DEF Fine, CompileOK, Quiet, machineVars

(* A jump is written, and what led there leads on.                         *)
LEMMA JumpFollows ==
  ASSUME NEW code, NEW level, Leads(code, level, 0), NEW t, Arrives(code, level, t)
  PROVE  /\ Reaches(code, level, code \o <<Op("JMP"), Addr(t)>>, 0)
         /\ IsSeq(code \o <<Op("JMP"), Addr(t)>>)
         /\ Len(code \o <<Op("JMP"), Addr(t)>>) = Len(code) + 2 /\ Len(code) \in Nat
         /\ \A a \in 0 .. Len(code) - 1 :
              CellAt(code \o <<Op("JMP"), Addr(t)>>, a) = CellAt(code, a)
<1> DEFINE ins == <<Op("JMP"), Addr(t)>>
<1>1. Reaches(code, level, code \o ins, 0)
  BY ReachesBack
<1>2. ins \in Seq({Op("JMP"), Addr(t)}) /\ Len(ins) = 2
  OBVIOUS
<1>3. IsSeq(ins) /\ IsSeq(code)
  BY <1>2, SeqOf DEF Leads
<1> HIDE DEF ins
<1>4. /\ IsSeq(code \o ins) /\ Len(code \o ins) = Len(code) + 2 /\ Len(code) \in Nat
      /\ \A i \in 1 .. Len(code) : (code \o ins)[i] = code[i]
  <2>1. /\ IsSeq(code \o ins) /\ Len(code \o ins) = Len(code) + Len(ins) /\ Len(code) \in Nat
        /\ \A i \in 1 .. Len(code) : (code \o ins)[i] = code[i]
    BY <1>3, Joined
  <2> QED BY <1>2, <2>1
<1>5. ASSUME NEW a \in 0 .. Len(code) - 1 PROVE CellAt(code \o ins, a) = CellAt(code, a)
  <2>1. a + 1 \in 1 .. Len(code)
    BY <1>4
  <2> QED BY <1>4, <2>1 DEF CellAt
<1> QED BY <1>1, <1>4, <1>5 DEF ins
LEMMA LoopsStay ==
  ASSUME NEW code, NEW level, NEW starts, LoopsAt(code, level, starts), Len(code) \in Nat,
         NEW new, NEW longer, Len(new) \in Nat, Len(code) <= Len(new),
         \A a \in 0 .. Len(code) : longer[a] = level[a]
  PROVE  LoopsAt(new, longer, starts)
<1>1. \A t : Arrives(code, level, t) => Arrives(new, longer, t)
  BY DEF Arrives
<1> QED BY <1>1 DEF LoopsAt

(* A jump that ends a block, where the jump over the block comes to.       *)
LEMMA JumpPatched ==
  ASSUME NEW code, NEW level, Leads(code, level, 0), NEW t, Arrives(code, level, t),
         NEW hole, Hole(code, hole), NEW starts, LoopsAt(code, level, starts)
  PROVE  LET jumped == code \o <<Op("JMP"), Addr(t)>>
             new    == patch16(jumped, hole, Len(jumped))
         IN \E longer : Leads(new, longer, 0) /\ LoopsAt(new, longer, starts)
<1> DEFINE jumped == code \o <<Op("JMP"), Addr(t)>>
           new    == patch16(jumped, hole, Len(jumped))
<1>1. /\ Reaches(code, level, jumped, 0) /\ IsSeq(jumped)
      /\ Len(jumped) = Len(code) + 2 /\ Len(code) \in Nat
      /\ \A a \in 0 .. Len(code) - 1 : CellAt(jumped, a) = CellAt(code, a)
  BY JumpFollows
<1> HIDE DEF jumped
<1>2. PICK longer : Leads(jumped, longer, 0) /\ \A a \in 0 .. Len(code) : longer[a] = level[a]
  BY <1>1, Zenon DEF Reaches
<1>3. Arrives(jumped, longer, Len(jumped))
  BY <1>1, <1>2 DEF Leads, Arrives
<1>4. hole \in 0 .. Len(jumped) - 1 /\ CellAt(jumped, hole).kind = "addr"
  <2>1. hole \in 0 .. Len(code) - 1 /\ CellAt(code, hole) = Addr(0)
    BY DEF Hole
  <2> QED BY <1>1, <2>1, KindsAre
<1>5. Patches(jumped, new, Len(jumped))
  BY <1>1, <1>4, PatchesOne
<1> HIDE DEF new
<1>6. Leads(new, longer, 0)
  BY <1>2, <1>3, <1>5, PatchedLeads
<1>7. Len(new) = Len(jumped)
  BY <1>5 DEF Patches
<1>8. LoopsAt(new, longer, starts)
  BY <1>1, <1>2, <1>7, LoopsStay
<1>9. \E l : Leads(new, l, 0) /\ LoopsAt(new, l, starts)
  BY <1>6, <1>8
<1> QED BY <1>9 DEF new, jumped

LEMMA ElseWrites ==
  Fine /\ Quiet /\ Else /\ status' = "compiling" => CompileOK'
<1> SUFFICES ASSUME Fine, Quiet, Else, status' = "compiling" PROVE CompileOK'
  OBVIOUS
<1> DEFINE jumped == out \o <<Op("JMP"), Addr(0)>>
           hole   == TopOf(if_stack)
<1>1. /\ if_stack # << >> /\ out' = patch16(jumped, hole, Len(jumped))
      /\ \/ /\ Token(1) = Key("if") /\ Open("if") /\ ExpectCondition /\ s_ptr' = s_ptr + 2
         \/ /\ Token(1) # Key("if") /\ Open("else") /\ s_ptr' = s_ptr + 1
            /\ UNCHANGED expecting_cond
      /\ UNCHANGED <<source, p_mul_div, p_add_sub, p_cmp, var_store, expect_print,
                     force_semicolon_check, paren_depth, while_start>>
  BY DEF Else, Skip, Here, pending, loops
<1>2. /\ ~force_semicolon_check /\ Between(Now) /\ Now.at = "statement"
      /\ Form(At(1)) /\ s_ptr + 1 <= Len(source) + 1
      /\ Is(At(1), At(1).at, "none", 0, 0) /\ OnPath("statement", "key", "else", At(1).at)
  BY KeyInStatement DEF Else
<1>3. At(1).at = "statement" /\ At(1).mode = "none"
  BY <1>2 DEF OnPath, VarType, Is
<1>4. Height(Now) = 0
  BY <1>2, NothingPending
<1>5. PICK level : Leads(out, level, 0) /\ LoopsAt(out, level, while_start)
  BY <1>4 DEF Fine, CompileOK, WrittenTo
<1>6. Hole(out, hole)
  <2>1. Len(if_stack) \in 1 .. Len(if_stack)
    <3>1. IsSeq(if_stack)
      BY DEF Fine, SInv, ScopesOK
    <3> QED BY <1>1, <3>1, EmptySeq DEF IsSeq
  <2> QED BY <2>1 DEF Fine, SInv, HolesOK, TopOf
<1>7. \E longer : Leads(out', longer, 0) /\ LoopsAt(out', longer, while_start)
  <2>1. Arrives(out, level, 0)
    BY <1>5, LenOf DEF Arrives, Leads, Levels
  <2> QED BY <1>1, <1>5, <1>6, <2>1, JumpPatched
<1>8. Between(Now)' /\ Form(Now') /\ Now'.at # "said" /\ ~force_semicolon_check'
  <2>1. CASE Token(1) = Key("if") /\ Open("if") /\ ExpectCondition /\ s_ptr' = s_ptr + 2
    <3>1. Kind(1) = "key" /\ Value(1) = "if" /\ Kind(1) # "end"
      BY <2>1, KindOf
    <3>2. 1 + 1 = 2
      OBVIOUS
    <3>3. FollowsParts(At(1), "key", "if", At(2))
      BY <1>2, <3>1, <3>2, TokenFollows DEF Fine, SInv
    <3>4. Is(At(2), "condition", "none", 0, 0)
      BY <1>3, <3>3 DEF FollowsParts, OnPath, Beginning, VarType, Is
    <3> QED BY <1>1, <1>2, <2>1, <3>4, ConditionNext
  <2>2. CASE /\ Token(1) # Key("if") /\ Open("else") /\ s_ptr' = s_ptr + 1
             /\ UNCHANGED expecting_cond
    <3>1. Now' = At(1)
      BY <1>1, <2>2, NowMoves DEF Fine, SInv
    <3> QED BY <1>1, <1>2, <1>3, <2>2, <3>1 DEF Between, Idle, Is
  <2> QED BY <1>1, <2>1, <2>2
<1>9. PICK longer : Leads(out', longer, 0) /\ LoopsAt(out', longer, while_start')
  BY <1>1, <1>7
<1> QED BY <1>8, <1>9, BlockNext
(* '}': a loop jumps back, and the jumps over the block come here.         *)
LEMMA LoopWrites ==
  ASSUME SInv, scope_stack # << >>, ~Unconditional, CloseLoop,
         NEW level, Leads(out, level, 0), LoopsAt(out, level, while_start)
  PROVE  \E longer : Leads(out', longer, 0) /\ LoopsAt(out', longer, while_start')
<1> DEFINE start  == TopOf(while_start)
           hole   == TopOf(while_exit)
           jumped == out \o <<Op("JMP"), Addr(start)>>
<1>1. /\ TopOf(scope_stack) = "while" /\ out' = patch16(jumped, hole, Len(jumped))
      /\ while_start' = Pop(while_start)
  BY DEF CloseLoop, Here
<1>2. /\ IsSeq(scope_stack) /\ IsSeq(while_start) /\ IsSeq(while_exit)
      /\ Cardinality(Whiles(scope_stack)) = Len(while_start)
      /\ Len(while_start) = Len(while_exit) /\ Len(while_start) \in Nat
  BY ScopesAre DEF SInv
<1>3. Len(while_start) > 0 /\ while_start # << >>
  <2>1. /\ IsSeq(Pop(scope_stack)) /\ Cardinality(Whiles(Pop(scope_stack))) \in Nat
        /\ Cardinality(Whiles(scope_stack)) = Cardinality(Whiles(Pop(scope_stack))) + 1
    BY <1>1, <1>2, WhilesPop, Popped, WhilesFinite
  <2>2. Len(while_start) > 0
    BY <1>2, <2>1
  <2>3. Len(<< >>) = 0
    OBVIOUS
  <2> QED BY <2>2, <2>3
<1>4. Len(while_exit) \in 1 .. Len(while_exit) /\ Len(while_start) \in 1 .. Len(while_start)
  BY <1>2, <1>3
<1>5. Hole(out, hole) /\ hole # NoVar
  BY <1>1, <1>4 DEF SInv, HolesOK, TopOf, Unconditional
<1>6. Arrives(out, level, start)
  BY <1>4 DEF LoopsAt, TopOf
<1>7. LoopsAt(out, level, while_start')
  <2>1. /\ Len(while_start') = Len(while_start) - 1
        /\ \A i \in 1 .. Len(while_start) - 1 : while_start'[i] = while_start[i]
    BY <1>1, <1>2, <1>3, Popped
  <2> QED BY <1>2, <2>1 DEF LoopsAt
<1> QED BY <1>1, <1>5, <1>6, <1>7, JumpPatched

LEMMA ChainWrites ==
  ASSUME SInv, scope_stack # << >>, ~Unconditional, CloseChain,
         NEW level, Leads(out, level, 0), LoopsAt(out, level, while_start)
  PROVE  \E longer : Leads(out', longer, 0) /\ LoopsAt(out', longer, while_start')
<1> DEFINE top   == TopOf(if_stack)
           own   == IF TopOf(scope_stack) = "if" THEN {top} ELSE {}
           holes == own \cup Elements(exit_jmp_stack)
<1>1. /\ TopOf(scope_stack) = "if" => if_stack # << >>
      /\ out' = PatchAll(out, holes, Len(out)) /\ UNCHANGED while_start
  BY DEF CloseChain, Here, loops, Unconditional
<1>2. IsSeq(if_stack) /\ IsSeq(out) /\ Len(out) \in Nat
  BY ScopesAre, LenOf DEF Leads, SInv
<1>3. TopOf(scope_stack) = "if" => Hole(out, top)
  <2>1. if_stack # << >> => Len(if_stack) \in 1 .. Len(if_stack)
    BY <1>2, EmptySeq DEF IsSeq
  <2> QED BY <1>1, <2>1 DEF SInv, HolesOK, TopOf
<1>4. \A h \in holes : h \in 0 .. Len(out) - 1 /\ CellAt(out, h).kind = "addr"
  BY <1>3 DEF SInv, HolesOK, Elements, Hole, Addr
<1> HIDE DEF holes
<1>5. Patches(out, out', Len(out))
  BY <1>1, <1>2, <1>4, PatchesMany
<1>6. Arrives(out, level, Len(out))
  BY <1>2 DEF Leads, Arrives
<1>7. Leads(out', level, 0)
  BY <1>5, <1>6, PatchedLeads
<1>8. Len(out') = Len(out)
  BY <1>5 DEF Patches
<1>9. LoopsAt(out', level, while_start')
  BY <1>1, <1>2, <1>8, LoopsStay
<1> QED BY <1>7, <1>9

LEMMA CloseBraceWrites == Fine /\ Quiet /\ CloseBrace => CompileOK'
<1> SUFFICES ASSUME Fine, Quiet, CloseBrace PROVE CompileOK'
  OBVIOUS
<1>1. /\ ~Unconditional /\ (CloseLoop \/ CloseChain \/ CloseBlock) /\ s_ptr' = s_ptr + 1
      /\ UNCHANGED <<source, p_mul_div, p_add_sub, p_cmp, var_store, expect_print,
                     force_semicolon_check, paren_depth, expecting_cond>>
  BY DEF CloseBrace, Skip, pending
<1>2. ~Refused /\ Kind(0) = "sym" /\ Value(0) = "}" /\ Kind(0) # "end" /\ Token(0) # Sym(";")
  BY ReadsSym DEF CloseBrace
<1>3. /\ ~force_semicolon_check /\ (Between(Now) \/ Expressed(Now))
      /\ FollowsParts(Now, "sym", "}", At(1))
  BY <1>2, FirstToken
<1>4. Between(Now) /\ Now.at = "statement" /\ Is(At(1), "statement", "none", 0, 0)
  BY <1>3 DEF FollowsParts, OnPath, Beginning, Inside, Ending, Between, Expressed, Is
<1>5. Now' = At(1)
  BY <1>1, NowMoves DEF Fine, SInv
<1>6. Between(Now)' /\ Form(Now') /\ Now'.at # "said" /\ ~force_semicolon_check'
  BY <1>1, <1>3, <1>4, <1>5 DEF Between, Idle, Is
<1>7. scope_stack # << >>
  <2>1. Token(0) = Sym("}")
    BY DEF CloseBrace, ReadsToken
  <2>2. Token(0) # End
    BY <1>2, KindOf
  <2> QED BY <1>2, <1>3, <2>1, <2>2 DEF Refused, Unmatched
<1>8. Height(Now) = 0
  BY <1>3, <1>4, NothingPending
<1>9. PICK level : Leads(out, level, 0) /\ LoopsAt(out, level, while_start)
  BY <1>8 DEF Fine, CompileOK, WrittenTo
<1>10. \E longer : Leads(out', longer, 0) /\ LoopsAt(out', longer, while_start')
  <2>1. CASE CloseBlock
    <3>1. UNCHANGED <<out, while_start>>
      BY <2>1 DEF CloseBlock, loops
    <3> QED BY <1>9, <3>1
  <2> QED BY <1>1, <1>7, <1>9, <2>1, LoopWrites, ChainWrites DEF Fine
<1>11. PICK longer : Leads(out', longer, 0) /\ LoopsAt(out', longer, while_start')
  BY <1>10
<1> QED BY <1>6, <1>11, BlockNext
-----------------------------------------------------------------------------
(* The end of the source comes between two statements.                     *)
LEMMA AtTheEnd ==
  ASSUME Fine, Reads("end")
  PROVE  Between(Now) /\ Now.at = "statement" /\ ~force_semicolon_check
<1>1. ~Refused /\ Kind(0) = "end"
  BY DEF Reads
<1>2. Form(Now) /\ s_ptr + 0 <= Len(source) + 1
  BY InPlace DEF Fine, SInv, CompileOK, Reading
<1>3. Now.at = "statement"
  <2> SUFFICES ASSUME Now.at # "statement" PROVE FALSE
    OBVIOUS
  <2>1. FollowsParts(At(0), Kind(0), Value(0), At(0 + 1))
    BY <1>2, TokenFollows DEF Fine, SInv, Now
  <2>2. ~FollowsParts(At(0), "end", Value(0), At(0 + 1))
    BY DEF FollowsParts, OnPath, Beginning, Inside, Ending
  <2> QED BY <1>1, <2>1, <2>2
<1>4. ~force_semicolon_check /\ ~Expressed(Now)
  BY <1>3 DEF Fine, CompileOK, Reading, Demanding, Expressed
<1> QED BY <1>3, <1>4 DEF Fine, CompileOK, Reading

LEMMA LiftsHalt == Lifts(<<Op("HALT")>>, 0, 0)
<1> DEFINE ins == <<Op("HALT")>>
<1>1. ins \in Seq({Op("HALT")}) /\ Len(ins) = 1 /\ ins[1] = Op("HALT")
  OBVIOUS
<1>2. IsSeq(ins)
  BY <1>1, SeqOf
<1>3. Op("HALT").name = "HALT" /\ Op("HALT").kind = "op" /\ Width("HALT") = 1
  BY DEF Op, TypedOp, Width, Jumps, OnVar, VarVar, VarConst
<1>4. VM!Pops("HALT") = 0 /\ Pushes("HALT") = 0
  BY DEF VM!Pops, Pushes, Arithmetic, Comparison, VM!Arithmetic, VM!Comparison
<1> HIDE DEF ins
<1>5. ASSUME NEW code, NEW level, Leads(code, level, 0)
      PROVE  Reaches(code, level, code \o ins, 0)
  <2>1. Raises(ins, code, level, 0, 0)
    <3>1. 0 \in 0 .. Most /\ VM!Pops("HALT") <= 0 /\ 0 = 0 - VM!Pops("HALT") + Pushes("HALT")
      BY <1>4 DEF Most
    <3>2. \A k \in 1 .. Len(ins) : k = 1 /\ ins[k].kind # "addr"
      BY <1>1, <1>3
    <3> QED BY <1>1, <1>2, <1>3, <3>1, <3>2 DEF Raises
  <2> QED BY <1>5, <2>1, LiftOne
<1>6. Lifts(ins, 0, 0)
  BY <1>2, <1>5 DEF Lifts
<1> QED BY <1>6 DEF ins

(* What the machine does with code that has levels: as many values are on  *)
(* its stack as the level of its place, and the address of a string is on  *)
(* top of it when the string is printed.                                   *)
PrintsText ==
  CellAt(out, pc).name = "PRINT_STR" => stack[Len(stack)] = CellAt(out, pc - 1).val

RunOK ==
  /\ \E level : Levels(out, level) /\ Len(stack) = level[pc]
  /\ PrintsText

LEMMA FinishWrites == Fine /\ Quiet /\ Finish => RunOK'
<1> SUFFICES ASSUME Fine, Quiet, Finish PROVE RunOK'
  OBVIOUS
<1>1. out' = out \o <<Op("HALT")>> /\ status = "compiling" /\ status' = "running"
  BY DEF Finish, Emit, Reads
<1>2. Height(Now) = 0
  BY AtTheEnd, NothingPending DEF Finish
<1>3. PICK level : Leads(out, level, 0)
  BY <1>2 DEF Fine, CompileOK, WrittenTo
<1>4. PICK longer : Leads(out', longer, 0)
  <2>1. Reaches(out, level, out', 0)
    BY <1>1, <1>3, LiftsHalt DEF Lifts
  <2> QED BY <2>1, Zenon DEF Reaches
<1>5. Levels(out', longer) /\ longer[0] = 0
  BY <1>4 DEF Leads, Levels
<1>6. pc' = 0 /\ stack' = << >> /\ Len(<< >>) = 0
  BY <1>1 DEF Fine, CompileOK, SInv, MachineOK, Compiled, Quiet, machineVars
<1>7. SInv'
  BY FinishKeeps DEF Fine
<1>8. CellAt(out', 0).kind = "op" /\ Len(out') \in Nat /\ Len(out') > 0
  BY <1>1, <1>6, <1>7, LenOf DEF SInv, MachineOK, Compiled, OpCell, CodeOK
<1>9. CellAt(out', 0).name # "PRINT_STR"
  <2>1. Flows(out', longer, 0)
    BY <1>5, <1>8 DEF Levels
  <2>2. ~TextBefore(out', 0)
    BY DEF TextBefore
  <2> QED BY <2>1, <2>2 DEF Flows
<1>10. PrintsText'
  BY <1>6, <1>9 DEF PrintsText
<1> QED BY <1>5, <1>6, <1>10 DEF RunOK
(* The address of a string, as a number and back.                          *)
LEMMA AddressAgain ==
  ASSUME NEW u \in Nat PROVE VM!ToInt(One * u) = u
<1>1. One \in Nat /\ One > 0
  BY OneAssumption
<1> DEFINE a == One * u
           q == a \div One
           r == a % One
<1>2. a \in Nat
  BY <1>1
<1> HIDE DEF a
<1>3. q \in Int /\ r \in 0 .. One - 1 /\ a = One * q + r
  BY <1>1, <1>2
<1> HIDE DEF q, r
<1>4. \A d \in Int : d >= 1 => One * d >= One
  BY <1>1
<1>5. One * (q - u) = One * q - One * u /\ One * (u - q) = One * u - One * q
  BY <1>1, <1>3
<1>6. q = u
  <2>1. ~(q - u >= 1)
    <3>1. q - u >= 1 => One * (q - u) >= One
      BY <1>3, <1>4
    <3> QED BY <1>1, <1>3, <1>5, <3>1 DEF a
  <2>2. ~(u - q >= 1)
    <3>1. u - q >= 1 => One * (u - q) >= One
      BY <1>3, <1>4
    <3> QED BY <1>1, <1>3, <1>5, <3>1 DEF a
  <2> QED BY <1>3, <2>1, <2>2
<1>7. VM!ToInt(a) = q
  BY <1>2 DEF VM!ToInt, q
<1> QED BY <1>6, <1>7 DEF a

(* What a step of the machine does with pc and the stack.                  *)
Stops == UNCHANGED <<pc, stack>>

GoesOn ==
  /\ pc' = pc + Width(VM!Name)
  /\ Len(stack') = Len(stack) - VM!Pops(VM!Name) + Pushes(VM!Name)
  /\ VM!Name = "PUSH" => stack' = Append(stack, VM!Operand(1))

JumpsOff ==
  /\ VM!Name \in Jumps /\ pc' = VM!Operand(1)
  /\ Len(stack') = Len(stack) - VM!Pops(VM!Name)

LEMMA DropsAll ==
  ASSUME SInv, NEW n \in Nat, n <= Len(stack)
  PROVE  /\ IsSeq(VM!Drop(n)) /\ Len(VM!Drop(n)) = Len(stack) - n
         /\ \A x : Len(Append(VM!Drop(n), x)) = Len(stack) - n + 1
<1>1. IsSeq(stack) /\ Len(stack) \in Nat
  BY LenOf DEF SInv, MachineOK
<1> DEFINE m == Len(stack) - n
<1>2. m \in 0 .. Len(stack) /\ VM!Drop(n) = SubSeq(stack, 1, m)
  BY <1>1 DEF VM!Drop
<1> HIDE DEF m
<1>3. IsSeq(VM!Drop(n)) /\ Len(VM!Drop(n)) = m
  BY <1>1, <1>2, Shortened
<1>4. \A x : Len(Append(VM!Drop(n), x)) = m + 1
  BY <1>3, Appended
<1> QED BY <1>3, <1>4 DEF m

(* An opcode that takes n values and leaves one, or none.                  *)
LEMMA TakesAndGoes ==
  ASSUME SInv, NEW names, VM!Executes(names), "PUSH" \notin names,
         NEW cells, \A name \in names : Width(name) = cells, VM!Advance(cells),
         NEW n \in Nat, \A name \in names : VM!Pops(name) = n,
         NEW k \in {0, 1}, \A name \in names : Pushes(name) = k,
         IF k = 0 THEN stack' = VM!Drop(n) ELSE \E x : stack' = Append(VM!Drop(n), x)
  PROVE  GoesOn
<1>1. VM!Name \in names /\ Len(stack) >= VM!Pops(VM!Name)
  BY DEF VM!Executes
<1>2. n <= Len(stack) /\ Len(stack) \in Nat
  BY <1>1, LenOf DEF SInv, MachineOK
<1>3. Len(stack') = Len(stack) - n + k
  <2>1. /\ Len(VM!Drop(n)) = Len(stack) - n
        /\ \A x : Len(Append(VM!Drop(n), x)) = Len(stack) - n + 1
    BY <1>2, DropsAll
  <2>2. CASE k = 0
    <3>1. Len(stack') = Len(stack) - n
      BY <2>1, <2>2
    <3> QED BY <1>2, <2>2, <3>1
  <2>3. CASE k = 1
    <3>1. PICK x : stack' = Append(VM!Drop(n), x)
      BY <2>3
    <3> QED BY <2>1, <2>3, <3>1
  <2> QED BY <2>2, <2>3
<1> QED BY <1>1, <1>3 DEF GoesOn, VM!Advance

(* An opcode that adds a value, and one that leaves the stack alone.       *)
LEMMA AddsAndGoes ==
  ASSUME SInv, NEW name, VM!Executes({name}), VM!Advance(Width(name)),
         VM!Pops(name) = 0, Pushes(name) = 1,
         NEW x, stack' = Append(stack, x), name = "PUSH" => x = VM!Operand(1)
  PROVE  GoesOn
<1>1. VM!Name = name
  BY DEF VM!Executes
<1>2. IsSeq(stack) /\ Len(stack) \in Nat
  BY LenOf DEF SInv, MachineOK
<1>3. Len(stack') = Len(stack) + 1
  BY <1>2, Appended
<1>4. Len(stack') = Len(stack) - 0 + 1
  BY <1>2, <1>3
<1> QED BY <1>1, <1>4 DEF GoesOn, VM!Advance

LEMMA LeavesAndGoes ==
  ASSUME SInv, NEW names, VM!Executes(names), "PUSH" \notin names,
         NEW cells, \A name \in names : Width(name) = cells, VM!Advance(cells),
         \A name \in names : VM!Pops(name) = 0 /\ Pushes(name) = 0, UNCHANGED stack
  PROVE  GoesOn
<1>1. VM!Name \in names
  BY DEF VM!Executes
<1>2. Len(stack) \in Nat /\ Len(stack) = Len(stack) - 0 + 0
  BY LenOf DEF SInv, MachineOK
<1> QED BY <1>1, <1>2 DEF GoesOn, VM!Advance
LEMMA NothingMoves ==
  VM!Halt \/ VM!GoWild => Stops
BY DEF VM!Halt, VM!GoWild, VM!vmVars, Stops

LEMMA JumpMoves ==
  ASSUME SInv, VM!Jump \/ VM!JumpIfZero PROVE GoesOn \/ JumpsOff
<1>1. /\ VM!Pops("JMP") = 0 /\ VM!Pops("JZ") = 1 /\ Pushes("JZ") = 0 /\ Width("JZ") = 2
      /\ IsSeq(stack) /\ Len(stack) \in Nat
  BY LenOf DEF VM!Pops, Pushes, Arithmetic, Comparison, VM!Arithmetic, VM!Comparison, Width,
               Jumps, SInv, MachineOK
<1>2. CASE VM!Jump
  <2>1. VM!Name = "JMP" /\ pc' = VM!Operand(1) /\ UNCHANGED stack
    BY <1>2 DEF VM!Jump, VM!Executes
  <2>2. Len(stack) = Len(stack) - 0
    BY <1>1
  <2> QED BY <1>1, <2>1, <2>2 DEF JumpsOff, Jumps
<1>3. CASE VM!JumpIfZero
  <2>1. /\ VM!Executes({"JZ"}) /\ stack' = VM!Drop(1)
        /\ pc' = VM!Operand(1) \/ VM!Advance(2)
    BY <1>3 DEF VM!JumpIfZero
  <2>2. VM!Name = "JZ" /\ Len(stack) >= 1
    BY <1>1, <2>1 DEF VM!Executes
  <2>3. Len(stack') = Len(stack) - 1 /\ Len(stack) - 1 = Len(stack) - 1 + 0
    BY <1>1, <2>1, <2>2, DropsAll
  <2> QED BY <1>1, <2>1, <2>2, <2>3 DEF JumpsOff, GoesOn, VM!Advance, Jumps
<1> QED BY <1>2, <1>3

LEMMA PushMoves ==
  ASSUME SInv, VM!Push \/ VM!Load \/ VM!Input PROVE GoesOn
<1>1. \A name \in {"PUSH", "LOAD", "INPUT"} : VM!Pops(name) = 0 /\ Pushes(name) = 1
  BY DEF VM!Pops, Pushes, Arithmetic, Comparison, VM!Arithmetic, VM!Comparison
<1>2. Width("PUSH") = 2 /\ Width("LOAD") = 2 /\ Width("INPUT") = 1
  BY DEF Width, Jumps, OnVar, VarVar, VarConst
<1>3. CASE VM!Push
  <2>1. VM!Executes({"PUSH"}) /\ VM!Advance(2) /\ stack' = Append(stack, VM!Operand(1))
    BY <1>3 DEF VM!Push
  <2> QED BY <1>1, <1>2, <2>1, AddsAndGoes
<1>4. CASE VM!Load
  <2>1. /\ VM!Executes({"LOAD"}) /\ VM!Advance(2)
        /\ stack' = Append(stack, VM!ReadAs(VM!Type, variables[VM!Operand(1)]))
    BY <1>4 DEF VM!Load
  <2> QED BY <1>1, <1>2, <2>1, AddsAndGoes
<1>5. CASE VM!Input
  <2>1. VM!Executes({"INPUT"}) /\ VM!Advance(1) /\ stack' = Append(stack, InputValue)
    BY <1>5 DEF VM!Input
  <2> QED BY <1>1, <1>2, <2>1, AddsAndGoes
<1> QED BY <1>3, <1>4, <1>5

LEMMA OperatorMoves ==
  ASSUME SInv, VM!Binary \/ VM!Remainder \/ VM!ArrayGet PROVE Stops \/ GoesOn
<1> DEFINE names == VM!Arithmetic \cup VM!Comparison \cup {"MOD", "ARRAY_GET"}
<1>1. /\ \A name \in names : Width(name) = 1 /\ VM!Pops(name) = 2 /\ Pushes(name) = 1
      /\ "PUSH" \notin names
  BY DEF Width, Jumps, OnVar, VarVar, VarConst, VM!Pops, VM!Arithmetic, VM!Comparison,
         Pushes, Arithmetic, Comparison
<1>2. VM!Executes(names)
  <2>1. \A sub : sub \subseteq names /\ VM!Executes(sub) => VM!Executes(names)
    BY DEF VM!Executes
  <2>2. /\ VM!Binary => VM!Executes(VM!Arithmetic \cup VM!Comparison)
        /\ VM!Remainder => VM!Executes({"MOD"})
        /\ VM!ArrayGet => VM!Executes({"ARRAY_GET"})
    BY DEF VM!Binary, VM!Remainder, VM!ArrayGet
  <2> QED BY <2>1, <2>2
<1> HIDE DEF names
<1>3. UNCHANGED <<stack, pc>> \/ (VM!Advance(1) /\ \E x : stack' = Append(VM!Drop(2), x))
  BY DEF VM!Binary, VM!ArrayGet, VM!Remainder
<1>4. CASE VM!Advance(1) /\ \E x : stack' = Append(VM!Drop(2), x)
  BY <1>1, <1>2, <1>4, TakesAndGoes
<1> QED BY <1>3, <1>4 DEF Stops

LEMMA RegisterGoes ==
  ASSUME SInv, VM!IncDec \/ VM!UpdateByVar \/ VM!UpdateByConst PROVE GoesOn
<1>1. \A name \in {"INC", "DEC"} \cup VarVar \cup VarConst :
        VM!Pops(name) = 0 /\ Pushes(name) = 0 /\ name # "PUSH"
  BY DEF VM!Pops, Pushes, Arithmetic, Comparison, VM!Arithmetic, VM!Comparison, VarVar, VarConst
<1>2. UNCHANGED stack
  BY DEF VM!IncDec, VM!UpdateByVar, VM!UpdateByConst
<1>3. CASE VM!IncDec
  <2>1. VM!Executes({"INC", "DEC"}) /\ VM!Advance(2)
    BY <1>3 DEF VM!IncDec
  <2>2. \A name \in {"INC", "DEC"} : Width(name) = 2
    BY DEF Width, OnVar, Jumps
  <2> QED BY <1>1, <1>2, <2>1, <2>2, LeavesAndGoes
<1>4. CASE VM!UpdateByVar
  <2>1. VM!Executes(VarVar) /\ VM!Advance(3)
    BY <1>4 DEF VM!UpdateByVar, VarVar
  <2>2. \A name \in VarVar : Width(name) = 3
    BY WidthIs DEF VarVar
  <2> QED BY <1>1, <1>2, <2>1, <2>2, LeavesAndGoes
<1>5. CASE VM!UpdateByConst
  <2>1. VM!Executes(VarConst) /\ VM!Advance(3)
    BY <1>5 DEF VM!UpdateByConst, VarConst
  <2>2. \A name \in VarConst : Width(name) = 3
    BY WidthIs DEF VarConst
  <2> QED BY <1>1, <1>2, <2>1, <2>2, LeavesAndGoes
<1> QED BY <1>3, <1>4, <1>5

LEMMA StatementMoves ==
  ASSUME SInv, VM!Store \/ VM!PrintNumber \/ VM!PrintText \/ VM!ArrayMake \/ VM!ArraySet
  PROVE  GoesOn
<1>1. /\ \A name \in {"PRINT", "PRINT_STR", "ARRAY_MAKE", "ARRAY_SET"} : Width(name) = 1
      /\ \A name \in {"STORE", "PRINT", "PRINT_STR", "ARRAY_MAKE"} : VM!Pops(name) = 1
      /\ VM!Pops("ARRAY_SET") = 3 /\ Width("STORE") = 2 /\ Pushes("ARRAY_MAKE") = 1
      /\ \A name \in {"STORE", "PRINT", "PRINT_STR", "ARRAY_SET"} : Pushes(name) = 0
  BY DEF Width, Jumps, OnVar, VarVar, VarConst, VM!Pops, VM!Arithmetic, VM!Comparison,
         Pushes, Arithmetic, Comparison
<1>2. CASE VM!Store
  <2>1. VM!Executes({"STORE"}) /\ VM!Advance(2) /\ stack' = VM!Drop(1)
    BY <1>2 DEF VM!Store
  <2> QED BY <1>1, <2>1, TakesAndGoes
<1>3. CASE VM!PrintNumber
  <2>1. VM!Executes({"PRINT"}) /\ VM!Advance(1) /\ stack' = VM!Drop(1)
    BY <1>3 DEF VM!PrintNumber
  <2> QED BY <1>1, <2>1, TakesAndGoes
<1>4. CASE VM!PrintText
  <2>1. VM!Executes({"PRINT_STR"}) /\ VM!Advance(1) /\ stack' = VM!Drop(1)
    BY <1>4 DEF VM!PrintText
  <2> QED BY <1>1, <2>1, TakesAndGoes
<1>5. CASE VM!ArrayMake
  <2>1. VM!Executes({"ARRAY_MAKE"}) /\ VM!Advance(1) /\ \E x : stack' = Append(VM!Drop(1), x)
    BY <1>5 DEF VM!ArrayMake
  <2> QED BY <1>1, <2>1, TakesAndGoes
<1>6. CASE VM!ArraySet
  <2>1. VM!Executes({"ARRAY_SET"}) /\ VM!Advance(1) /\ stack' = VM!Drop(3)
    BY <1>6 DEF VM!ArraySet
  <2> QED BY <1>1, <2>1, TakesAndGoes
<1> QED BY <1>2, <1>3, <1>4, <1>5, <1>6

LEMMA Moves == SInv /\ VM!VMNext => Stops \/ GoesOn \/ JumpsOff
BY NothingMoves, JumpMoves, PushMoves, OperatorMoves, RegisterGoes, StatementMoves DEF VM!VMNext
(* Code with levels at the place of the machine.                           *)
LEMMA PlaceIs ==
  ASSUME SInv, NEW level, Levels(out, level), NEW a, OpCell(out, a)
  PROVE  /\ a \in Int /\ Len(out) \in Nat
         /\ Flows(out, level, a) /\ Complete(out, symbol_table, a)
         /\ level[a] \in 0 .. Most
         /\ CellAt(out, a).name = "PRINT_STR" => TextBefore(out, a) /\ level[a] >= 1
<1>1. a \in 0 .. Len(out) - 1 /\ CellAt(out, a).kind = "op"
  BY DEF OpCell
<1>2. Len(out) \in Nat
  BY LenOf DEF SInv, CodeOK
<1>3. Flows(out, level, a) /\ Complete(out, symbol_table, a)
  BY <1>1 DEF Levels, SInv, CodeOK
<1>4. level[a] \in 0 .. Most
  BY <1>1, <1>2 DEF Levels
<1>5. CellAt(out, a).name = "PRINT_STR" => TextBefore(out, a) /\ 1 <= level[a]
  <2>1. VM!Pops("PRINT_STR") = 1
    BY DEF VM!Pops, VM!Arithmetic, VM!Comparison
  <2> QED BY <1>3, <2>1 DEF Flows
<1> QED BY <1>1, <1>2, <1>3, <1>4, <1>5

LEMMA GoesOnKeeps ==
  ASSUME SInv, RunOK, OpCell(out, pc), GoesOn, UNCHANGED out, OpCell(out, pc')
  PROVE  RunOK'
<1> DEFINE name == CellAt(out, pc).name
<1>1. PICK level : Levels(out, level) /\ Len(stack) = level[pc]
  BY DEF RunOK
<1>2. /\ pc \in Int /\ Len(out) \in Nat /\ level[pc] \in 0 .. Most
      /\ Flows(out, level, pc) /\ Complete(out, symbol_table, pc)
  BY <1>1, PlaceIs
<1>3. VM!Name = name /\ VM!Operand(1) = CellAt(out, pc + 1).val
  BY DEF VM!Name, VM!Operand, VM!CellAt, CellAt
<1> HIDE DEF name
<1>4. pc' = pc + Width(name) /\ Len(stack') = level[pc']
  BY <1>1, <1>2, <1>3 DEF GoesOn, Flows, name
<1>5. ASSUME CellAt(out, pc').name = "PRINT_STR"
      PROVE  stack'[Len(stack')] = CellAt(out, pc' - 1).val
  <2>1. TextBefore(out, pc')
    BY <1>1, <1>5, PlaceIs
  <2>2. /\ CellAt(out, pc' - 2).kind = "op" /\ CellAt(out, pc' - 2).name = "PUSH"
        /\ CellAt(out, pc' - 1).kind = "const"
    BY <2>1 DEF TextBefore
  <2>3. CellAt(out, pc).kind = "op"
    BY DEF OpCell
  <2>4. Width(name) \in 1 .. 3
    BY WidthIs
  <2>5. Width(name) # 1
    <3>1. Width(name) = 1 => pc' - 1 = pc
      BY <1>2, <1>4
    <3>2. CellAt(out, pc' - 1).kind # "op"
      BY <2>2
    <3> QED BY <2>3, <3>1, <3>2
  <2>6. Width(name) # 3
    <3>1. SUFFICES ASSUME Width(name) = 3 PROVE FALSE
      OBVIOUS
    <3>2. pc' - 2 = pc + 1
      BY <1>2, <1>4, <3>1
    <3>3. name \in VarVar \cup VarConst
      BY <3>1 DEF Width
    <3>4. CellAt(out, pc + 1).kind = "var"
      BY <1>2, <3>3 DEF Complete, VarCell, name
    <3> QED BY <2>2, <3>2, <3>4
  <2>7. pc' - 2 = pc /\ pc' - 1 = pc + 1
    BY <1>2, <1>4, <2>4, <2>5, <2>6
  <2>8. stack' = Append(stack, CellAt(out, pc + 1).val)
    BY <1>3, <2>2, <2>7 DEF GoesOn, name
  <2>9. Len(stack') = Len(stack) + 1 /\ stack'[Len(stack) + 1] = CellAt(out, pc + 1).val
    BY <2>8, Appended DEF SInv, MachineOK
  <2> QED BY <2>7, <2>9
<1>6. PrintsText'
  BY <1>5 DEF PrintsText
<1>7. Levels(out', level) /\ Len(stack') = level[pc']
  BY <1>1, <1>4
<1> QED BY <1>6, <1>7 DEF RunOK

LEMMA JumpsOffKeeps ==
  ASSUME SInv, RunOK, OpCell(out, pc), JumpsOff, UNCHANGED out, OpCell(out, pc')
  PROVE  RunOK'
<1> DEFINE name == CellAt(out, pc).name
<1>1. PICK level : Levels(out, level) /\ Len(stack) = level[pc]
  BY DEF RunOK
<1>2. /\ pc \in Int /\ Len(out) \in Nat /\ level[pc] \in 0 .. Most
      /\ Flows(out, level, pc) /\ Complete(out, symbol_table, pc)
  BY <1>1, PlaceIs
<1>3. VM!Name = name /\ VM!Operand(1) = CellAt(out, pc + 1).val /\ name \in Jumps
  BY DEF VM!Name, VM!Operand, VM!CellAt, CellAt, JumpsOff
<1>4. Width(name) = 2 /\ Pushes(name) = 0 /\ VM!Pops(name) \in 0 .. 3
  <2>1. Pushes("JMP") = 0 /\ Pushes("JZ") = 0
    BY DEF Pushes, Arithmetic, Comparison
  <2> QED BY <1>3, <2>1, WidthIs, PopsPushes DEF Jumps
<1> HIDE DEF name
<1>5. Len(stack') = 0
  <2>1. Len(stack') = level[pc] - VM!Pops(name)
    BY <1>1, <1>3 DEF JumpsOff
  <2>2. 0 = level[pc] - VM!Pops(name) + 0
    BY <1>2, <1>3, <1>4 DEF Flows, name
  <2> QED BY <1>2, <1>4, <2>1, <2>2
<1>6. Arrives(out, level, pc')
  <2>1. CellAt(out, pc + 1).kind = "addr" /\ pc + 2 <= Len(out)
    BY <1>2, <1>3, <1>4 DEF Complete, name
  <2>2. pc + 1 \in 0 .. Len(out) - 1
    BY <1>2, <2>1 DEF OpCell
  <2>3. pc' = CellAt(out, pc + 1).val
    BY <1>3 DEF JumpsOff
  <2> QED BY <1>1, <2>1, <2>2, <2>3 DEF Levels
<1>7. Len(stack') = level[pc']
  BY <1>5, <1>6 DEF Arrives
<1>8. CellAt(out, pc').name # "PRINT_STR"
  <2>1. CellAt(out, pc').name = "PRINT_STR" => level[pc'] >= 1
    BY <1>1, PlaceIs
  <2> QED BY <1>5, <1>7, <2>1
<1>9. PrintsText'
  BY <1>8 DEF PrintsText
<1> QED BY <1>1, <1>7, <1>9 DEF RunOK

LEMMA RunKeeps ==
  ASSUME SInv, RunOK, VM!VMNext, UNCHANGED out PROVE RunOK'
<1>1. MachineStep
  BY StopSteps, JumpSteps, PushSteps, OperatorSteps, RegisterSteps, OutputSteps DEF VM!VMNext
<1>2. status = "running"
  BY DEF VM!VMNext, VM!Executes, VM!Push, VM!Binary, VM!Remainder, VM!JumpIfZero, VM!Jump,
         VM!Store, VM!Load, VM!IncDec, VM!UpdateByVar, VM!UpdateByConst, VM!PrintNumber,
         VM!PrintText, VM!ArrayMake, VM!ArraySet, VM!ArrayGet, VM!Input, VM!Halt, VM!GoWild
<1>3. OpCell(out, pc) /\ OpCell(out, pc')
  BY <1>1, <1>2 DEF SInv, MachineOK, Compiled, MachineStep
<1>4. CASE Stops
  BY <1>4 DEF Stops, RunOK, PrintsText
<1> QED BY <1>3, <1>4, Moves, GoesOnKeeps, JumpsOffKeeps
-----------------------------------------------------------------------------
(* The invariant of the whole program.                                     *)
StackOK ==
  /\ Tidy(source) => /\ status = "compiling" => CompileOK
                     /\ Compiled => RunOK
  /\ ~Compiled => stack = << >>
  /\ status = "wild" => VM!Undefined

(* compile() stops at an error, goes on, or is at the end.                 *)
LEMMA CompilerGoes ==
  ASSUME CompilerNext
  PROVE  /\ status = "compiling"
         /\ \/ status' \in {"error", "broken"} \/ Finish
            \/ status' = "compiling" /\ ~error_exit /\ ~Overflow /\ ~CloseUnconditional
<1>1. /\ error_exit => status = "compiling" /\ status' = "error"
      /\ Overflow \/ CloseUnconditional => status = "compiling" /\ status' = "broken"
      /\ Finish => status = "compiling"
      /\ Else => status = "compiling" /\ status' \in {"compiling", "broken"}
  BY DEF error_exit, Overflow, CloseUnconditional, Finish, Else, ReadsToken, Reads
<1>2. Number \/ ReadVariable \/ Element \/ AddOperator \/ MulOperator \/ Compare
        => status = "compiling" /\ status' = "compiling"
  BY DEF Number, ReadVariable, Element, AddOperator, MulOperator, Compare, Reads, Operand
<1>3. OpenParen \/ CloseParen \/ String \/ Semicolon \/ Comment \/ Declare
        => status = "compiling" /\ status' = "compiling"
  BY DEF OpenParen, CloseParen, String, Semicolon, Comment, Declare, ReadsToken, Reads
<1>4. Assign \/ UpdateAtOnce \/ UpdateByRest \/ IncDec \/ BeginPrint \/ InputInto
        => status = "compiling" /\ status' = "compiling"
  BY DEF Assign, UpdateAtOnce, UpdateByRest, IncDec, BeginPrint, InputInto, AtOnce,
         ReadsToken, Reads
<1>5. If \/ While \/ OpenBrace \/ CloseBrace
        => status = "compiling" /\ status' = "compiling"
  BY DEF If, While, OpenBrace, CloseBrace, ReadsToken, Reads
<1> QED BY <1>1, <1>2, <1>3, <1>4, <1>5 DEF CompilerNext

LEMMA CompilerWrites ==
  ASSUME Fine, Quiet, CompilerNext, status' = "compiling", ~error_exit, ~Overflow,
         ~CloseUnconditional, ~Finish
  PROVE  CompileOK'
<1>1. CASE Number \/ ReadVariable \/ Element \/ AddOperator \/ MulOperator \/ Compare
  BY <1>1, NumberWrites, ReadVariableWrites, ElementWrites, AddOperatorWrites,
     MulOperatorWrites, CompareWrites
<1>2. CASE OpenParen \/ CloseParen \/ String \/ Semicolon \/ Comment \/ Declare
  BY <1>2, OpenParenWrites, CloseParenWrites, StringWrites, SemicolonWrites,
     CommentWrites, DeclareWrites
<1>3. CASE Assign \/ UpdateAtOnce \/ UpdateByRest \/ IncDec \/ BeginPrint \/ InputInto
  BY <1>3, AssignWrites, UpdateAtOnceWrites, UpdateByRestWrites, IncDecWrites,
     BeginPrintWrites, InputIntoWrites
<1>4. CASE If \/ Else \/ While \/ OpenBrace \/ CloseBrace
  BY <1>4, IfWrites, ElseWrites, WhileWrites, OpenBraceWrites, CloseBraceWrites
<1> QED BY <1>1, <1>2, <1>3, <1>4 DEF CompilerNext

LEMMA CompilerKeepsStack ==
  ASSUME SInv, StackOK, CompilerNext, Quiet PROVE StackOK'
<1>1. /\ status = "compiling" /\ stack = << >> /\ UNCHANGED <<stack, source>>
      /\ \/ status' \in {"error", "broken"} \/ Finish
         \/ status' = "compiling" /\ ~error_exit /\ ~Overflow /\ ~CloseUnconditional
  <2>1. UNCHANGED source
    BY DEF CompilerNext, Number, ReadVariable, Element, AddOperator, MulOperator, Compare,
           OpenParen, CloseParen, String, Semicolon, Comment, Declare, Assign, UpdateAtOnce,
           UpdateByRest, IncDec, BeginPrint, InputInto, If, Else, While, OpenBrace,
           CloseBrace, CloseUnconditional, Finish, error_exit, Overflow, AtOnce, Operand
  <2> QED BY <2>1, CompilerGoes DEF StackOK, Compiled, Quiet, machineVars
<1>2. CASE status' \in {"error", "broken"}
  BY <1>1, <1>2 DEF StackOK, Compiled
<1>3. CASE Finish
  <2>1. status' = "running"
    BY <1>3 DEF Finish
  <2>2. Tidy(source) => Fine
    BY <1>1 DEF StackOK, Fine
  <2>3. Tidy(source) => RunOK'
    BY <1>3, <2>2, FinishWrites
  <2> QED BY <1>1, <2>1, <2>3 DEF StackOK, Compiled
<1>4. CASE status' = "compiling" /\ ~error_exit /\ ~Overflow /\ ~CloseUnconditional
  <2>1. ~Finish
    BY <1>4 DEF Finish
  <2>2. Tidy(source) => Fine
    BY <1>1 DEF StackOK, Fine
  <2>3. Tidy(source) => CompileOK'
    BY <1>4, <2>1, <2>2, CompilerWrites
  <2> QED BY <1>1, <1>4, <2>3 DEF StackOK, Compiled
<1> QED BY <1>1, <1>2, <1>3, <1>4

LEMMA MachineKeepsStack ==
  ASSUME SInv, StackOK, VM!VMNext, UNCHANGED <<source, out>> PROVE StackOK'
<1>1. status = "running" /\ status' \in {"running", "halted", "wild", "fault"}
  <2>1. status = "running"
    BY DEF VM!VMNext, VM!Executes, VM!Push, VM!Binary, VM!Remainder, VM!JumpIfZero, VM!Jump,
           VM!Store, VM!Load, VM!IncDec, VM!UpdateByVar, VM!UpdateByConst, VM!PrintNumber,
           VM!PrintText, VM!ArrayMake, VM!ArraySet, VM!ArrayGet, VM!Input, VM!Halt, VM!GoWild
  <2>2. MachineStep
    BY StopSteps, JumpSteps, PushSteps, OperatorSteps, RegisterSteps, OutputSteps
       DEF VM!VMNext
  <2> QED BY <2>1, <2>2 DEF MachineStep
<1>2. Tidy(source) => RunOK'
  BY <1>1, RunKeeps DEF StackOK, Compiled
<1>3. status' = "wild" => VM!Undefined'
  <2>1. SUFFICES ASSUME status' = "wild" PROVE VM!Undefined'
    OBVIOUS
  <2>2. VM!GoWild
    BY <1>1, <2>1 DEF VM!VMNext, VM!Push, VM!Binary, VM!Remainder, VM!JumpIfZero, VM!Jump,
           VM!Store, VM!Load, VM!IncDec, VM!UpdateByVar, VM!UpdateByConst, VM!PrintNumber,
           VM!PrintText, VM!ArrayMake, VM!ArraySet, VM!ArrayGet, VM!Input, VM!Halt
  <2>3. VM!Undefined /\ UNCHANGED <<out, pc, stack, arrays>>
    BY <2>2 DEF VM!GoWild, VM!vmVars
  <2> QED BY <2>3 DEF VM!Undefined, VM!InCode, VM!InCodeAt, VM!Name, VM!Fits, VM!Top,
                      VM!IsText, VM!BadPointer, VM!PointsTo, VM!Rounded
<1> QED BY <1>1, <1>2, <1>3 DEF StackOK, Compiled

LEMMA StackOKAtFirst == Init => StackOK
<1> SUFFICES ASSUME Init PROVE StackOK
  OBVIOUS
<1>1. /\ s_ptr = 1 /\ out = << >> /\ status = "compiling"
      /\ p_add_sub = << >> /\ p_mul_div = << >> /\ p_cmp = << >>
      /\ var_store = NoVar /\ expect_print = 0 /\ paren_depth = 0
      /\ force_semicolon_check = FALSE /\ expecting_cond = {}
      /\ while_start = << >> /\ stack = << >>
  BY DEF Init, CompilerInit, VM!VMInit, VM!Fresh
<1>2. ASSUME Tidy(source) PROVE CompileOK
  <2>1. Now = Start
    <3>1. Shape[1] = Start /\ s_ptr + 0 = 1
      BY <1>1, <1>2, ShapeIs DEF Shaped
    <3> QED BY <3>1 DEF Now, At
  <2>2. Is(Now, "statement", "none", 0, 0)
    BY <2>1, PlainIs DEF Start
  <2>3. Between(Now) /\ Form(Now)
    BY <1>1, <2>2 DEF Between, Idle, Is
  <2>4. Reading(Now) /\ Height(Now) = 0 /\ Now.at # "said"
    BY <1>1, <2>2, <2>3 DEF Reading, Height, Is
  <2>5. \E level : Leads(out, level, 0) /\ LoopsAt(out, level, while_start)
    <3> DEFINE level == [a \in 0 .. 0 |-> 0]
               none  == << >>
    <3>1. IsSeq(none) /\ Len(none) = 0
      BY SeqOf, EmptySeq
    <3>2. level \in [0 .. 0 -> 0 .. Most] /\ level[0] = 0
      BY DEF Most
    <3> HIDE DEF level, none
    <3>3. 0 .. 0 - 1 = {} /\ 1 .. 0 = {}
      OBVIOUS
    <3>4. Leads(none, level, 0) /\ LoopsAt(none, level, none)
      BY <3>1, <3>2, <3>3 DEF Leads, Levels, LoopsAt
    <3> QED BY <1>1, <3>4 DEF none
  <2>6. WrittenTo(Height(Now))
    BY <2>4, <2>5 DEF WrittenTo
  <2> QED BY <1>1, <2>4, <2>6 DEF CompileOK
<1> QED BY <1>1, <1>2 DEF StackOK, Compiled

(* At every moment the code has levels: what compile() has written ends at *)
(* the level its pending operations account for, and the machine's stack   *)
(* is as high as the level of the place it is at.                          *)
THEOREM StackIsKnown == Spec => []StackOK
<1>1. SInv /\ StackOK /\ [Next]_stellarVars => StackOK'
  <2> SUFFICES ASSUME SInv, StackOK, [Next]_stellarVars PROVE StackOK'
    OBVIOUS
  <2>1. CASE CompilerNext /\ UNCHANGED <<machineVars, meaning>>
    BY <2>1, CompilerKeepsStack DEF Quiet
  <2>2. CASE /\ VM!VMNext
             /\ UNCHANGED <<source, s_ptr, out, pending, var_store, expect_print,
                            force_semicolon_check, paren_depth, symbol_table, scopes, meaning>>
    BY <2>2, MachineKeepsStack
  <2>3. CASE UNCHANGED stellarVars
    <3>1. /\ UNCHANGED <<source, s_ptr, out, status, p_add_sub, p_mul_div, p_cmp, var_store,
                         expect_print, force_semicolon_check, paren_depth>>
          /\ UNCHANGED <<while_start, scope_stack, expecting_cond, pc, stack, arrays>>
      BY <2>3 DEF stellarVars, compilerVars, machineVars, pending, scopes, loops
    <3>2. CompileOK' <=> CompileOK
      <4>1. Now' = Now
        BY <3>1 DEF Now, At, Shape
      <4>2. Reading(Now)' = Reading(Now) /\ Height(Now)' = Height(Now)
        BY <3>1, <4>1 DEF Reading, Height, Demanding, Between, Expressed, Idle, Form, Depth
      <4> QED BY <3>1, <4>1, <4>2 DEF CompileOK, WrittenTo
    <3>3. (RunOK' <=> RunOK) /\ (Compiled' <=> Compiled)
      BY <3>1 DEF RunOK, PrintsText, Compiled
    <3>4. VM!Undefined' <=> VM!Undefined
      BY <3>1 DEF VM!Undefined, VM!InCode, VM!InCodeAt, VM!Name, VM!Fits, VM!Top,
                  VM!IsText, VM!BadPointer, VM!PointsTo, VM!Rounded
    <3> QED BY <3>1, <3>2, <3>3, <3>4 DEF StackOK
  <2> QED BY <2>1, <2>2, <2>3 DEF Next
<1>2. Init => StackOK
  BY StackOKAtFirst
<1> QED BY <1>1, <1>2, Inductive, PTL DEF Spec

(* No program of this form needs more than seven places of the stack.      *)
THEOREM SevenPlaces == Spec => [](Tidy(source) => Len(stack) <= 7)
<1>1. SInv /\ StackOK => (Tidy(source) => Len(stack) <= 7)
  <2> SUFFICES ASSUME SInv, StackOK, Tidy(source) PROVE Len(stack) <= 7
    OBVIOUS
  <2>1. CASE Compiled
    <3>1. PICK level : Levels(out, level) /\ Len(stack) = level[pc]
      BY <2>1 DEF StackOK, RunOK
    <3>2. OpCell(out, pc)
      BY <2>1 DEF SInv, MachineOK
    <3>3. level[pc] \in 0 .. Most
      BY <3>1, <3>2, PlaceIs
    <3> QED BY <3>1, <3>3 DEF Most
  <2>2. CASE ~Compiled
    <3>1. Len(<< >>) = 0
      OBVIOUS
    <3> QED BY <2>2, <3>1 DEF StackOK
  <2> QED BY <2>1, <2>2
<1> QED BY <1>1, Inductive, StackIsKnown, PTL

(* Between statements the stack is empty, at every jump that is not a      *)
(* condition's and at the end: a loop may go round for ever.               *)
THEOREM StackIsDisciplined == Spec => [](Tidy(source) => StackDiscipline)
<1>1. SInv /\ StackOK => (Tidy(source) => StackDiscipline)
  <2> SUFFICES ASSUME SInv, StackOK, Tidy(source), status \in {"running", "halted"},
                      VM!Name \in {"JMP", "HALT"}
               PROVE  stack = << >>
    BY DEF StackDiscipline
  <2> DEFINE name == CellAt(out, pc).name
  <2>1. OpCell(out, pc) /\ RunOK /\ IsSeq(stack)
    BY DEF SInv, MachineOK, StackOK, Compiled
  <2>2. PICK level : Levels(out, level) /\ Len(stack) = level[pc]
    BY <2>1 DEF RunOK
  <2>3. Flows(out, level, pc) /\ level[pc] \in 0 .. Most
    BY <2>1, <2>2, PlaceIs
  <2>4. name \in {"JMP", "HALT"}
    BY DEF VM!Name, VM!CellAt, CellAt
  <2>5. VM!Pops(name) = 0 /\ Pushes(name) = 0
    <3>1. \A n \in {"JMP", "HALT"} : VM!Pops(n) = 0 /\ Pushes(n) = 0
      BY DEF VM!Pops, Pushes, Arithmetic, Comparison, VM!Arithmetic, VM!Comparison
    <3> QED BY <2>4, <3>1
  <2>6. level[pc] - 0 + 0 = 0
    BY <2>3, <2>4, <2>5 DEF Flows, Jumps
  <2>7. Len(stack) = 0
    BY <2>2, <2>3, <2>6
  <2> QED BY <2>1, <2>7, EmptySeq DEF IsSeq
<1> QED BY <1>1, Inductive, StackIsKnown, PTL

(* A machine with seven places for its stack goes wild only where the      *)
(* program itself follows a bad pointer or index.                          *)
THEOREM OnlyPointersRunWild ==
  ASSUME StackSize >= 7 PROVE Spec => [](Tidy(source) => WildAtPointer)
<1>1. SInv /\ StackOK => (Tidy(source) => WildAtPointer)
  <2> SUFFICES ASSUME SInv, StackOK, Tidy(source), status = "wild" PROVE WildAtPointer
    BY DEF WildAtPointer
  <2> DEFINE name == CellAt(out, pc).name
  <2>1. OpCell(out, pc) /\ RunOK /\ IsSeq(stack) /\ Len(stack) \in Nat /\ VM!Undefined
    BY LenOf DEF SInv, MachineOK, StackOK, Compiled
  <2>2. PICK level : Levels(out, level) /\ Len(stack) = level[pc]
    BY <2>1 DEF RunOK
  <2>3. /\ Flows(out, level, pc) /\ level[pc] \in 0 .. Most
        /\ name = "PRINT_STR" => TextBefore(out, pc)
    BY <2>1, <2>2, PlaceIs
  <2>4. VM!Name = name /\ VM!InCode
    BY <2>1 DEF VM!Name, VM!CellAt, CellAt, VM!InCode, VM!InCodeAt, OpCell
  <2> HIDE DEF name
  <2>5. Len(stack) >= VM!Pops(name) /\ VM!Pops(name) \in 0 .. 3
    BY <2>2, <2>3, PopsPushes DEF Flows, name
  <2>6. VM!Fits
    <3>1. ASSUME name \in {"PUSH", "LOAD", "INPUT"} PROVE Len(stack) < StackSize
      <4>1. \A n \in {"PUSH", "LOAD", "INPUT"} : VM!Pops(n) = 0 /\ Pushes(n) = 1
        BY DEF VM!Pops, Pushes, Arithmetic, Comparison, VM!Arithmetic, VM!Comparison
      <4>2. /\ VM!Pops(name) = 0 /\ Pushes(name) = 1
            /\ Width(name) \in 1 .. 3
        BY <3>1, <4>1, WidthIs
      <4>3. pc + Width(name) <= Len(out) /\ level[pc + Width(name)] = level[pc] - 0 + 1
        BY <2>3, <4>2 DEF Flows, name
      <4>4. pc + Width(name) \in 0 .. Len(out)
        BY <2>1, <2>2, <4>2, <4>3, PlaceIs DEF OpCell
      <4>5. level[pc + Width(name)] \in 0 .. Most
        BY <2>2, <4>4 DEF Levels
      <4> QED BY <2>2, <2>3, <4>3, <4>5, StellarAssumption DEF Most
    <3> QED BY <2>4, <3>1 DEF VM!Fits
  <2>7. name # "PRINT_STR" \/ VM!IsText(VM!ToInt(VM!Top(0)))
    <3> SUFFICES ASSUME name = "PRINT_STR" PROVE VM!IsText(VM!ToInt(VM!Top(0)))
      OBVIOUS
    <3>1. PICK u \in 0 .. Len(out) - 1 :
            CellAt(out, u).kind = "text" /\ CellAt(out, pc - 1).val = One * u
      BY <2>3 DEF TextBefore
    <3>2. stack[Len(stack)] = CellAt(out, pc - 1).val
      BY <2>1 DEF RunOK, PrintsText, name
    <3>3. VM!Top(0) = One * u
      <4>1. Len(stack) - 0 = Len(stack)
        BY <2>1
      <4> QED BY <3>1, <3>2, <4>1 DEF VM!Top
    <3>4. VM!ToInt(VM!Top(0)) = u
      BY <3>3, AddressAgain
    <3> QED BY <3>1, <3>4 DEF VM!IsText, VM!CellAt, CellAt
  <2>8. \/ name = "ARRAY_SET" /\ VM!BadPointer(VM!Top(2), VM!Top(1))
        \/ name = "ARRAY_GET" /\ VM!BadPointer(VM!Top(1), VM!Top(0))
    BY <2>1, <2>4, <2>5, <2>6, <2>7 DEF VM!Undefined
  <2> QED BY <2>4, <2>5, <2>8 DEF WildAtPointer
<1> QED BY <1>1, Inductive, StackIsKnown, PTL
=============================================================================
