----------------------------- MODULE StellarLang -----------------------------
(***************************************************************************)
(* The Stellar language (stellar.md): programs as trees, their tokens, and *)
(* what they mean.  Expressions group as its grammar has them; undefined   *)
(* behaviour is what its section of that name lists.                       *)
(*                                                                         *)
(* An expression is <<"num", n>>, <<"name", x>>, <<"element", a, i>> with  *)
(* i a number or a name, <<"bin", opcode, left, right>>, or <<"paren", e>>  *)
(* (parentheses that need not be there).  A statement is a tuple that      *)
(* begins with its kind, as in Statement.                                  *)
(***************************************************************************)
EXTENDS Integers, SequencesExt

CONSTANTS
  One,            \* the number 1; numbers are whole multiples of 1/One
  Arith(_, _, _),
  InputValue,
  Names           \* the variables of the programs

Precedence(op) ==
  IF op \in {"MUL", "DIV", "MOD"} THEN 4
  ELSE IF op \in {"ADD", "SUB"} THEN 3
  ELSE IF op \in {"CMP_EQ", "CMP_NEQ"} THEN 1 ELSE 2

OperatorKind(op) == <<"cmp", "cmp", "add", "mul">>[Precedence(op)]

LangSym(c)     == <<"sym", c>>
LangKey(word)  == <<"key", word>>
Parens(tokens) == <<LangSym("(")>> \o tokens \o <<LangSym(")")>>

-----------------------------------------------------------------------------
(* Rendering.  An operand is in parentheses only if it must be.            *)

Looser(e, precedence) == e[1] = "bin" /\ Precedence(e[2]) < precedence

RECURSIVE Expression(_)
Expression(e) ==
  LET operand(side, bound) ==
        IF Looser(side, bound) THEN Parens(Expression(side))
        ELSE Expression(side)
  IN CASE e[1] = "bin" ->
            LET p == Precedence(e[2])
            IN operand(e[3], p) \o <<<<OperatorKind(e[2]), e[2]>>>>
               \o operand(e[4], p + 1)
       [] e[1] = "element" ->
            <<<<"name", e[2]>>, LangSym("["), e[3], LangSym("]")>>
       [] e[1] = "paren" -> Parens(Expression(e[2]))
       [] OTHER -> <<e>>

Ended(tokens) == tokens \o <<LangSym(";")>>
Name(x) == <<"name", x>>

RECURSIVE Statement(_)
Block(statements) ==
  <<LangSym("{")>>
  \o FlattenSeq([i \in DOMAIN statements |-> Statement(statements[i])])
  \o <<LangSym("}")>>

Statement(s) ==
  LET condition == Parens(Expression(s[2]))
  IN CASE s[1] = "declare" ->
            Ended(<<LangKey(s[2]), Name(s[3]), LangSym("=")>> \o Expression(s[4]))
       [] s[1] = "array" ->
            Ended(<<LangKey(s[2]), Name(s[3]), LangSym("="), LangSym("["),
                    <<"num", One * s[4]>>, LangSym("]")>>)
       [] s[1] = "assign" ->
            Ended(Expression(s[2]) \o <<LangSym("=")>> \o Expression(s[3]))
       [] s[1] = "update" ->
            Ended(<<Name(s[2]), <<"update", s[3]>>>> \o Expression(s[4]))
       [] s[1] = "step"  -> Ended(<<Name(s[2]), <<"step", s[3]>>>>)
       [] s[1] = "print" -> Ended(<<LangKey("print")>> \o condition)
       [] s[1] = "say"   ->
            Ended(<<LangKey("print")>> \o Parens(<<<<"text", s[2]>>>>))
       [] s[1] = "input" -> Ended(<<LangKey("input")>> \o Parens(<<Name(s[2])>>))
       [] s[1] = "while" -> <<LangKey("while")>> \o condition \o Block(s[3])
       [] s[1] = "if"    -> <<LangKey("if")>> \o condition \o Block(s[3])
       [] s[1] = "else"  -> <<LangKey("if")>> \o condition \o Block(s[3])
                            \o <<LangKey("else")>> \o Block(s[4])
       [] s[1] = "elseif" -> <<LangKey("if")>> \o condition \o Block(s[3])
                            \o <<LangKey("else")>> \o Statement(s[4])

Tokens(program) ==
  FlattenSeq([i \in DOMAIN program |-> Statement(program[i])])

-----------------------------------------------------------------------------
(* Meaning.  A state has the values of the variables, the arrays, what has *)
(* been printed, and whether everything so far was defined.                *)

Start == [var |-> [x \in Names |-> 0], int |-> {}, array |-> [x \in Names |-> << >>],
          printed |-> << >>, defined |-> TRUE, legal |-> TRUE,
          refused |-> FALSE]

(* What a text means that is not a program, and whether compile() must     *)
(* refuse it.                                                              *)
Meaningless(refused) == [Start EXCEPT !.legal = FALSE, !.refused = refused]

(* Of an int, what is stored; of an element, its place from 0.             *)
WholePart(n) == IF n < 0 THEN -((-n) \div One) ELSE n \div One
Nearest(n) == (n + One \div 2) \div One

RECURSIVE ValueOf(_, _)
ValueOf(e, s) ==
  CASE e[1] = "num"     -> e[2]
    [] e[1] = "name"    -> s.var[e[2]]
    [] e[1] = "element" -> s.array[e[2]][Nearest(ValueOf(e[3], s)) + 1]
    [] e[1] = "paren"   -> ValueOf(e[2], s)
    [] e[1] = "bin"     -> Arith(e[2], ValueOf(e[3], s), ValueOf(e[4], s))

RECURSIVE Defined(_, _)
Defined(e, s) ==
  CASE e[1] = "element" -> Nearest(ValueOf(e[3], s)) + 1 \in DOMAIN s.array[e[2]]
    [] e[1] = "bin"     ->
         /\ Defined(e[3], s) /\ Defined(e[4], s)
         /\ e[2] = "DIV" => ValueOf(e[4], s) # 0
         /\ e[2] = "MOD" => WholePart(ValueOf(e[4], s)) # 0
    [] e[1] = "paren"   -> Defined(e[2], s)
    [] OTHER -> TRUE

Assigned(target, value, s) ==
  IF target[1] = "name"
  THEN [s EXCEPT !.var[target[2]] =
          IF target[2] \in s.int THEN One * WholePart(value) ELSE value]
  ELSE [s EXCEPT !.array[target[2]][Nearest(ValueOf(target[3], s)) + 1] = value]

(* The expressions a statement evaluates first.                            *)
Evaluated(st) ==
  CASE st[1] \in {"declare", "update"} -> {st[4]}
    [] st[1] = "assign" -> {st[2], st[3]}
    [] st[1] \in {"print", "while", "if", "else", "elseif"} -> {st[2]}
    [] OTHER -> {}

RECURSIVE Do(_, _)
DoAll(statements, s) == FoldLeft(LAMBDA t, st : Do(st, t), s, statements)

Do(st, s) ==
  IF ~s.defined \/ \E e \in Evaluated(st) : ~Defined(e, s)
  THEN [s EXCEPT !.defined = FALSE]
  ELSE CASE st[1] = "declare" ->
              Assigned(Name(st[3]), ValueOf(st[4], s),
                       IF st[2] = "int" THEN [s EXCEPT !.int = @ \cup {st[3]}] ELSE s)
         [] st[1] = "array"   -> [s EXCEPT !.array[st[3]] = [i \in 1 .. st[4] |-> 0]]
         [] st[1] = "assign"  -> Assigned(st[2], ValueOf(st[3], s), s)
         [] st[1] = "update"  ->
              Assigned(Name(st[2]), Arith(st[3], s.var[st[2]], ValueOf(st[4], s)), s)
         [] st[1] = "step"    ->
              Assigned(Name(st[2]),
                       Arith(IF st[3] = "INC" THEN "ADD" ELSE "SUB", s.var[st[2]], One), s)
         [] st[1] = "print"   ->
              [s EXCEPT !.printed = Append(@, [kind |-> "const", val |-> ValueOf(st[2], s)])]
         [] st[1] = "say"     ->
              [s EXCEPT !.printed = Append(@, [kind |-> "text", val |-> st[2]])]
         [] st[1] = "input"   -> Assigned(Name(st[2]), InputValue, s)
         [] st[1] = "while"   ->
              IF ValueOf(st[2], s) = 0 THEN s ELSE Do(st, DoAll(st[3], s))
         [] st[1] = "if"      ->
              IF ValueOf(st[2], s) = 0 THEN s ELSE DoAll(st[3], s)
         [] st[1] = "else"    -> DoAll(IF ValueOf(st[2], s) = 0 THEN st[4] ELSE st[3], s)
         [] st[1] = "elseif"  ->
              IF ValueOf(st[2], s) = 0 THEN Do(st[4], s) ELSE DoAll(st[3], s)

Meaning(program) == DoAll(program, Start)
=============================================================================
