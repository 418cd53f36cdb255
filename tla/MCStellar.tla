------------------------------ MODULE MCStellar ------------------------------
(***************************************************************************)
(* Small Stellar programs, by what they exercise.                          *)
(***************************************************************************)
EXTENDS StellarForm

CONSTANT Names

Lang == INSTANCE StellarLang
Seqs == INSTANCE SequencesExt

Magnitude(n) == IF n < 0 THEN -n ELSE n
Sign(a, b) == IF (a < 0) = (b < 0) THEN 1 ELSE -1
Truth(condition) == IF condition THEN One ELSE 0

(* n / d for an n that d divides: no program here has a finer fraction     *)
(* than 1/One.                                                             *)
Exactly(n, d) ==
  Sign(n, d) * CHOOSE q \in {Magnitude(n) \div Magnitude(d)} :
                 q * Magnitude(d) = Magnitude(n)

(* Division by zero is undefined; here it gives zero.                      *)
MCArith(op, a, b) ==
  CASE op = "ADD" -> a + b
    [] op = "SUB" -> a - b
    [] op = "MUL" -> Exactly(a * b, One)
    [] op = "DIV" -> IF b = 0 THEN 0 ELSE Exactly(a * One, b)
    [] op = "MOD" -> IF ToInt(b) = 0 THEN 0
                     ELSE Sign(a, 1) * One * (Magnitude(ToInt(a)) % Magnitude(ToInt(b)))
    [] op = "CMP_EQ"  -> Truth(a = b)
    [] op = "CMP_NEQ" -> Truth(a # b)
    [] op = "CMP_LT"  -> Truth(a < b)
    [] op = "CMP_GT"  -> Truth(a > b)
    [] op = "CMP_GTE" -> Truth(a >= b)
    [] op = "CMP_LTE" -> Truth(a <= b)

MCNames == {"x", "y", "z", "a"}

Rendered(tree) == [tokens |-> Lang!Tokens(tree), meaning |-> Lang!Meaning(tree)]
Illegal(tokens) == [tokens |-> tokens, meaning |-> Lang!Meaningless(TRUE)]

Num(n) == <<"num", n * One>>
Halves(n) == <<"num", n * (One \div 2)>>
x == <<"name", "x">>
y == <<"name", "y">>
At(i) == <<"element", "a", i>>
Bins(ops, lefts, rights) ==
  {<<"bin", op, l, r>> : op \in ops, l \in lefts, r \in rights}

Let(name, e) == <<"declare", "let", name, e>>
LetInt(name, e) == <<"declare", "int", name, e>>

-----------------------------------------------------------------------------
(* Expressions without parentheses, elements and chains of comparisons.    *)

Leaves == {x, Num(3)}
Terms  == Leaves \cup Bins({"MUL", "DIV", "MOD"}, Leaves, Leaves)
Chains == Bins({"MUL", "DIV"}, Bins({"MUL", "DIV"}, Leaves, Leaves), Leaves)
Sums   == Terms \cup Chains \cup Bins({"ADD", "SUB"}, Terms, Terms)
          \cup Bins({"ADD", "SUB"}, Bins({"ADD", "SUB"}, Leaves, Leaves), Terms)
Tests  == Bins({"CMP_LT", "CMP_GTE"}, {x} \cup Bins({"SUB"}, Leaves, Terms),
               {x} \cup Bins({"ADD"}, Leaves, Terms))
          \cup Bins({"CMP_EQ", "CMP_NEQ", "CMP_GT", "CMP_LTE"}, Leaves, Leaves)

ExpressionPrograms ==
  {Rendered(<<Let("x", Num(2)), LetInt("z", e), <<"print", e>>>>) : e \in Sums \cup Tests}

-----------------------------------------------------------------------------
(* Control flow, two levels deep.                                          *)

Less == <<"bin", "CMP_LT", x, Num(2)>>
Conditions == {x, Less}
Saying == <<"say", "a">>
Said == {<<Saying>>}
Flat == Said \cup {<<<<"step", "x", "INC">>>>}
Bump(statements) == Append(statements, <<"step", "x", "INC">>)

(* An if with a block of one set, and perhaps an else with one of another. *)
Ifs(blocks, others) ==
  {<<"if", c, b>> : c \in Conditions, b \in blocks}
  \cup {<<"else", c, b, d>> : c \in Conditions, b \in blocks, d \in others}
Chained(blocks, others) ==
  {<<"elseif", c, b, d>> : c \in Conditions, b \in blocks, d \in others}
Loops(blocks) == {<<"while", Less, Bump(b)>> : b \in blocks}

Simple == Ifs(Flat, Flat) \cup Chained(Flat, Ifs(Flat, Said)) \cup Loops(Flat)
Last   == {<<s>> : s \in Simple}
Middle == {<<s, <<"say", "b">>>> : s \in Simple}

Nested == Ifs(Last \cup Middle, Said) \cup Ifs(Said, Last)
          \cup Chained(Said, Ifs(Last, Said)) \cup Loops(Middle)

Controlled(statements) ==
  {Rendered(<<LetInt("x", Num(n)), s, <<"say", "c">>>>) : n \in 0 .. 1, s \in statements}

ControlPrograms == Controlled(Nested)

-----------------------------------------------------------------------------
(* Statements that store, two after each other, on variables of one type   *)
(* (FractionPrograms assign each type to the other).                       *)

Updates ==
  {<<"update", "x", op, e>> : op \in {"ADD", "SUB", "MUL"},
                              e \in {Num(3), y, <<"paren", y>>}}
Stores ==
  Updates \cup {<<"step", "x", op>> : op \in {"INC", "DEC"}}
  \cup {<<"assign", x, e>> : e \in {Num(0), <<"bin", "SUB", Num(1), y>>, At(x),
                                    <<"bin", "MOD", y, x>>}}
  \cup {<<"assign", At(i), e>> : i \in {Num(1), x}, e \in {y, At(Num(1))}}
  \cup {<<"print", At(x)>>}

(* a[1] = x < x + 3 * a[x]: nothing needs more places of the stack.       *)
Tallest ==
  <<"assign", At(Num(1)),
    <<"bin", "CMP_LT", x, <<"bin", "ADD", x, <<"bin", "MUL", Num(3), At(x)>>>>>>>>

DataPrograms ==
  {Rendered(<<<<"declare", type, "x", Num(1)>>, <<"declare", type, "y", Num(2)>>,
              <<"array", type, "a", 2>>, s, t, <<"print", x>>>>) :
     type \in {"let", "int"}, s \in Stores, t \in Stores}
  \cup {Rendered(<<Let("x", Num(1)), <<"input", "x">>, Let("a", Num(n)), s>>) :
          n \in {0, 5}, s \in {<<"assign", At(Num(1)), x>>, <<"print", At(x)>>}}
  \cup {Rendered(<<Let("x", Num(1)), <<"array", "let", "a", 2>>, Tallest, <<"print", At(x)>>>>)}

(* Fractions: what an int keeps of them, an index, a condition, a test.    *)
Fractions ==
  Bins({"ADD", "SUB", "MUL", "DIV"}, {x, y, Halves(3)}, {x, y, Halves(3)})
  \cup Bins({"MOD"}, {x, y, Halves(9)}, {y, Halves(5)})

FractionPrograms ==
  {Rendered(<<Let("x", Halves(1)), LetInt("y", Halves(5)),
              <<"array", "let", "a", 2>>, s, <<"print", x>>, <<"print", y>>>>) :
     s \in {<<"assign", v, e>> : v \in {x, y, At(x)}, e \in Fractions}
          \cup {<<"update", "x", op, Halves(5)>> : op \in {"ADD", "SUB", "MUL"}}
          \cup {<<"assign", y, At(x)>>, <<"if", x, <<Saying>>>>,
                <<"while", Less, <<<<"update", "x", "ADD", Halves(1)>>>>>>}}

-----------------------------------------------------------------------------
(* Comments, and texts that are no programs.                               *)

(* A comment may stand after any of these.                                 *)
Commentable(token) ==
  token \in {Sym(";"), Sym("{")} \/ token[1] \in {"add", "mul", "cmp"}

CommentAt(program, n) ==
  [program EXCEPT !.tokens = Seqs!InsertAt(@, n, <<"comment", "">>)]

Commented(programs, Allowed(_, _)) ==
  UNION {{CommentAt(p, n) : n \in {k \in 2 .. Len(p.tokens) :
                                     Allowed(p.tokens[k - 1], p.tokens[k])}} :
           p \in programs}

CommentedPrograms ==
  Commented(Controlled(Ifs(Flat, Flat)), LAMBDA left, right : Commentable(left))

(* A statement without its ';', and another, after these.                  *)
Variables == <<Let("x", Num(1)), LetInt("y", Num(2)), <<"array", "let", "a", 2>>>>
Emitted == {<<"print", x>>, <<"say", "a">>, <<"input", "x">>, <<"step", "x", "DEC">>,
            <<"update", "x", "SUB", y>>, <<"array", "int", "z", 1>>}
Waited  == {<<"assign", x, Num(3)>>, <<"assign", At(Num(1)), y>>, Let("z", x)}
Texts(statements) == {Lang!Tokens(<<s>>) : s \in statements}

Unended(statements, nexts) ==
  {Illegal(Lang!Tokens(Variables) \o Seqs!Front(s) \o t) :
     s \in Texts(statements), t \in nexts}

Missing ==
  Unended(Emitted, Texts(Emitted \cup Waited \cup Simple))
  \cup Unended(Waited, {<< >>, <<Sym("}")>>}
                       \cup Texts({<<"print", x>>, <<"assign", x, y>>, Let("x", y)}
                                  \cup Simple))

(* Names that are not declared, brackets that do not match.                *)
Name(name) == <<"name", name>>
Mistakes ==
  {<<Sym("}")>>, <<Sym("]")>>, <<Name("z"), <<"step", "INC">>>>,
   <<Name("foo"), Sym("("), Num(1), Sym(")")>>,
   <<Name("x"), Sym("="), Name("a"), Sym("["), Name("z"), Sym("]")>>,
   <<Name("x"), Sym("="), Name("a"), Sym("["), Num(1), Sym(";")>>,
   <<Key("let"), Name("z"), Sym("="), Sym("["), Name("x"), Sym("]")>>,
   <<Key("input"), Name("x")>>, <<Key("input"), Sym("("), Name("z"), Sym(")")>>}

Mistaken == {Illegal(Lang!Tokens(Variables) \o t \o <<Sym(";")>>) : t \in Mistakes}

(* No programs either, but compile() does not refuse them: a declaration   *)
(* without a value or a name, blocks without a condition, an else without  *)
(* an if or with a condition.                                              *)
Parens(token) == <<Sym("("), token, Sym(")")>>
Question(word) == <<Key(word)>> \o Parens(x)
Block == <<Sym("{"), Name("x"), <<"step", "INC">>, Sym(";"), Sym("}")>>
Unclaimed(tokens) == [tokens |-> tokens, meaning |-> Lang!Meaningless(FALSE)]

(* Too deep, or too long a chain, for one of the compiler's stacks.        *)
RECURSIVE Within(_, _, _)
Within(kind, n, s) == IF n = 0 THEN s ELSE <<kind, x, <<Within(kind, n - 1, s)>>>>

RECURSIVE Chain(_)
Chain(n) ==
  IF n = 0 THEN <<"if", x, <<<<"say", "a">>>>>>
  ELSE <<"elseif", x, <<<<"say", "a">>>>, Chain(n - 1)>>

Deep ==
  {Within("if", IfPlaces + 1, Saying), Within("while", LoopPlaces + 1, Saying),
   Chain(ExitPlaces + 1),
   Within("if", 2, Within("while", ScopePlaces - 1, Saying))}

Unrefused ==
  {Unclaimed(Lang!Tokens(Variables) \o t) :
     t \in {<<Key("let"), Name("z"), Sym(";")>>, <<Key("if")>> \o Block,
           <<Key("while")>> \o Block, <<Key("else")>> \o Block,
           <<Key("if")>> \o Block \o <<Key("else")>> \o Block,
           <<Key("let"), Sym(";")>>,
           Question("if") \o <<Sym("{"), Key("if")>> \o Block \o Question("else") \o Block}}
  \cup {Unclaimed(Lang!Tokens(Variables \o <<s>>)) : s \in Deep}

Many == <<"a", "b", "c", "d", "e", "f", "g", "h", "i">>
TooMany == Illegal(Lang!Tokens([i \in 1 .. Symbols + 1 |-> Let(Many[i], Num(i))]))

SourceTexts == CommentedPrograms \cup Missing \cup Mistaken \cup {TooMany} \cup Unrefused

StellarPrograms ==
  ExpressionPrograms \cup ControlPrograms \cup DataPrograms \cup FractionPrograms
  \cup SourceTexts

(* A run of the automaton on a text: the states that can come before each  *)
(* token, first to last, and a choice among them, last to first.           *)
Resting == {"statement", "declared", "named", "list", "size", "sized", "print", "string",
           "said", "input", "into", "read", "condition", "target", "place", "placed",
           "element", "ended"}
Expressing == {"operand", "operator", "array", "index", "indexed"}

Candidates(s) ==
  {Plain(at) : at \in Resting}
  \cup IF s.mode = "none" THEN {Begun(mode) : mode \in {"value", "print", "condition"}}
       ELSE {[s EXCEPT !.at = at, !.parens = @ + n, !.compared = c] :
               at \in Expressing, n \in -1 .. 1, c \in 0 .. 1}

Moves(s, token) == {t \in Candidates(s) : Follows(s, token, t)}

ShapeOf(tokens) ==
  LET Reach(sets, token) ==
        Append(sets, UNION {Moves(s, token) : s \in sets[Len(sets)]})
      reach == Seqs!FoldLeft(Reach, <<{Start}>>, tokens)
      Before(i, shape) ==
        <<CHOOSE s \in reach[i] : Follows(s, tokens[i], shape[1])>> \o shape
  IN Seqs!FoldRight(Before, [i \in 1 .. Len(tokens) |-> i], <<Start>>)

(* What the theorems about tidy programs suppose, of every program here.   *)
ASSUME ProgramsTidy ==
  \A p \in StellarPrograms :
    p.meaning.legal => Shaped(p.tokens, ShapeOf(p.tokens))

-----------------------------------------------------------------------------
(* Programs for what the language has and the compiler has not.            *)

(* Parentheses on the right of an operator.                                *)
GroupedPrograms ==
  {Rendered(<<Let("x", Num(2)), Let("z", e)>>) :
     e \in Bins({"MUL"}, {Num(3)}, Bins({"ADD"}, Leaves, Leaves))}

(* An if that is not the last statement of an else's block.                *)
ElsePrograms == Controlled(Ifs(Flat, Middle))
=============================================================================
