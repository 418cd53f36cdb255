--------------------------- MODULE StellarCompiler ---------------------------
(***************************************************************************)
(* The Stellar compiler: compile() (stellar_compiler.c), one action for    *)
(* each branch of its loop.  It reads the source once and emits code as it *)
(* goes: an operator waits in p_mul_div, p_add_sub or p_cmp for its second *)
(* operand, and the jumps of if, else and while are emitted with address 0 *)
(* and patched when the block they jump over has been closed.              *)
(*                                                                         *)
(* The source is a sequence of tokens, pairs of a kind and a value; an     *)
(* operator's value is the name of its opcode.  White space and spelling   *)
(* are left out.                                                           *)
(***************************************************************************)
EXTENDS StellarCode

CONSTANTS          \* the sizes of the compiler's arrays
  Symbols,         \* 256: symbol_table
  IfPlaces,        \* 16: if_stack
  LoopPlaces,      \* 16: while_start and while_exit
  ScopePlaces,     \* 32: scope_stack and expecting_cond_stack
  ExitPlaces       \* 32: exit_jmp_stack

VARIABLES
  source,
  s_ptr,           \* the token about to be read
  out,             \* the code so far; b_ptr is Here(out)
  status,          \* "compiling", "error" after error_exit, "broken" after
                   \*   reading a place of a stack that was not written, or
                   \*   writing past an end of one, or "running"
  p_add_sub, p_mul_div, p_cmp, \* pending opcodes, << >> or one of them
  var_store,       \* NoVar, ArrayElement or the variable ';' stores into
  expect_print,    \* 0, 1 in a print, 2 when it prints a string
  force_semicolon_check,
  paren_depth,
  symbol_table,    \* names and types; the id of a variable is its index
  if_stack,        \* jumps to patch at the end of an if's block
  while_start, while_exit, \* of the open loops; the exits are to be patched
  scope_stack,     \* the open blocks
  expecting_cond,  \* the depths at which the condition is still open
  exit_jmp_stack   \* jumps to patch at the end of an if/else chain

pending == <<p_add_sub, p_mul_div, p_cmp>>
loops   == <<while_start, while_exit>>
scopes  == <<if_stack, loops, scope_stack, expecting_cond, exit_jmp_stack>>
compilerVars ==
  <<source, s_ptr, out, status, pending, var_store, expect_print,
    force_semicolon_check, paren_depth, symbol_table, scopes>>

NoVar        == -1
ArrayElement == -2

CompilerInit ==
  /\ s_ptr = 1 /\ out = << >> /\ status = "compiling"
  /\ p_add_sub = << >> /\ p_mul_div = << >> /\ p_cmp = << >>
  /\ var_store = NoVar /\ expect_print = 0
  /\ force_semicolon_check = FALSE /\ paren_depth = 0
  /\ symbol_table = << >>
  /\ if_stack = << >> /\ while_start = << >> /\ while_exit = << >>
  /\ scope_stack = << >> /\ expecting_cond = {} /\ exit_jmp_stack = << >>

-----------------------------------------------------------------------------
Sym(c)    == <<"sym", c>>
Key(word) == <<"key", word>>
End       == <<"end", "">>

(* The n-th token from here.                                               *)
Token(n) == IF s_ptr + n <= Len(source) THEN source[s_ptr + n] ELSE End
Kind(n)  == Token(n)[1]
Value(n) == Token(n)[2]

Declared(name) == \E i \in 1 .. Len(symbol_table) : symbol_table[i].name = name

find_variable(name) ==
  (CHOOSE i \in 1 .. Len(symbol_table) : symbol_table[i].name = name) - 1

TypeOf(idx) == symbol_table[idx + 1].type

Pop(s)  == SubSeq(s, 1, Len(s) - 1)
TopOf(s) == s[Len(s)]

(* The word after let or int is the name, whatever word it is, or none.    *)
NameTokens == IF Kind(1) \in {"name", "key", "num"} THEN 1 ELSE 0
NewName    == IF NameTokens = 1 THEN Value(1) ELSE ""

(* The statements that must not begin while another waits for its ';'.     *)
Starts ==
  \/ Token(0) \in {Key(w) : w \in {"if", "else", "while", "let", "int", "print"}}
  \/ Token(0) \in {Sym("{"), Sym("}"), End}
  \/ Kind(0) = "name" /\ Token(1) = Sym("=")

BadArray(n) == Kind(n) # "num" \/ Token(n + 1) # Sym("]")

(* An element's index is a number, a variable, or nothing at all.          *)
IndexLength == IF Kind(2) \in {"num", "name"} THEN 1 ELSE 0

BadElement ==
  \/ Token(2 + IndexLength) # Sym("]")
  \/ Kind(2) = "name" /\ ~Declared(Value(2))

BadDeclaration ==
  /\ Token(0) \in {Key("let"), Key("int")}
  /\ LET n == 1 + NameTokens
     IN \/ Token(n) = Sym("=") /\ Token(n + 1) = Sym("[") /\ BadArray(n + 2)
        \/ ~Declared(NewName) /\ Len(symbol_table) = Symbols
        \/ Token(n) = <<"cmp", "CMP_EQ">>  \* = and a second one, which is unexpected

BadInput ==
  /\ Token(0) = Key("input")
  /\ Token(1) # Sym("(") \/ Token(3) # Sym(")") \/ ~Declared(Value(2))

Unmatched == Token(0) = Sym("}") /\ scope_stack = << >>

UnknownName == Kind(0) = "name" /\ (Token(1) = Sym("(") \/ ~Declared(Value(0)))

Unexpected == Token(0) \in {Sym("="), Sym("["), Sym("]")}

(* What compile() refuses with error_exit: first of all what follows an    *)
(* instruction that wants its ';'.                                         *)
Refused ==
  \/ force_semicolon_check /\ Token(0) \notin {Sym(";"), End}
  \/ Starts /\ var_store # NoVar
  \/ BadDeclaration \/ BadInput \/ Unmatched \/ UnknownName
  \/ Kind(0) = "name" /\ Token(1) = Sym("[") /\ BadElement
  \/ Unexpected

error_exit ==
  /\ status = "compiling" /\ Refused
  /\ status' = "error"
  /\ UNCHANGED <<source, s_ptr, out, pending, var_store, expect_print,
                 force_semicolon_check, paren_depth, symbol_table, scopes>>

Depth == Len(scope_stack)

(* The condition of if or while ends here: with a jump, patched later.     *)
ClosesCondition == paren_depth = 1 /\ Depth \in expecting_cond

(* A stack is full, and the token would push on it, or no loop is open to  *)
(* take the jump of a condition that an else block has: nothing looks.     *)
Overflows ==
  \/ Token(0) \in {Key("if"), Key("while"), Key("else")} /\ Depth = ScopePlaces
  \/ Token(0) = Key("while") /\ Len(while_start) = LoopPlaces
  \/ Token(0) = Key("else") /\ Len(exit_jmp_stack) = ExitPlaces
  \/ /\ Token(0) = Sym(")") /\ ClosesCondition
     /\ IF TopOf(scope_stack) = "if" THEN Len(if_stack) = IfPlaces
        ELSE while_exit = << >>

Overflow ==
  /\ status = "compiling" /\ ~Refused /\ Overflows
  /\ status' = "broken"
  /\ UNCHANGED <<source, s_ptr, out, pending, var_store, expect_print,
                 force_semicolon_check, paren_depth, symbol_table, scopes>>

(* The loop reads a token of the given kind and accepts it.                *)
Reads(kind) ==
  status = "compiling" /\ ~Refused /\ ~Overflows /\ Kind(0) = kind
ReadsToken(token) == Reads(token[1]) /\ Token(0) = token

Skip(n)     == s_ptr' = s_ptr + n
Emit(cells) == out' = out \o cells

-----------------------------------------------------------------------------
(* Expressions.                                                            *)

(* A number, or a variable, after which a pending * / % is emitted.        *)
Operand(cells) ==
  /\ Emit(cells \o p_mul_div)
  /\ p_mul_div' = << >>
  /\ Skip(1)
  /\ UNCHANGED <<source, status, p_add_sub, p_cmp, var_store, expect_print,
                 force_semicolon_check, paren_depth, symbol_table, scopes>>

LoadVar(idx) == <<TypedOp("LOAD", TypeOf(idx)), Var(idx)>>

Number == Reads("num") /\ Operand(<<Op("PUSH"), Const(Value(0))>>)

ReadVariable ==
  /\ Reads("name")
  /\ Token(1) \notin {Sym("="), Sym("[")} /\ Kind(1) \notin {"update", "step"}
  /\ Operand(LoadVar(find_variable(Value(0))))

(* Mutant: + and - are emitted after all that follow.                      *)
AddOperatorLate ==
  /\ Reads("add")
  /\ p_add_sub' = <<Op(Value(0))>> \o p_add_sub
  /\ Skip(1)
  /\ UNCHANGED <<source, out, status, p_mul_div, p_cmp, var_store, expect_print,
                 force_semicolon_check, paren_depth, symbol_table, scopes>>

(* + and -: the one before them is complete.                               *)
AddOperator ==
  /\ Reads("add")
  /\ Emit(p_add_sub)
  /\ p_add_sub' = <<Op(Value(0))>>
  /\ Skip(1)
  /\ UNCHANGED <<source, status, p_mul_div, p_cmp, var_store, expect_print,
                 force_semicolon_check, paren_depth, symbol_table, scopes>>

MulOperator ==
  /\ Reads("mul")
  /\ Emit(p_mul_div)
  /\ p_mul_div' = <<Op(Value(0))>>
  /\ Skip(1)
  /\ UNCHANGED <<source, status, p_add_sub, p_cmp, var_store, expect_print,
                 force_semicolon_check, paren_depth, symbol_table, scopes>>

(* A comparison: its left side is complete; one that waits is forgotten.   *)
Compare ==
  /\ Reads("cmp")
  /\ Emit(p_mul_div \o p_add_sub)
  /\ p_mul_div' = << >> /\ p_add_sub' = << >>
  /\ p_cmp' = <<Op(Value(0))>>
  /\ Skip(1)
  /\ UNCHANGED <<source, status, var_store, expect_print,
                 force_semicolon_check, paren_depth, symbol_table, scopes>>

(* What ';' and ')' do first.                                              *)
Flushed == p_mul_div \o p_add_sub \o p_cmp
Flush == p_mul_div' = << >> /\ p_add_sub' = << >> /\ p_cmp' = << >>

OpenParen ==
  /\ ReadsToken(Sym("("))
  /\ paren_depth' = paren_depth + 1
  /\ Skip(1)
  /\ UNCHANGED <<source, out, status, pending, var_store, expect_print,
                 force_semicolon_check, symbol_table, scopes>>

PatchLater(pos) ==
  /\ IF TopOf(scope_stack) = "if"
     THEN if_stack' = Append(if_stack, pos) /\ UNCHANGED loops
     ELSE /\ while_exit' = [while_exit EXCEPT ![Len(while_exit)] = pos]
          /\ UNCHANGED <<if_stack, while_start>>
  /\ expecting_cond' = expecting_cond \ {Depth}
  /\ UNCHANGED <<scope_stack, exit_jmp_stack>>

(* A ')' also ends a print, whichever '(' it belongs to.                   *)
CloseParen ==
  /\ ReadsToken(Sym(")"))
  /\ LET jump == IF ClosesCondition THEN <<Op("JZ"), Addr(0)>> ELSE << >>
         print == IF expect_print = 0 THEN << >>
                  ELSE <<Op(IF expect_print = 2 THEN "PRINT_STR" ELSE "PRINT")>>
     IN /\ Emit(Flushed \o jump \o print)
        /\ IF ClosesCondition THEN PatchLater(Here(out \o Flushed) + 1)
           ELSE UNCHANGED scopes
  /\ Flush
  /\ paren_depth' = paren_depth - 1
  /\ expect_print' = 0
  /\ force_semicolon_check' = (force_semicolon_check \/ expect_print > 0)
  /\ Skip(1)
  /\ UNCHANGED <<source, status, var_store, symbol_table>>

(* A string: its text is put into the code, and a jump over it.            *)
String ==
  /\ Reads("text")
  /\ Emit(<<Op("JMP"), Addr(Here(out) + 3), Text(Value(0)),
            Op("PUSH"), Const(One * (Here(out) + 2))>>)
  /\ expect_print' = IF expect_print > 0 THEN 2 ELSE 0
  /\ Skip(1)
  /\ UNCHANGED <<source, status, pending, var_store, force_semicolon_check,
                 paren_depth, symbol_table, scopes>>

(* a[i]: the value of an element, with both pending operations after it,   *)
(* or, before '=', the element the next ';' stores into.                   *)
Element ==
  /\ Reads("name") /\ Token(1) = Sym("[")
  /\ LET base  == <<Op("LOAD"), Var(find_variable(Value(0)))>>
         index == IF IndexLength = 0 THEN << >>
                  ELSE IF Kind(2) = "num" THEN <<Op("PUSH"), Const(Value(2))>>
                  ELSE LoadVar(find_variable(Value(2)))
     IN IF Token(3 + IndexLength) = Sym("=")
        THEN /\ Emit(base \o index)
             /\ var_store' = ArrayElement
             /\ Skip(4 + IndexLength)
             /\ UNCHANGED pending
        ELSE /\ Emit(base \o index \o <<Op("ARRAY_GET")>>
                     \o p_mul_div \o p_add_sub)
             /\ p_mul_div' = << >> /\ p_add_sub' = << >>
             /\ Skip(3 + IndexLength)
             /\ UNCHANGED <<var_store, p_cmp>>
  /\ UNCHANGED <<source, status, expect_print, force_semicolon_check,
                 paren_depth, symbol_table, scopes>>

-----------------------------------------------------------------------------
(* Statements.                                                             *)

Stored ==
  IF var_store = ArrayElement THEN <<Op("ARRAY_SET")>>
  ELSE IF var_store # NoVar
  THEN <<TypedOp("STORE", TypeOf(var_store)), Var(var_store)>>
  ELSE << >>

(* Mutant: what waits for its second operand stays when it was written.    *)
SemicolonLeaves ==
  /\ ReadsToken(Sym(";"))
  /\ Emit(Flushed \o Stored)
  /\ var_store' = NoVar
  /\ force_semicolon_check' = FALSE
  /\ Skip(1)
  /\ UNCHANGED <<source, status, pending, expect_print, paren_depth, symbol_table, scopes>>

Semicolon ==
  /\ ReadsToken(Sym(";"))
  /\ Emit(Flushed \o Stored)
  /\ Flush
  /\ var_store' = NoVar
  /\ force_semicolon_check' = FALSE
  /\ Skip(1)
  /\ UNCHANGED <<source, status, expect_print, paren_depth, symbol_table, scopes>>

Comment ==
  /\ Reads("comment")
  /\ Skip(1)
  /\ UNCHANGED <<source, out, status, pending, var_store, expect_print,
                 force_semicolon_check, paren_depth, symbol_table, scopes>>

(* let x, let x = e or let x = [n]; an array is stored as a double,        *)
(* whatever the type of its variable.  A name keeps its first type.        *)
Declare ==
  /\ Token(0) \in {Key(type) : type \in VarType} /\ Reads("key")
  /\ LET n   == 1 + NameTokens
         idx == IF Declared(NewName) THEN find_variable(NewName)
                ELSE Len(symbol_table)
     IN /\ symbol_table' =
             IF Declared(NewName) THEN symbol_table
             ELSE Append(symbol_table, [name |-> NewName, type |-> Value(0)])
        /\ IF Token(n) # Sym("=")
           THEN Skip(n) /\ UNCHANGED <<out, var_store, force_semicolon_check>>
           ELSE IF Token(n + 1) # Sym("[")
           THEN /\ var_store' = idx /\ Skip(n + 1)
                /\ UNCHANGED <<out, force_semicolon_check>>
           ELSE /\ Emit(<<Op("PUSH"), Const(Value(n + 2)), Op("ARRAY_MAKE"),
                          Op("STORE"), Var(idx)>>)
                /\ force_semicolon_check' = TRUE
                /\ Skip(n + 4) /\ UNCHANGED var_store
  /\ UNCHANGED <<source, status, pending, expect_print, paren_depth, scopes>>

BeginPrint ==
  /\ ReadsToken(Key("print"))
  /\ expect_print' = 1
  /\ Skip(1)
  /\ UNCHANGED <<source, out, status, pending, var_store,
                 force_semicolon_check, paren_depth, symbol_table, scopes>>

(* Mutant: the ';' after a statement emitted at once is not demanded.      *)
AtOnceUnended(cells, n) ==
  /\ Emit(cells)
  /\ Skip(n)
  /\ UNCHANGED <<source, status, pending, var_store, expect_print,
                 force_semicolon_check, paren_depth, symbol_table, scopes>>

(* A statement that is emitted at once and must be followed by ';'.        *)
AtOnce(cells, n) ==
  /\ Emit(cells)
  /\ force_semicolon_check' = TRUE
  /\ Skip(n)
  /\ UNCHANGED <<source, status, pending, var_store, expect_print,
                 paren_depth, symbol_table, scopes>>

InputInto ==
  /\ ReadsToken(Key("input"))
  /\ AtOnce(<<Op("INPUT"), Op("STORE"), Var(find_variable(Value(2)))>>, 4)

Assign ==
  /\ Reads("name") /\ Token(1) = Sym("=")
  /\ var_store' = find_variable(Value(0))
  /\ Skip(2)
  /\ UNCHANGED <<source, out, status, pending, expect_print,
                 force_semicolon_check, paren_depth, symbol_table, scopes>>

IncDec ==
  /\ Reads("name") /\ Kind(1) = "step"
  /\ LET idx == find_variable(Value(0))
     IN AtOnce(<<TypedOp(Value(1), TypeOf(idx)), Var(idx)>>, 2)

ByConst(operation) ==
  IF operation = "ADD" THEN "ADD_CONST"
  ELSE IF operation = "SUB" THEN "SUB_CONST" ELSE "MUL_CONST"

ByVar(operation) ==
  IF operation = "ADD" THEN "ADD_VAR"
  ELSE IF operation = "SUB" THEN "SUB_VAR" ELSE "MUL_VAR"

(* x += e and its like, where e begins with a number or a variable: that   *)
(* is all of e.  Only two int variables are added as ints.                 *)
UpdateAtOnce ==
  /\ Reads("name") /\ Kind(1) = "update"
  /\ LET idx == find_variable(Value(0))
         src == find_variable(Value(2))
         number == IF TypeOf(idx) = "int" THEN Truncated(Value(2)) ELSE Value(2)
     IN \/ /\ Kind(2) = "num"
           /\ AtOnce(<<TypedOp(ByConst(Value(1)), TypeOf(idx)),
                       Var(idx), Const(number)>>, 3)
        \/ /\ Kind(2) = "name" /\ Declared(Value(2))
           /\ LET type == IF TypeOf(src) = "int" THEN TypeOf(idx) ELSE "let"
              IN AtOnce(<<TypedOp(ByVar(Value(1)), type), Var(idx), Var(src)>>, 3)

(* x += e otherwise: e is compiled as the second operand of x + e.         *)
UpdateByRest ==
  /\ Reads("name") /\ Kind(1) = "update"
  /\ Kind(2) # "num" /\ ~(Kind(2) = "name" /\ Declared(Value(2)))
  /\ LET idx == find_variable(Value(0))
     IN /\ Emit(LoadVar(idx))
        /\ var_store' = idx
  /\ IF Value(1) = "MUL"
     THEN p_mul_div' = <<Op("MUL")>> /\ UNCHANGED p_add_sub
     ELSE p_add_sub' = <<Op(Value(1))>> /\ UNCHANGED p_mul_div
  /\ Skip(2)
  /\ UNCHANGED <<source, status, p_cmp, expect_print, force_semicolon_check,
                 paren_depth, symbol_table, scopes>>

-----------------------------------------------------------------------------
(* Blocks.                                                                 *)

Open(scope) == scope_stack' = Append(scope_stack, scope)
ExpectCondition == expecting_cond' = expecting_cond \cup {Depth + 1}

If ==
  /\ ReadsToken(Key("if"))
  /\ Open("if") /\ ExpectCondition
  /\ Skip(1)
  /\ UNCHANGED <<source, out, status, pending, var_store, expect_print,
                 force_semicolon_check, paren_depth, symbol_table,
                 if_stack, loops, exit_jmp_stack>>

While ==
  /\ ReadsToken(Key("while"))
  /\ while_start' = Append(while_start, Here(out))
  /\ while_exit'  = Append(while_exit, NoVar)
  /\ Open("while") /\ ExpectCondition
  /\ Skip(1)
  /\ UNCHANGED <<source, out, status, pending, var_store, expect_print,
                 force_semicolon_check, paren_depth, symbol_table,
                 if_stack, exit_jmp_stack>>

(* else: the block before it jumps to the end of the chain, and the jump   *)
(* over that block comes here.  It may be an else if.  With no if to pair  *)
(* it with, if_stack[-1] is read.                                          *)
Else ==
  /\ ReadsToken(Key("else"))
  /\ IF if_stack = << >>
     THEN status' = "broken" /\ UNCHANGED <<s_ptr, out, scopes>>
     ELSE /\ LET code == out \o <<Op("JMP"), Addr(0)>>
             IN out' = patch16(code, TopOf(if_stack), Here(code))
          /\ exit_jmp_stack' = Append(exit_jmp_stack, Here(out) + 1)
          /\ if_stack' = Pop(if_stack)
          /\ IF Token(1) = Key("if")
             THEN Open("if") /\ ExpectCondition /\ Skip(2)
             ELSE Open("else") /\ Skip(1) /\ UNCHANGED expecting_cond
          /\ UNCHANGED <<status, loops>>
  /\ UNCHANGED <<source, pending, var_store, expect_print,
                 force_semicolon_check, paren_depth, symbol_table>>

OpenBrace ==
  /\ ReadsToken(Sym("{"))
  /\ Skip(1)
  /\ UNCHANGED <<source, out, status, pending, var_store, expect_print,
                 force_semicolon_check, paren_depth, symbol_table, scopes>>

PatchAll(code, holes, a) ==
  [i \in 1 .. Len(code) |-> IF i - 1 \in holes THEN Addr(a) ELSE code[i]]

Elements(s) == {s[i] : i \in 1 .. Len(s)}

(* Mutant: the loop's exit is where it jumps back.                         *)
CloseLoopEarly ==
  /\ TopOf(scope_stack) = "while"
  /\ LET code == out \o <<Op("JMP"), Addr(TopOf(while_start))>>
     IN out' = patch16(code, TopOf(while_exit), Here(out))
  /\ while_start' = Pop(while_start) /\ while_exit' = Pop(while_exit)
  /\ UNCHANGED <<if_stack, exit_jmp_stack>>

(* Mutant: the exit of a closed loop is not removed.                       *)
CloseLoopLeaves ==
  /\ TopOf(scope_stack) = "while"
  /\ LET code == out \o <<Op("JMP"), Addr(TopOf(while_start))>>
     IN out' = patch16(code, TopOf(while_exit), Here(code))
  /\ while_start' = Pop(while_start)
  /\ UNCHANGED <<if_stack, while_exit, exit_jmp_stack>>

CloseLoop ==
  /\ TopOf(scope_stack) = "while"
  /\ LET code == out \o <<Op("JMP"), Addr(TopOf(while_start))>>
     IN out' = patch16(code, TopOf(while_exit), Here(code))
  /\ while_start' = Pop(while_start) /\ while_exit' = Pop(while_exit)
  /\ UNCHANGED <<if_stack, exit_jmp_stack>>

(* Mutant: the exits stay when the chain has been closed.                  *)
CloseChainLeaves ==
  /\ TopOf(scope_stack) # "while" /\ Token(1) # Key("else")
  /\ LET own == IF TopOf(scope_stack) = "if" THEN {TopOf(if_stack)} ELSE {}
     IN out' = PatchAll(out, own \cup Elements(exit_jmp_stack), Here(out))
  /\ if_stack' = IF TopOf(scope_stack) = "if" THEN Pop(if_stack) ELSE if_stack
  /\ UNCHANGED <<loops, exit_jmp_stack>>

(* The last block of a chain: its own jump, if it has a condition, and all *)
(* the jumps in exit_jmp_stack come here.                                  *)
CloseChain ==
  /\ TopOf(scope_stack) # "while" /\ Token(1) # Key("else")
  /\ LET own == IF TopOf(scope_stack) = "if" THEN {TopOf(if_stack)} ELSE {}
     IN out' = PatchAll(out, own \cup Elements(exit_jmp_stack), Here(out))
  /\ if_stack' = IF TopOf(scope_stack) = "if" THEN Pop(if_stack) ELSE if_stack
  /\ exit_jmp_stack' = << >>
  /\ UNCHANGED loops

(* The block of an if or while that had no condition: its jump was never   *)
(* emitted, and the address to patch is read from below if_stack or from   *)
(* a place of while_exit that this loop has not written.  (Inside another  *)
(* if, it is that one's jump that is patched: CloseChain.)                 *)
Unconditional ==
  \/ /\ TopOf(scope_stack) = "if" /\ Token(1) # Key("else")
     /\ if_stack = << >>
  \/ TopOf(scope_stack) = "while" /\ TopOf(while_exit) = NoVar

CloseUnconditional ==
  /\ ReadsToken(Sym("}")) /\ Unconditional
  /\ status' = "broken"
  /\ UNCHANGED <<source, s_ptr, out, pending, var_store, expect_print,
                 force_semicolon_check, paren_depth, symbol_table, scopes>>

(* Before an else.                                                         *)
CloseBlock ==
  /\ TopOf(scope_stack) # "while" /\ Token(1) = Key("else")
  /\ UNCHANGED <<out, if_stack, loops, exit_jmp_stack>>

CloseBrace ==
  /\ ReadsToken(Sym("}")) /\ ~Unconditional
  /\ CloseLoop \/ CloseChain \/ CloseBlock
  /\ scope_stack' = Pop(scope_stack)
  /\ Skip(1)
  /\ UNCHANGED <<source, status, pending, var_store, expect_print,
                 force_semicolon_check, paren_depth, symbol_table,
                 expecting_cond>>

(* The end of the source.                                                  *)
Finish ==
  /\ Reads("end")
  /\ Emit(<<Op("HALT")>>)
  /\ status' = "running"
  /\ UNCHANGED <<source, s_ptr, pending, var_store, expect_print,
                 force_semicolon_check, paren_depth, symbol_table, scopes>>

CompilerNext ==
  \/ Number \/ ReadVariable \/ Element
  \/ AddOperator \/ MulOperator \/ Compare
  \/ OpenParen \/ CloseParen \/ String
  \/ Semicolon \/ Comment
  \/ Declare \/ Assign \/ UpdateAtOnce \/ UpdateByRest \/ IncDec
  \/ BeginPrint \/ InputInto
  \/ If \/ Else \/ While \/ OpenBrace \/ CloseBrace \/ CloseUnconditional
  \/ Finish \/ error_exit \/ Overflow
=============================================================================
