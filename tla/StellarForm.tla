----------------------------- MODULE StellarForm -----------------------------
(***************************************************************************)
(* Which texts have the form of a program, token by token: the grammar of  *)
(* stellar.md, without what compile() does otherwise (see README).  A text *)
(* is tidy if a finite automaton with a count of parentheses takes it, and *)
(* its run is a function from the places of the text to states.  Blocks    *)
(* need not be closed, nor names declared: compile() looks after names.    *)
(***************************************************************************)
EXTENDS Stellar

(* Between the parts of a statement, or in an expression: before or after  *)
(* an operand, whose value is stored, printed or a condition.  "compared"  *)
(* counts the comparisons that wait for their right side: one, or none.    *)
Plain(at) == [at |-> at, mode |-> "none", parens |-> 0, compared |-> 0]
Start == Plain("statement")

Outermost(mode) == IF mode = "value" THEN 0 ELSE 1
Begun(mode) ==
  [at |-> "operand", mode |-> mode, parens |-> Outermost(mode), compared |-> 0]

(* What may follow, by the kind and the value of a token: outside of an    *)
(* expression, where one begins, in one, and where it ends.                *)
OnPath(at, k, v, to) ==
  \/ at = "statement" /\ k = "sym" /\ v \in {"{", "}"} /\ to = "statement"
  \/ at = "statement" /\ k = "key" /\ v = "else" /\ to = "statement"
  \/ at = "statement" /\ k = "comment" /\ to = "statement"
  \/ at = "statement" /\ k = "key" /\ v \in VarType /\ to = "declared"
  \/ at = "declared" /\ k = "name" /\ to = "named"
  \/ at = "named" /\ k = "sym" /\ v = "=" /\ to = "list"
  \/ at = "list" /\ k = "sym" /\ v = "[" /\ to = "size"
  \/ at = "size" /\ k = "num" /\ to = "sized"
  \/ at = "sized" /\ k = "sym" /\ v = "]" /\ to = "ended"
  \/ at = "statement" /\ k = "key" /\ v = "print" /\ to = "print"
  \/ at = "print" /\ k = "sym" /\ v = "(" /\ to = "string"
  \/ at = "string" /\ k = "text" /\ to = "said"
  \/ at = "said" /\ k = "sym" /\ v = ")" /\ to = "ended"
  \/ at = "statement" /\ k = "key" /\ v = "input" /\ to = "input"
  \/ at = "input" /\ k = "sym" /\ v = "(" /\ to = "into"
  \/ at = "into" /\ k = "name" /\ to = "read"
  \/ at = "read" /\ k = "sym" /\ v = ")" /\ to = "ended"
  \/ at = "statement" /\ k = "key" /\ v \in {"if", "while"} /\ to = "condition"
  \/ at = "statement" /\ k = "name" /\ to = "target"
  \/ at = "target" /\ k = "step" /\ to = "ended"
  \/ at = "target" /\ k = "sym" /\ v = "[" /\ to = "place"
  \/ at = "place" /\ k \in {"num", "name"} /\ to = "placed"
  \/ at = "placed" /\ k = "sym" /\ v = "]" /\ to = "element"
  \/ at = "ended" /\ k = "sym" /\ v = ";" /\ to = "statement"

Beginning(at, k, v, mode) ==
  \/ at \in {"named", "target", "element"} /\ k = "sym" /\ v = "=" /\ mode = "value"
  \/ at = "target" /\ k = "update" /\ mode = "value"
  \/ at \in {"print", "condition"} /\ k = "sym" /\ v = "(" /\ mode = at

Inside(at, k, v, to) ==
  \/ at = "operand" /\ k = "num" /\ to = "operator"
  \/ at = "operand" /\ k = "name" /\ to \in {"operator", "array"}
  \/ at = "operand" /\ k = "comment" /\ to = "operand"
  \/ at = "array" /\ k = "sym" /\ v = "[" /\ to = "index"
  \/ at = "index" /\ k \in {"num", "name"} /\ to = "indexed"
  \/ at = "indexed" /\ k = "sym" /\ v = "]" /\ to = "operator"
  \/ at = "operator" /\ k \in {"add", "mul"} /\ to = "operand"

Ending(mode, k, v, to) ==
  \/ mode = "value" /\ k = "sym" /\ v = ";" /\ to = "statement"
  \/ mode = "print" /\ k = "sym" /\ v = ")" /\ to = "ended"
  \/ mode = "condition" /\ k = "sym" /\ v = ")" /\ to = "statement"

Follows(s, token, t) ==
  LET k == token[1]
      v == token[2]
  IN \/ /\ s.mode = "none"
        /\ \/ t = Plain(t.at) /\ OnPath(s.at, k, v, t.at)
           \/ t = Begun(t.mode) /\ Beginning(s.at, k, v, t.mode)
     \/ /\ s.mode # "none"
        /\ \/ t = [s EXCEPT !.at = t.at] /\ Inside(s.at, k, v, t.at)
           \/ /\ s.at = "operand" /\ k = "sym" /\ v = "("
              /\ t = [s EXCEPT !.parens = @ + 1]
           \/ /\ s.at = "operator" /\ k = "cmp" /\ s.compared = 0
              /\ t = [s EXCEPT !.at = "operand", !.compared = 1]
           \/ /\ s.at = "operator" /\ k = "sym" /\ v = ")" /\ s.parens > Outermost(s.mode)
              /\ t = [s EXCEPT !.parens = @ - 1, !.compared = 0]
           \/ /\ s.at = "operator" /\ s.parens = Outermost(s.mode)
              /\ t = Plain(t.at) /\ Ending(s.mode, k, v, t.at)

Shaped(tokens, shape) ==
  /\ shape[1] = Start /\ shape[Len(tokens) + 1] = Start
  /\ \A i \in 1 .. Len(tokens) : Follows(shape[i], tokens[i], shape[i + 1])

Tidy(tokens) == \E shape : Shaped(tokens, shape)

-----------------------------------------------------------------------------
(* Code runs wild only where a program follows a bad pointer or index: it  *)
(* never pops an empty stack, pushes on a full one, leaves its code, or    *)
(* takes something else for a string.                                      *)
WildAtPointer ==
  status = "wild" =>
    /\ VM!InCode /\ VM!Name \in {"ARRAY_GET", "ARRAY_SET"}
    /\ Len(stack) >= VM!Pops(VM!Name)
    /\ IF VM!Name = "ARRAY_SET" THEN VM!BadPointer(VM!Top(2), VM!Top(1))
       ELSE VM!BadPointer(VM!Top(1), VM!Top(0))
=============================================================================
