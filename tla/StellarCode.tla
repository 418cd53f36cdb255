----------------------------- MODULE StellarCode -----------------------------
(***************************************************************************)
(* Stellar bytecode (stellar.h), as the compiler writes it and the virtual *)
(* machine reads it.  Code is a sequence of cells, of which address a is   *)
(* the (a+1)-th: an opcode, a variable's index, a constant, a jump target  *)
(* or a string.  (In memory they take 1, 1, 8, 2 and n bytes.)  A cell     *)
(* that is not an opcode is a record of a kind of its own, so that running *)
(* into one shows.                                                         *)
(*                                                                         *)
(* The opcodes that exist once for let and once for int variables, like    *)
(* OP_STORE and OP_STORE_I, are one name with two types here.              *)
(*                                                                         *)
(* A number is counted in units of 1/One, so that the fractions of a       *)
(* program are whole: One is the number 1.  A double is taken to be exact. *)
(***************************************************************************)
EXTENDS Integers, Sequences

CONSTANT One

ASSUME OneAssumption == One \in Nat /\ One > 0 /\ One % 2 = 0

(* (int)n and (long)n: towards zero.                                       *)
ToInt(n) == IF n < 0 THEN -((-n) \div One) ELSE n \div One
Truncated(n) == One * ToInt(n)

VarType == {"let", "int"}

TypedOp(name, type) == [kind |-> "op", name |-> name, type |-> type]
Op(name)    == TypedOp(name, "let")
Var(index)  == [kind |-> "var", val |-> index]
Const(n)    == [kind |-> "const", val |-> n]
Addr(a)     == [kind |-> "addr", val |-> a]
Text(s)     == [kind |-> "text", val |-> s]

(* The address of the next cell to be written, and the cell at an address. *)
Here(code) == Len(code)
CellAt(code, a) == code[a + 1]

(* patch16: the jump target at an address is filled in.                    *)
patch16(code, pos, a) == [code EXCEPT ![pos + 1] = Addr(a)]

Arithmetic == {"ADD", "SUB", "MUL", "DIV"}
Comparison == {"CMP_EQ", "CMP_NEQ", "CMP_LT", "CMP_GT", "CMP_GTE", "CMP_LTE"}
=============================================================================
