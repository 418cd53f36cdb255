------------------------------ MODULE StellarVM ------------------------------
(***************************************************************************)
(* The Stellar virtual machine: vm_init and vm_run (stellar.c), one action *)
(* for each opcode or family of opcodes that compile() emits.  It is built *)
(* as on the host, where print and input are printf and scanf.             *)
(*                                                                         *)
(* vm_run checks nothing.  Here the machine is "wild" where the C code     *)
(* would run into something that is not an opcode, pop from an empty stack,*)
(* push on a full one or follow a bad pointer, and "fault" at a remainder  *)
(* by zero.                                                                *)
(*                                                                         *)
(* A double is exact, and an int has no width.                             *)
(***************************************************************************)
EXTENDS StellarCode

CONSTANTS
  Arith(_, _, _),  \* what the processor makes of an operation on two numbers
  InputValue,      \* what scanf reads
  Junk,            \* a number whose bits were written as another type
  Registers,       \* how many registers there are: 256
  StackSize        \* of what the caller gives for a stack

VARIABLES
  code,
  status,    \* "compiling", then "running" until "halted", "wild" or "fault"
  pc,
  stack,     \* vm->stack from 0 to vm->sp
  variables, \* registers by index, each with the type it was written as
  arrays,    \* the arrays malloc has returned
  output     \* what print has printed

vmVars == <<pc, stack, variables, arrays, output>>

(* vm_init: all bits of the registers are zero.                            *)
Fresh ==
  [pc |-> 0, stack |-> << >>,
   variables |-> [i \in 0 .. Registers - 1 |-> [type |-> "let", val |-> 0]],
   arrays |-> << >>, output |-> << >>]

VMInit ==
  /\ pc = Fresh.pc /\ stack = Fresh.stack /\ variables = Fresh.variables
  /\ arrays = Fresh.arrays /\ output = Fresh.output

-----------------------------------------------------------------------------
(* The union of a double and a long: zero is zero in both.                 *)
ReadAs(type, register) ==
  IF register.type = type \/ register.val = 0 THEN register.val ELSE Junk

(* malloc returns pointers that are not numbers a program computes: the    *)
(* k-th is -1000 * k.                                                      *)
Pointer(k) == -1000 * k * One
PointsTo(n, k) == k \in 1 .. Len(arrays) /\ n = Pointer(k)

Top(n)  == stack[Len(stack) - n]
Drop(n) == SubSeq(stack, 1, Len(stack) - n)

Pops(name) ==
  IF name \in Arithmetic \cup Comparison \cup {"MOD", "ARRAY_GET"} THEN 2
  ELSE IF name = "ARRAY_SET" THEN 3
  ELSE IF name \in {"JZ", "STORE", "PRINT", "PRINT_STR", "ARRAY_MAKE"} THEN 1
  ELSE 0

InCodeAt(a) == a \in 0 .. Len(code) - 1 /\ CellAt(code, a).kind = "op"
InCode == InCodeAt(pc)

Name == CellAt(code, pc).name
Type == CellAt(code, pc).type
Operand(n) == CellAt(code, pc + n).val

Fits == Name \in {"PUSH", "LOAD", "INPUT"} => Len(stack) < StackSize

(* NEXT_OP dispatches on an opcode whose operands are on the stack, with   *)
(* room for its result.                                                    *)
Executes(names) ==
  /\ status = "running" /\ InCode
  /\ Name \in names /\ Len(stack) >= Pops(Name) /\ Fits

Advance(cells) == pc' = pc + cells

-----------------------------------------------------------------------------
Push ==
  /\ Executes({"PUSH"})
  /\ stack' = Append(stack, Operand(1))
  /\ Advance(2)
  /\ UNCHANGED <<status, variables, arrays, output>>

(* The arithmetic and comparison opcodes: b was pushed last.               *)
Binary ==
  /\ Executes(Arithmetic \cup Comparison)
  /\ stack' = Append(Drop(2), Arith(Name, Top(1), Top(0)))
  /\ Advance(1)
  /\ UNCHANGED <<status, variables, arrays, output>>

(* The remainder is one of ints; by zero the processor traps.              *)
Remainder ==
  /\ Executes({"MOD"})
  /\ IF ToInt(Top(0)) = 0 THEN status' = "fault" /\ UNCHANGED <<stack, pc>>
     ELSE /\ stack' = Append(Drop(2), Arith(Name, Top(1), Top(0)))
          /\ Advance(1) /\ UNCHANGED status
  /\ UNCHANGED <<variables, arrays, output>>

(* Mutant: JZ leaves the condition on the stack when it does not jump.     *)
JumpIfZeroKeeps ==
  /\ Executes({"JZ"})
  /\ IF Top(0) = 0 THEN pc' = Operand(1) /\ stack' = Drop(1)
     ELSE Advance(2) /\ UNCHANGED stack
  /\ UNCHANGED <<status, variables, arrays, output>>

JumpIfZero ==
  /\ Executes({"JZ"})
  /\ stack' = Drop(1)
  /\ IF Top(0) = 0 THEN pc' = Operand(1) ELSE Advance(2)
  /\ UNCHANGED <<status, variables, arrays, output>>

Jump ==
  /\ Executes({"JMP"})
  /\ pc' = Operand(1)
  /\ UNCHANGED <<status, stack, variables, arrays, output>>

(* OP_STORE and OP_STORE_I: the register takes the opcode's type.          *)
Store ==
  /\ Executes({"STORE"})
  /\ variables' = [variables EXCEPT ![Operand(1)] =
       [type |-> Type, val |-> IF Type = "int" THEN Truncated(Top(0)) ELSE Top(0)]]
  /\ stack' = Drop(1)
  /\ Advance(2)
  /\ UNCHANGED <<status, arrays, output>>

Load ==
  /\ Executes({"LOAD"})
  /\ stack' = Append(stack, ReadAs(Type, variables[Operand(1)]))
  /\ Advance(2)
  /\ UNCHANGED <<status, variables, arrays, output>>

(* Opcodes that work on a register without the stack: INC and DEC, and     *)
(* those with another register or a constant as their second operand.      *)
OnRegister(name) ==
  IF name \in {"INC", "ADD_VAR", "ADD_CONST"} THEN "ADD"
  ELSE IF name \in {"DEC", "SUB_VAR", "SUB_CONST"} THEN "SUB" ELSE "MUL"

Update(amount) ==
  variables' = [variables EXCEPT ![Operand(1)] =
    [type |-> Type,
     val  |-> Arith(OnRegister(Name), ReadAs(Type, @), amount)]]

IncDec ==
  /\ Executes({"INC", "DEC"})
  /\ Update(One)
  /\ Advance(2)
  /\ UNCHANGED <<status, stack, arrays, output>>

UpdateByVar ==
  /\ Executes({"ADD_VAR", "SUB_VAR", "MUL_VAR"})
  /\ Update(ReadAs(Type, variables[Operand(2)]))
  /\ Advance(3)
  /\ UNCHANGED <<status, stack, arrays, output>>

UpdateByConst ==
  /\ Executes({"ADD_CONST", "SUB_CONST", "MUL_CONST"})
  /\ Update(Operand(2))
  /\ Advance(3)
  /\ UNCHANGED <<status, stack, arrays, output>>

PrintNumber ==
  /\ Executes({"PRINT"})
  /\ output' = Append(output, Const(Top(0)))
  /\ stack' = Drop(1)
  /\ Advance(1)
  /\ UNCHANGED <<status, variables, arrays>>

IsText(a) == a \in 0 .. Len(code) - 1 /\ CellAt(code, a).kind = "text"

PrintText ==
  /\ Executes({"PRINT_STR"}) /\ IsText(ToInt(Top(0)))
  /\ output' = Append(output, CellAt(code, ToInt(Top(0))))
  /\ stack' = Drop(1)
  /\ Advance(1)
  /\ UNCHANGED <<status, variables, arrays>>

(* Mutant: the array is one element short.                                 *)
ArrayMakeShort ==
  /\ Executes({"ARRAY_MAKE"})
  /\ arrays' = Append(arrays, [i \in 0 .. ToInt(Top(0)) - 2 |-> 0])
  /\ stack' = Append(Drop(1), Pointer(Len(arrays')))
  /\ Advance(1)
  /\ UNCHANGED <<status, variables, output>>

ArrayMake ==
  /\ Executes({"ARRAY_MAKE"})
  /\ arrays' = Append(arrays, [i \in 0 .. ToInt(Top(0)) - 1 |-> 0])
  /\ stack' = Append(Drop(1), Pointer(Len(arrays')))
  /\ Advance(1)
  /\ UNCHANGED <<status, variables, output>>

(* (int)(n + 0.5) is the nearest integer, but not for a negative n.        *)
Rounded(n) == ToInt(n + One \div 2)

(* A null pointer is checked for; an index is not.                         *)
ArraySet ==
  /\ Executes({"ARRAY_SET"})
  /\ \/ Top(2) = 0 /\ UNCHANGED arrays
     \/ \E k \in 1 .. Len(arrays) :
          /\ PointsTo(Top(2), k) /\ Rounded(Top(1)) \in DOMAIN arrays[k]
          /\ arrays' = [arrays EXCEPT ![k][Rounded(Top(1))] = Top(0)]
  /\ stack' = Drop(3)
  /\ Advance(1)
  /\ UNCHANGED <<status, variables, output>>

ArrayGet ==
  /\ Executes({"ARRAY_GET"})
  /\ \/ Top(1) = 0 /\ stack' = Append(Drop(2), 0)
     \/ \E k \in 1 .. Len(arrays) :
          /\ PointsTo(Top(1), k) /\ Rounded(Top(0)) \in DOMAIN arrays[k]
          /\ stack' = Append(Drop(2), arrays[k][Rounded(Top(0))])
  /\ Advance(1)
  /\ UNCHANGED <<status, variables, arrays, output>>

Input ==
  /\ Executes({"INPUT"})
  /\ stack' = Append(stack, InputValue)
  /\ Advance(1)
  /\ UNCHANGED <<status, variables, arrays, output>>

Halt ==
  /\ Executes({"HALT"})
  /\ status' = "halted"
  /\ UNCHANGED vmVars

(* Everything the C code would do with no meaning in C.                    *)
BadPointer(pointer, index) ==
  /\ pointer # 0
  /\ \A k \in 1 .. Len(arrays) :
       PointsTo(pointer, k) => Rounded(index) \notin DOMAIN arrays[k]

Undefined ==
  InCode /\ Len(stack) >= Pops(Name) /\ Fits =>
    \/ Name = "PRINT_STR" /\ ~IsText(ToInt(Top(0)))
    \/ Name = "ARRAY_SET" /\ BadPointer(Top(2), Top(1))
    \/ Name = "ARRAY_GET" /\ BadPointer(Top(1), Top(0))

GoWild ==
  /\ status = "running" /\ Undefined
  /\ status' = "wild"
  /\ UNCHANGED vmVars

VMNext ==
  \/ Push \/ Binary \/ Remainder
  \/ JumpIfZero \/ Jump
  \/ Store \/ Load \/ IncDec \/ UpdateByVar \/ UpdateByConst
  \/ PrintNumber \/ PrintText
  \/ ArrayMake \/ ArraySet \/ ArrayGet
  \/ Input \/ Halt \/ GoWild
=============================================================================
