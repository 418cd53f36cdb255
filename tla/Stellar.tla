------------------------------- MODULE Stellar -------------------------------
(***************************************************************************)
(* A Stellar program from its source to its end: compile() and then, on    *)
(* the code it has written, vm_run, as host_open.c (run) and the shell's   *)
(* run_stellar_from_disk do.  What should come of it is a meaning, of the  *)
(* form of StellarLang's Start: which programs there are is left open.     *)
(***************************************************************************)
EXTENDS StellarCompiler

CONSTANTS
  Arith(_, _, _),
  InputValue,
  Junk,
  Registers,      \* the virtual machine's, 256
  StackSize,      \* 8192, or what --stack-size says
  Programs        \* texts with their meanings, programs or not: see Init

(* A token is a pair, and an operator's value is one of its kind's.        *)
TokenOK(token) ==
  /\ token = <<token[1], token[2]>>
  /\ token[1] = "add" => token[2] \in {"ADD", "SUB"}
  /\ token[1] = "mul" => token[2] \in {"MUL", "DIV", "MOD"}
  /\ token[1] = "cmp" => token[2] \in Comparison
  /\ token[1] = "update" => token[2] \in {"ADD", "SUB", "MUL"}
  /\ token[1] = "step" => token[2] \in {"INC", "DEC"}

ASSUME StellarAssumption ==
  /\ {Symbols, IfPlaces, LoopPlaces, ScopePlaces, ExitPlaces,
      Registers, StackSize} \subseteq Nat
  /\ Symbols <= Registers
  /\ \A p \in Programs :
       /\ p.tokens \in Seq(Elements(p.tokens))
       /\ \A i \in 1 .. Len(p.tokens) : TokenOK(p.tokens[i])

VARIABLES
  pc, stack, variables, arrays, output, \* of the virtual machine
  meaning                               \* what the program means

VM == INSTANCE StellarVM WITH code <- out

machineVars == <<pc, stack, variables, arrays, output>>
stellarVars == <<compilerVars, machineVars, meaning>>

Init ==
  /\ \E p \in Programs : source = p.tokens /\ meaning = p.meaning
  /\ CompilerInit
  /\ VM!VMInit

Next ==
  \/ CompilerNext /\ UNCHANGED <<machineVars, meaning>>
  \/ VM!VMNext /\ UNCHANGED <<source, s_ptr, out, pending, var_store,
                              expect_print, force_semicolon_check, paren_depth,
                              symbol_table, scopes, meaning>>

Spec == Init /\ [][Next]_stellarVars /\ WF_stellarVars(Next)

-----------------------------------------------------------------------------
(* The compiler's and the machine's variables have their types, and a      *)
(* machine that runs is at an opcode, whatever the source was: it never    *)
(* leaves its code, and never runs into an operand or a string.            *)
StellarTypeOK ==
  /\ s_ptr \in 1 .. Len(source) + 1
  /\ status \in {"compiling", "error", "broken", "running", "halted", "wild", "fault"}
  /\ \A p \in {p_add_sub, p_mul_div, p_cmp} : Len(p) <= 1
  /\ var_store \in -2 .. Len(symbol_table) - 1
  /\ expect_print \in 0 .. 2 /\ paren_depth \in Int
  /\ Len(while_start) = Len(while_exit)
  /\ Len(stack) <= StackSize
  /\ status = "running" => VM!InCode

(* The addresses that are still to be patched: where they wait.           *)
Places  == if_stack \o exit_jmp_stack \o while_exit
Waiting == Elements(Places) \ {NoVar}

(* A program of the grammar is accepted, and its code, when it halts, has  *)
(* printed and left in the variables what the program means; no jump of it *)
(* waits to be patched.                                                    *)
Computes ==
  meaning.legal =>
    /\ status \notin {"error", "broken"}
    /\ status # "compiling" => Waiting = {}
    /\ status = "halted" /\ meaning.defined =>
         /\ output = meaning.printed
         /\ \A i \in 1 .. Len(symbol_table) :
              LET x == symbol_table[i].name
              IN meaning.array[x] = << >> =>
                   VM!ReadAs(symbol_table[i].type, variables[i - 1])
                     = meaning.var[x]

(* What is not a program of the language is refused, and never run (but    *)
(* for the few texts the instance lists as accepted or never looked at).   *)
Rejects == meaning.refused => status \in {"compiling", "error"}

(* The machine checks nothing, and needs not: it leaves its code, pops an  *)
(* empty stack, follows a bad pointer or traps only if the program's       *)
(* behaviour is undefined by the language.                                 *)
StaysSane == meaning.legal /\ meaning.defined => status \notin {"wild", "fault"}

(* Between statements the stack is empty, so a loop may go round for ever: *)
(* at every jump that is not a condition's, and at the end.                *)
StackDiscipline ==
  status \in {"running", "halted"} /\ VM!InCode /\ VM!Name \in {"JMP", "HALT"}
    => stack = << >>

(* Every address of a jump that is still to be patched is waiting in one   *)
(* of the compiler's stacks, and in one only; the other jumps go to an     *)
(* opcode, or to where the next one will be written.                       *)
WaitsOnce ==
  \A i, j \in 1 .. Len(Places) : i # j /\ Places[i] # NoVar => Places[i] # Places[j]

TargetsKnown ==
  \A a \in 0 .. Len(out) - 1 :
    CellAt(out, a).kind = "addr" =>
      LET target == CellAt(out, a).val
      IN IF a \in Waiting THEN target = 0
         ELSE IF target = Len(out) THEN status \in {"compiling", "error", "broken"}
         ELSE VM!InCodeAt(target)

JumpsPatched == WaitsOnce /\ TargetsKnown

(* compile() ends, and so does a program that should.                      *)
Ends == <>(status \notin {"compiling", "running"})
=============================================================================
