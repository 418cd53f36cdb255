------------------------------ MODULE HostTool ------------------------------
(***************************************************************************)
(* Stellar on a host: the files of a directory, on which the tool          *)
(* (host_open.c) compiles and runs, one invocation at a time, a step for   *)
(* each call that touches a file, and on which some program calls the      *)
(* encryption of encrypt.c (nothing in the repository does).               *)
(* An invocation may be killed between two steps, and a disk that is full  *)
(* cuts what is written, which file_write does not notice.                 *)
(*                                                                         *)
(* A source is a text, of which the compiler makes a code or refuses it    *)
(* (module StellarCompiler).                                               *)
(***************************************************************************)
EXTENDS Container

CONSTANTS
  Sources, Others,   \* names of files
  DefaultName(_),    \* of the binary of a source: .exe for its extension
  Texts, LegalTexts,
  CodeOf(_),         \* what compile() writes
  Foreign,           \* binaries from elsewhere
  NoName, None

ASSUME HostAssumption ==
  /\ LegalTexts \subseteq Texts /\ Foreign \subseteq Seq(0 .. 1)
  /\ \A t \in LegalTexts : CodeOf(t) \in Seq(0 .. 1)
  /\ NoName \notin Others
  /\ None \notin [code : Seq(0 .. 1), key : Keys]

Files == Sources \cup Others \cup {DefaultName(s) : s \in Sources}

VARIABLES
  files,    \* a text, a sequence of cells, or None
  phase,    \* of the invocation: "idle", "compiled", "opened" or "written"
  filename, out_name, keep_bytecode, quiet_mode, \* its arguments
  bin,      \* its code
  made,     \* history: the code and key each file was encrypted from, or None
  damaged,  \* history: the files changed since
  opened    \* history: what the last step has decrypted, or None

toolVars == <<phase, filename, out_name, keep_bytecode, quiet_mode, bin>>
hostVars == <<files, toolVars, made, damaged, opened>>

(* What a program that encrypts takes for a binary.                        *)
IsCells(content) == content # None /\ content \notin Texts

Init ==
  /\ files \in [Files -> {None}]
  /\ phase = "idle" /\ filename = NoName /\ out_name = NoName
  /\ keep_bytecode = FALSE /\ quiet_mode = FALSE /\ bin = << >>
  /\ made = [f \in Files |-> None] /\ damaged = {}
  /\ opened = None

(* A file gets a content that has nothing to do with what was encrypted.   *)
Rewrite(f, content) ==
  /\ files' = [files EXCEPT ![f] = content]
  /\ made' = [made EXCEPT ![f] = None]
  /\ damaged' = damaged \ {f}
  /\ opened' = None

Stays == opened' = None /\ UNCHANGED <<files, made, damaged>>

Ended ==
  /\ phase' = "idle" /\ filename' = NoName /\ out_name' = NoName
  /\ keep_bytecode' = FALSE /\ quiet_mode' = FALSE /\ bin' = << >>

BringIn ==
  /\ phase = "idle"
  /\ \E f \in Others, code \in Foreign : Rewrite(f, code)
  /\ UNCHANGED toolVars

Edit ==
  /\ phase = "idle"
  /\ \E s \in Sources, t \in Texts : Rewrite(s, t)
  /\ UNCHANGED toolVars

-----------------------------------------------------------------------------
(* main() of the tool, on a source.                                        *)

(* --run, or a name that ends in .exe: one that is its own default.        *)
is_binary(f, force_run) == force_run \/ f = DefaultName(f)

(* A binary is run from memory; -o and --bytecode say nothing of it.       *)
RunBinary ==
  /\ phase = "idle"
  /\ \E f \in Files, force_run \in BOOLEAN :
       files[f] # None /\ is_binary(f, force_run)
  /\ Stays
  /\ UNCHANGED toolVars

(* compile() refuses the text: error_exit removes the default binary,      *)
(* whichever name -o gave.                                                 *)
CompileFails ==
  /\ phase = "idle"
  /\ \E s \in Sources :
       /\ ~is_binary(s, FALSE) /\ files[s] \in Texts \ LegalTexts
       /\ Rewrite(DefaultName(s), None)
  /\ UNCHANGED toolVars

Compile ==
  /\ phase = "idle" /\ phase' = "compiled"
  /\ \E s \in Sources, o \in Others \cup {NoName}, keep, quiet \in BOOLEAN :
       /\ ~is_binary(s, FALSE) /\ files[s] \in LegalTexts
       /\ filename' = s /\ bin' = CodeOf(files[s])
       /\ keep_bytecode' = keep /\ quiet_mode' = quiet
       /\ out_name' = IF o = NoName THEN DefaultName(s) ELSE o
  /\ Stays

(* file_write: fopen empties the file, or the tool gives up.               *)
OpenBinary ==
  /\ phase = "compiled"
  /\ \/ Rewrite(out_name, << >>) /\ phase' = "opened"
        /\ UNCHANGED <<filename, out_name, keep_bytecode, quiet_mode, bin>>
     \/ Ended /\ Stays

WriteBinary ==
  /\ phase = "opened" /\ phase' = "written"
  /\ \E n \in 0 .. Len(bin) : Rewrite(out_name, SubSeq(bin, 1, n))
  /\ UNCHANGED <<filename, out_name, keep_bytecode, quiet_mode, bin>>

(* The machine runs the code in memory, unless the tool is to be quiet, and*)
(* a binary nobody asked for would be removed.  But out_name is not empty  *)
(* any more, so that none is.                                              *)
RunCode ==
  /\ phase = "written"
  /\ IF ~quiet_mode /\ out_name = NoName /\ ~keep_bytecode
     THEN Rewrite(out_name, None) ELSE Stays
  /\ Ended

Kill == phase # "idle" /\ Ended /\ Stays

-----------------------------------------------------------------------------
(* A program that uses encrypt.c.                                          *)

(* What is encrypted already is not encrypted again.                       *)
Encrypt ==
  /\ phase = "idle"
  /\ \E f \in Files, g \in Others, key \in Keys, salt \in Salts :
       /\ IsCells(files[f]) /\ made[f] = None
       /\ files' = [files EXCEPT ![g] = stellar_encrypt(files[f], key, salt)]
       /\ made' = [made EXCEPT ![g] = [code |-> files[f], key |-> key]]
       /\ damaged' = damaged \ {g}
  /\ opened' = None
  /\ UNCHANGED toolVars

Decrypt ==
  /\ phase = "idle"
  /\ \E f \in Files, key \in Keys :
       /\ IsCells(files[f])
       /\ opened' = [made |-> made[f], damaged |-> f \in damaged, key |-> key,
                     marked |-> stellar_is_encrypted(files[f], key),
                     result |-> stellar_decrypt(files[f], key)]
  /\ UNCHANGED <<files, toolVars, made, damaged>>

(* A file that was encrypted is damaged, or cut short.                     *)
Altered(cell) == IF cell \in 0 .. 1 THEN 1 - cell ELSE cell + 1

Damage ==
  /\ phase = "idle"
  /\ \E f \in Files :
       /\ made[f] # None /\ f \notin damaged
       /\ damaged' = damaged \cup {f}
       /\ \/ \E i \in 1 .. Len(files[f]) :
               files' = [files EXCEPT ![f][i] = Altered(@)]
          \/ \E n \in 0 .. Len(files[f]) - 1 :
               files' = [files EXCEPT ![f] = SubSeq(@, 1, n)]
  /\ opened' = None
  /\ UNCHANGED <<toolVars, made>>

Next ==
  \/ Edit \/ BringIn \/ RunBinary \/ CompileFails \/ Compile
  \/ OpenBinary \/ WriteBinary \/ RunCode \/ Kill \/ Encrypt \/ Decrypt \/ Damage

Spec == Init /\ [][Next]_hostVars

-----------------------------------------------------------------------------
SameKey(k, l) == LET Given(key) == IF key = NoKey THEN EmptyKey ELSE key
                 IN Given(k) = Given(l)

(* What OpensAsMade asks of the mixing, which the real one, of 64 bits and *)
(* fewer, only makes likely: the magic tells the keys apart, and the MAC   *)
(* the codes and keys, and is no byte of a code.                           *)
Codes == UNION {[1 .. n -> 0 .. 1] : n \in 1 .. MaxCode}

IdealMixing ==
  /\ \A k, l \in Keys, s \in Salts : \A t \in Salts \cup {Altered(s)} :
       Magic(stellar_derive_key(k, s)) = Magic(stellar_derive_key(l, t))
         => stellar_derive_key(k, s) = stellar_derive_key(l, t)
  /\ \A k, l \in Keys, s \in Salts :
       stellar_derive_key(k, s) = stellar_derive_key(l, s) => SameKey(k, l)
  /\ \A k, l \in Keys, s \in Salts, c, d \in Codes :
       /\ Mac(c, stellar_derive_key(k, s)) \in Int \ (0 .. 1)
       /\ Mac(c, stellar_derive_key(k, s)) = Mac(d, stellar_derive_key(l, s))
            => c = d

(* An encrypted file gives back what it was made from or an error, however *)
(* it was damaged and with whatever key.  As it was made, and with its own *)
(* key, it opens if there is any code in it and no more than a program may *)
(* have; and without a key it is known for what it is, even so.            *)
OpensAsMade ==
  opened # None => (opened.made # None =>
    /\ opened.result.status = "OK" => opened.result.code = opened.made.code
    /\ ~opened.damaged =>
         /\ opened.result.status = "OK" <=>
              /\ SameKey(opened.key, opened.made.key)
              /\ Len(opened.made.code) \in 1 .. MaxCode
         /\ opened.key = NoKey =>
              (opened.marked <=> opened.made.code # << >>))

(* "--bytecode: keep the generated binary even if no -o is used": without  *)
(* either, and unless the tool is told not to run it, an invocation that   *)
(* has run the program leaves no binary behind.                            *)
NoLeftover ==
  [][RunCode /\ ~quiet_mode /\ ~keep_bytecode /\ out_name = DefaultName(filename)
       => files'[out_name] = None]_hostVars
=============================================================================
