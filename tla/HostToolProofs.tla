--------------------------- MODULE HostToolProofs ---------------------------
(***************************************************************************)
(* Theorems about HostTool and the files of Container: what was encrypted  *)
(* comes back, whatever the mixing of key, stream and MAC is; and with an  *)
(* ideal mixing, a file never opens as anything else than it was made from.*)
(***************************************************************************)
EXTENDS HostTool, SequenceTheorems, TLAPS

(* An exclusive or with the same bit twice is none.                        *)
LEMMA XorTwice ==
  ASSUME NEW a \in 0 .. 1, NEW b \in 0 .. 1
  PROVE  Xor(Xor(a, b), b) = a
  BY DEF Xor

(* The place of every field in a file, for any sequence between.           *)
LEMMA Fields ==
  ASSUME NEW m, NEW s, NEW mac, NEW end, NEW S, NEW body \in Seq(S),
         NEW file, file = <<m, s>> \o body \o <<mac, end>>
  PROVE  /\ Len(file) = Len(body) + 4
         /\ file[1] = m /\ file[2] = s
         /\ \A i \in 1 .. Len(body) : file[i + 2] = body[i]
         /\ file[Len(body) + 3] = mac
         /\ file[Len(body) + 4] = end
         /\ SubSeq(file, 3, Len(body) + 2) = body
<1> DEFINE All == S \cup {m, s, mac, end}
           head == <<m, s>> \o body
<1>1. /\ body \in Seq(All) /\ <<m, s>> \in Seq(All) /\ <<mac, end>> \in Seq(All)
      /\ Len(<<m, s>>) = 2 /\ Len(<<mac, end>>) = 2
  OBVIOUS
<1>2. /\ head \in Seq(All) /\ Len(head) = Len(body) + 2
      /\ head[1] = m /\ head[2] = s
      /\ \A i \in 1 .. Len(body) : head[i + 2] = body[i]
  BY <1>1
<1> HIDE DEF head
<1>3. file = head \o <<mac, end>>
  BY DEF head
<1>4. /\ file \in Seq(All) /\ Len(file) = Len(body) + 4
      /\ \A i \in 1 .. Len(head) : file[i] = head[i]
      /\ file[Len(body) + 3] = mac /\ file[Len(body) + 4] = end
  BY <1>1, <1>2, <1>3
<1>5. \A i \in 1 .. Len(body) : file[i + 2] = body[i]
  BY <1>2, <1>4
<1>6. SubSeq(file, 3, Len(body) + 2) = body
  BY <1>4, <1>5
<1> QED BY <1>2, <1>4, <1>5, <1>6

(* The stream laid twice over a code gives the code.                       *)
LEMMA StreamTwice ==
  ASSUME NEW code \in Seq(0 .. 1), Len(code) \in 1 .. MaxCode,
         NEW key \in Keys, NEW salt \in Salts
  PROVE  LET key32  == KeyOf(key, salt)
             cipher == stellar_stream_cipher(code, key32)
         IN /\ cipher \in Seq(0 .. 1) /\ Len(cipher) = Len(code)
            /\ stellar_stream_cipher(cipher, key32) = code
<1> DEFINE key32  == KeyOf(key, salt)
           cipher == stellar_stream_cipher(code, key32)
<1>1. \A i \in 1 .. Len(code) : KeyStream(key32, i) \in 0 .. 1
  BY ContainerAssumption
<1>2. /\ cipher \in Seq(0 .. 1) /\ Len(cipher) = Len(code)
      /\ \A i \in 1 .. Len(code) : cipher[i] = Xor(code[i], KeyStream(key32, i))
  <2>1. cipher = [i \in 1 .. Len(code) |-> Xor(code[i], KeyStream(key32, i))]
    BY DEF stellar_stream_cipher
  <2>2. \A i \in 1 .. Len(code) : Xor(code[i], KeyStream(key32, i)) \in 0 .. 1
    BY <1>1 DEF Xor
  <2> QED BY <2>1, <2>2
<1>3. \A i \in 1 .. Len(code) : Xor(cipher[i], KeyStream(key32, i)) = code[i]
  BY <1>1, <1>2, XorTwice
<1> HIDE DEF cipher, key32
<1>4. stellar_stream_cipher(cipher, key32) = [i \in 1 .. Len(code) |-> code[i]]
  BY <1>2, <1>3 DEF stellar_stream_cipher
<1> QED BY <1>2, <1>4 DEF cipher, key32

(* The key that is used is the given one, or "" for a null pointer.        *)
LEMMA GivenKey ==
  ASSUME NEW key \in Keys, NEW salt \in Salts
  PROVE  \E k \in Keys : stellar_derive_key(key, salt) = KeyOf(k, salt)
  BY ContainerAssumption DEF stellar_derive_key

(* stellar_decrypt, with the key and the file of stellar_encrypt, gives    *)
(* the code it was made from, if there is any and it is not too long.      *)
THEOREM RoundTrip ==
  ASSUME NEW code \in Seq(0 .. 1), Len(code) \in 1 .. MaxCode,
         NEW key \in Keys, NEW salt \in Salts
  PROVE  stellar_decrypt(stellar_encrypt(code, key, salt), key)
           = [status |-> "OK", code |-> code]
<1> DEFINE key32  == stellar_derive_key(key, salt)
           cipher == stellar_stream_cipher(code, key32)
           mac    == stellar_compute_mac(code, key32)
           file   == stellar_encrypt(code, key, salt)
<1>1. /\ cipher \in Seq(0 .. 1) /\ Len(cipher) = Len(code)
      /\ stellar_stream_cipher(cipher, key32) = code
  BY GivenKey, StreamTwice
<1>2. file = <<Magic(key32), salt>> \o cipher \o <<mac, Marker>>
  BY DEF stellar_encrypt
<1>k. stellar_derive_key(key, salt) = key32
  OBVIOUS
<1>m. mac = stellar_compute_mac(code, key32)
  OBVIOUS
<1> HIDE DEF key32, cipher, mac, file
<1>3. /\ Len(file) = Len(code) + 4
      /\ file[1] = Magic(key32) /\ file[2] = salt
      /\ file[Len(code) + 3] = mac
      /\ SubSeq(file, 3, Len(code) + 2) = cipher
  BY <1>1, <1>2, Fields
<1>4. /\ Len(code) \in Nat /\ Len(file) > Overhead /\ Len(file) - Overhead = Len(code)
      /\ ~(Len(code) > MaxCode)
  BY <1>3, ContainerAssumption DEF Overhead
<1>5. stellar_decrypt(file, key) = [status |-> "OK", code |-> code]
  <2> DEFINE size == Len(file) - Overhead
             read == stellar_stream_cipher(SubSeq(file, 3, size + 2), key32)
  <2>1. /\ size = Len(code) /\ read = code /\ file[1] = Magic(key32)
        /\ file[size + 3] = stellar_compute_mac(read, key32)
    BY <1>1, <1>3, <1>4, <1>m
  <2>2. stellar_decrypt(file, key) =
          CASE file[1] # Magic(key32) -> [status |-> "BAD_KEY", code |-> << >>]
            [] file[1] = Magic(key32) /\ size > MaxCode ->
                 [status |-> "CORRUPTED", code |-> << >>]
            [] file[1] = Magic(key32) /\ size <= MaxCode
               /\ file[size + 3] # stellar_compute_mac(read, key32) ->
                 [status |-> "BAD_MAC", code |-> read]
            [] OTHER -> [status |-> "OK", code |-> read]
    <3>1. ~(Len(file) <= Overhead)
      BY <1>3 DEF Overhead
    <3>2. stellar_derive_key(key, file[2]) = key32
      BY <1>3, <1>k
    <3> QED BY <3>1, <3>2, Zenon DEF stellar_decrypt
  <2> HIDE DEF size, read
  <2> QED BY <1>4, <2>1, <2>2
<1> QED BY <1>5 DEF file

(* With a key of another magic it is refused before anything is decoded.   *)
THEOREM OtherKeyRefused ==
  ASSUME NEW code \in Seq(0 .. 1), Len(code) \in 1 .. MaxCode,
         NEW key \in Keys, NEW other \in Keys, NEW salt \in Salts,
         Magic(stellar_derive_key(other, salt)) # Magic(stellar_derive_key(key, salt))
  PROVE  stellar_decrypt(stellar_encrypt(code, key, salt), other)
           = [status |-> "BAD_KEY", code |-> << >>]
<1> DEFINE key32  == stellar_derive_key(key, salt)
           cipher == stellar_stream_cipher(code, key32)
           mac    == stellar_compute_mac(code, key32)
           file   == stellar_encrypt(code, key, salt)
<1>1. cipher \in Seq(0 .. 1) /\ Len(cipher) = Len(code)
  BY GivenKey, StreamTwice
<1>2. file = <<Magic(key32), salt>> \o cipher \o <<mac, Marker>>
  BY DEF stellar_encrypt
<1>k. Magic(stellar_derive_key(other, salt)) # Magic(key32)
  OBVIOUS
<1> HIDE DEF key32, cipher, mac, file
<1>3. Len(file) = Len(code) + 4 /\ file[1] = Magic(key32) /\ file[2] = salt
  BY <1>1, <1>2, Fields
<1>4. ~(Len(file) <= Overhead)
  BY <1>3 DEF Overhead
<1>5. stellar_decrypt(file, other) = [status |-> "BAD_KEY", code |-> << >>]
  BY <1>3, <1>4, <1>k DEF stellar_decrypt
<1> QED BY <1>5 DEF file
-----------------------------------------------------------------------------
(* The inductive invariant.                                                *)

Bits == Seq(0 .. 1)

Made == [code : Bits, key : Keys]

(* What Damage makes of a file.                                            *)
Changed(orig, file) ==
  \/ \E i \in 1 .. Len(orig) : file = [orig EXCEPT ![i] = Altered(@)]
  \/ \E n \in 0 .. Len(orig) - 1 : file = SubSeq(orig, 1, n)

(* A file that was encrypted is what stellar_encrypt made of the code and  *)
(* the key, with some salt, or that file after one damage.                 *)
FromEncryption(m, hurt, file) ==
  \E salt \in Salts :
    LET orig == stellar_encrypt(m.code, m.key, salt)
    IN IF hurt THEN Changed(orig, file) ELSE file = orig

(* Any other is a text, a binary, or none.                                 *)
FilesKnown ==
  \A f \in Files :
    \/ made[f] = None /\ files[f] \in {None} \cup Texts \cup Bits
    \/ /\ made[f] \in Made
       /\ FromEncryption(made[f], f \in damaged, files[f])

ToolKnown ==
  phase # "idle" => filename \in Sources /\ out_name \in Files /\ bin \in Bits

HTypeOK == DOMAIN files = Files /\ DOMAIN made = Files

(* What the last step has decrypted is of a file as it is.                 *)
OpenedKnown ==
  opened = None \/ \E f \in Files, key \in Keys :
    /\ IsCells(files[f])
    /\ opened = [made |-> made[f], damaged |-> f \in damaged, key |-> key,
                 marked |-> stellar_is_encrypted(files[f], key),
                 result |-> stellar_decrypt(files[f], key)]

HInv == HTypeOK /\ FilesKnown /\ ToolKnown /\ OpenedKnown

(* The first directory is known.                                           *)
LEMMA InitInv == Init => HInv
<1> SUFFICES ASSUME Init PROVE HInv
  OBVIOUS
<1>1. HTypeOK /\ OpenedKnown /\ ToolKnown
  BY DEF Init, HTypeOK, OpenedKnown, ToolKnown
<1>2. FilesKnown
  BY DEF Init, FilesKnown
<1> QED BY <1>1, <1>2 DEF HInv

(* A file that gets a content of its own is known.                         *)
LEMMA RewriteKeeps ==
  ASSUME HInv, NEW f \in Files, NEW content \in {None} \cup Texts \cup Bits,
         Rewrite(f, content)
  PROVE  HTypeOK' /\ FilesKnown' /\ OpenedKnown'
<1>1. HTypeOK' /\ OpenedKnown'
  BY DEF HInv, HTypeOK, Rewrite, OpenedKnown
<1>2. \A g \in Files : g # f =>
        made'[g] = made[g] /\ files'[g] = files[g] /\ (g \in damaged' <=> g \in damaged)
  BY DEF HInv, HTypeOK, Rewrite
<1>3. made'[f] = None /\ files'[f] = content
  BY DEF HInv, HTypeOK, Rewrite
<1>4. FilesKnown'
  <2> SUFFICES ASSUME NEW g \in Files
               PROVE  \/ made'[g] = None /\ files'[g] \in {None} \cup Texts \cup Bits
                      \/ /\ made'[g] \in Made
                         /\ FromEncryption(made'[g], g \in damaged', files'[g])
    BY DEF FilesKnown
  <2>1. CASE g = f
    BY <1>3, <2>1
  <2>2. CASE g # f
    BY <1>2, <2>2 DEF HInv, FilesKnown, FromEncryption
  <2> QED BY <2>1, <2>2
<1> QED BY <1>1, <1>4

LEMMA StaysKeeps ==
  ASSUME HInv, Stays PROVE HTypeOK' /\ FilesKnown' /\ OpenedKnown'
BY DEF HInv, Stays, HTypeOK, FilesKnown, OpenedKnown

LEMMA EndedKnown ==
  ASSUME Ended PROVE ToolKnown'
BY DEF Ended, ToolKnown

(* The part of a code a full disk leaves.                                  *)
LEMMA PartOfBits ==
  ASSUME NEW code \in Bits, NEW n \in 0 .. Len(code)
  PROVE  SubSeq(code, 1, n) \in Bits
BY SubSeqProperties DEF Bits

(* A file that was encrypted is known for what it was made from.           *)
LEMMA EncryptKeeps ==
  ASSUME HInv, Encrypt PROVE HTypeOK' /\ FilesKnown' /\ OpenedKnown'
<1>1. PICK f \in Files, g \in Others, key \in Keys, salt \in Salts :
        /\ IsCells(files[f]) /\ made[f] = None
        /\ files' = [files EXCEPT ![g] = stellar_encrypt(files[f], key, salt)]
        /\ made' = [made EXCEPT ![g] = [code |-> files[f], key |-> key]]
        /\ damaged' = damaged \ {g}
  BY DEF Encrypt
<1>2. g \in Files
  BY DEF Files
<1>3. files[f] \in Bits
  <2>1. made[f] \notin Made
    BY <1>1, HostAssumption DEF Made, Bits
  <2> QED BY <1>1, <2>1 DEF HInv, FilesKnown, IsCells
<1>4. HTypeOK' /\ OpenedKnown'
  BY <1>1 DEF HInv, HTypeOK, OpenedKnown, Encrypt
<1>5. \A h \in Files : h # g =>
        made'[h] = made[h] /\ files'[h] = files[h] /\ (h \in damaged' <=> h \in damaged)
  BY <1>1 DEF HInv, HTypeOK
<1>6. /\ made'[g] = [code |-> files[f], key |-> key] /\ g \notin damaged'
      /\ files'[g] = stellar_encrypt(files[f], key, salt)
  BY <1>1, <1>2 DEF HInv, HTypeOK
<1>7. made'[g] \in Made /\ FromEncryption(made'[g], g \in damaged', files'[g])
  <2>1. made'[g] \in Made
    BY <1>3, <1>6 DEF Made
  <2>2. FromEncryption(made'[g], FALSE, files'[g])
    BY <1>6 DEF FromEncryption
  <2> QED BY <1>6, <2>1, <2>2 DEF FromEncryption
<1>8. FilesKnown'
  <2> SUFFICES ASSUME NEW h \in Files
               PROVE  \/ made'[h] = None /\ files'[h] \in {None} \cup Texts \cup Bits
                      \/ /\ made'[h] \in Made
                         /\ FromEncryption(made'[h], h \in damaged', files'[h])
    BY DEF FilesKnown
  <2>1. CASE h = g
    BY <1>7, <2>1
  <2>2. CASE h # g
    BY <1>5, <2>2 DEF HInv, FilesKnown, FromEncryption
  <2> QED BY <2>1, <2>2
<1> QED BY <1>4, <1>8

(* One that was damaged is known to be damaged.                            *)
LEMMA DamageKeeps ==
  ASSUME HInv, Damage PROVE HTypeOK' /\ FilesKnown' /\ OpenedKnown'
<1>1. PICK f \in Files :
        /\ made[f] # None /\ f \notin damaged
        /\ damaged' = damaged \cup {f}
        /\ \/ \E i \in 1 .. Len(files[f]) :
                files' = [files EXCEPT ![f][i] = Altered(@)]
           \/ \E n \in 0 .. Len(files[f]) - 1 :
                files' = [files EXCEPT ![f] = SubSeq(@, 1, n)]
  BY DEF Damage
<1>2. made[f] \in Made /\ FromEncryption(made[f], FALSE, files[f])
  BY <1>1 DEF HInv, FilesKnown, FromEncryption
<1>3. PICK salt \in Salts : files[f] = stellar_encrypt(made[f].code, made[f].key, salt)
  BY <1>2 DEF FromEncryption
<1>4. Changed(files[f], files'[f])
  <2>1. CASE \E i \in 1 .. Len(files[f]) : files' = [files EXCEPT ![f][i] = Altered(@)]
    BY <2>1 DEF Changed, HInv, HTypeOK
  <2>2. CASE \E n \in 0 .. Len(files[f]) - 1 :
               files' = [files EXCEPT ![f] = SubSeq(@, 1, n)]
    BY <2>2 DEF Changed, HInv, HTypeOK
  <2> QED BY <1>1, <2>1, <2>2
<1>5. HTypeOK' /\ OpenedKnown' /\ made' = made
  BY <1>1 DEF HInv, HTypeOK, OpenedKnown, Damage
<1>6. \A h \in Files : h # f => files'[h] = files[h] /\ (h \in damaged' <=> h \in damaged)
  BY <1>1 DEF HInv, HTypeOK
<1>7. FromEncryption(made'[f], f \in damaged', files'[f])
  <2>1. FromEncryption(made[f], TRUE, files'[f])
    BY <1>3, <1>4 DEF FromEncryption
  <2> QED BY <1>1, <1>5, <2>1 DEF FromEncryption
<1>8. FilesKnown'
  <2> SUFFICES ASSUME NEW h \in Files
               PROVE  \/ made'[h] = None /\ files'[h] \in {None} \cup Texts \cup Bits
                      \/ /\ made'[h] \in Made
                         /\ FromEncryption(made'[h], h \in damaged', files'[h])
    BY DEF FilesKnown
  <2>1. CASE h = f
    BY <1>2, <1>5, <1>7, <2>1
  <2>2. CASE h # f
    BY <1>5, <1>6, <2>2 DEF HInv, FilesKnown, FromEncryption
  <2> QED BY <2>1, <2>2
<1> QED BY <1>5, <1>8

(* And what is opened is known by its file.                                *)
LEMMA DecryptKeeps ==
  ASSUME HInv, Decrypt PROVE HTypeOK' /\ FilesKnown' /\ OpenedKnown'
<1>1. UNCHANGED <<files, made, damaged>>
  BY DEF Decrypt
<1>2. HTypeOK' /\ FilesKnown'
  BY <1>1 DEF HInv, HTypeOK, FilesKnown
<1>3. OpenedKnown'
  BY <1>1 DEF Decrypt, OpenedKnown
<1> QED BY <1>2, <1>3

(* Every step keeps the invariant.                                         *)
LEMMA StepInv == HInv /\ [Next]_hostVars => HInv'
<1> SUFFICES ASSUME HInv, [Next]_hostVars PROVE HInv'
  OBVIOUS
<1> USE DEF HInv
<1>r. \A f \in Files, content \in {None} \cup Texts \cup Bits :
        Rewrite(f, content) => HTypeOK' /\ FilesKnown' /\ OpenedKnown'
  BY RewriteKeeps
<1>s. Stays => HTypeOK' /\ FilesKnown' /\ OpenedKnown'
  BY StaysKeeps
<1>t. UNCHANGED toolVars => ToolKnown'
  BY DEF toolVars, ToolKnown
<1>n. /\ \A s \in Sources : s \in Files /\ DefaultName(s) \in Files
      /\ Others \subseteq Files
  BY DEF Files
<1>1. CASE Edit
  BY <1>1, <1>r, <1>t, <1>n DEF Edit
<1>2. CASE BringIn
  <2>1. Foreign \subseteq Bits
    BY HostAssumption DEF Bits
  <2> QED BY <1>2, <2>1, <1>r, <1>t, <1>n DEF BringIn
<1>0. CASE RunBinary
  BY <1>0, <1>s, <1>t DEF RunBinary
<1>3. CASE CompileFails
  BY <1>3, <1>r, <1>t, <1>n DEF CompileFails
<1>4. CASE Compile
  <2>1. PICK s \in Sources, o \in Others \cup {NoName} :
          /\ files[s] \in LegalTexts
          /\ filename' = s /\ bin' = CodeOf(files[s])
          /\ out_name' = IF o = NoName THEN DefaultName(s) ELSE o
    BY <1>4 DEF Compile
  <2>2. bin' \in Bits
    BY <2>1, HostAssumption DEF Bits
  <2>3. ToolKnown'
    BY <2>1, <2>2, <1>n DEF ToolKnown
  <2> QED BY <1>4, <1>s, <2>3 DEF Compile
<1>5. CASE OpenBinary
  <2>1. << >> \in Bits /\ out_name \in Files
    BY <1>5, EmptySeq DEF OpenBinary, ToolKnown, Bits
  <2>2. CASE /\ Rewrite(out_name, << >>)
             /\ UNCHANGED <<filename, out_name, keep_bytecode, quiet_mode, bin>>
    BY <1>5, <2>1, <2>2, <1>r DEF OpenBinary, ToolKnown
  <2>3. CASE Ended /\ Stays
    BY <2>3, <1>s, EndedKnown
  <2> QED BY <1>5, <2>2, <2>3 DEF OpenBinary
<1>6. CASE WriteBinary
  <2>1. bin \in Bits /\ out_name \in Files
    BY <1>6 DEF WriteBinary, ToolKnown
  <2>2. PICK n \in 0 .. Len(bin) : Rewrite(out_name, SubSeq(bin, 1, n))
    BY <1>6 DEF WriteBinary
  <2>3. HTypeOK' /\ FilesKnown' /\ OpenedKnown'
    BY <2>1, <2>2, <1>r, PartOfBits
  <2>4. ToolKnown'
    BY <1>6 DEF WriteBinary, ToolKnown
  <2> QED BY <2>3, <2>4
<1>7. CASE RunCode
  <2>1. out_name \in Files
    BY <1>7 DEF RunCode, ToolKnown
  <2> QED BY <1>7, <2>1, <1>r, <1>s, EndedKnown DEF RunCode
<1>8. CASE Kill
  BY <1>8, <1>s, EndedKnown DEF Kill
<1>9. CASE Encrypt
  BY <1>9, <1>t, EncryptKeeps DEF Encrypt
<1>10. CASE Decrypt
  <2>1. UNCHANGED toolVars
    BY <1>10 DEF Decrypt, toolVars
  <2> QED BY <1>10, <2>1, <1>t, DecryptKeeps
<1>11. CASE Damage
  <2>1. UNCHANGED toolVars
    BY <1>11 DEF Damage, toolVars
  <2> QED BY <1>11, <2>1, <1>t, DamageKeeps
<1>12. CASE UNCHANGED hostVars
  BY <1>12 DEF hostVars, toolVars, HTypeOK, FilesKnown, ToolKnown, OpenedKnown
<1> QED BY <1>0, <1>1, <1>2, <1>3, <1>4, <1>5, <1>6, <1>7, <1>8, <1>9, <1>10, <1>11, <1>12
        DEF Next

(* Every file of the directory is what HostTool remembers of it: what it   *)
(* was made from, with which key, and whether it was damaged since.        *)
THEOREM FilesAreKnown == Spec => []HInv
<1>1. Init => HInv
  BY InitInv
<1>2. HInv /\ [Next]_hostVars => HInv'
  BY StepInv
<1> QED BY <1>1, <1>2, PTL DEF Spec

-----------------------------------------------------------------------------
(* What a file tells when it is read.                                      *)

(* What an answer of "OK" says of the file.                                *)
LEMMA OkMeans ==
  ASSUME NEW file, Len(file) \in Nat, NEW key,
         stellar_decrypt(file, key).status = "OK"
  PROVE  LET key32 == stellar_derive_key(key, file[2])
             size  == Len(file) - 4
             code  == stellar_stream_cipher(SubSeq(file, 3, size + 2), key32)
         IN /\ size \in 1 .. MaxCode
            /\ file[1] = Magic(key32)
            /\ file[size + 3] = Mac(code, key32)
            /\ stellar_decrypt(file, key).code = code
<1> DEFINE key32 == stellar_derive_key(key, file[2])
           size  == Len(file) - Overhead
           code  == stellar_stream_cipher(SubSeq(file, 3, size + 2), key32)
           read  ==
             CASE file[1] # Magic(key32) -> [status |-> "BAD_KEY", code |-> << >>]
               [] file[1] = Magic(key32) /\ size > MaxCode ->
                    [status |-> "CORRUPTED", code |-> << >>]
               [] file[1] = Magic(key32) /\ size <= MaxCode
                  /\ file[size + 3] # stellar_compute_mac(code, key32) ->
                    [status |-> "BAD_MAC", code |-> code]
               [] OTHER -> [status |-> "OK", code |-> code]
<1>1. stellar_decrypt(file, key) =
        IF Len(file) <= Overhead THEN [status |-> "CORRUPTED", code |-> << >>] ELSE read
  BY Zenon DEF stellar_decrypt
<1>2. size = Len(file) - 4 /\ MaxCode \in Nat
  BY ContainerAssumption DEF Overhead
<1>3. ~(Len(file) <= Overhead)
  BY <1>1
<1>4. size \in Nat /\ size > 0
  BY <1>3 DEF Overhead
<1>5. read.status = "OK" /\ stellar_decrypt(file, key) = read
  BY <1>1, <1>3
<1> HIDE DEF key32, size, code
<1>6. /\ file[1] = Magic(key32) /\ ~(size > MaxCode)
      /\ file[size + 3] = stellar_compute_mac(code, key32)
      /\ read.code = code
  BY <1>2, <1>4, <1>5
<1>7. /\ size \in 1 .. MaxCode
      /\ file[1] = Magic(key32)
      /\ file[size + 3] = Mac(code, key32)
      /\ stellar_decrypt(file, key).code = code
  BY <1>2, <1>4, <1>5, <1>6 DEF stellar_compute_mac
<1> QED BY <1>2, <1>7 DEF key32, size, code

(* The fields of an encrypted file, of any code.                           *)
LEMMA Encrypted ==
  ASSUME NEW code \in Bits, NEW key \in Keys, NEW salt \in Salts
  PROVE  LET key32 == stellar_derive_key(key, salt)
             file  == stellar_encrypt(code, key, salt)
             n     == Len(code)
         IN /\ n \in Nat /\ Len(file) = n + 4 /\ \E S : file \in Seq(S)
            /\ file[1] = Magic(key32) /\ file[2] = salt
            /\ \A i \in 1 .. n : file[i + 2] = Xor(code[i], KeyStream(key32, i))
            /\ file[n + 3] = Mac(code, key32) /\ file[n + 4] = Marker
<1> DEFINE key32  == stellar_derive_key(key, salt)
           cipher == stellar_stream_cipher(code, key32)
           file   == stellar_encrypt(code, key, salt)
           n      == Len(code)
           S      == {Xor(code[i], KeyStream(key32, i)) : i \in 1 .. n}
           All    == S \cup {Magic(key32), salt, Mac(code, key32), Marker}
<1>1. n \in Nat
  BY LenProperties DEF Bits
<1>2. cipher = [i \in 1 .. n |-> Xor(code[i], KeyStream(key32, i))]
  BY DEF stellar_stream_cipher
<1>3. \A i \in 1 .. n : Xor(code[i], KeyStream(key32, i)) \in S
  OBVIOUS
<1>4. file = <<Magic(key32), salt>> \o cipher \o <<Mac(code, key32), Marker>>
  BY DEF stellar_encrypt, stellar_compute_mac
<1> HIDE DEF cipher, key32, n, file, S
<1>5. /\ cipher \in Seq(S) /\ Len(cipher) = n
      /\ \A i \in 1 .. n : cipher[i] = Xor(code[i], KeyStream(key32, i))
  BY <1>1, <1>2, <1>3
<1>6. /\ Len(file) = n + 4 /\ file[1] = Magic(key32) /\ file[2] = salt
      /\ \A i \in 1 .. n : file[i + 2] = cipher[i]
      /\ file[n + 3] = Mac(code, key32) /\ file[n + 4] = Marker
  BY <1>4, <1>5, Fields
<1>7. file \in Seq(All)
  <2>1. /\ cipher \in Seq(All) /\ <<Magic(key32), salt>> \in Seq(All)
        /\ <<Mac(code, key32), Marker>> \in Seq(All)
    BY <1>5
  <2> HIDE DEF All
  <2> QED BY <2>1, <1>4, ConcatProperties
<1> QED BY <1>1, <1>5, <1>6, <1>7 DEF key32, n, file

(* Reading a cell that still holds its bit of a code gives that bit.       *)
LEMMA CellRead ==
  ASSUME NEW a \in 0 .. 1, NEW b \in 0 .. 1, NEW x, x = Xor(a, b)
  PROVE  x \in 0 .. 1 /\ Xor(x, b) = a
BY DEF Xor

(* What is read of bits is a code.                                         *)
LEMMA ReadIsCode ==
  ASSUME NEW file, NEW S, file \in Seq(S), NEW size \in 1 .. MaxCode,
         size + 2 <= Len(file), NEW key \in Keys, NEW salt \in Salts,
         \A i \in 1 .. size : file[i + 2] \in 0 .. 1
  PROVE  LET key32 == stellar_derive_key(key, salt)
             code  == stellar_stream_cipher(SubSeq(file, 3, size + 2), key32)
         IN /\ code \in Codes /\ code \in Bits /\ Len(code) = size
            /\ \A i \in 1 .. size : code[i] = Xor(file[i + 2], KeyStream(key32, i))
<1> DEFINE key32 == stellar_derive_key(key, salt)
           part  == SubSeq(file, 3, size + 2)
           code  == stellar_stream_cipher(part, key32)
<1>1. size \in Nat /\ MaxCode \in Nat
  BY ContainerAssumption
<1>2. Len(part) = size /\ \A i \in 1 .. size : part[i] = file[i + 2]
  <2>1. Len(file) \in Nat
    BY LenProperties
  <2> QED BY <1>1, <2>1, SubSeqProperties
<1>3. \A i \in 1 .. size : KeyStream(key32, i) \in 0 .. 1
  <2>1. PICK k \in Keys : key32 = KeyOf(k, salt)
    BY GivenKey
  <2>2. \A i \in 1 .. size : i \in 1 .. MaxCode + 1
    BY <1>1
  <2> QED BY <2>1, <2>2, ContainerAssumption
<1>4. code = [i \in 1 .. Len(part) |-> Xor(part[i], KeyStream(key32, i))]
  BY DEF stellar_stream_cipher
<1> HIDE DEF key32, part, code
<1>5. code = [i \in 1 .. size |-> Xor(file[i + 2], KeyStream(key32, i))]
  BY <1>2, <1>4
<1>6. \A i \in 1 .. size : Xor(file[i + 2], KeyStream(key32, i)) \in 0 .. 1
  BY <1>3 DEF Xor
<1>7. code \in [1 .. size -> 0 .. 1]
  BY <1>5, <1>6
<1>8. code \in Codes /\ code \in Bits /\ Len(code) = size
  BY <1>1, <1>7 DEF Codes, Bits
<1> QED BY <1>5, <1>8 DEF key32, code, part
(* At most one cell of a file, i0, is not as it was made.                  *)
AlteredAt(orig, file, i0) ==
  \A i \in 1 .. Len(orig) : file[i] = IF i = i0 THEN Altered(orig[i]) ELSE orig[i]

(* A file as long as it was made, at most one cell of which is altered     *)
(* (none, when i0 is 0), opens as what it was made from or not at all.     *)
LEMMA AlteredOpens ==
  ASSUME IdealMixing, NEW code \in Bits,
         NEW k \in Keys, NEW l \in Keys, NEW s \in Salts,
         NEW file, NEW S, file \in Seq(S), Len(file) = Len(code) + 4,
         NEW i0, AlteredAt(stellar_encrypt(code, k, s), file, i0),
         stellar_decrypt(file, l).status = "OK"
  PROVE  stellar_decrypt(file, l).code = code
<1> DEFINE K    == stellar_derive_key(k, s)
           L    == stellar_derive_key(l, file[2])
           n    == Len(code)
           orig == stellar_encrypt(code, k, s)
           read == stellar_stream_cipher(SubSeq(file, 3, n + 2), L)
<1>1. /\ n \in Nat /\ Len(orig) = n + 4 /\ orig[1] = Magic(K) /\ orig[2] = s
      /\ \A i \in 1 .. n : orig[i + 2] = Xor(code[i], KeyStream(K, i))
      /\ orig[n + 3] = Mac(code, K)
  BY Encrypted
<1>2. \A i \in 1 .. n + 4 : file[i] = IF i = i0 THEN Altered(orig[i]) ELSE orig[i]
  BY <1>1 DEF AlteredAt
<1>3. /\ n \in 1 .. MaxCode /\ file[1] = Magic(L) /\ file[n + 3] = Mac(read, L)
      /\ stellar_decrypt(file, l).code = read
  <2>1. Len(file) \in Nat /\ Len(file) - 4 = n
    BY <1>1
  <2> QED BY <2>1, OkMeans
<1>4. MaxCode \in Nat
  BY ContainerAssumption
<1>5. \A i \in 1 .. n : code[i] \in 0 .. 1 /\ KeyStream(K, i) \in 0 .. 1
  <2>1. PICK key \in Keys : K = KeyOf(key, s)
    BY GivenKey
  <2>2. \A i \in 1 .. n : i \in 1 .. MaxCode + 1
    BY <1>3, <1>4
  <2>3. \A i \in 1 .. n : KeyStream(K, i) \in 0 .. 1
    BY <2>1, <2>2, ContainerAssumption
  <2> QED BY <2>3, ElementOfSeq DEF Bits
<1>6. \A i \in 1 .. n : orig[i + 2] \in 0 .. 1 /\ Xor(orig[i + 2], KeyStream(K, i)) = code[i]
  BY <1>1, <1>5, CellRead
<1>7. \A i \in 1 .. n : file[i + 2] \in 0 .. 1
  <2> HIDE DEF orig
  <2> SUFFICES ASSUME NEW i \in 1 .. n PROVE file[i + 2] \in 0 .. 1
    OBVIOUS
  <2>1. i + 2 \in 1 .. n + 4 /\ orig[i + 2] \in 0 .. 1
    BY <1>1, <1>6
  <2>2. Altered(orig[i + 2]) \in 0 .. 1
    BY <2>1 DEF Altered
  <2> QED BY <2>1, <2>2, <1>2
<1>8. code \in Codes
  BY <1>3, <1>4 DEF Bits, Codes
(* The magic that the alteration left is that of the key.                  *)
<1>9. ASSUME i0 # 1 PROVE L = K
  <2>1. Magic(K) = Magic(L)
    BY <1>1, <1>2, <1>3, <1>9
  <2>2. file[2] \in Salts \cup {Altered(s)}
    BY <1>1, <1>2
  <2> QED BY <2>1, <2>2 DEF IdealMixing
<1>10. PICK x \in Keys : L = stellar_derive_key(x, s)
  <2>1. CASE i0 = 1
    BY <1>1, <1>2, <2>1
  <2>2. CASE i0 # 1
    BY <1>9, <2>2
  <2> QED BY <2>1, <2>2
<1>11. /\ read \in Codes /\ read \in Bits /\ Len(read) = n
       /\ \A i \in 1 .. n : read[i] = Xor(file[i + 2], KeyStream(L, i))
  <2> DEFINE Of(key32) == stellar_stream_cipher(SubSeq(file, 3, n + 2), key32)
  <2>1. n + 2 <= Len(file)
    BY <1>1
  <2>2. /\ Of(stellar_derive_key(x, s)) \in Codes /\ Of(stellar_derive_key(x, s)) \in Bits
        /\ Len(Of(stellar_derive_key(x, s))) = n
        /\ \A i \in 1 .. n : Of(stellar_derive_key(x, s))[i]
                             = Xor(file[i + 2], KeyStream(stellar_derive_key(x, s), i))
    <3> HIDE DEF orig, K, L, read, n
    <3>1. n + 2 <= Len(file) /\ n \in 1 .. MaxCode /\ \A i \in 1 .. n : file[i + 2] \in 0 .. 1
      BY <1>3, <1>7, <2>1
    <3> QED BY <3>1, ReadIsCode
  <2>3. read = Of(L)
    OBVIOUS
  <2> HIDE DEF read, Of, L
  <2> QED BY <1>10, <2>2, <2>3
<1>12. /\ Mac(code, K) \in Int \ (0 .. 1)
       /\ Mac(read, L) = Mac(code, K) => read = code
  BY <1>8, <1>10, <1>11 DEF IdealMixing
<1>13. CASE i0 # n + 3
  <2>1. n + 3 \in 1 .. n + 4
    BY <1>1
  <2>2. file[n + 3] = orig[n + 3]
    BY <1>2, <1>13, <2>1
  <2> QED BY <1>1, <1>3, <1>12, <2>2
<1>14. CASE i0 = n + 3
  <2> HIDE DEF orig, n, K, L, read
  <2>1. L = K
    BY <1>1, <1>9, <1>14
  <2>2. \A i \in 1 .. n : read[i] = code[i]
    <3>1. \A i \in 1 .. n : i + 2 # i0 /\ i + 2 \in 1 .. n + 4
      BY <1>1, <1>14
    <3> QED BY <3>1, <1>2, <1>6, <1>11, <2>1
  <2>3. read = code
    BY <1>11, <2>2, SeqEqual DEF Bits, n
  <2>4. file[n + 3] = Mac(code, K) + 1
    <3>1. n + 3 \in 1 .. n + 4
      BY <1>1
    <3>2. file[n + 3] = Altered(Mac(code, K))
      BY <1>1, <1>2, <1>14, <3>1
    <3> QED BY <1>12, <3>2 DEF Altered
  <2> QED BY <1>3, <1>12, <2>1, <2>3, <2>4
<1> QED BY <1>13, <1>14

(* A file that was cut short does not open: where its MAC should be is a   *)
(* byte of the code.                                                       *)
LEMMA CutIsRefused ==
  ASSUME IdealMixing, NEW code \in Bits,
         NEW k \in Keys, NEW l \in Keys, NEW s \in Salts, NEW m \in 0 .. Len(code) + 3
  PROVE  stellar_decrypt(SubSeq(stellar_encrypt(code, k, s), 1, m), l).status # "OK"
<1> DEFINE K    == stellar_derive_key(k, s)
           n    == Len(code)
           orig == stellar_encrypt(code, k, s)
           file == SubSeq(orig, 1, m)
           L    == stellar_derive_key(l, file[2])
           size == Len(file) - 4
           read == stellar_stream_cipher(SubSeq(file, 3, size + 2), L)
<1> SUFFICES ASSUME stellar_decrypt(file, l).status = "OK" PROVE FALSE
  OBVIOUS
<1>1. /\ n \in Nat /\ Len(orig) = n + 4 /\ orig[2] = s
      /\ \A i \in 1 .. n : orig[i + 2] = Xor(code[i], KeyStream(K, i))
  BY Encrypted
<1>2. PICK S : orig \in Seq(S)
  BY Encrypted
<1>3. MaxCode \in Nat
  BY ContainerAssumption
<1>4. file \in Seq(S) /\ Len(file) = m /\ \A i \in 1 .. m : file[i] = orig[i]
  <2> HIDE DEF orig
  <2>1. m \in 0 .. Len(orig)
    BY <1>1
  <2> QED BY <1>1, <1>2, <2>1, SubSeqProperties
<1>5. /\ size \in 1 .. MaxCode /\ file[size + 3] = Mac(read, L)
  <2>1. Len(file) \in Nat
    BY <1>1, <1>4
  <2> HIDE DEF file
  <2> QED BY <2>1, OkMeans
<1>6. size = m - 4 /\ m <= n + 3
  BY <1>1, <1>4
<1>7. \A i \in 1 .. size + 1 : file[i + 2] \in 0 .. 1
  <2>1. PICK key \in Keys : K = KeyOf(key, s)
    BY GivenKey
  <2> HIDE DEF K, orig, file, n
  <2> SUFFICES ASSUME NEW i \in 1 .. size + 1 PROVE file[i + 2] \in 0 .. 1
    OBVIOUS
  <2>2. i \in 1 .. MaxCode + 1 /\ i \in 1 .. n /\ i + 2 \in 1 .. m
    BY <1>1, <1>3, <1>5, <1>6
  <2>3. KeyStream(K, i) \in 0 .. 1 /\ code[i] \in 0 .. 1
    BY <2>1, <2>2, ContainerAssumption, ElementOfSeq DEF Bits, n
  <2>4. file[i + 2] = Xor(code[i], KeyStream(K, i))
    BY <1>1, <1>4, <2>2
  <2> QED BY <2>3, <2>4, CellRead
<1>8. L = stellar_derive_key(l, s)
  <2>1. 2 \in 1 .. m
    BY <1>3, <1>5, <1>6
  <2> QED BY <1>1, <1>4, <2>1
<1>9. read \in Codes
  <2>1. \A i \in 1 .. size : i \in 1 .. size + 1
    BY <1>3, <1>5
  <2>2. size + 2 <= Len(file)
    BY <1>3, <1>4, <1>5
  <2>3. \A i \in 1 .. size : file[i + 2] \in 0 .. 1
    BY <1>7, <2>1
  <2> HIDE DEF file, size
  <2> QED BY <1>4, <1>5, <1>8, <2>2, <2>3, ReadIsCode
<1>10. Mac(read, L) \in Int \ (0 .. 1)
  BY <1>8, <1>9 DEF IdealMixing
<1>11. file[size + 3] \in 0 .. 1
  <2> HIDE DEF file, size
  <2>1. size + 1 \in 1 .. size + 1 /\ (size + 1) + 2 = size + 3
    BY <1>3, <1>5
  <2>2. file[(size + 1) + 2] \in 0 .. 1
    BY <1>7, <2>1
  <2> QED BY <2>1, <2>2
<1> QED BY <1>5, <1>10, <1>11
(* Whatever happened to it, a file gives what it was made from or nothing. *)
LEMMA NothingElse ==
  ASSUME IdealMixing, NEW code \in Bits, NEW k \in Keys, NEW l \in Keys, NEW s \in Salts,
         NEW file,
         file = stellar_encrypt(code, k, s) \/ Changed(stellar_encrypt(code, k, s), file),
         stellar_decrypt(file, l).status = "OK"
  PROVE  stellar_decrypt(file, l).code = code
<1> DEFINE orig == stellar_encrypt(code, k, s)
           n    == Len(code)
<1>a. \A T, i0 :
        file \in Seq(T) /\ Len(file) = n + 4 /\ AlteredAt(orig, file, i0) =>
          stellar_decrypt(file, l).code = code
  BY AlteredOpens
<1>1. n \in Nat /\ Len(orig) = n + 4
  BY Encrypted
<1>2. PICK S : orig \in Seq(S)
  BY Encrypted
<1>3. CASE file = orig
  <2>1. AlteredAt(orig, file, 0)
    BY <1>1, <1>3 DEF AlteredAt
  <2> HIDE DEF orig, n
  <2> QED BY <1>1, <1>2, <1>3, <1>a, <2>1
<1>4. CASE \E i \in 1 .. Len(orig) : file = [orig EXCEPT ![i] = Altered(@)]
  <2>1. PICK i0 \in 1 .. Len(orig) : file = [orig EXCEPT ![i0] = Altered(@)]
    BY <1>4
  <2> DEFINE All == S \cup {Altered(orig[i0])}
  <2>2. orig \in Seq(All)
    BY <1>2
  <2> HIDE DEF orig
  <2>3. file \in Seq(All) /\ Len(file) = n + 4 /\ AlteredAt(orig, file, i0)
    <3>1. Altered(orig[i0]) \in All
      OBVIOUS
    <3> HIDE DEF All
    <3> QED BY <1>1, <2>1, <2>2, <3>1 DEF AlteredAt
  <2> HIDE DEF All, n
  <2> QED BY <1>a, <2>3
<1>5. CASE \E m \in 0 .. Len(orig) - 1 : file = SubSeq(orig, 1, m)
  <2>1. PICK m \in 0 .. n + 3 : file = SubSeq(orig, 1, m)
    BY <1>1, <1>5
  <2> QED BY <2>1, CutIsRefused
<1> QED BY <1>3, <1>4, <1>5 DEF Changed

(* Keys that are the same give the same key32.                             *)
LEMMA SameDerived ==
  ASSUME NEW k, NEW l, SameKey(k, l), NEW s
  PROVE  stellar_derive_key(k, s) = stellar_derive_key(l, s)
BY DEF SameKey, stellar_derive_key

(* An undamaged file opens with its key, and is known for what it is.      *)
LEMMA AsMade ==
  ASSUME NEW code \in Bits, NEW k \in Keys, NEW l \in Keys, NEW s \in Salts
  PROVE  LET file == stellar_encrypt(code, k, s)
         IN /\ SameKey(l, k) /\ Len(code) \in 1 .. MaxCode
                 => stellar_decrypt(file, l) = [status |-> "OK", code |-> code]
            /\ stellar_is_encrypted(file, l) <=> code # << >>
            /\ stellar_decrypt(file, l).status = "OK" =>
                 /\ Len(code) \in 1 .. MaxCode
                 /\ Magic(stellar_derive_key(k, s)) = Magic(stellar_derive_key(l, s))
<1> DEFINE file == stellar_encrypt(code, k, s)
           n    == Len(code)
<1>1. /\ n \in Nat /\ Len(file) = n + 4
      /\ file[1] = Magic(stellar_derive_key(k, s)) /\ file[2] = s /\ file[n + 4] = Marker
  BY Encrypted
<1>2. ASSUME SameKey(l, k), n \in 1 .. MaxCode
      PROVE  stellar_decrypt(file, l) = [status |-> "OK", code |-> code]
  <2>1. stellar_derive_key(l, s) = stellar_derive_key(k, s)
    BY <1>2, SameDerived
  <2>2. file = stellar_encrypt(code, l, s)
    BY <2>1 DEF stellar_encrypt
  <2> QED BY <1>2, <2>2, RoundTrip DEF Bits
<1>3. stellar_is_encrypted(file, l) <=> code # << >>
  <2>1. n = 0 <=> code = << >>
    BY EmptySeq DEF Bits
  <2> HIDE DEF file, n
  <2> QED BY <1>1, <2>1 DEF stellar_is_encrypted, Overhead
<1>4. ASSUME stellar_decrypt(file, l).status = "OK"
      PROVE  /\ n \in 1 .. MaxCode
             /\ Magic(stellar_derive_key(k, s)) = Magic(stellar_derive_key(l, s))
  <2> HIDE DEF file, n
  <2>1. Len(file) \in Nat /\ Len(file) - 4 = n
    BY <1>1
  <2> QED BY <1>1, <1>4, <2>1, OkMeans
<1> QED BY <1>2, <1>3, <1>4

-----------------------------------------------------------------------------
(* Whatever the mixing is, an undamaged file opens with its own key, of    *)
(* which "" and a null pointer are one, as the code it was made from, and  *)
(* is known for encrypted without a key, unless it was made from nothing.  *)
OpensWithItsKey ==
  opened # None => (opened.made # None /\ ~opened.damaged =>
    /\ SameKey(opened.key, opened.made.key) /\ Len(opened.made.code) \in 1 .. MaxCode
         => opened.result = [status |-> "OK", code |-> opened.made.code]
    /\ opened.key = NoKey => (opened.marked <=> opened.made.code # << >>))

(* This follows from the invariant and RoundTrip's argument.               *)
LEMMA OpensWithItsKeyInv == HInv => OpensWithItsKey
<1> SUFFICES ASSUME HInv, opened # None, opened.made # None, ~opened.damaged
             PROVE  /\ SameKey(opened.key, opened.made.key)
                       /\ Len(opened.made.code) \in 1 .. MaxCode
                         => opened.result = [status |-> "OK", code |-> opened.made.code]
                    /\ opened.key = NoKey =>
                         (opened.marked <=> opened.made.code # << >>)
  BY DEF OpensWithItsKey
<1>1. PICK f \in Files, key \in Keys :
        opened = [made |-> made[f], damaged |-> f \in damaged, key |-> key,
                  marked |-> stellar_is_encrypted(files[f], key),
                  result |-> stellar_decrypt(files[f], key)]
  BY DEF HInv, OpenedKnown
<1>2. /\ opened.made = made[f] /\ f \notin damaged /\ opened.key = key
      /\ opened.marked = stellar_is_encrypted(files[f], key)
      /\ opened.result = stellar_decrypt(files[f], key)
  BY <1>1
<1>3. made[f] \in Made /\ FromEncryption(made[f], FALSE, files[f])
  BY <1>2 DEF HInv, FilesKnown, FromEncryption
<1>4. PICK salt \in Salts : files[f] = stellar_encrypt(made[f].code, made[f].key, salt)
  BY <1>3 DEF FromEncryption
<1>5. made[f].code \in Bits /\ made[f].key \in Keys
  BY <1>3 DEF Made
<1> QED BY <1>2, <1>4, <1>5, AsMade

(* An undamaged encrypted file opens with its own key, for any mixing, in  *)
(* every state the tool can reach.                                         *)
THEOREM OpensWithItsOwnKey == Spec => []OpensWithItsKey
BY FilesAreKnown, OpensWithItsKeyInv, PTL

(* With an ideal mixing no other key and no damaged file is accepted.      *)
LEMMA OpensAsMadeInv == ASSUME IdealMixing PROVE HInv => OpensAsMade
<1> SUFFICES ASSUME HInv, opened # None, opened.made # None
             PROVE  /\ opened.result.status = "OK" => opened.result.code = opened.made.code
                    /\ ~opened.damaged =>
                         /\ opened.result.status = "OK" <=>
                              /\ SameKey(opened.key, opened.made.key)
                              /\ Len(opened.made.code) \in 1 .. MaxCode
                         /\ opened.key = NoKey =>
                              (opened.marked <=> opened.made.code # << >>)
  BY DEF OpensAsMade
<1>1. PICK f \in Files, key \in Keys :
        opened = [made |-> made[f], damaged |-> f \in damaged, key |-> key,
                  marked |-> stellar_is_encrypted(files[f], key),
                  result |-> stellar_decrypt(files[f], key)]
  BY DEF HInv, OpenedKnown
<1>2. /\ opened.made = made[f] /\ (opened.damaged <=> f \in damaged) /\ opened.key = key
      /\ opened.result = stellar_decrypt(files[f], key)
  BY <1>1
<1>3. made[f] \in Made /\ FromEncryption(made[f], f \in damaged, files[f])
  BY <1>2 DEF HInv, FilesKnown
<1>4. made[f].code \in Bits /\ made[f].key \in Keys
  BY <1>3 DEF Made
<1>5. PICK salt \in Salts :
        LET orig == stellar_encrypt(made[f].code, made[f].key, salt)
        IN IF f \in damaged THEN Changed(orig, files[f]) ELSE files[f] = orig
  BY <1>3 DEF FromEncryption
<1>6. opened.result.status = "OK" => opened.result.code = opened.made.code
  BY <1>2, <1>4, <1>5, NothingElse
<1>7. ASSUME ~opened.damaged
      PROVE  opened.result.status = "OK" <=>
               /\ SameKey(opened.key, opened.made.key)
               /\ Len(opened.made.code) \in 1 .. MaxCode
  <2> DEFINE code == made[f].code
             k    == made[f].key
  <2>1. files[f] = stellar_encrypt(code, k, salt)
    BY <1>2, <1>5, <1>7
  <2>2. SameKey(key, k) /\ Len(code) \in 1 .. MaxCode => opened.result.status = "OK"
    BY <1>2, <1>4, <2>1, AsMade
  <2>3. ASSUME opened.result.status = "OK"
        PROVE  SameKey(key, k) /\ Len(code) \in 1 .. MaxCode
    <3>1. /\ Len(code) \in 1 .. MaxCode
          /\ Magic(stellar_derive_key(k, salt)) = Magic(stellar_derive_key(key, salt))
      BY <1>2, <1>4, <2>1, <2>3, AsMade
    <3>2. stellar_derive_key(k, salt) = stellar_derive_key(key, salt)
      BY <1>4, <3>1 DEF IdealMixing
    <3>3. SameKey(k, key)
      BY <1>4, <3>2 DEF IdealMixing
    <3> QED BY <3>1, <3>3 DEF SameKey
  <2> QED BY <1>2, <2>2, <2>3
<1>8. ASSUME ~opened.damaged, opened.key = NoKey
      PROVE  opened.marked <=> opened.made.code # << >>
  BY <1>8, OpensWithItsKeyInv DEF OpensWithItsKey
<1> QED BY <1>6, <1>7, <1>8

(* With an ideal mixing, an encrypted file gives back what it was made from*)
(* or an error, however it was damaged and with whatever key, and without  *)
(* damage it opens with its own key and no other.                          *)
THEOREM FilesOpenAsMade == ASSUME IdealMixing PROVE Spec => []OpensAsMade
<1>1. HInv => OpensAsMade
  BY OpensAsMadeInv
<1> QED BY <1>1, FilesAreKnown, PTL
=============================================================================
