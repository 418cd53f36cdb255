------------------------------ MODULE Container ------------------------------
(***************************************************************************)
(* The encrypted files of encrypt.c: what stellar_encrypt makes of a code, *)
(* and what stellar_decrypt makes of a file.                               *)
(*                                                                         *)
(* A file is a sequence of cells.  Each field of the format but the code   *)
(* is one cell; a byte of the code is a bit, which is all that an          *)
(* exclusive or looks at.  What is mixed from what in the key, the stream  *)
(* and the MAC is left open: they are functions of what they are computed  *)
(* from, and the stream does not depend on the data.                       *)
(***************************************************************************)
EXTENDS Integers, Sequences

CONSTANTS
  Keys, Salts,
  NoKey, EmptyKey,   \* keys: a null pointer and ""
  KeyOf(_, _),       \* key32, of a key and a salt
  KeyStream(_, _),   \* its bits, of key32 and a place
  Mac(_, _),         \* of a code and key32
  Magic(_),          \* MAGIC_RAW with key32's first bytes
  Marker,            \* the last bytes of an encrypted file
  MaxCode            \* 65536

ASSUME ContainerAssumption ==
  /\ MaxCode \in Nat /\ {NoKey, EmptyKey} \subseteq Keys
  /\ \A key \in Keys, salt \in Salts, i \in 1 .. MaxCode + 1 :
       KeyStream(KeyOf(key, salt), i) \in 0 .. 1

Overhead == 4        \* STELLAR_HEADER_OVERHEAD, in cells

Xor(a, b) == (a + b) % 2

stellar_derive_key(key, salt) == KeyOf(IF key = NoKey THEN EmptyKey ELSE key, salt)

stellar_stream_cipher(data, key32) ==
  [i \in 1 .. Len(data) |-> Xor(data[i], KeyStream(key32, i))]

stellar_compute_mac(code, key32) == Mac(code, key32)

stellar_encrypt(code, key, salt) ==
  LET key32 == stellar_derive_key(key, salt)
  IN <<Magic(key32), salt>> \o stellar_stream_cipher(code, key32)
     \o <<stellar_compute_mac(code, key32), Marker>>

(* Mutant: the MAC is not compared.                                        *)
stellar_decryptUnchecked(file, key) ==
  IF Len(file) <= Overhead THEN [status |-> "CORRUPTED", code |-> << >>]
  ELSE LET key32 == stellar_derive_key(key, file[2])
           size  == Len(file) - Overhead
       IN IF file[1] # Magic(key32) THEN [status |-> "BAD_KEY", code |-> << >>]
          ELSE [status |-> "OK",
                code |-> stellar_stream_cipher(SubSeq(file, 3, size + 2), key32)]

(* The tests in their order.  The marker is not among them.  (The buffer   *)
(* is written before the MAC is compared; a caller has it from status.)    *)
stellar_decrypt(file, key) ==
  IF Len(file) <= Overhead THEN [status |-> "CORRUPTED", code |-> << >>]
  ELSE LET key32 == stellar_derive_key(key, file[2])
           size  == Len(file) - Overhead
           code  == stellar_stream_cipher(SubSeq(file, 3, size + 2), key32)
       IN CASE file[1] # Magic(key32) -> [status |-> "BAD_KEY", code |-> << >>]
            [] file[1] = Magic(key32) /\ size > MaxCode ->
                 [status |-> "CORRUPTED", code |-> << >>]
            [] file[1] = Magic(key32) /\ size <= MaxCode
               /\ file[size + 3] # stellar_compute_mac(code, key32) ->
                 [status |-> "BAD_MAC", code |-> code]
            [] OTHER -> [status |-> "OK", code |-> code]

(* The key is not looked at.                                               *)
stellar_is_encrypted(file, key) == Len(file) > Overhead /\ file[Len(file)] = Marker
=============================================================================
