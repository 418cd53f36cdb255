----------------------------- MODULE MCHostTool -----------------------------
(***************************************************************************)
(* One source, three texts, one binary beside it and one of another name.  *)
(* Magic, MAC and keys are numbers, no two of which are the same.          *)
(***************************************************************************)
EXTENDS HostTool, SequencesExt

CONSTANTS source, exe, other, short, long, wrong, word

MCDefaultName(s) == exe
MCCodeOf(text) == IF text = short THEN <<1>> ELSE <<1, 0, 1>>
MCForeign == {<<0, 1, 1, 0>>}
MCKeys == {NoKey, EmptyKey, word}

MCKeyOf(key, salt) == salt + (IF key = word THEN 20 ELSE 10)
MCKeyStream(key32, i) == (key32 \div 10 + i) % 2
MCMagic(key32) == 100 + key32
MCMac(code, key32) == 1000 * FoldLeft(LAMBDA n, bit : 2 * n + bit, 1, code) + key32

(* Numbers no two of which are the same are ideal.                         *)
ASSUME IdealMixing
=============================================================================
