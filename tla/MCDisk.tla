------------------------------- MODULE MCDisk -------------------------------
(***************************************************************************)
(* Names of 2 + 1 characters, sectors of two words, directories of four    *)
(* entries, sixteen sectors with one bit a register (three for the drive's *)
(* own).  Pages are 8 sectors and a command takes 6, as it does in the     *)
(* code (there 5); memory is exhausted by the fourth.                      *)
(***************************************************************************)
EXTENDS DiskProps, TLC

MCChar     == {"a", "b", "c", "A", "B", "C", ".", " ", "0"}
MCUpper    == [c \in {"a", "b", "c"} |->
                 CASE c = "a" -> "A" [] c = "b" -> "B" [] c = "c" -> "C"]
MCRunSizes == <<8, 8, 4>>

Boot(sig, reserved, fats, size, spc) ==
  [boot_sig |-> sig, reserved_sectors |-> reserved, fat_count |-> fats,
   fat_size_32 |-> size, sectors_per_cluster |-> spc]

Entry(name, high, low, sector) ==
  [name |-> name, cluster_high |-> high, cluster_low |-> low, sector |-> sector]

Image(boot, root, dir) ==
  [boot |-> boot, root |-> root, directories |-> (root :> dir)]

(* Two FATs, clusters of two sectors; what follows the end is not a file.  *)
TwoFats ==
  Image(Boot(41, 1, 2, 1, 2), 3,
        <<Entry(<<"A", " ", "B">>, 0, 3, 5), Entry(<<"A", "B", " ">>, 1, 2, 11),
          Entry(<<"0", "B", "B">>, 0, 4, 7), Entry(<<"C", " ", " ">>, 0, 4, 7)>>)

(* Clusters of one sector, a label, an empty file, more than four entries. *)
Labelled ==
  Image(Boot(40, 2, 1, 4, 1), 6,
        <<Entry(<<"C", " ", " ">>, 0, 0, 0), Entry(<<"A", "B", "B">>, 2, 2, 14),
          Entry(<<"C", " ", " ">>, 0, 3, 7), Entry(<<"A", "B", " ">>, 0, 0, 0),
          Entry(<<"A", " ", "B">>, 0, 3, 7)>>)

(* No file system this driver knows.                                       *)
Foreign == [TwoFats EXCEPT !.boot.boot_sig = 0]

MCImages == {TwoFats, Labelled, Foreign}

MCTyped == {<<"a", ".", "b">>, <<"a", "B">>, <<"c">>, <<"a", "b", "c", ".", "b">>}
=============================================================================
