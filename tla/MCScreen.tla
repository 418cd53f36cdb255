------------------------------ MODULE MCScreen ------------------------------
(***************************************************************************)
(* A screen of 12 x 5, and the functions of videodriver.c on more numbers. *)
(***************************************************************************)
EXTENDS Screen

MCClocks == {<<9, 59, 10>>, <<23, 0, 9>>}
MCFrees  == {7, 128}
MCValues == {-25, 8, 1599}

(* itoa is the decimal system for what is not negative, and print_double   *)
(* for what fits into an int.                                              *)
ASSUME ItoaRight == \A n \in 0 .. 1200 : itoa(n) = Decimal(n)

ASSUME DoubleRight ==
  \A n \in -2000 .. 2000 :
    Written(clear_screen, print_double(n, 0, 1))
      = Written(clear_screen, Says(Fixed(n), 0, 1))

(* The programs of the run print what fits into an int.                    *)
ASSUME ValuesFit

(* A string that ends in the row after its first is in consecutive cells.  *)
ASSUME PrintConsecutive ==
  \A x \in 0 .. Width - 1, n \in 0 .. 2 * Width :
    x + n <= 2 * Width => print(Word(n), x, 0) = Says(Word(n), x, 0)
=============================================================================
