------------------------------ MODULE MCKernel ------------------------------
(***************************************************************************)
(* Small instances of Kernel: a command or two of one or two characters, a *)
(* screen of a few columns, and a timer that wraps after a few ticks.      *)
(***************************************************************************)
EXTENDS KernelProps

MCChar     == {"1", "s"}
MCScancode == {"k1", "k2", "enter", "back"}

MCmap == [k1 |-> "1", k2 |-> "s", enter |-> Newline, back |-> Backspace]

MCSpelling ==
  [c \in Command |->
     CASE c = "shell32.start"   -> <<"s">>
       [] c = "1"               -> <<"1">>
       [] c = "exit"            -> <<"1", "s">>
       [] c = "cls"             -> <<"s", "1">>
       [] c = "neofetch"        -> <<"1", "s", "1">>
       [] c = "power --restart" -> <<"s", "s">>
       [] c = "power --off"     -> <<"s", "1", "s">>]

MCStellarLine == {<<"1", "1">>}

MCtz_table == [z \in {<<"1">>} |-> 5]

MCDefaultZone == <<"s">>

(* Keys that change nothing but the cursor bar, for the runs about time.   *)
QuietScancode == {"ctrl"}
Quietmap == [ctrl |-> NoChar]
=============================================================================
