----------------------------- MODULE MCTerminal -----------------------------
(***************************************************************************)
(* Small instances of Terminal.  Spellings are one or two characters long: *)
(* a command is typed in one or two keys, and lines go past both the right *)
(* edge (COLS) and the end of the buffer (LineLimit).                      *)
(***************************************************************************)
EXTENDS TerminalProps

MCChar     == {"1", "s", "e"}
MCScancode == {"k1", "k2", "k3", "enter", "back", "ctrl"}

MCmap ==
  [k1 |-> "1", k2 |-> "s", k3 |-> "e",
   enter |-> Newline, back |-> Backspace, ctrl |-> NoChar]

MCmap_shift == [MCmap EXCEPT !.k1 = "e", !.k2 = "1", !.k3 = "s"]

MCSpelling ==
  [c \in Command |->
     CASE c = "shell32.start"   -> <<"s">>
       [] c = "1"               -> <<"1">>
       [] c = "exit"            -> <<"e">>
       [] c = "cls"             -> <<"s", "s">>
       [] c = "neofetch"        -> <<"s", "1">>
       [] c = "power --restart" -> <<"s", "e">>
       [] c = "power --off"     -> <<"e", "s">>]

MCStellarLine == {<<"e", "e">>}

MCtz_table == [z \in {<<"1">>, <<"1", "e">>} |-> IF z = <<"1">> THEN -3 ELSE 5]

MCDefaultZone == <<"s">>
=============================================================================
