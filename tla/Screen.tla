------------------------------- MODULE Screen -------------------------------
(***************************************************************************)
(* What is on the text screen: the cells written by videodriver.c's        *)
(* functions for main() (the clock at the bottom right, cell by cell, and  *)
(* the blinking cursor) and for the keyboard's handler, which may run      *)
(* between any two of main()'s cells: a letter, a backspace, and the       *)
(* commands of shell.c that print numbers.                                 *)
(*                                                                         *)
(* text is what the handler means the screen to say, written from the      *)
(* decimal system and not from itoa and print_double.  Colours are left    *)
(* out; all letters but the ones typed are one letter.  Which command a    *)
(* line stands for, and when the cursor blinks, are Terminal and Kernel.   *)
(***************************************************************************)
EXTENDS Integers, Sequences, SequencesExt

CONSTANTS
  Width, Height,      \* 80, 25
  ClockCol, ClockRow, \* 72, 24: main()'s clock
  TimeCol,            \* 14: the time command's
  FreeCol, UnitCol,   \* 13, 16: the number of the free command, and its unit
  NameLength,         \* user.length
  Precision,          \* 4 decimals
  IntMod,             \* 2^32: what fits into an int
  Denominator,        \* of the fractions a Stellar program prints, a power
                      \*   of 2, so that a double holds them exactly
  Clocks,             \* times of day
  Frees,              \* megabytes
  Values,             \* numerators of what a Stellar program prints
  MaxLine, MaxRow,    \* bounds: letters in a line, rows the cursor goes down
  MaxStale            \*   and cells with a cursor that has gone

ASSUME ScreenAssumption ==
  /\ {Width, Height, ClockCol, ClockRow, TimeCol, FreeCol, UnitCol, NameLength, Precision,
      IntMod, Denominator, MaxLine, MaxRow, MaxStale} \subseteq Nat
  /\ Denominator > 0 /\ ClockRow = Height - 1 /\ ClockCol + 8 = Width
  /\ 0 < TimeCol /\ TimeCol + 8 < Width /\ NameLength + 3 < Width
  /\ FreeCol + 10 <= 2 * Width /\ UnitCol < Width
  /\ Precision + 12 <= 2 * Width
  /\ Clocks \subseteq (0 .. 23) \X (0 .. 59) \X (0 .. 59)

VARIABLES
  screen, text,
  cursor_x, cursor_y,
  line,               \* letters in key_buffer
  pc, hms, todo,      \* main(): where, the time it shows, cells still to paint
  shown,              \* history: the time shown by the pass before
  show, arg,          \* main(): the arguments of draw_cursor
  disturbed,          \* history: cells of the clock the handler wrote upon
  stale               \* history: cells where main() drew a cursor that had gone

mainVars == <<pc, hms, todo, shown, show, arg>>
lineVars == <<cursor_x, cursor_y, line>>
screenVars == <<screen, text, lineVars, mainVars, disturbed, stale>>

Blank == " "
Letter == "a"
Bar == "|"
Cell == 0 .. Width * Height - 1
Offset(x, y) == y * Width + x
Cursor == Offset(cursor_x, cursor_y)
ClockCells == {Offset(ClockCol + i, ClockRow) : i \in 0 .. 7}

-----------------------------------------------------------------------------
(* videodriver.c.  A call is the sequence of its writes to the screen.     *)

putc(c, x, y) == <<<<Offset(x, y), c>>>>

DigitChar(d) == <<"0", "1", "2", "3", "4", "5", "6", "7", "8", "9">>[d + 1]

(* The loop of itoa, which finds the last digit first.                     *)
LastFirst[n \in Nat] ==
  IF n = 0 THEN << >> ELSE <<DigitChar(n % 10)>> \o LastFirst[n \div 10]

(* Nothing for a negative number.                                          *)
itoa(n) ==
  IF n = 0 THEN <<DigitChar(0)>>
  ELSE IF n > 0 THEN Reverse(LastFirst[n]) ELSE << >>

(* A string goes on in the next row, but never in the one after that.      *)
print(s, x, y) ==
  [i \in 1 .. Len(s) |->
     LET col == x + i - 1
     IN <<IF col >= Width THEN Offset(col % Width, y + 1) ELSE Offset(col, y),
          s[i]>>]

print_int(n, x, y) == print(itoa(n), x, y)

(* A long long passed for an int.                                          *)
AsInt(n) == ((n + IntMod \div 2) % IntMod) - IntMod \div 2

(* The decimals of n / Denominator, n < Denominator.                       *)
Decimals(n) ==
  LET rest[i \in 0 .. Precision] ==
        IF i = 0 THEN n ELSE (rest[i - 1] * 10) % Denominator
  IN [i \in 1 .. Precision |-> DigitChar((rest[i - 1] * 10) \div Denominator)]

(* A double: sign, integral part, point and decimals.  x is moved on by    *)
(* the digits of the integral part, and once more if that is 0.            *)
print_double(n, x, y) ==
  LET m == IF n < 0 THEN -n ELSE n
      signed == IF n < 0 THEN 1 ELSE 0
      integral_part == m \div Denominator
      point == x + signed + (IF integral_part = 0 THEN 2
                             ELSE Len(LastFirst[integral_part]))
  IN (IF n < 0 THEN putc("-", x, y) ELSE << >>)
     \o print_int(AsInt(integral_part), x + signed, y)
     \o putc(".", point, y)
     \o [i \in 1 .. Precision |->
           <<Offset(point + i, y), Decimals(m % Denominator)[i]>>]

(* A number of a time: a 0 before it, if it has one digit.                 *)
TwoDigits(n, x, y) ==
  IF n < 10 THEN putc("0", x, y) \o print_int(n, x + 1, y)
  ELSE print_int(n, x, y)

print_formatted_time(t, x, y) ==
  TwoDigits(t[1], x, y) \o putc(":", x + 2, y)
  \o TwoDigits(t[2], x + 3, y) \o putc(":", x + 5, y)
  \o TwoDigits(t[3], x + 6, y)

(* What a sequence of writes leaves: in every cell the last.  Below the    *)
(* last row there is memory, but nothing to be seen.                       *)
Places(writes) == {writes[k][1] : k \in 1 .. Len(writes)}

LastAt(writes, c) ==
  CHOOSE k \in 1 .. Len(writes) :
    writes[k][1] = c /\ \A j \in k + 1 .. Len(writes) : writes[j][1] # c

Written(cells, writes) ==
  LET last == [c \in Places(writes) |-> writes[LastAt(writes, c)][2]]
  IN [c \in Cell |-> IF c \in DOMAIN last THEN last[c] ELSE cells[c]]

clear_screen == [c \in Cell |-> Blank]

-----------------------------------------------------------------------------
(* How numbers are written, from the decimal system.                       *)

Power[n \in Nat] == IF n = 0 THEN 1 ELSE 10 * Power[n - 1]

(* An int has ten digits at most, and megabytes fit into one.              *)
ASSUME NumbersAssumption ==
  /\ \E n \in 1 .. 10 : IntMod \div 2 <= Power[n]
  /\ Frees \subseteq 0 .. IntMod \div 2 - 1

(* So does what a program prints, if it does.                              *)
ValuesFit ==
  \A n \in Values :
    n \in Int /\ (IF n < 0 THEN -n ELSE n) \div Denominator < IntMod \div 2

(* The n last digits of a number.                                          *)
Digits(m, n) == [i \in 1 .. n |-> DigitChar((m \div Power[n - i]) % 10)]

Decimal(m) ==
  Digits(m, CHOOSE n \in 1 .. 10 : Power[n] > m /\ (n = 1 \/ Power[n - 1] <= m))

(* The kernel leaves a gap after a lone 0 ("Ajuste para o zero").          *)
Fixed(n) ==
  LET m == IF n < 0 THEN -n ELSE n
      integral == m \div Denominator
      scaled == (m * Power[Precision]) \div Denominator
  IN (IF n < 0 THEN <<"-">> ELSE << >>) \o Decimal(integral)
     \o (IF integral = 0 THEN <<Blank>> ELSE << >>) \o <<".">>
     \o Digits(scaled, Precision)

Time(t) == Digits(t[1], 2) \o <<":">> \o Digits(t[2], 2) \o <<":">> \o Digits(t[3], 2)

(* A string in a row of its own.                                           *)
Says(s, x, y) == [i \in 1 .. Len(s) |-> <<Offset(x, y) + i - 1, s[i]>>]
Word(n) == [i \in 1 .. n |-> Letter]

-----------------------------------------------------------------------------
Init ==
  /\ cursor_x = 2 /\ cursor_y = 2 /\ line = 0
  /\ screen = Written(clear_screen, putc(">", 0, 2))
  /\ text = screen
  /\ pc = "time" /\ todo = << >> /\ show = FALSE /\ arg = <<0, 0>>
  /\ hms \in Clocks /\ shown = hms
  /\ disturbed = ClockCells /\ stale = {}

(* Mutant: minutes before hours.                                           *)
GetTimeSwapped ==
  /\ pc = "time" /\ pc' = "paint"
  /\ shown' = hms /\ hms' \in Clocks
  /\ todo' = print_formatted_time(<<hms'[2], hms'[1], hms'[3]>>, ClockCol, ClockRow)
  /\ UNCHANGED <<screen, text, lineVars, show, arg, disturbed, stale>>

(* main(): the time is there (module Rtc) and will be painted.             *)
GetTime ==
  /\ pc = "time" /\ pc' = "paint"
  /\ shown' = hms /\ hms' \in Clocks
  /\ todo' = print_formatted_time(hms', ClockCol, ClockRow)
  /\ UNCHANGED <<screen, text, lineVars, show, arg, disturbed, stale>>

PaintClock ==
  /\ pc = "paint" /\ todo # << >>
  /\ screen' = Written(screen, <<Head(todo)>>)
  /\ disturbed' = disturbed \ {Head(todo)[1]}
  /\ stale' = stale \ {Head(todo)[1]}
  /\ todo' = Tail(todo)
  /\ UNCHANGED <<text, lineVars, pc, hms, shown, show, arg>>

(* The cursor blinks in this pass, or not.                                 *)
Blink ==
  /\ pc = "paint" /\ todo = << >>
  /\ \/ pc' = "args" /\ show' = ~show /\ Cardinality(stale) < MaxStale
     \/ pc' = "time" /\ UNCHANGED show
  /\ UNCHANGED <<screen, text, lineVars, hms, todo, shown, arg, disturbed, stale>>

ReadArgs ==
  /\ \/ pc = "args"   /\ pc' = "args_y" /\ arg' = <<cursor_x, 0>>
     \/ pc = "args"   /\ pc' = "args_x" /\ arg' = <<0, cursor_y>>
     \/ pc = "args_y" /\ pc' = "draw"   /\ arg' = <<arg[1], cursor_y>>
     \/ pc = "args_x" /\ pc' = "draw"   /\ arg' = <<cursor_x, arg[2]>>
  /\ UNCHANGED <<screen, text, lineVars, hms, todo, shown, show, disturbed, stale>>

draw_cursor ==
  /\ pc = "draw" /\ pc' = "time"
  /\ LET place == Offset(arg[1], arg[2])
     IN /\ screen' = Written(screen, <<<<place, IF show THEN Bar ELSE Blank>>>>)
        /\ stale' = IF place = Cursor THEN stale ELSE stale \cup {place}
        /\ disturbed' = disturbed \cup ({place} \cap ClockCells)
  /\ arg' = <<0, 0>>
  /\ UNCHANGED <<text, lineVars, hms, todo, shown, show>>

Main == GetTime \/ PaintClock \/ Blink \/ ReadArgs \/ draw_cursor

-----------------------------------------------------------------------------
(* keyboard_handler.                                                       *)

(* Mutant: the cursor is not wiped first.                                  *)
HandlerPaintsUnwiped(writes, meant) ==
  LET all == writes \o <<<<Cursor', Bar>>>>
  IN /\ screen' = Written(screen, all)
     /\ text' = Written(text, <<<<Cursor, Blank>>>> \o meant \o <<<<Cursor', Blank>>>>)
     /\ disturbed' = disturbed \cup (Places(all) \cap ClockCells)
     /\ stale' = stale \ Places(all)
     /\ UNCHANGED mainVars

(* The cell of the cursor is wiped, the writes follow, and the bar is put  *)
(* at the cursor's new place.  They mean what is meant.                    *)
HandlerPaints(writes, meant) ==
  LET all == <<<<Cursor, Blank>>>> \o writes \o <<<<Cursor', Bar>>>>
  IN /\ screen' = Written(screen, all)
     /\ text' = Written(text, <<<<Cursor, Blank>>>> \o meant \o <<<<Cursor', Blank>>>>)
     /\ disturbed' = disturbed \cup (Places(all) \cap ClockCells)
     /\ stale' = stale \ Places(all)
     /\ UNCHANGED mainVars

TypeLetter ==
  /\ line < MaxLine /\ cursor_y < MaxRow
  /\ line' = line + 1
  /\ IF cursor_x + 1 >= Width THEN cursor_x' = 0 /\ cursor_y' = cursor_y + 1
     ELSE cursor_x' = cursor_x + 1 /\ UNCHANGED cursor_y
  /\ HandlerPaints(putc("b", cursor_x, cursor_y), <<<<Cursor, "b">>>>)

Erase ==
  /\ line > 0
  /\ line' = line - 1
  /\ cursor_x' = (IF cursor_x > 0 THEN cursor_x - 1 ELSE 0)
  /\ UNCHANGED cursor_y
  /\ LET wiped == IF cursor_x > 0 THEN putc(Blank, cursor_x', cursor_y) ELSE << >>
     IN HandlerPaints(wiped, wiped)

(* Enter in the shell: exeCommand and the prompt after it.  rows is how    *)
(* many cursor_y is moved on by the command itself.                        *)
Enter(rows, writes, meant) ==
  /\ cursor_y + rows < MaxRow
  /\ line' = 0
  /\ cursor_x' = 1 /\ cursor_y' = cursor_y + rows + 1
  /\ HandlerPaints(writes \o putc(">", 0, cursor_y'), meant \o <<<<Offset(0, cursor_y'), ">">>>>)

Row == cursor_y + 1

TimeCommand ==
  \E t \in Clocks :
    Enter(1, print(Word(TimeCol - 1), 0, Row) \o print_formatted_time(t, TimeCol, Row),
          Says(Word(TimeCol - 1), 0, Row) \o Says(Time(t), TimeCol, Row))

FreeCommand ==
  \E n \in Frees :
    Enter(1, print(Word(FreeCol), 0, Row) \o print_int(n, FreeCol, Row)
             \o print(Word(1), UnitCol, Row),
          Says(Word(FreeCol), 0, Row) \o Says(Decimal(n), FreeCol, Row)
             \o Says(Word(1), UnitCol, Row))

(* A Stellar program that prints a number: OP_PRINT moves cursor_y on.     *)
StellarPrints ==
  \E n \in Values :
    Enter(2, print_double(n, 0, Row), Says(Fixed(n), 0, Row))

(* cls: the screen, the prompt of bashinit and the next row's.             *)
ClearCommand ==
  /\ line' = 0 /\ cursor_x' = 1 /\ cursor_y' = 2
  /\ LET bash == putc(">", 0, 1) \o putc("$", 0, 1)
                 \o print(Word(NameLength), 2, 1) \o putc(">", NameLength + 2, 1)
                 \o putc(">", 0, 2)
     IN /\ screen' = Written(clear_screen, bash \o <<<<Cursor', Bar>>>>)
        /\ text' = Written(clear_screen,
                     <<<<Offset(0, 1), "$">>>> \o Says(Word(NameLength), 2, 1)
                     \o <<<<Offset(NameLength + 2, 1), ">">>, <<Offset(0, 2), ">">>>>)
  /\ disturbed' = ClockCells /\ stale' = {}
  /\ UNCHANGED mainVars

Handler ==
  TypeLetter \/ Erase \/ TimeCommand \/ FreeCommand \/ StellarPrints \/ ClearCommand

Next == Main \/ Handler

Spec == Init /\ [][Next]_screenVars

-----------------------------------------------------------------------------
(* The screen says what the handler means it to say, whatever main() was   *)
(* doing: outside the clock, but for the cursor and for the cells where    *)
(* main() drew a cursor that had moved on.                                 *)
OutputShown ==
  \A c \in Cell \ (ClockCells \cup stale \cup {Cursor}) : screen[c] = text[c]

(* The clock is one time, all of it, but for the cells that main() has not *)
(* reached in this pass, which show the time before, and those another     *)
(* text has been written upon since.                                       *)
ClockWhole ==
  LET painted == IF pc = "time" THEN 8 ELSE 8 - Len(todo)
  IN \A i \in 1 .. 8 :
       LET c == Offset(ClockCol + i - 1, ClockRow)
       IN c \notin disturbed =>
            screen[c] = Time(IF i <= painted THEN hms ELSE shown)[i]
=============================================================================
