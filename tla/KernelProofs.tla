---------------------------- MODULE KernelProofs ----------------------------
(***************************************************************************)
(* The theorems about the terminal, for every value of the constants that  *)
(* the assumptions of Terminal allow, and on them those about main() and   *)
(* the interrupt handlers together: for every layout, every width of the   *)
(* tick counter and every load of ticks that leaves it time to wrap once.  *)
(***************************************************************************)
EXTENDS KernelProps, SequenceTheorems, TLAPS

-----------------------------------------------------------------------------
(* NewLine and what it does to the cursor's distance from the line's start.*)

(* A new line starts empty, under the cursor, at natural coordinates.      *)
LEMMA NewLineFacts ==
  ASSUME NEW x \in Nat, NEW y \in Nat, NewLine(x, y)
  PROVE  /\ key_buffer' = << >> /\ key_buffer' \in Seq(Char)
         /\ Len(key_buffer') = 0
         /\ cursor_x' = x /\ cursor_y' = y
         /\ origin' = <<x, y>> /\ origin' \in Nat \X Nat
  BY DEF NewLine

(* Every stage's prompt of start_config is such a new line.                *)
LEMMA StartConfigFacts ==
  ASSUME NEW status \in 1 .. 3, start_config(status)
  PROVE  \E x \in 0 .. COLS - 1, y \in Nat : NewLine(x, y)
<1>1. <<NameCol, ZoneCol, DoneCol>>[status] \in 0 .. COLS - 1
  BY LayoutAssumption
<1>2. (IF status = 3 THEN 5 ELSE 1) \in Nat
  OBVIOUS
<1> QED  BY <1>1, <1>2 DEF start_config

(* Enter either begins a new line or, when the machine stops, leaves the   *)
(* line as it was.                                                         *)
LEMMA EnterFacts ==
  ASSUME TypeOK, Enter
  PROVE  \/ \E x, y \in Nat : NewLine(x, y)
         \/ UNCHANGED <<key_buffer, cursor_x, cursor_y, origin>>
<1> USE DEF TypeOK
<1>p. ASSUME NEW y \in Nat, Prompt(y)
      PROVE  \E a, b \in Nat : NewLine(a, b)
  <2>1. y + 1 \in Nat  OBVIOUS
  <2> QED  BY <1>p, <2>1 DEF Prompt
<1>c. ASSUME NEW status \in 1 .. 3, start_config(status)
      PROVE  \E a, b \in Nat : NewLine(a, b)
  <2>1. PICK x \in 0 .. COLS - 1, y \in Nat : NewLine(x, y)
    BY <1>c, StartConfigFacts
  <2>2. x \in Nat  BY LayoutAssumption
  <2> QED  BY <2>1, <2>2
<1>1. CASE StartShell
  <2>1. user_length + 3 \in Nat /\ 1 \in Nat
    BY LayoutAssumption
  <2>2. NewLine(user_length + 3, 1)
    BY <1>1 DEF StartShell
  <2> QED  BY <2>1, <2>2
<1>2. CASE StartSetup
  BY <1>2, <1>c DEF StartSetup
<1>3. CASE ChooseName
  <2>1. config_status' \in 1 .. 3 /\ start_config(config_status')
    BY <1>3 DEF ChooseName
  <2> QED  BY <2>1, <1>c
<1>4. CASE ChooseZone
  <2>1. config_status' \in 1 .. 3 /\ start_config(config_status')
    BY <1>4 DEF ChooseZone
  <2> QED  BY <2>1, <1>c
<1>5. CASE FinishSetup
  <2>1. NewLine(1, 1) \/ Prompt(cursor_y)
    BY <1>5 DEF FinishSetup
  <2> QED  BY <2>1, <1>p
<1>6. CASE MenuHint
  <2>1. cursor_y + 1 \in Nat /\ Prompt(cursor_y + 1)
    BY <1>6 DEF MenuHint
  <2> QED  BY <2>1, <1>p
<1>7. CASE LeaveShell
  BY <1>7, <1>p DEF LeaveShell
<1>8. CASE PowerCommand
  <2>1. cursor_y + 1 \in Nat  OBVIOUS
  <2>2. \/ Prompt(cursor_y + 1)
        \/ UNCHANGED <<key_buffer, cursor_x, cursor_y, origin>>
    BY <1>8 DEF PowerCommand, cursorVars
  <2> QED  BY <2>1, <2>2, <1>p
<1>9. CASE ShellCommand
  <2>1. RowsPrinted \subseteq Nat
    BY LayoutAssumption DEF RowsPrinted
  <2>2. Prompt(1) \/ \E n \in Nat : Prompt(cursor_y + 1 + n)
    BY <1>9, <2>1 DEF ShellCommand
  <2>3. \A n \in Nat : cursor_y + 1 + n \in Nat
    OBVIOUS
  <2> QED  BY <2>2, <2>3, <1>p
<1>10. CASE StellarHangs
  BY <1>10 DEF StellarHangs, cursorVars
<1> QED
  BY <1>1, <1>2, <1>3, <1>4, <1>5, <1>6, <1>7, <1>8, <1>9, <1>10 DEF Enter

-----------------------------------------------------------------------------
(* The inductive invariant.                                                *)

(* LineCovered, and that the cursor of such a line is inside its row: only *)
(* then does wrapping move it by one cell.                                 *)
LineInv ==
  origin[1] < COLS =>
    /\ cursor_x < COLS
    /\ Cell(cursor_x, cursor_y) - Cell(origin[1], origin[2]) >= Len(key_buffer)

(* ShiftNotStuck, and which key accounts for shift_pressed.                *)
ShiftInv ==
  shift_pressed = 1 =>
    (\E k \in ShiftKey : k \in held) \/ (fake_shift /\ "print" \in held)

Inv == TypeOK /\ ModesExclusive /\ ZoneConsistent /\ LineInv /\ ShiftInv

LEMMA InitInv == Init => Inv
<1> SUFFICES ASSUME Init PROVE Inv
  OBVIOUS
<1>1. TypeOK
  <2>1. /\ shift_pressed \in {0, 1}
        /\ held \subseteq ShiftKey \cup {"print"}
        /\ fake_shift \in BOOLEAN
    BY DEF Init
  <2>2. key_buffer \in Seq(Char) /\ Len(key_buffer) <= LineLimit
    BY LayoutAssumption DEF Init
  <2>3. cursor_x \in Nat /\ cursor_y \in Nat /\ origin \in Nat \X Nat
    BY DEF Init
  <2>4. /\ shell_active \in {0, 1} /\ config_active \in {0, 1}
        /\ config_status \in 1 .. 3
        /\ user_length \in 0 .. LineLimit
    BY LayoutAssumption DEF Init
  <2>5. /\ time_zone \in {DefaultZone} \cup DOMAIN tz_table
        /\ current_tz_offset \in -12 .. 12
        /\ power \in {"on", "hung", "reset", "off"}
    BY DEF Init
  <2> QED  BY <2>1, <2>2, <2>3, <2>4, <2>5 DEF TypeOK
<1>2. ModesExclusive /\ ZoneConsistent /\ ShiftInv
  BY DEF Init, ModesExclusive, ZoneConsistent, ShiftInv
<1>3. LineInv
  BY LayoutAssumption DEF Init, LineInv, Cell
<1> QED  BY <1>1, <1>2, <1>3 DEF Inv

(* Backspace shortens the line by one and keeps it a line.                 *)
LEMMA EraseFacts ==
  ASSUME NEW S, NEW line \in Seq(S), line # << >>
  PROVE  /\ SubSeq(line, 1, Len(line) - 1) \in Seq(S)
         /\ Len(SubSeq(line, 1, Len(line) - 1)) = Len(line) - 1
<1>1. Len(line) \in Nat \ {0}
  BY EmptySeq
<1>2. ASSUME NEW n \in Nat, n < Len(line)
      PROVE  SubSeq(line, 1, n) \in Seq(S) /\ Len(SubSeq(line, 1, n)) = n
  BY <1>1, <1>2
<1>3. Len(line) - 1 \in Nat /\ Len(line) - 1 < Len(line)
  BY <1>1
<1> QED  BY <1>2, <1>3

(* What Enter does to the variables that are not the line's.               *)
LEMMA EnterTypes ==
  ASSUME TypeOK, Enter
  PROVE  /\ shell_active' \in {0, 1} /\ config_active' \in {0, 1}
         /\ config_status' \in 1 .. 3
         /\ user_length' \in 0 .. LineLimit
         /\ time_zone' \in {DefaultZone} \cup DOMAIN tz_table
         /\ current_tz_offset' \in -12 .. 12
         /\ power' \in {"on", "hung", "reset", "off"}
         /\ UNCHANGED keyVars
<1> USE DEF TypeOK, keyVars, modeVars, setupVars
<1>1. CASE StartShell \/ StartSetup
  BY <1>1 DEF StartShell, StartSetup
<1>2. CASE ChooseName
  BY <1>2 DEF ChooseName
<1>3. CASE ChooseZone
  <2>1. CASE key_buffer \in DOMAIN tz_table
    <3>1. tz_table[key_buffer] \in -12 .. 12
      BY <2>1, ZoneAssumption
    <3>2. /\ current_tz_offset' = tz_table[key_buffer]
          /\ time_zone' = key_buffer /\ config_status' = 3
          /\ UNCHANGED <<keyVars, modeVars, user_length, power>>
      BY <1>3, <2>1 DEF ChooseZone
    <3> QED  BY <2>1, <3>1, <3>2
  <2>2. CASE key_buffer \notin DOMAIN tz_table
    BY <1>3, <2>2 DEF ChooseZone
  <2> QED  BY <2>1, <2>2
<1>4. CASE FinishSetup \/ MenuHint
  BY <1>4 DEF FinishSetup, MenuHint
<1>5. CASE LeaveShell
  BY <1>5 DEF LeaveShell
<1>6. CASE PowerCommand
  <2>1. power' \in {"on", "hung", "reset", "off"}
    BY <1>6 DEF PowerCommand
  <2>2. UNCHANGED <<keyVars, modeVars, setupVars>>
    BY <1>6 DEF PowerCommand
  <2> QED  BY <2>1, <2>2
<1>7. CASE ShellCommand
  <2>1. UNCHANGED <<keyVars, modeVars, setupVars, power>>
    BY <1>7 DEF ShellCommand
  <2> QED  BY <2>1
<1>8. CASE StellarHangs
  <2>1. power' = "hung" /\ UNCHANGED <<keyVars, modeVars, setupVars>>
    BY <1>8 DEF StellarHangs
  <2> QED  BY <2>1
<1> QED
  BY <1>1, <1>2, <1>3, <1>4, <1>5, <1>6, <1>7, <1>8 DEF Enter

(* A shift key's action leaves the line, the session and the power alone.  *)
LEMMA ShiftFrame ==
  ASSUME Shift
  PROVE  UNCHANGED <<key_buffer, cursorVars, modeVars, setupVars, power, origin>>
  BY DEF Shift, PressShift, ReleaseShift, PressPrint, ReleasePrint

LEMMA NextTypeOK ==
  ASSUME TypeOK, [Next]_vars
  PROVE  TypeOK'
<1> USE DEF TypeOK
<1>1. CASE Shift
  <2>1. UNCHANGED <<key_buffer, cursorVars, modeVars, setupVars, power, origin>>
    BY <1>1, ShiftFrame
  <2>2. /\ shift_pressed' \in {0, 1}
        /\ held' \subseteq ShiftKey \cup {"print"}
        /\ fake_shift' \in BOOLEAN
    BY <1>1 DEF Shift, PressShift, ReleaseShift, PressPrint, ReleasePrint
  <2> QED  BY <2>1, <2>2 DEF cursorVars, modeVars, setupVars
<1>2. CASE PowerCycle
  <2>1. NewLine(2, 2) /\ UNCHANGED <<held, fake_shift>>
    BY <1>2 DEF PowerCycle
  <2> QED
    BY <1>2, <2>1, NewLineFacts, LayoutAssumption, ZoneAssumption
    DEF PowerCycle
<1>p. CASE PowerLost
  BY <1>p DEF PowerLost, keyVars, cursorVars, modeVars, setupVars
<1>3. ASSUME NEW sc \in Scancode, Key(sc)
      PROVE  TypeOK'
  <2>1. CASE Enter
    <3>1. /\ key_buffer' \in Seq(Char) /\ Len(key_buffer') <= LineLimit
          /\ cursor_x' \in Nat /\ cursor_y' \in Nat
          /\ origin' \in Nat \X Nat
      BY <2>1, EnterFacts, NewLineFacts, LayoutAssumption
    <3> QED  BY <2>1, <3>1, EnterTypes DEF keyVars
  <2>2. CASE EraseChar
    <3>1. key_buffer' \in Seq(Char) /\ Len(key_buffer') <= LineLimit
      <4>1. CASE key_buffer = << >>
        BY <2>2, <4>1 DEF EraseChar
      <4>2. CASE key_buffer # << >>
        <5>1. key_buffer' = SubSeq(key_buffer, 1, Len(key_buffer) - 1)
          BY <2>2, <4>2 DEF EraseChar
        <5> QED  BY <4>2, <5>1, EraseFacts, LayoutAssumption
      <4> QED  BY <4>1, <4>2
    <3>2. cursor_x' \in Nat /\ cursor_y' \in Nat
      BY <2>2 DEF EraseChar
    <3> QED
      BY <2>2, <3>1, <3>2 DEF EraseChar, keyVars, modeVars, setupVars
  <2>3. CASE DeadKey
    BY <2>3 DEF DeadKey, vars, keyVars, cursorVars, modeVars, setupVars
  <2>4. ASSUME NEW c \in Char, TypeChar(c)
        PROVE  TypeOK'
    <3>1. key_buffer' \in Seq(Char) /\ Len(key_buffer') <= LineLimit
      BY <2>4, LayoutAssumption DEF TypeChar
    <3>2. cursor_x' \in Nat /\ cursor_y' \in Nat
      BY <2>4 DEF TypeChar
    <3> QED  BY <2>4, <3>1, <3>2 DEF TypeChar, keyVars, modeVars, setupVars
  <2> QED  BY <1>3, <2>1, <2>2, <2>3, <2>4 DEF Key
<1>4. CASE UNCHANGED vars
  BY <1>4 DEF vars, keyVars, cursorVars, modeVars, setupVars
<1> QED  BY <1>1, <1>2, <1>p, <1>3, <1>4 DEF Next

(* Only StartShell and StartSetup set a flag, each while the other is 0.   *)
LEMMA NextModes ==
  ASSUME TypeOK, ModesExclusive, [Next]_vars
  PROVE  ModesExclusive'
<1> USE DEF ModesExclusive
<1>1. CASE Shift
  BY <1>1, ShiftFrame DEF modeVars
<1>2. CASE PowerCycle
  BY <1>2 DEF PowerCycle
<1>p. CASE PowerLost
  BY <1>p DEF PowerLost, modeVars
<1>3. ASSUME NEW sc \in Scancode, Key(sc)
      PROVE  ModesExclusive'
  <2>1. CASE StartShell
    BY <2>1 DEF StartShell
  <2>2. CASE StartSetup
    BY <2>2 DEF StartSetup
  <2>3. CASE ChooseName \/ ChooseZone \/ FinishSetup
    BY <2>3 DEF ChooseName, ChooseZone, FinishSetup, modeVars
  <2>4. CASE MenuHint \/ PowerCommand \/ ShellCommand \/ StellarHangs
    <3>1. UNCHANGED modeVars
      BY <2>4 DEF MenuHint, PowerCommand, ShellCommand, StellarHangs
    <3> QED  BY <3>1 DEF modeVars
  <2>8. CASE LeaveShell
    BY <2>8 DEF LeaveShell
  <2>5. CASE EraseChar
    BY <2>5 DEF EraseChar, modeVars
  <2>6. CASE DeadKey
    BY <2>6 DEF DeadKey, vars, modeVars
  <2>7. CASE TypeChar(CharOf(sc))
    BY <2>7 DEF TypeChar, modeVars
  <2> QED
    BY <1>3, <2>1, <2>2, <2>3, <2>4, <2>5, <2>6, <2>7, <2>8 DEF Key, Enter
<1>4. CASE UNCHANGED vars
  BY <1>4 DEF vars, modeVars
<1> QED  BY <1>1, <1>2, <1>p, <1>3, <1>4 DEF Next

(* The zone and its offset are set together, by ChooseZone, with the stage.*)
LEMMA NextZone ==
  ASSUME TypeOK, ZoneConsistent, [Next]_vars
  PROVE  ZoneConsistent'
<1> USE DEF ZoneConsistent
<1>1. CASE Shift
  BY <1>1, ShiftFrame DEF setupVars
<1>2. CASE PowerCycle
  BY <1>2 DEF PowerCycle
<1>p. CASE PowerLost
  BY <1>p DEF PowerLost, setupVars
<1>3. ASSUME NEW sc \in Scancode, Key(sc)
      PROVE  ZoneConsistent'
  <2>1. CASE StartShell \/ StartSetup \/ FinishSetup
    BY <2>1 DEF StartShell, StartSetup, FinishSetup, setupVars
  <2>2. CASE ChooseName
    BY <2>2 DEF ChooseName
  <2>3. CASE ChooseZone
    BY <2>3 DEF ChooseZone
  <2>4. CASE \/ MenuHint \/ LeaveShell \/ PowerCommand \/ ShellCommand
             \/ StellarHangs
    <3>1. UNCHANGED setupVars
      BY <2>4
      DEF MenuHint, LeaveShell, PowerCommand, ShellCommand, StellarHangs
    <3> QED  BY <3>1 DEF setupVars
  <2>5. CASE EraseChar
    BY <2>5 DEF EraseChar, setupVars
  <2>6. CASE DeadKey
    BY <2>6 DEF DeadKey, vars, setupVars
  <2>7. CASE TypeChar(CharOf(sc))
    BY <2>7 DEF TypeChar, setupVars
  <2> QED
    BY <1>3, <2>1, <2>2, <2>3, <2>4, <2>5, <2>6, <2>7 DEF Key, Enter
<1>4. CASE UNCHANGED vars
  BY <1>4 DEF vars, setupVars
<1> QED  BY <1>1, <1>2, <1>p, <1>3, <1>4 DEF Next

(* A character and a wrap each move the cursor on by one cell, a backspace *)
(* moves it back only when it shortens the line, and Enter starts over.    *)
LEMMA NextLine ==
  ASSUME TypeOK, LineInv, [Next]_vars
  PROVE  LineInv'
<1> USE DEF TypeOK, LineInv, Cell
<1>n. ASSUME NEW x \in Nat, NEW y \in Nat, NewLine(x, y)
      PROVE  LineInv'
  <2>1. origin'[1] = x /\ origin'[2] = y
    BY <1>n, NewLineFacts
  <2>2. y * COLS + x \in Nat
    BY LayoutAssumption
  <2> QED  BY <1>n, <2>1, <2>2, NewLineFacts
<1>u. ASSUME UNCHANGED <<key_buffer, cursor_x, cursor_y, origin>>
      PROVE  LineInv'
  BY <1>u
<1>1. CASE Shift
  BY <1>1, <1>u, ShiftFrame DEF cursorVars
<1>2. CASE PowerCycle
  BY <1>2, <1>n DEF PowerCycle
<1>p. CASE PowerLost
  BY <1>p, <1>u DEF PowerLost, cursorVars
<1>3. ASSUME NEW sc \in Scancode, Key(sc)
      PROVE  LineInv'
  <2>1. CASE Enter
    BY <2>1, EnterFacts, <1>n, <1>u
  <2>2. CASE EraseChar
    <3>1. CASE key_buffer = << >>
      BY <2>2, <3>1, <1>u DEF EraseChar
    <3>2. CASE key_buffer # << >>
      <4>1. Len(key_buffer') = Len(key_buffer) - 1
        BY <2>2, <3>2, EraseFacts DEF EraseChar
      <4>2. cursor_y' = cursor_y /\ origin' = origin
        BY <2>2 DEF EraseChar
      <4>3. cursor_x' \in {cursor_x, cursor_x - 1}
        BY <2>2 DEF EraseChar
      <4>4. cursor_y * COLS \in Nat /\ origin[2] * COLS \in Nat
        BY LayoutAssumption
      <4> QED  BY <4>1, <4>2, <4>3, <4>4, LayoutAssumption, SMTT(30)
    <3> QED  BY <3>1, <3>2
  <2>3. CASE DeadKey
    BY <2>3, <1>u DEF DeadKey, vars, cursorVars
  <2>4. ASSUME NEW c \in Char, TypeChar(c)
        PROVE  LineInv'
    <3>1. Len(key_buffer') \in Nat /\ Len(key_buffer') <= Len(key_buffer) + 1
      BY <2>4, LayoutAssumption DEF TypeChar
    <3>2. origin' = origin
      BY <2>4 DEF TypeChar
    <3>3. ASSUME cursor_x < COLS
          PROVE  cursor_x' < COLS /\ Cell(cursor_x, cursor_y)' = Cell(cursor_x, cursor_y) + 1
      <4>1. CASE cursor_x + 1 >= COLS
        <5>1. cursor_x = COLS - 1
          BY <3>3, <4>1, LayoutAssumption
        <5>2. cursor_x' = 0 /\ cursor_y' = cursor_y + 1
          BY <2>4, <4>1 DEF TypeChar
        <5>3. (cursor_y + 1) * COLS = cursor_y * COLS + COLS
          BY LayoutAssumption
        <5>4. cursor_y * COLS \in Nat
          BY LayoutAssumption
        <5> QED  BY <5>1, <5>2, <5>3, <5>4, LayoutAssumption
      <4>2. CASE cursor_x + 1 < COLS
        <5>1. cursor_x' = cursor_x + 1 /\ cursor_y' = cursor_y
          BY <2>4, <4>2, LayoutAssumption DEF TypeChar
        <5>2. cursor_y * COLS \in Nat
          BY LayoutAssumption
        <5> QED  BY <5>1, <5>2, <4>2, LayoutAssumption
      <4> QED  BY <4>1, <4>2, LayoutAssumption
    <3>4. cursor_y * COLS \in Nat /\ origin[2] * COLS \in Nat
      BY LayoutAssumption
    <3> QED  BY <3>1, <3>2, <3>3, <3>4, LayoutAssumption, SMTT(30)
  <2> QED  BY <1>3, <2>1, <2>2, <2>3, <2>4 DEF Key
<1>4. CASE UNCHANGED vars
  BY <1>4, <1>u DEF vars, cursorVars
<1> QED  BY <1>1, <1>2, <1>p, <1>3, <1>4 DEF Next

(* Every action keeps a key that accounts for shift_pressed.               *)
LEMMA NextShift ==
  ASSUME TypeOK, ShiftInv, [Next]_vars
  PROVE  ShiftInv'
<1> USE DEF TypeOK, ShiftInv
<1>u. ASSUME UNCHANGED keyVars
      PROVE  ShiftInv'
  BY <1>u DEF keyVars
<1>1. ASSUME NEW k \in ShiftKey, PressShift(k)
      PROVE  ShiftInv'
  BY <1>1 DEF PressShift
<1>2. ASSUME NEW k \in ShiftKey, ReleaseShift(k)
      PROVE  ShiftInv'
  BY <1>2 DEF ReleaseShift
<1>3. CASE PressPrint
  BY <1>3 DEF PressPrint
<1>4. CASE ReleasePrint
  BY <1>4, ShiftAssumption DEF ReleasePrint
<1>5. CASE PowerCycle
  BY <1>5 DEF PowerCycle
<1>p. CASE PowerLost
  BY <1>p, <1>u DEF PowerLost
<1>6. ASSUME NEW sc \in Scancode, Key(sc)
      PROVE  ShiftInv'
  <2>1. CASE Enter
    BY <2>1, <1>u, EnterTypes
  <2>2. CASE EraseChar
    BY <2>2, <1>u DEF EraseChar
  <2>3. CASE DeadKey
    BY <2>3, <1>u DEF DeadKey, vars
  <2>4. CASE TypeChar(CharOf(sc))
    BY <2>4, <1>u DEF TypeChar
  <2> QED  BY <1>6, <2>1, <2>2, <2>3, <2>4 DEF Key
<1>7. CASE UNCHANGED vars
  BY <1>7, <1>u DEF vars
<1> QED  BY <1>1, <1>2, <1>3, <1>4, <1>5, <1>p, <1>6, <1>7 DEF Next, Shift

LEMMA NextInv == Inv /\ [Next]_vars => Inv'
  BY NextTypeOK, NextModes, NextZone, NextLine, NextShift DEF Inv

-----------------------------------------------------------------------------
(* The theorems.                                                           *)

(* The handler keeps every variable of the terminal in its type.           *)
THEOREM TypeCorrect == Spec => []TypeOK
<1>1. Inv => TypeOK
  BY DEF Inv
<1> QED  BY InitInv, NextInv, <1>1, PTL DEF Spec

(* No sequence of lines makes the shell and the setup active together.     *)
THEOREM ModesAreExclusive == Spec => []ModesExclusive
<1>1. Inv => ModesExclusive
  BY DEF Inv
<1> QED  BY InitInv, NextInv, <1>1, PTL DEF Spec

(* No editing makes the line longer than what it covers of the screen.     *)
THEOREM LineIsCovered == Spec => []LineCovered
<1>1. Inv => LineCovered
  BY DEF Inv, LineInv, LineCovered
<1> QED  BY InitInv, NextInv, <1>1, PTL DEF Spec

(* The zone's name and its offset never part.                              *)
THEOREM ZoneIsConsistent == Spec => []ZoneConsistent
<1>1. Inv => ZoneConsistent
  BY DEF Inv
<1> QED  BY InitInv, NextInv, <1>1, PTL DEF Spec

(* With no key held, shift_pressed is 0.                                   *)
THEOREM ShiftIsNotStuck == Spec => []ShiftNotStuck
<1>1. Inv => ShiftNotStuck
  BY DEF Inv, TypeOK, ShiftInv, ShiftNotStuck
<1> QED  BY InitInv, NextInv, <1>1, PTL DEF Spec

-----------------------------------------------------------------------------
(* The terminal implements Session.                                        *)

(* A step that leaves flags, setup and power alone is a stutter of the     *)
(* session, and one that only ends the power stops it.                     *)
LEMMA SessionStutter ==
  ASSUME UNCHANGED modeVars, UNCHANGED setupVars, UNCHANGED power
  PROVE  UNCHANGED Abstract!vars
  BY DEF modeVars, setupVars, Mode, Abstract!vars, Abstract!session

LEMMA SessionStop ==
  ASSUME UNCHANGED modeVars, UNCHANGED setupVars, power = "on", power' # "on"
  PROVE  Abstract!Next
<1>1. UNCHANGED Abstract!session
  BY DEF modeVars, setupVars, Mode, Abstract!session
<1> QED  BY <1>1 DEF Abstract!Next, Abstract!Stop

(* Enter, path by path.                                                    *)
LEMMA EnterSession ==
  ASSUME TypeOK, ModesExclusive, power = "on", Enter
  PROVE  [Abstract!Next]_(Abstract!vars)
<1> USE DEF TypeOK, ModesExclusive, Mode
<1>1. CASE StartShell
  <2>1. Mode \in {"menu", "shell"} /\ Mode' = "shell" 
         /\ UNCHANGED <<setupVars, power>>
    BY <1>1 DEF StartShell
  <2> QED  BY <2>1 DEF Abstract!EnterShell, Abstract!Typed, Abstract!Next, setupVars
<1>2. CASE StartSetup
  <2>1. Mode = "menu" /\ Mode' = "setup" 
         /\ UNCHANGED <<setupVars, power>>
    BY <1>2 DEF StartSetup
  <2> QED  BY <2>1 DEF Abstract!EnterSetup, Abstract!Typed, Abstract!Next, setupVars
<1>3. CASE ChooseName
  <2>1. Mode = "setup" /\ Mode' = Mode
    BY <1>3 DEF ChooseName, modeVars
  <2>2. /\ config_status = 1 /\ config_status' = 2
        /\ UNCHANGED <<time_zone, current_tz_offset, power>>
    BY <1>3 DEF ChooseName
  <2> QED  BY <2>1, <2>2 DEF Abstract!NameChosen, Abstract!Typed, Abstract!Next
<1>4. CASE ChooseZone
  <2>1. Mode = "setup" /\ Mode' = Mode
    BY <1>4 DEF ChooseZone, modeVars
  <2>2. CASE key_buffer \in DOMAIN tz_table
    <3>1. /\ config_status = 2 /\ config_status' = 3
          /\ time_zone' = key_buffer
          /\ current_tz_offset' = tz_table[key_buffer]
          /\ power' = power
      BY <1>4, <2>2 DEF ChooseZone
    <3> QED  BY <2>1, <2>2, <3>1 DEF Abstract!ZoneChosen, Abstract!Typed, Abstract!Next
  <2>3. CASE key_buffer \notin DOMAIN tz_table
    BY <1>4, <2>3, SessionStutter DEF ChooseZone, setupVars
  <2> QED  BY <2>2, <2>3
<1>5. CASE FinishSetup
  <2>1. CASE LineIs("exit")
    <3>1. Mode = "setup" /\ Mode' = "menu" /\ config_status = 3
      BY <1>5, <2>1 DEF FinishSetup
    <3>2. UNCHANGED <<setupVars, power>>
      BY <1>5 DEF FinishSetup
    <3> QED  BY <3>1, <3>2 DEF Abstract!Leave, Abstract!Typed, Abstract!Next, setupVars
  <2>2. CASE ~LineIs("exit")
    BY <1>5, <2>2, SessionStutter DEF FinishSetup, modeVars
  <2> QED  BY <2>1, <2>2
<1>6. CASE LeaveShell
  <2>1. Mode = "shell" /\ Mode' = "menu" 
         /\ UNCHANGED <<setupVars, power>>
    BY <1>6 DEF LeaveShell, InShell
  <2> QED  BY <2>1 DEF Abstract!Leave, Abstract!Typed, Abstract!Next, setupVars
<1>7. CASE MenuHint \/ PowerCommand \/ ShellCommand \/ StellarHangs
  <2>1. UNCHANGED <<modeVars, setupVars>>
    BY <1>7 DEF MenuHint, PowerCommand, ShellCommand, StellarHangs
  <2>2. CASE power' = "on"  BY <2>1, <2>2, SessionStutter
  <2>3. CASE power' # "on"  BY <2>1, <2>3, SessionStop
  <2> QED  BY <2>2, <2>3
<1> QED  BY <1>1, <1>2, <1>3, <1>4, <1>5, <1>6, <1>7 DEF Enter

LEMMA NextSession ==
  ASSUME TypeOK, ModesExclusive, [Next]_vars
  PROVE  [Abstract!Next]_(Abstract!vars)
<1>1. CASE Shift
  BY <1>1, ShiftFrame, SessionStutter
<1>2. CASE PowerCycle
  BY <1>2 DEF PowerCycle, Mode, Abstract!Next, Abstract!Restart, Abstract!Init
<1>p. CASE PowerLost
  BY <1>p, SessionStop DEF PowerLost
<1>3. ASSUME NEW sc \in Scancode, Key(sc)
      PROVE  [Abstract!Next]_(Abstract!vars)
  <2>1. CASE Enter
    BY <1>3, <2>1, EnterSession DEF Key, Running
  <2>2. CASE EraseChar
    BY <2>2, SessionStutter DEF EraseChar
  <2>3. CASE DeadKey
    BY <2>3, SessionStutter DEF DeadKey, vars
  <2>4. CASE TypeChar(CharOf(sc))
    BY <2>4, SessionStutter DEF TypeChar
  <2> QED  BY <1>3, <2>1, <2>2, <2>3, <2>4 DEF Key
<1>4. CASE UNCHANGED vars
  BY <1>4, SessionStutter DEF vars
<1> QED  BY <1>1, <1>2, <1>p, <1>3, <1>4 DEF Next

(* Every behaviour of the handler is one that Session allows.              *)
THEOREM TerminalImplementsSession == Spec => ImplementsSession
<1>1. Init => Abstract!Init
  BY DEF Init, Mode, Abstract!Init
<1>2. Inv /\ [Next]_vars => [Abstract!Next]_(Abstract!vars)
  BY NextSession DEF Inv
<1> QED
  BY InitInv, NextInv, <1>1, <1>2, PTL DEF Spec, ImplementsSession, Abstract!Spec

-----------------------------------------------------------------------------
(* main() and the interrupt handlers around the terminal.                  *)

SleepLabel == {"sleep", "wait", "hlt_sleep", "halted_sleep", "awake"}
PassLabel  == {"time", "blink", "args", "args_x", "args_y", "draw", "stamp"}
LoopLabel  == PassLabel \cup {"hlt_loop", "halted_loop"}

(* Another sleep of the animation is to come.                              *)
Booting == pc \in SleepLabel => frame < Frames

(* since is what main() computes from two counters that wrap.              *)
SinceExact ==
  since < TickMod => (timer_ticks - last_blink) % TickMod = since

(* A pass of the loop that goes to hlt found the blink not due, and of the *)
(* next only the ticks before its test are added.                          *)
PassBound ==
  blinked =>
    /\ pc \in LoopLabel
    /\ pc \in PassLabel => since <= BlinkTicks + MaxLate + late
    /\ pc = "hlt_loop" => since <= BlinkTicks - 1 + late
    /\ pc = "halted_loop" => since <= BlinkTicks - 1 + MaxLate

(* LineInv of the terminal, but for the line that main() has moved from    *)
(* under the cursor.                                                       *)
KernelLineInv == ~displaced => LineInv

KInv ==
  /\ KernelTypeOK /\ ModesExclusive /\ BarsExplained /\ KernelLineInv
  /\ Booting /\ SinceExact /\ PassBound

-----------------------------------------------------------------------------
(* A number that is out of the counter's range by less than the range.     *)
LEMMA WrapsOnce ==
  ASSUME NEW d \in Nat \ {0}, NEW a \in Int, -d <= a, a < 2 * d
  PROVE  a % d = IF a < 0 THEN a + d ELSE IF a < d THEN a ELSE a - d
<1> DEFINE q == a \div d
           r == a % d
<1>1. q \in Int /\ r \in 0 .. d - 1 /\ a = d * q + r  OBVIOUS
<1> HIDE DEF q, r
<1>2. \A k \in Nat : d * k \in Nat  OBVIOUS
<1>3. q < 2
  <2>1. SUFFICES ASSUME q >= 2 PROVE FALSE  BY <1>1
  <2>2. q - 2 \in Nat  BY <1>1, <2>1
  <2>3. d * (q - 2) \in Nat /\ d * (q - 2) = d * q - 2 * d  BY <1>1, <1>2, <2>2
  <2>4. d * q \in Int  BY <1>1
  <2> QED  BY <1>1, <2>3, <2>4
<1>4. q > -2
  <2>1. SUFFICES ASSUME q <= -2 PROVE FALSE  BY <1>1
  <2>2. -2 - q \in Nat  BY <1>1, <2>1
  <2>3. d * (-2 - q) \in Nat /\ d * (-2 - q) = -2 * d - d * q  BY <1>1, <1>2, <2>2
  <2>4. d * q \in Int  BY <1>1
  <2> QED  BY <1>1, <2>3, <2>4
<1>5. q \in {-1, 0, 1}  BY <1>1, <1>3, <1>4
<1>6. r = IF a < 0 THEN a + d ELSE IF a < d THEN a ELSE a - d
  BY <1>1, <1>5
<1> QED  BY <1>6 DEF r

(* A tick adds one to the difference that main() computes, until that      *)
(* wraps too.                                                              *)
LEMMA TickDifference ==
  ASSUME NEW d \in Nat \ {0}, NEW n \in 0 .. d - 1, NEW b \in 0 .. d - 1,
         ((n - b) % d) + 1 < d
  PROVE  (((n + 1) % d) - b) % d = ((n - b) % d) + 1
<1>0. \A a \in Int : -d <= a /\ a < 2 * d =>
        a % d = IF a < 0 THEN a + d ELSE IF a < d THEN a ELSE a - d
  BY WrapsOnce
<1>1. (n - b) % d = IF n < b THEN n - b + d ELSE n - b  BY <1>0
<1>2. (n + 1) % d = IF n + 1 < d THEN n + 1 ELSE 0  BY <1>0
<1>3. CASE n + 1 < d
  <2>1. (n + 1 - b) % d = IF n + 1 < b THEN n + 1 - b + d ELSE n + 1 - b
    BY <1>0, <1>3
  <2> QED  BY <1>1, <1>2, <1>3, <2>1
<1>4. CASE ~(n + 1 < d)
  <2>1. n = d - 1 /\ (n + 1) % d = 0 /\ b # 0  BY <1>1, <1>2, <1>4
  <2>2. (0 - b) % d = d - b  BY <1>0, <2>1
  <2> QED  BY <1>1, <2>1, <2>2
<1> QED  BY <1>3, <1>4

-----------------------------------------------------------------------------
(* Type correctness.                                                       *)

(* For the terminal, an interrupt of the keyboard is a step of its own.    *)
LEMMA KeyIsStep ==
  ASSUME KeyInterrupt
  PROVE  [Next]_vars /\ UNCHANGED timeVars
         /\ UNCHANGED <<frame, eticks, last_blink, cursor_visible, arg, blinked>>
BY DEF KeyInterrupt, Next, Wake

(* main() touches the terminal in two places only.                         *)
LEMMA MainLeaves ==
  ASSUME MainStep
  PROVE  UNCHANGED vars \/ KeyboardInit \/ SetCursor
BY DEF MainStep, SleepBegin, SleepTest, SleepHalt, SleepEnd, ClearScreen,
       ShowTime, BlinkTest, ReadArgs, DrawCursor, StampBlink, LoopHalt

(* The types of the terminal serve here too.                               *)
LEMMA TerminalTypes ==
  ASSUME TypeOK, [KernelNext]_kernelVars
  PROVE  TypeOK'
<1>1. CASE KeyInterrupt  BY <1>1, KeyIsStep, NextTypeOK
<1>2. CASE UNCHANGED vars  BY <1>2, NextTypeOK
<1>3. CASE KeyboardInit
  <2>1. key_buffer' = << >> /\ Len(key_buffer') = 0 /\ key_buffer' \in Seq(Char)
    BY <1>3 DEF KeyboardInit
  <2>2. origin' = <<cursor_x, cursor_y>>  BY <1>3 DEF KeyboardInit, Cursor
  <2>3. UNCHANGED <<keyVars, cursorVars, modeVars, setupVars, power>>
    BY <1>3 DEF KeyboardInit
  <2> QED
    BY <2>1, <2>2, <2>3, LayoutAssumption
       DEF TypeOK, keyVars, cursorVars, modeVars, setupVars
<1>4. ASSUME NEW x \in Nat, NEW y \in Nat, MoveCursor(x, y)  PROVE TypeOK'
  <2>1. cursor_x' \in Nat /\ cursor_y' \in Nat /\ origin' \in {<<x, y>>, origin}
    BY <1>4 DEF MoveCursor
  <2>2. UNCHANGED <<keyVars, key_buffer, modeVars, setupVars, power>>
    BY <1>4 DEF MoveCursor
  <2> QED
    BY <2>1, <2>2 DEF TypeOK, keyVars, modeVars, setupVars
<1>5. CASE SetCursor
  BY <1>4, <1>5 DEF SetCursor, TypeOK
<1>6. CASE Tick  BY <1>2, <1>6 DEF Tick
<1> QED
  BY <1>1, <1>2, <1>3, <1>5, <1>6, MainLeaves DEF KernelNext, kernelVars

LEMMA KernelTypeInit == BootInit => KernelTypeOK
<1> SUFFICES ASSUME BootInit PROVE KernelTypeOK  OBVIOUS
<1> USE ClockAssumption, LayoutAssumption
<1>1. TypeOK
  <2>1. key_buffer \in Seq(Char) /\ Len(key_buffer) <= LineLimit
    BY DEF BootInit
  <2>2. origin \in Nat \X Nat  BY DEF BootInit
  <2>3. fake_shift \in BOOLEAN  BY Zenon DEF BootInit
  <2> QED  BY <2>1, <2>2, <2>3 DEF BootInit, TypeOK
<1>2. 0 \in 0 .. TickMod - 1 /\ 0 \in 0 .. TickMod /\ 0 \in 0 .. MaxLate
      /\ 0 \in 0 .. Frames
  OBVIOUS
<1>3. cursor_visible \in BOOLEAN /\ blinked \in BOOLEAN /\ displaced \in BOOLEAN
  BY Zenon DEF BootInit
<1>4. arg \in Nat \X Nat /\ bars \subseteq Nat \X Nat /\ strays \subseteq bars
  BY DEF BootInit
<1> QED  BY <1>1, <1>2, <1>3, <1>4 DEF BootInit, KernelTypeOK, Label

(* What is painted stays on the screen, and a stray bar is a bar.          *)
LEMMA PaintTypes ==
  ASSUME KernelTypeOK, [KernelNext]_kernelVars
  PROVE  bars' \subseteq Nat \X Nat /\ strays' \subseteq bars'
<1>0. /\ Cursor \in Nat \X Nat /\ arg \in Nat \X Nat
      /\ bars \subseteq Nat \X Nat /\ strays \subseteq bars
  BY DEF KernelTypeOK, TypeOK, Cursor
<1>1. Cursor' \in Nat \X Nat
  <2>1. TypeOK'  BY TerminalTypes DEF KernelTypeOK
  <2> QED  BY <2>1 DEF TypeOK, Cursor
<1>2. CASE UNCHANGED paintVars  BY <1>0, <1>2 DEF paintVars
<1>3. ASSUME NEW cells, Paint(cells), cells \subseteq bars \cup {Cursor'}
      PROVE  bars' \subseteq Nat \X Nat /\ strays' \subseteq bars'
  BY <1>0, <1>1, <1>3 DEF Paint
<1>4. CASE KeyInterrupt
  <2>1. CASE EnterPaint
    BY <1>3, <2>1 DEF EnterPaint, Cleared, OnCleared, Moved
  <2>2. CASE InPlace  BY <1>3, <2>2 DEF InPlace
  <2> QED  BY <1>2, <1>4, <2>1, <2>2 DEF KeyInterrupt
<1>5. CASE SetCursor
  <2>1. bars' = bars /\ strays' = strays \cup (bars \cap {Cursor})
    BY <1>5 DEF SetCursor, MoveCursor
  <2> QED  BY <1>0, <2>1
<1>6. CASE DrawCursor
  <2>1. CASE cursor_visible
    BY <1>0, <1>6, <2>1 DEF DrawCursor
  <2>2. CASE ~cursor_visible
    BY <1>0, <1>6, <2>2 DEF DrawCursor
  <2> QED  BY <2>1, <2>2
<1>7. CASE SleepEnd \/ ClearScreen
  <2>1. (bars' = {} /\ strays' = {}) \/ UNCHANGED paintVars
    BY <1>7 DEF SleepEnd, ClearScreen
  <2> QED  BY <1>2, <2>1
<1>8. \/ SleepBegin \/ SleepTest \/ SleepHalt \/ KeyboardInit \/ ShowTime
      \/ BlinkTest \/ ReadArgs \/ StampBlink \/ LoopHalt \/ Tick \/ UNCHANGED kernelVars
      => UNCHANGED paintVars
  BY DEF SleepBegin, SleepTest, SleepHalt, KeyboardInit, ShowTime, BlinkTest,
         ReadArgs, StampBlink, LoopHalt, Tick, kernelVars
<1> QED
  BY <1>2, <1>4, <1>5, <1>6, <1>7, <1>8 DEF KernelNext, MainStep

(* Every step of main(), of the timer and of a key keeps the types.        *)
LEMMA KernelTypeStep ==
  ASSUME KernelTypeOK, Booting, [KernelNext]_kernelVars
  PROVE  KernelTypeOK' /\ Booting'
<1> USE DEF KernelTypeOK
<1>1. TypeOK'  BY TerminalTypes
<1>2. bars' \subseteq Nat \X Nat /\ strays' \subseteq bars'  BY PaintTypes
<1>3. \A a \in Int : a % TickMod \in 0 .. TickMod - 1  BY ClockAssumption
<1>4. pc' \in Label /\ frame' \in 0 .. Frames /\ Booting'
  <2>1. CASE SleepEnd
    <3>1. frame < Frames /\ frame' = frame + 1
          /\ pc' = IF frame' = Frames THEN "clear" ELSE "sleep"
      BY <2>1 DEF SleepEnd, At, GoTo, Booting, SleepLabel
    <3> QED  BY <3>1, ClockAssumption DEF Label, Booting, SleepLabel
  <2>2. CASE UNCHANGED <<pc, frame>>  BY <2>2 DEF Booting
  <2>3. CASE SleepBegin \/ SleepTest \/ SleepHalt
    BY <2>3 DEF SleepBegin, SleepTest, SleepHalt, At, GoTo, Halt, Label,
                Booting, SleepLabel
  <2>4. CASE Tick \/ KeyInterrupt
    <3>1. Wake  BY <2>4 DEF Tick, KeyInterrupt
    <3> QED  BY <3>1 DEF Wake, Label, Booting, SleepLabel
  <2>5. CASE ClearScreen \/ KeyboardInit \/ SetCursor \/ ShowTime
    BY <2>5 DEF ClearScreen, KeyboardInit, SetCursor, MoveCursor, ShowTime, GoTo,
                Label, Booting, SleepLabel
  <2>6. CASE BlinkTest \/ ReadArgs \/ DrawCursor \/ StampBlink \/ LoopHalt
    BY <2>6 DEF BlinkTest, ReadArgs, DrawCursor, StampBlink, LoopHalt, GoTo, Halt,
                Label, Booting, SleepLabel
  <2> QED
    BY <2>1, <2>2, <2>3, <2>4, <2>5, <2>6 DEF KernelNext, MainStep, kernelVars, mainVars
<1>5. eticks' \in 0 .. TickMod - 1 /\ timer_ticks' \in 0 .. TickMod - 1
      /\ last_blink' \in 0 .. TickMod - 1
  <2>1. CASE SleepBegin
    BY <1>3, <2>1, ClockAssumption DEF SleepBegin, timeVars
  <2>2. CASE SleepEnd
    BY <2>2, ClockAssumption DEF SleepEnd, timeVars
  <2>3. CASE StampBlink
    BY <2>3 DEF StampBlink
  <2>4. CASE Tick
    BY <1>3, <2>4, ClockAssumption DEF Tick, Wake
  <2>5. CASE UNCHANGED <<eticks, timer_ticks, last_blink>>  BY <2>5
  <2>6. \/ SleepTest \/ SleepHalt \/ ClearScreen \/ KeyboardInit \/ SetCursor
        \/ ShowTime \/ BlinkTest \/ ReadArgs \/ DrawCursor \/ LoopHalt
        \/ KeyInterrupt \/ UNCHANGED kernelVars
        => UNCHANGED <<eticks, timer_ticks, last_blink>>
    BY KeyIsStep
       DEF SleepTest, SleepHalt, ClearScreen, KeyboardInit, SetCursor, MoveCursor,
           ShowTime, BlinkTest, ReadArgs, DrawCursor, LoopHalt, kernelVars,
           mainVars, timeVars
  <2> QED
    BY <2>1, <2>2, <2>3, <2>4, <2>5, <2>6 DEF KernelNext, MainStep
<1>6. since' \in 0 .. TickMod /\ late' \in 0 .. MaxLate
  <2>1. CASE Tick
    BY <2>1, ClockAssumption DEF Tick, Halted
  <2>2. CASE SleepHalt \/ LoopHalt
    BY <2>2, ClockAssumption DEF SleepHalt, LoopHalt, Halt
  <2>3. CASE StampBlink
    BY <2>3, ClockAssumption DEF StampBlink
  <2>4. CASE UNCHANGED <<since, late>>  BY <2>4
  <2>5. \/ SleepBegin \/ SleepTest \/ SleepEnd \/ ClearScreen \/ KeyboardInit
        \/ SetCursor \/ ShowTime \/ BlinkTest \/ ReadArgs \/ DrawCursor
        \/ KeyInterrupt \/ UNCHANGED kernelVars
        => UNCHANGED <<since, late>>
    BY KeyIsStep
       DEF SleepBegin, SleepTest, SleepEnd, ClearScreen, KeyboardInit, SetCursor,
           MoveCursor, ShowTime, BlinkTest, ReadArgs, DrawCursor, kernelVars, timeVars
  <2> QED
    BY <2>1, <2>2, <2>3, <2>4, <2>5 DEF KernelNext, MainStep
<1>7. arg' \in Nat \X Nat
  <2>1. CASE ReadArgs
    <3>1. cursor_x \in Nat /\ cursor_y \in Nat  BY DEF TypeOK
    <3>2. \/ arg' = [arg EXCEPT ![1] = cursor_x]
          \/ arg' = [arg EXCEPT ![2] = cursor_y]
      BY <2>1 DEF ReadArgs
    <3> QED  BY <3>1, <3>2
  <2>2. CASE DrawCursor  BY <2>2 DEF DrawCursor
  <2>3. \/ SleepBegin \/ SleepTest \/ SleepHalt \/ SleepEnd \/ ClearScreen
        \/ KeyboardInit \/ SetCursor \/ ShowTime \/ BlinkTest \/ StampBlink
        \/ LoopHalt \/ Tick \/ KeyInterrupt \/ UNCHANGED kernelVars
        => arg' = arg
    BY KeyIsStep
       DEF SleepBegin, SleepTest, SleepHalt, SleepEnd, ClearScreen, KeyboardInit,
           SetCursor, MoveCursor, ShowTime, BlinkTest, StampBlink, LoopHalt,
           Tick, Wake, kernelVars, mainVars
  <2> QED  BY <2>1, <2>2, <2>3 DEF KernelNext, MainStep
<1>8. cursor_visible' \in BOOLEAN
  <2>1. CASE BlinkTest
    <3>1. cursor_visible' = ~cursor_visible \/ cursor_visible' = cursor_visible
      BY <2>1 DEF BlinkTest
    <3> QED  BY <3>1
  <2>2. \/ SleepBegin \/ SleepTest \/ SleepHalt \/ SleepEnd \/ ClearScreen
        \/ KeyboardInit \/ SetCursor \/ ShowTime \/ ReadArgs \/ DrawCursor
        \/ StampBlink \/ LoopHalt \/ Tick \/ KeyInterrupt \/ UNCHANGED kernelVars
        => cursor_visible' = cursor_visible
    BY KeyIsStep
       DEF SleepBegin, SleepTest, SleepHalt, SleepEnd, ClearScreen, KeyboardInit,
           SetCursor, MoveCursor, ShowTime, ReadArgs, DrawCursor, StampBlink,
           LoopHalt, Tick, Wake, kernelVars, mainVars
  <2> QED  BY <2>1, <2>2 DEF KernelNext, MainStep
<1>9. blinked' \in BOOLEAN
  <2>1. CASE StampBlink  BY <2>1 DEF StampBlink
  <2>2. \/ SleepBegin \/ SleepTest \/ SleepHalt \/ SleepEnd \/ ClearScreen
        \/ KeyboardInit \/ SetCursor \/ ShowTime \/ BlinkTest \/ ReadArgs
        \/ DrawCursor \/ LoopHalt \/ Tick \/ KeyInterrupt \/ UNCHANGED kernelVars
        => blinked' = blinked
    BY KeyIsStep
       DEF SleepBegin, SleepTest, SleepHalt, SleepEnd, ClearScreen, KeyboardInit,
           SetCursor, MoveCursor, ShowTime, BlinkTest, ReadArgs, DrawCursor,
           LoopHalt, Tick, Wake, kernelVars
  <2> QED  BY <2>1, <2>2 DEF KernelNext, MainStep
<1>10. displaced' \in BOOLEAN
  <2>1. CASE SetCursor
    <3>1. displaced' = (displaced \/ key_buffer # << >>)
      BY <2>1 DEF SetCursor, MoveCursor
    <3> QED  BY <3>1
  <2>2. CASE KeyInterrupt
    <3>1. displaced' = displaced \/ displaced' = (displaced /\ power' # "on")
      BY <2>2 DEF KeyInterrupt
    <3> QED  BY <3>1
  <2>3. \/ SleepBegin \/ SleepTest \/ SleepHalt \/ SleepEnd \/ ClearScreen
        \/ KeyboardInit \/ ShowTime \/ BlinkTest \/ ReadArgs \/ DrawCursor
        \/ StampBlink \/ LoopHalt \/ Tick \/ UNCHANGED kernelVars
        => displaced' = displaced
    BY DEF SleepBegin, SleepTest, SleepHalt, SleepEnd, ClearScreen, KeyboardInit,
           ShowTime, BlinkTest, ReadArgs, DrawCursor, StampBlink, LoopHalt,
           Tick, kernelVars
  <2> QED  BY <2>1, <2>2, <2>3 DEF KernelNext, MainStep
<1> QED
  BY <1>1, <1>2, <1>4, <1>5, <1>6, <1>7, <1>8, <1>9, <1>10

-----------------------------------------------------------------------------
(* The cursor bars.                                                        *)

LEMMA BarsStep ==
  ASSUME KernelTypeOK, BarsExplained, [KernelNext]_kernelVars
  PROVE  BarsExplained'
<1>0. bars \subseteq {Cursor} \cup strays  BY DEF BarsExplained
<1> USE DEF BarsExplained
<1>1. CASE UNCHANGED <<vars, paintVars>>
  BY <1>0, <1>1 DEF vars, cursorVars, Cursor, paintVars
<1>2. ASSUME NEW cells, Paint(cells), cells \subseteq (bars \ {Cursor}) \cup {Cursor'}
      PROVE  BarsExplained'
  BY <1>0, <1>2 DEF Paint
<1>3. CASE KeyInterrupt
  <2>1. CASE EnterPaint
    BY <1>2, <2>1 DEF EnterPaint, Cleared, OnCleared, Moved
  <2>2. CASE InPlace  BY <1>2, <2>2 DEF InPlace
  <2>3. CASE Shift /\ UNCHANGED paintVars
    <3>1. UNCHANGED cursorVars  BY <2>3, ShiftFrame
    <3> QED  BY <1>0, <2>3, <3>1 DEF cursorVars, Cursor, paintVars
  <2> QED  BY <1>3, <2>1, <2>2, <2>3 DEF KeyInterrupt
<1>4. CASE SetCursor
  <2>1. bars' = bars /\ strays' = strays \cup (bars \cap {Cursor})
    BY <1>4 DEF SetCursor, MoveCursor
  <2> QED  BY <1>0, <2>1
<1>5. CASE DrawCursor
  <2>1. Cursor' = Cursor  BY <1>5 DEF DrawCursor, vars, cursorVars, Cursor
  <2>2. CASE cursor_visible
    <3>1. bars' = bars \cup {arg} /\ strays' = strays \cup ({arg} \ {Cursor})
      BY <1>5, <2>2 DEF DrawCursor
    <3> QED  BY <1>0, <2>1, <3>1
  <2>3. CASE ~cursor_visible
    <3>1. bars' = bars \ {arg} /\ strays' = strays \ {arg}
      BY <1>5, <2>3 DEF DrawCursor
    <3> QED  BY <1>0, <2>1, <3>1
  <2> QED  BY <2>2, <2>3
<1>6. CASE SleepEnd \/ ClearScreen
  <2>1. \/ bars' = {}
        \/ UNCHANGED <<vars, paintVars>>
    BY <1>6 DEF SleepEnd, ClearScreen
  <2> QED  BY <1>1, <2>1
<1>7. CASE KeyboardInit
  BY <1>0, <1>7 DEF KeyboardInit, cursorVars, Cursor, paintVars
<1>8. \/ SleepBegin \/ SleepTest \/ SleepHalt \/ ShowTime \/ BlinkTest
      \/ ReadArgs \/ StampBlink \/ LoopHalt \/ Tick \/ UNCHANGED kernelVars
      => UNCHANGED <<vars, paintVars>>
  BY DEF SleepBegin, SleepTest, SleepHalt, ShowTime, BlinkTest, ReadArgs,
         StampBlink, LoopHalt, Tick, kernelVars
<1> QED
  BY <1>1, <1>3, <1>4, <1>5, <1>6, <1>7, <1>8 DEF KernelNext, MainStep

-----------------------------------------------------------------------------
(* The line.                                                               *)

(* A new line, wherever it is, is covered.                                 *)
LEMMA NewLineCovered ==
  ASSUME NEW x \in Nat, NEW y \in Nat, NewLine(x, y)
  PROVE  LineInv'
<1>1. /\ origin'[1] = x /\ origin'[2] = y /\ cursor_x' = x /\ cursor_y' = y
      /\ Len(key_buffer') = 0
  BY NewLineFacts
<1>2. y * COLS + x \in Int  BY LayoutAssumption
<1> QED  BY <1>1, <1>2 DEF LineInv, Cell

(* An Enter after which the machine runs on begins a new line.             *)
LEMMA EnterAlive ==
  ASSUME TypeOK, Enter, power' = "on"
  PROVE  \E x, y \in Nat : NewLine(x, y)
<1>1. ~StellarHangs  BY DEF StellarHangs
<1>2. CASE PowerCommand
  <2>1. Prompt(cursor_y + 1)  BY <1>2 DEF PowerCommand
  <2>2. cursor_y + 1 + 1 \in Nat /\ 1 \in Nat  BY DEF TypeOK
  <2> QED  BY <2>1, <2>2 DEF Prompt
<1>3. CASE ~PowerCommand
  <2>1. CASE \E x, y \in Nat : NewLine(x, y)  BY <2>1
  <2>2. CASE StartShell
    <3>1. user_length + 3 \in Nat /\ 1 \in Nat  BY LayoutAssumption DEF TypeOK
    <3> QED  BY <2>2, <3>1 DEF StartShell
  <2>3. ASSUME NEW status \in 1 .. 3, start_config(status)
        PROVE  \E x, y \in Nat : NewLine(x, y)
    <3>1. PICK x \in 0 .. COLS - 1, y \in Nat : NewLine(x, y)
      BY <2>3, StartConfigFacts
    <3> QED  BY <3>1
  <2>4. CASE StartSetup \/ ChooseName \/ ChooseZone
    <3>1. config_status \in 1 .. 3 /\ config_status' \in 1 .. 3
      BY EnterTypes DEF TypeOK
    <3> QED  BY <2>3, <2>4, <3>1 DEF StartSetup, ChooseName, ChooseZone
  <2>5. ASSUME NEW y \in Nat, Prompt(y)
        PROVE  \E a, b \in Nat : NewLine(a, b)
    <3>1. y + 1 \in Nat /\ 1 \in Nat  OBVIOUS
    <3> QED  BY <2>5, <3>1 DEF Prompt
  <2>6. CASE FinishSetup
    <3>1. NewLine(1, 1) \/ Prompt(cursor_y)  BY <2>6 DEF FinishSetup
    <3> QED  BY <2>5, <3>1 DEF TypeOK
  <2>7. CASE MenuHint
    <3>1. Prompt(cursor_y + 1) /\ cursor_y + 1 \in Nat  BY <2>7 DEF MenuHint, TypeOK
    <3> QED  BY <2>5, <3>1
  <2>8. CASE LeaveShell  BY <2>5, <2>8 DEF LeaveShell
  <2>9. CASE ShellCommand
    <3>1. RowsPrinted \subseteq Nat  BY LayoutAssumption DEF RowsPrinted
    <3>2. Prompt(1) \/ \E n \in Nat : Prompt(cursor_y + 1 + n)
      BY <2>9, <3>1 DEF ShellCommand
    <3>3. \A n \in Nat : cursor_y + 1 + n \in Nat  BY DEF TypeOK
    <3> QED  BY <2>5, <3>2, <3>3
  <2> QED
    BY <1>1, <1>3, <2>2, <2>4, <2>6, <2>7, <2>8, <2>9 DEF Enter
<1> QED  BY <1>2, <1>3

(* Every step keeps the line covered.                                      *)
LEMMA KernelLineStep ==
  ASSUME KernelTypeOK, KernelLineInv, [KernelNext]_kernelVars
  PROVE  KernelLineInv'
<1>0. TypeOK /\ (~displaced => LineInv)  BY DEF KernelTypeOK, KernelLineInv
<1> USE DEF KernelLineInv
<1>1. CASE [Next]_vars /\ displaced' = displaced
  BY <1>0, <1>1, NextLine
<1>2. CASE KeyInterrupt
  <2>1. [Next]_vars  BY <1>2, KeyIsStep
  <2>2. ASSUME NEW sc \in Scancode, Key(sc), CharOf(sc) = Newline,
               displaced' = (displaced /\ power' # "on")
        PROVE  KernelLineInv'
    <3>1. CASE displaced /\ power' = "on"
      <4>1. Enter  BY <2>2, MapsAssumption DEF Key, Newline, Backspace, NoChar
      <4>2. PICK x, y \in Nat : NewLine(x, y)  BY <1>0, <3>1, <4>1, EnterAlive
      <4> QED  BY <4>2, NewLineCovered
    <3>2. CASE ~(displaced /\ power' = "on")
      <4>1. ~displaced' => ~displaced  BY <2>2, <3>2
      <4> QED  BY <1>0, <2>1, <4>1, NextLine
    <3> QED  BY <3>1, <3>2
  <2> QED  BY <1>1, <1>2, <2>1, <2>2 DEF KeyInterrupt
<1>3. CASE KeyboardInit
  <2>1. /\ Len(key_buffer') = 0 /\ origin' = <<cursor_x, cursor_y>>
        /\ cursor_x' = cursor_x /\ cursor_y' = cursor_y
    BY <1>3 DEF KeyboardInit, Cursor, cursorVars
  <2>2. cursor_y * COLS + cursor_x \in Int
    BY <1>0, LayoutAssumption DEF TypeOK
  <2>3. origin'[1] = cursor_x /\ origin'[2] = cursor_y  BY <2>1
  <2> QED  BY <2>1, <2>2, <2>3 DEF LineInv, Cell
<1>4. ASSUME NEW x \in Nat, NEW y \in Nat, MoveCursor(x, y)
      PROVE  KernelLineInv'
  <2>1. CASE key_buffer # << >>
    <3>1. displaced'  BY <1>4, <2>1 DEF MoveCursor
    <3> QED  BY <3>1
  <2>2. CASE key_buffer = << >>
    <3>1. NewLine(x, y)  BY <1>4, <2>2 DEF MoveCursor, NewLine
    <3> QED  BY <3>1, NewLineCovered
  <2> QED  BY <2>1, <2>2
<1>5. CASE SetCursor
  <2>1. cursor_x \in Nat /\ cursor_y \in Nat  BY <1>0 DEF TypeOK
  <2> QED  BY <1>4, <1>5, <2>1 DEF SetCursor
<1>6. \/ SleepBegin \/ SleepTest \/ SleepHalt \/ SleepEnd \/ ClearScreen
      \/ ShowTime \/ BlinkTest \/ ReadArgs \/ DrawCursor \/ StampBlink
      \/ LoopHalt \/ Tick \/ UNCHANGED kernelVars
      => UNCHANGED vars /\ displaced' = displaced
  BY DEF SleepBegin, SleepTest, SleepHalt, SleepEnd, ClearScreen, ShowTime,
         BlinkTest, ReadArgs, DrawCursor, StampBlink, LoopHalt, Tick, kernelVars
<1> QED
  BY <1>1, <1>2, <1>3, <1>5, <1>6 DEF KernelNext, MainStep

-----------------------------------------------------------------------------
(* The blink.                                                              *)

(* What main() tests is the count that does not wrap, as long as that is   *)
(* below the width of the counter.                                         *)
LEMMA DueFacts ==
  ASSUME KernelTypeOK, SinceExact
  PROVE  /\ BlinkDue => since >= BlinkTicks
         /\ ~BlinkDue => since < BlinkTicks \/ since = TickMod
BY ClockAssumption DEF KernelTypeOK, SinceExact, BlinkDue

(* The ticks since the last blink are what timer_ticks says, modulo its    *)
(* width.                                                                  *)
LEMMA SinceStep ==
  ASSUME KernelTypeOK, SinceExact, [KernelNext]_kernelVars
  PROVE  SinceExact'
<1>0. /\ TickMod \in Nat \ {0}
      /\ timer_ticks \in 0 .. TickMod - 1 /\ last_blink \in 0 .. TickMod - 1
      /\ since \in 0 .. TickMod
  BY ClockAssumption DEF KernelTypeOK
<1>1. CASE UNCHANGED <<since, timer_ticks, last_blink>>
  BY <1>1 DEF SinceExact
<1>2. CASE Tick
  <2>1. /\ timer_ticks' = (timer_ticks + 1) % TickMod /\ last_blink' = last_blink
        /\ since' = IF since < TickMod THEN since + 1 ELSE since
    BY <1>2 DEF Tick, Wake
  <2>2. SUFFICES ASSUME since' < TickMod
                 PROVE  (timer_ticks' - last_blink') % TickMod = since'
    BY DEF SinceExact
  <2>3. since < TickMod /\ since' = since + 1  BY <1>0, <2>1, <2>2
  <2>4. (timer_ticks - last_blink) % TickMod = since  BY <2>3 DEF SinceExact
  <2>5. ((timer_ticks - last_blink) % TickMod) + 1 < TickMod
    BY <2>2, <2>3, <2>4
  <2>6. (((timer_ticks + 1) % TickMod) - last_blink) % TickMod
          = ((timer_ticks - last_blink) % TickMod) + 1
    BY <1>0, <2>5, TickDifference
  <2> QED  BY <2>1, <2>3, <2>4, <2>6
<1>3. CASE StampBlink
  <2>1. timer_ticks' = timer_ticks /\ last_blink' = timer_ticks /\ since' = 0
    BY <1>3 DEF StampBlink
  <2>2. timer_ticks - timer_ticks = 0 /\ 0 % TickMod = 0  BY <1>0
  <2> QED  BY <2>1, <2>2 DEF SinceExact
<1>4. \/ SleepBegin \/ SleepTest \/ SleepHalt \/ SleepEnd \/ ClearScreen
      \/ KeyboardInit \/ SetCursor \/ ShowTime \/ BlinkTest \/ ReadArgs
      \/ DrawCursor \/ LoopHalt \/ KeyInterrupt \/ UNCHANGED kernelVars
      => UNCHANGED <<since, timer_ticks, last_blink>>
  BY KeyIsStep
     DEF SleepBegin, SleepTest, SleepHalt, SleepEnd, ClearScreen, KeyboardInit,
         SetCursor, MoveCursor, ShowTime, BlinkTest, ReadArgs, DrawCursor,
         LoopHalt, kernelVars, mainVars, timeVars
<1> QED  BY <1>1, <1>2, <1>3, <1>4 DEF KernelNext, MainStep

(* A pass of the loop is late by at most MaxLate ticks.                    *)
LEMMA PassStep ==
  ASSUME KernelTypeOK, SinceExact, PassBound, [KernelNext]_kernelVars
  PROVE  PassBound'
<1>0. /\ TickMod \in Nat \ {0} /\ BlinkTicks \in Nat \ {0} /\ MaxLate \in Nat
      /\ BlinkTicks + 2 * MaxLate + 1 < TickMod
      /\ since \in 0 .. TickMod /\ late \in 0 .. MaxLate
  BY ClockAssumption DEF KernelTypeOK
<1> USE DEF PassBound, LoopLabel, PassLabel
<1>1. CASE Tick
  <2>1. CASE Halted
    <3>1. /\ late' = late
          /\ since' \in Nat
          /\ since' <= since + 1
          /\ blinked' = blinked
          /\ \/ pc = "halted_sleep" /\ pc' = "wait"
             \/ pc = "halted_loop" /\ pc' = "time"
      BY <1>0, <1>1, <2>1 DEF Tick, Wake, Halted
    <3>2. CASE pc' = "wait"  BY <3>1, <3>2
    <3>3. CASE pc = "halted_loop" /\ pc' = "time"
      BY <1>0, <3>1, <3>3
    <3> QED  BY <3>1, <3>2, <3>3
  <2>2. CASE ~Halted
    <3>1. late' = late + 1 /\ since' <= since + 1 /\ since' \in Nat
          /\ pc' = pc /\ blinked' = blinked /\ pc # "halted_loop"
      BY <1>0, <1>1, <2>2 DEF Tick, Wake, Halted
    <3> QED  BY <1>0, <3>1
  <2> QED  BY <2>1, <2>2
<1>2. CASE KeyInterrupt
  <2>1. UNCHANGED <<since, late, blinked>>
    BY <1>2, KeyIsStep DEF timeVars
  <2>2. /\ pc = "halted_sleep" => pc' = "wait"
        /\ pc = "halted_loop" => pc' = "time"
        /\ pc \notin {"halted_sleep", "halted_loop"} => pc' = pc
    BY <1>2 DEF KeyInterrupt, Wake
  <2> QED  BY <1>0, <2>1, <2>2
<1>3. CASE BlinkTest
  <2>1. pc = "blink" /\ UNCHANGED <<since, late, blinked>>
    BY <1>3 DEF BlinkTest, At, timeVars
  <2>2. CASE BlinkDue
    <3>1. pc' = "args"  BY <1>3, <2>2 DEF BlinkTest, GoTo
    <3> QED  BY <1>0, <2>1, <3>1
  <2>3. CASE ~BlinkDue
    <3>1. pc' = "hlt_loop"  BY <1>3, <2>3 DEF BlinkTest, GoTo
    <3>2. since < BlinkTicks \/ since = TickMod  BY <2>3, DueFacts
    <3> QED  BY <1>0, <2>1, <3>1, <3>2
  <2> QED  BY <2>2, <2>3
<1>4. CASE ShowTime \/ ReadArgs \/ DrawCursor
  <2>1. pc \in PassLabel /\ pc' \in PassLabel /\ UNCHANGED <<since, late, blinked>>
    BY <1>4 DEF ShowTime, ReadArgs, DrawCursor, At, GoTo, timeVars
  <2> QED  BY <1>0, <2>1
<1>5. CASE StampBlink
  <2>1. pc' = "hlt_loop" /\ since' = 0 /\ late' = late
    BY <1>5 DEF StampBlink, GoTo
  <2> QED  BY <1>0, <2>1
<1>6. CASE LoopHalt
  <2>1. /\ pc = "hlt_loop" /\ pc' = "halted_loop" /\ since' = since
        /\ blinked' = blinked
    BY <1>6 DEF LoopHalt, At, GoTo, Halt
  <2> QED  BY <1>0, <2>1
<1>7. CASE \/ SleepBegin \/ SleepTest \/ SleepHalt \/ SleepEnd \/ ClearScreen
           \/ KeyboardInit \/ SetCursor
  <2>1. pc \notin LoopLabel
    BY <1>7 DEF SleepBegin, SleepTest, SleepHalt, SleepEnd, ClearScreen,
                KeyboardInit, SetCursor, At
  <2>2. blinked' = blinked
    BY <1>7 DEF SleepBegin, SleepTest, SleepHalt, SleepEnd, ClearScreen,
                KeyboardInit, SetCursor, MoveCursor
  <2> QED  BY <2>1, <2>2
<1>8. CASE UNCHANGED kernelVars
  BY <1>8 DEF kernelVars, mainVars, timeVars
<1> QED
  BY <1>1, <1>2, <1>3, <1>4, <1>5, <1>6, <1>7, <1>8 DEF KernelNext, MainStep

-----------------------------------------------------------------------------
(* The theorems.                                                           *)

LEMMA KernelModesStep ==
  ASSUME TypeOK, ModesExclusive, [KernelNext]_kernelVars
  PROVE  ModesExclusive'
<1>1. CASE KeyInterrupt  BY <1>1, KeyIsStep, NextModes
<1>2. CASE UNCHANGED modeVars  BY <1>2 DEF modeVars, ModesExclusive
<1>3. MainStep \/ Tick \/ UNCHANGED kernelVars => UNCHANGED modeVars
  BY MainLeaves DEF KeyboardInit, SetCursor, MoveCursor, Tick, kernelVars, vars
<1> QED  BY <1>1, <1>2, <1>3 DEF KernelNext

(* All of it together is inductive.                                        *)
LEMMA KernelInductive == KernelSpec => []KInv
<1>1. BootInit => KInv
  <2> SUFFICES ASSUME BootInit PROVE KInv  OBVIOUS
  <2>1. KernelTypeOK  BY KernelTypeInit
  <2>2. ModesExclusive /\ BarsExplained
    BY DEF BootInit, ModesExclusive, BarsExplained
  <2>3. KernelLineInv
    BY LayoutAssumption DEF BootInit, KernelLineInv, LineInv, Cell
  <2>4. Booting /\ PassBound  BY ClockAssumption DEF BootInit, Booting, PassBound
  <2>5. SinceExact
    <3>1. 0 - 0 = 0 /\ 0 % TickMod = 0  BY ClockAssumption
    <3> QED  BY <3>1 DEF BootInit, SinceExact
  <2> QED  BY <2>1, <2>2, <2>3, <2>4, <2>5 DEF KInv
<1>2. KInv /\ [KernelNext]_kernelVars => KInv'
  <2> SUFFICES ASSUME KInv, [KernelNext]_kernelVars PROVE KInv'  OBVIOUS
  <2>1. TypeOK  BY DEF KInv, KernelTypeOK
  <2> QED
    BY <2>1, KernelTypeStep, KernelModesStep, BarsStep, KernelLineStep,
       SinceStep, PassStep
       DEF KInv
<1> QED  BY <1>1, <1>2, PTL DEF KernelSpec

(* Every variable of the kernel keeps its type, timer_ticks and last_blink *)
(* their width, and the animation ends after its twelve sleeps.            *)
THEOREM KernelTypeCorrect == KernelSpec => []KernelTypeOK
<1>1. KInv => KernelTypeOK  BY DEF KInv
<1> QED  BY <1>1, KernelInductive, PTL

(* Every cursor bar that is not at the cursor was left there by main().    *)
THEOREM BarsAreExplained == KernelSpec => []BarsExplained
<1>1. KInv => BarsExplained  BY DEF KInv
<1> QED  BY <1>1, KernelInductive, PTL

(* The line is covered whenever main() has not moved the cursor under it.  *)
THEOREM KernelLineIsCovered == KernelSpec => []KernelLineCovered
<1>1. KInv => KernelLineCovered
  BY DEF KInv, KernelLineInv, LineInv, KernelLineCovered, LineCovered
<1> QED  BY <1>1, KernelInductive, PTL

(* Between two blinks there are never more than the ticks of two passes of *)
(* main()'s loop above BlinkTicks, however often timer_ticks has wrapped.  *)
THEOREM BlinkIsNotMissed == KernelSpec => []BlinkNotMissed
<1>1. KInv => BlinkNotMissed
  <2> SUFFICES ASSUME KInv, blinked PROVE since <= BlinkTicks + 2 * MaxLate
    BY DEF BlinkNotMissed
  <2>1. /\ BlinkTicks \in Nat \ {0} /\ MaxLate \in Nat /\ since \in Nat
        /\ late \in 0 .. MaxLate
    BY ClockAssumption DEF KInv, KernelTypeOK
  <2> QED  BY <2>1 DEF KInv, PassBound, LoopLabel
<1> QED  BY <1>1, KernelInductive, PTL

(* And never fewer than BlinkTicks.                                        *)
THEOREM BlinksAreSpaced == KernelSpec => BlinkSpaced
<1>1. KInv /\ [KernelNext]_kernelVars
      => [cursor_visible' # cursor_visible => since >= BlinkTicks]_kernelVars
  <2> SUFFICES ASSUME KInv, [KernelNext]_kernelVars,
                      cursor_visible' # cursor_visible
               PROVE  since >= BlinkTicks
    OBVIOUS
  <2>1. BlinkTest
    BY KeyIsStep
       DEF KernelNext, MainStep, SleepBegin, SleepTest, SleepHalt, SleepEnd,
           ClearScreen, KeyboardInit, SetCursor, MoveCursor, ShowTime, ReadArgs,
           DrawCursor, StampBlink, LoopHalt, Tick, Wake, kernelVars, mainVars
  <2>2. BlinkDue  BY <2>1 DEF BlinkTest
  <2> QED  BY <2>2, DueFacts DEF KInv
<1> QED
  BY <1>1, KernelInductive, PTL DEF KernelSpec, BlinkSpaced

(* The session that the user may rely on is not upset by keys during the   *)
(* boot, by main()'s own steps or by the timer.                            *)
THEOREM KernelImplements == KernelSpec => KernelImplementsSession
<1>1. BootInit => Abstract!Init
  BY DEF BootInit, Mode, Abstract!Init
<1>2. KInv /\ [KernelNext]_kernelVars => [Abstract!Next]_(Abstract!vars)
  <2> SUFFICES ASSUME KInv, [KernelNext]_kernelVars
               PROVE  [Abstract!Next]_(Abstract!vars)
    OBVIOUS
  <2>1. TypeOK /\ ModesExclusive  BY DEF KInv, KernelTypeOK
  <2>2. CASE KeyInterrupt  BY <2>1, <2>2, KeyIsStep, NextSession
  <2>3. CASE UNCHANGED <<modeVars, setupVars, power>>
    BY <2>3, SessionStutter
  <2>4. MainStep \/ Tick \/ UNCHANGED kernelVars
        => UNCHANGED <<modeVars, setupVars, power>>
    BY MainLeaves DEF KeyboardInit, SetCursor, MoveCursor, Tick, kernelVars, vars
  <2> QED  BY <2>2, <2>3, <2>4 DEF KernelNext
<1> QED
  BY <1>1, <1>2, KernelInductive, PTL
     DEF KernelSpec, KernelImplementsSession, Abstract!Spec
=============================================================================
