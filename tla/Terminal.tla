------------------------------ MODULE Terminal ------------------------------
(***************************************************************************)
(* The terminal of Nova64 OS: everything keyboard_handler (kbdriver.c)     *)
(* does with one scancode, and everything it calls that changes state: the *)
(* line buffer (string.c), the shell (shell.c) and the initial setup       *)
(* (config.c).                                                             *)
(*                                                                         *)
(* The handler runs on IRQ1 with the interrupt flag clear, so one call of  *)
(* it is one action.  Its interleaving with main() is module Kernel.       *)
(*                                                                         *)
(* Lines are sequences over Char; how a command is spelled is a constant,  *)
(* so that a checked instance can use short spellings.  What is painted on *)
(* the screen is left out, except for where the cursor is.                 *)
(***************************************************************************)
EXTENDS Integers, Sequences

CONSTANTS
  Char,               \* the characters that go to the line buffer
  Scancode,           \* make codes other than those of the shift keys
  keyboard_map,       \* what a scancode means without and
  keyboard_map_shift, \*   with shift_pressed
  ShiftKey,           \* the physical shift keys (0x2A and 0x36)
  Spelling,           \* the lines strcmp looks for, by command
  StellarLine,        \* lines "stellar <file>" that reach run_stellar_from_disk
  tz_table,           \* the offset of each time zone name
  DefaultZone,        \* "GMT +0", the zone main() starts with
  DefaultUserLength,  \* the length of "UNDEFINED USER"
  LineLimit,          \* 254: string_append drops what does not fit
  COLS,               \* 80 columns
  NameCol, ZoneCol, DoneCol, \* 22, 38 and 22: where start_config puts the cursor
  MaxPrints,          \* bound: lines one Stellar program prints
  RowBound            \* bound: no key is typed below this row

Newline   == "newline"
Backspace == "backspace"
NoChar    == "none"   \* a 0 in the key maps

Command == {"shell32.start", "1", "exit", "cls", "neofetch",
            "power --restart", "power --off"}

ASSUME MapsAssumption ==
  /\ keyboard_map \in [Scancode -> Char \cup {Newline, Backspace, NoChar}]
  /\ keyboard_map_shift \in [Scancode -> Char \cup {Newline, Backspace, NoChar}]
  /\ Char \cap {Newline, Backspace, NoChar} = {}

ASSUME ShiftAssumption == "print" \notin ShiftKey

ASSUME CommandAssumption ==
  /\ Spelling \in [Command -> Seq(Char)]
  /\ \A c, d \in Command : Spelling[c] = Spelling[d] => c = d
  /\ StellarLine \subseteq Seq(Char)
  /\ \A c \in Command : Spelling[c] \notin StellarLine

ASSUME ZoneAssumption ==
  /\ DOMAIN tz_table \subseteq Seq(Char)
  /\ \A z \in DOMAIN tz_table : tz_table[z] \in -12 .. 12
  /\ DefaultZone \notin DOMAIN tz_table

ASSUME LayoutAssumption ==
  /\ LineLimit \in Nat
  /\ COLS \in Nat /\ COLS > 2
  /\ NameCol \in 0 .. COLS - 1
  /\ ZoneCol \in 0 .. COLS - 1
  /\ DoneCol \in 0 .. COLS - 1
  /\ DefaultUserLength \in 0 .. LineLimit
  /\ MaxPrints \in Nat
  /\ RowBound \in Nat

VARIABLES
  shift_pressed, \* 0 or 1
  held,          \* environment: the keys of ShiftKey \cup {"print"} held down
  fake_shift,    \* environment: Print Screen was pressed with a fake shift
  key_buffer,    \* the line typed so far
  cursor_x, cursor_y,
  shell_active, config_active, \* 0 or 1
  config_status,     \* 1 name, 2 time zone, 3 complete
  user_length,       \* user.length
  time_zone, current_tz_offset,
  power,             \* "on", "reset" after reboot(), "off" after shutdown(),
                     \*   "hung" in a handler that does not return
  origin             \* history: the cell where the current line began

keyVars    == <<shift_pressed, held, fake_shift>>
cursorVars == <<cursor_x, cursor_y>>
modeVars   == <<shell_active, config_active>>
setupVars  == <<config_status, user_length, time_zone, current_tz_offset>>
vars == <<keyVars, key_buffer, cursorVars, modeVars, setupVars, power, origin>>

-----------------------------------------------------------------------------
(* The state main() has set up when it enters its loop.                    *)
Init ==
  /\ shift_pressed = 0 /\ held = {} /\ fake_shift = FALSE
  /\ key_buffer = << >>
  /\ cursor_x = 2 /\ cursor_y = 2
  /\ shell_active = 0 /\ config_active = 0
  /\ config_status = 1
  /\ user_length = DefaultUserLength
  /\ time_zone = DefaultZone /\ current_tz_offset = 0
  /\ power = "on"
  /\ origin = <<2, 2>>

-----------------------------------------------------------------------------
(* Shift keys.  A release code other than a shift key's returns at once,   *)
(* and so does the 0xE0 prefix, which reads as the release of 0x60.        *)

Running == power = "on" /\ cursor_y <= RowBound

(* A shift key goes down: its make code.                                   *)
PressShift(k) ==
  /\ power = "on"
  /\ held' = held \cup {k}
  /\ shift_pressed' = 1
  /\ UNCHANGED <<fake_shift, key_buffer, cursorVars, modeVars, setupVars,
                 power, origin>>

(* Mutant: the break code of the right shift key (k = "R") is ignored.     *)
ReleaseLeftShiftOnly(k) ==
  /\ power = "on"
  /\ k \in held
  /\ held' = held \ {k}
  /\ shift_pressed' = IF k = "R" THEN shift_pressed ELSE 0
  /\ UNCHANGED <<fake_shift, key_buffer, cursorVars, modeVars, setupVars,
                 power, origin>>

(* A shift key goes up: its break code.                                    *)
ReleaseShift(k) ==
  /\ power = "on"
  /\ k \in held
  /\ held' = held \ {k}
  /\ shift_pressed' = 0
  /\ UNCHANGED <<fake_shift, key_buffer, cursorVars, modeVars, setupVars,
                 power, origin>>

(* Print Screen goes down.  Unless a shift key is held, the keyboard sends *)
(* E0 2A first, which the handler takes for a shift key; the E0 37 that    *)
(* follows is a '*' in the key maps and is typed as one by Key.            *)
PressPrint ==
  /\ power = "on"
  /\ "print" \notin held
  /\ held' = held \cup {"print"}
  /\ fake_shift' = (held = {})
  /\ shift_pressed' = IF held = {} THEN 1 ELSE shift_pressed
  /\ UNCHANGED <<key_buffer, cursorVars, modeVars, setupVars, power, origin>>

(* Print Screen goes up: E0 B7, and E0 AA when it began with E0 2A.        *)
ReleasePrint ==
  /\ power = "on"
  /\ "print" \in held
  /\ held' = held \ {"print"}
  /\ fake_shift' = FALSE
  /\ shift_pressed' = IF fake_shift THEN 0 ELSE shift_pressed
  /\ UNCHANGED <<key_buffer, cursorVars, modeVars, setupVars, power, origin>>

-----------------------------------------------------------------------------
(* Keys that edit the line.                                                *)

CharOf(sc) ==
  IF shift_pressed = 1 THEN keyboard_map_shift[sc] ELSE keyboard_map[sc]

(* A key both maps give 0 for: only the cursor is painted again.           *)
DeadKey == UNCHANGED vars

(* Mutant: string_append tests the length after it has stored.             *)
TypeCharPastLimit(c) ==
  /\ key_buffer' = IF Len(key_buffer) <= LineLimit
                   THEN Append(key_buffer, c) ELSE key_buffer
  /\ IF cursor_x + 1 >= COLS
     THEN cursor_x' = 0 /\ cursor_y' = cursor_y + 1
     ELSE cursor_x' = cursor_x + 1 /\ UNCHANGED cursor_y
  /\ UNCHANGED <<keyVars, modeVars, setupVars, power, origin>>

(* string_append, and the cursor wraps at the right edge.  At LineLimit    *)
(* the character is echoed but not stored.                                 *)
TypeChar(c) ==
  /\ key_buffer' = IF Len(key_buffer) < LineLimit
                   THEN Append(key_buffer, c) ELSE key_buffer
  /\ IF cursor_x + 1 >= COLS
     THEN cursor_x' = 0 /\ cursor_y' = cursor_y + 1
     ELSE cursor_x' = cursor_x + 1 /\ UNCHANGED cursor_y
  /\ UNCHANGED <<keyVars, modeVars, setupVars, power, origin>>

(* Mutant: the cursor goes back whatever the length of the line.           *)
EraseAlwaysMoves ==
  /\ key_buffer' = IF key_buffer = << >> THEN key_buffer
                   ELSE SubSeq(key_buffer, 1, Len(key_buffer) - 1)
  /\ cursor_x' = IF cursor_x > 0 THEN cursor_x - 1 ELSE cursor_x
  /\ UNCHANGED <<cursor_y, keyVars, modeVars, setupVars, power, origin>>

(* The last character goes; the cursor stays put in column 0.              *)
EraseChar ==
  /\ key_buffer' = IF key_buffer = << >> THEN key_buffer
                   ELSE SubSeq(key_buffer, 1, Len(key_buffer) - 1)
  /\ cursor_x' = IF key_buffer # << >> /\ cursor_x > 0
                 THEN cursor_x - 1 ELSE cursor_x
  /\ UNCHANGED <<cursor_y, keyVars, modeVars, setupVars, power, origin>>

-----------------------------------------------------------------------------
(* Enter.  Every path ends with an empty line and a new place for it.      *)

LineIs(command) == key_buffer = Spelling[command]

NewLine(x, y) ==
  /\ key_buffer' = << >>
  /\ cursor_x' = x /\ cursor_y' = y
  /\ origin' = <<x, y>>

(* The tail of the handler: the next row, after a one-column prompt.       *)
Prompt(y) == NewLine(1, y + 1)

(* start_config: the prompt of the given stage of the setup.               *)
start_config(status) ==
  NewLine(<<NameCol, ZoneCol, DoneCol>>[status], IF status = 3 THEN 5 ELSE 1)

(* "shell32.start" outside the setup: bashinit, whose prompt is            *)
(* user.length + 3 columns wide.                                           *)
StartShell ==
  /\ LineIs("shell32.start") /\ config_active = 0
  /\ shell_active' = 1
  /\ NewLine(user_length + 3, 1)
  /\ UNCHANGED <<keyVars, config_active, setupVars, power>>

(* "1" in the menu: the setup resumes at the stage it had reached.         *)
StartSetup ==
  /\ LineIs("1") /\ shell_active = 0 /\ config_active = 0
  /\ start_config(config_status)
  /\ config_active' = 1
  /\ UNCHANGED <<keyVars, shell_active, setupVars, power>>

(* The first stage: update_user takes any line for the name.               *)
ChooseName ==
  /\ config_active = 1 /\ config_status = 1
  /\ user_length' = Len(key_buffer)
  /\ config_status' = 2
  /\ start_config(config_status')
  /\ UNCHANGED <<keyVars, modeVars, time_zone, current_tz_offset, power>>

(* Mutant: update_tz_by_name leaves the name of the zone as it was.        *)
ChooseOffsetOnly ==
  /\ config_active = 1 /\ config_status = 2
  /\ IF key_buffer \in DOMAIN tz_table
     THEN /\ current_tz_offset' = tz_table[key_buffer]
          /\ config_status' = 3
     ELSE UNCHANGED <<current_tz_offset, config_status>>
  /\ start_config(config_status')
  /\ UNCHANGED <<keyVars, modeVars, user_length, time_zone, power>>

(* The second stage: update_tz_by_name; an unknown name asks again.        *)
ChooseZone ==
  /\ config_active = 1 /\ config_status = 2
  /\ IF key_buffer \in DOMAIN tz_table
     THEN /\ current_tz_offset' = tz_table[key_buffer]
          /\ time_zone' = key_buffer
          /\ config_status' = 3
     ELSE UNCHANGED <<current_tz_offset, time_zone, config_status>>
  /\ start_config(config_status')
  /\ UNCHANGED <<keyVars, modeVars, user_length, power>>

(* Mutant: "exit" leaves the setup at any stage after the first.           *)
FinishSetupEarly ==
  /\ config_active = 1 /\ config_status >= 2
  /\ IF LineIs("exit")
     THEN config_active' = 0 /\ NewLine(1, 1)
     ELSE UNCHANGED config_active /\ Prompt(cursor_y)
  /\ UNCHANGED <<keyVars, shell_active, setupVars, power>>

(* The last stage: only "exit" leaves it, any other line is dropped.       *)
FinishSetup ==
  /\ config_active = 1 /\ config_status = 3
  /\ IF LineIs("exit")
     THEN config_active' = 0 /\ NewLine(1, 1)
     ELSE UNCHANGED config_active /\ Prompt(cursor_y)
  /\ UNCHANGED <<keyVars, shell_active, setupVars, power>>

(* A line in the menu that is neither "1" nor "shell32.start": a hint.     *)
MenuHint ==
  /\ shell_active = 0 /\ config_active = 0
  /\ ~LineIs("1") /\ ~LineIs("shell32.start")
  /\ Prompt(cursor_y + 1)
  /\ UNCHANGED <<keyVars, modeVars, setupVars, power>>

-----------------------------------------------------------------------------
(* A line in the shell: exeCommand, on the row below, then the tail.       *)

InShell ==
  shell_active = 1 /\ config_active = 0 /\ ~LineIs("shell32.start")

(* exit: back to the menu.                                                 *)
LeaveShell ==
  /\ InShell /\ LineIs("exit")
  /\ shell_active' = 0
  /\ Prompt(2)
  /\ UNCHANGED <<keyVars, config_active, setupVars, power>>

(* reboot() and shutdown(): the machine stops where it is, except that     *)
(* shutdown() only reaches the power ports of some machines and returns    *)
(* on the others.                                                          *)
PowerCommand ==
  /\ InShell
  /\ \/ LineIs("power --restart") /\ power' = "reset"
     \/ LineIs("power --off") /\ power' \in {"off", "on"}
  /\ IF power' = "on" THEN Prompt(cursor_y + 1)
     ELSE UNCHANGED <<key_buffer, cursorVars, origin>>
  /\ UNCHANGED <<keyVars, modeVars, setupVars>>

(* Commands that stay in the shell: cls starts over at the top, neofetch   *)
(* is twelve rows, a Stellar program prints what it prints, and the others *)
(* leave the cursor to the tail.                                           *)
RowsPrinted ==
  IF LineIs("neofetch") THEN {12}
  ELSE IF key_buffer \in StellarLine THEN 0 .. MaxPrints ELSE {0}

ShellCommand ==
  /\ InShell
  /\ \A c \in {"exit", "power --restart", "power --off"} : ~LineIs(c)
  /\ IF LineIs("cls") THEN Prompt(1)
     ELSE \E n \in RowsPrinted : Prompt(cursor_y + 1 + n)
  /\ UNCHANGED <<keyVars, modeVars, setupVars, power>>

(* run_stellar_from_disk may never return: the disk driver polls without a *)
(* timeout, and nothing ends a Stellar program that loops.  The interrupt  *)
(* flag is still clear, so only power helps.                               *)
StellarHangs ==
  /\ InShell /\ key_buffer \in StellarLine
  /\ power' = "hung"
  /\ UNCHANGED <<keyVars, key_buffer, cursorVars, modeVars, setupVars, origin>>

Enter ==
  \/ StartShell \/ StartSetup
  \/ ChooseName \/ ChooseZone \/ FinishSetup
  \/ MenuHint
  \/ LeaveShell \/ PowerCommand \/ ShellCommand \/ StellarHangs

-----------------------------------------------------------------------------
(* keyboard_handler for a make code that is not a shift key's.             *)
Key(sc) ==
  /\ Running
  /\ \/ CharOf(sc) = Newline   /\ Enter
     \/ CharOf(sc) = Backspace /\ EraseChar
     \/ CharOf(sc) = NoChar    /\ DeadKey
     \/ CharOf(sc) \in Char    /\ TypeChar(CharOf(sc))

(* The power fails under a machine that runs.                              *)
PowerLost ==
  /\ power = "on" /\ power' = "off"
  /\ UNCHANGED <<keyVars, key_buffer, cursorVars, modeVars, setupVars, origin>>

(* The machine is reset or switched on again; main() runs up to its loop.  *)
PowerCycle ==
  /\ power # "on"
  /\ shift_pressed' = 0
  /\ NewLine(2, 2)
  /\ shell_active' = 0 /\ config_active' = 0
  /\ config_status' = 1
  /\ user_length' = DefaultUserLength
  /\ time_zone' = DefaultZone /\ current_tz_offset' = 0
  /\ power' = "on"
  /\ UNCHANGED <<held, fake_shift>>

Shift ==
  \/ \E k \in ShiftKey : PressShift(k) \/ ReleaseShift(k)
  \/ PressPrint \/ ReleasePrint

Next == Shift \/ PowerLost \/ PowerCycle \/ \E sc \in Scancode : Key(sc)

Spec == Init /\ [][Next]_vars
=============================================================================
