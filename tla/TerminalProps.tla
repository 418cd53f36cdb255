---------------------------- MODULE TerminalProps ----------------------------
(***************************************************************************)
(* What the terminal promises.  The theorems are in KernelProofs.          *)
(***************************************************************************)
EXTENDS Terminal

(* Every variable has its type; the line never outgrows its buffer and the *)
(* setup is always at one of its three stages (kbdriver.c, config.c).      *)
TypeOK ==
  /\ shift_pressed \in {0, 1}
  /\ held \subseteq ShiftKey \cup {"print"}
  /\ fake_shift \in BOOLEAN
  /\ key_buffer \in Seq(Char) /\ Len(key_buffer) <= LineLimit
  /\ cursor_x \in Nat /\ cursor_y \in Nat
  /\ shell_active \in {0, 1} /\ config_active \in {0, 1}
  /\ config_status \in 1 .. 3
  /\ user_length \in 0 .. LineLimit
  /\ time_zone \in {DefaultZone} \cup DOMAIN tz_table
  /\ current_tz_offset \in -12 .. 12
  /\ power \in {"on", "hung", "reset", "off"}
  /\ origin \in Nat \X Nat

(* The shell and the setup are never active together, whatever is typed:   *)
(* the two flags of keyboard_handler are set under different guards and on *)
(* different paths, and a state with both would send a line to the shell   *)
(* or to the setup depending on its text.                                  *)
ModesExclusive == ~(shell_active = 1 /\ config_active = 1)

Cell(x, y) == y * COLS + x

(* The line on the screen is at least as long as the line in the buffer:   *)
(* between the cell where the line began and the cursor there is a cell    *)
(* for each character, through wrapping, through backspaces in column 0    *)
(* and past LineLimit.  So a backspace never erases the prompt.  It is     *)
(* promised for lines that begin inside the row (bashinit puts the cursor  *)
(* at user.length + 3, whatever the length of the name).                   *)
LineCovered ==
  origin[1] < COLS =>
    Cell(cursor_x, cursor_y) - Cell(origin[1], origin[2]) >= Len(key_buffer)

(* Shift is never stuck: with no key held that could account for it,       *)
(* shift_pressed is 0, however the two shift keys and the fake shifts of   *)
(* Print Screen overlap.                                                   *)
ShiftNotStuck == held = {} => shift_pressed = 0

(* Once the setup is complete the zone shown and the offset that get_time  *)
(* adds are those of one entry of tz_table; until then both are the        *)
(* defaults.  Neither is ever changed without the other.                   *)
ZoneConsistent ==
  IF config_status = 3
  THEN time_zone \in DOMAIN tz_table /\ current_tz_offset = tz_table[time_zone]
  ELSE time_zone = DefaultZone /\ current_tz_offset = 0

(* The abstract session that keyboard_handler's flags stand for: both set  *)
(* would be none of its modes.                                             *)
Mode ==
  IF shell_active = 1 THEN IF config_active = 1 THEN "both" ELSE "shell"
  ELSE IF config_active = 1 THEN "setup" ELSE "menu"

Abstract == INSTANCE Session
  WITH mode <- Mode, stage <- config_status,
       zone <- time_zone, offset <- current_tz_offset,
       on <- (power = "on")

(* Whatever is typed, in whatever mode, the session does only what Session *)
(* allows: the setup is entered from the menu, goes through its stages in  *)
(* order, one for a line, and is left only when complete; the shell is not *)
(* reached from within it, and the two are never active together.  Only a  *)
(* machine that has stopped begins anew.                                   *)
ImplementsSession == Abstract!Spec
=============================================================================
