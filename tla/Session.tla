------------------------------- MODULE Session -------------------------------
(***************************************************************************)
(* What the user of Nova64 OS may rely on, abstractly: a session is in the *)
(* menu, in the shell or in the initial setup, and the setup goes once     *)
(* through its stages, the last of which fixes the time zone.  Only with   *)
(* the power does a session end and another begin.  Terminal implements it.*)
(***************************************************************************)
EXTENDS Integers

CONSTANTS
  tz_table,    \* the offset of each time zone name
  DefaultZone

VARIABLES
  mode,        \* "menu", "shell" or "setup"
  stage,       \* 1 name, 2 time zone, 3 complete
  zone, offset,
  on           \* the machine is running

session == <<mode, stage, zone, offset>>
vars == <<session, on>>

Init ==
  /\ mode = "menu" /\ stage = 1
  /\ zone = DefaultZone /\ offset = 0
  /\ on = TRUE

EnterShell ==
  /\ mode \in {"menu", "shell"} /\ mode' = "shell"
  /\ UNCHANGED <<stage, zone, offset>>

EnterSetup ==
  /\ mode = "menu" /\ mode' = "setup"
  /\ UNCHANGED <<stage, zone, offset>>

NameChosen ==
  /\ mode = "setup" /\ stage = 1 /\ stage' = 2
  /\ UNCHANGED <<mode, zone, offset>>

ZoneChosen ==
  /\ mode = "setup" /\ stage = 2 /\ stage' = 3
  /\ zone' \in DOMAIN tz_table /\ offset' = tz_table[zone']
  /\ UNCHANGED mode

Leave ==
  /\ mode = "shell" \/ (mode = "setup" /\ stage = 3)
  /\ mode' = "menu"
  /\ UNCHANGED <<stage, zone, offset>>

(* What is typed at a machine that runs.                                   *)
Typed ==
  /\ on /\ on' = on
  /\ EnterShell \/ EnterSetup \/ NameChosen \/ ZoneChosen \/ Leave

(* The machine stops, by a command or because the power fails, and is      *)
(* switched on again.                                                      *)
Stop == on /\ on' = FALSE /\ UNCHANGED session

Restart == ~on /\ Init'

Next == Typed \/ Stop \/ Restart

Spec == Init /\ [][Next]_vars
=============================================================================
