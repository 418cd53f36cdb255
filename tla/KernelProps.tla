---------------------------- MODULE KernelProps ----------------------------
(***************************************************************************)
(* What main() and the interrupt handlers promise together.                *)
(***************************************************************************)
EXTENDS Kernel, TerminalProps

Label == {"sleep", "wait", "hlt_sleep", "halted_sleep", "awake", "clear",
          "keyboard_init", "menu", "cursor_y", "time", "blink", "args",
          "args_x", "args_y", "draw", "stamp", "hlt_loop", "halted_loop"}

(* Every variable has its type, with timer_ticks and last_blink as wide as *)
(* the code has them (pit.c, kernel.c).                                    *)
KernelTypeOK ==
  /\ TypeOK
  /\ pc \in Label
  /\ frame \in 0 .. Frames
  /\ {eticks, timer_ticks, last_blink} \subseteq 0 .. TickMod - 1
  /\ cursor_visible \in BOOLEAN
  /\ arg \in Nat \X Nat
  /\ bars \subseteq Nat \X Nat /\ strays \subseteq bars
  /\ since \in 0 .. TickMod /\ late \in 0 .. MaxLate
  /\ blinked \in BOOLEAN /\ displaced \in BOOLEAN

(* The blink of the cursor keeps time although timer_ticks wraps: main()   *)
(* toggles it at least BlinkTicks ticks after the last time, by a count    *)
(* that does not wrap, and never lets more than the ticks of a pass of its *)
(* loop go by unnoticed.                                                   *)
BlinkSpaced ==
  [][cursor_visible' # cursor_visible => since >= BlinkTicks]_kernelVars

BlinkNotMissed == blinked => since <= BlinkTicks + 2 * MaxLate

(* The handler always takes its cursor bar along: through wraps,           *)
(* backspaces, commands and the setup.  A bar that is not at the cursor    *)
(* was left there by main(): it drew at a position it had read before a    *)
(* key was pressed, or moved the cursor away at the end of the boot.       *)
BarsExplained == bars \subseteq {Cursor} \cup strays

(* LineCovered, for every line under which main() has not moved the cursor *)
(* at the end of the boot.                                                 *)
KernelLineCovered == ~displaced => LineCovered

(* Keys pressed during the boot, and main() clearing the line and moving   *)
(* the cursor, do not upset the session.                                   *)
KernelImplementsSession == Abstract!Spec

(* The boot ends and the clock is repainted again and again, unless the    *)
(* machine is stopped or a handler does not return.                        *)
ClockRuns == []<>(pc = "time" \/ power # "on")
=============================================================================
