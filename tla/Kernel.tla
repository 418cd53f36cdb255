------------------------------- MODULE Kernel -------------------------------
(***************************************************************************)
(* The kernel of Nova64 OS: main() (kernel.c) from the sti on, step by     *)
(* step, interleaved with its two interrupt handlers: timer_handler        *)
(* (pit.c) and keyboard_handler, which is the module Terminal.  A handler  *)
(* runs with the interrupt flag clear (irq0_stub, irq1_stub), so it is one *)
(* action between two steps of main().                                     *)
(*                                                                         *)
(* Of the screen only the cursor bars are kept, the cells painted with     *)
(* '|' by the handler's last putc or by draw_cursor.                       *)
(*                                                                         *)
(* Nothing survives a reset, so a machine that is switched on again is a   *)
(* new behaviour.                                                          *)
(***************************************************************************)
EXTENDS Terminal

CONSTANTS
  TickMod,     \* 2^32: timer_ticks wraps
  SleepTicks,  \* 20 ticks: sleep(200)
  Frames,      \* 12: the sleeps of welcome_animation
  BlinkTicks,  \* 50 ticks
  MaxLate      \* environment: ticks that find main() running, in each of
               \*   its passes from one hlt to the next

ASSUME ClockAssumption ==
  /\ TickMod \in Nat \ {0} /\ SleepTicks \in Nat
  /\ BlinkTicks \in Nat \ {0} /\ MaxLate \in Nat
  /\ Frames \in Nat \ {0}
  /\ BlinkTicks + 2 * MaxLate + 1 < TickMod

VARIABLES
  pc,             \* where main() is
  frame,          \* sleeps of the animation that are over
  eticks,         \* sleep's local: when it is over
  timer_ticks,
  last_blink, cursor_visible, \* main()'s locals
  arg,            \* the arguments of draw_cursor, read and not yet used
  bars,           \* the cells that hold a cursor bar
  strays,         \* history: bars left by draw_cursor with old arguments, or
                  \*   by main() moving the cursor away from them
  since,          \* history: ticks since last_blink was set
  blinked,        \* history: last_blink has been set
  late,           \* environment: ticks in this pass of main()
  displaced       \* history: main() moved the cursor under this line

mainVars  == <<pc, frame, eticks, last_blink, cursor_visible, arg>>
paintVars == <<bars, strays>>
timeVars  == <<timer_ticks, since, late>>
kernelVars == <<vars, mainVars, paintVars, timeVars, blinked, displaced>>

Cursor == <<cursor_x, cursor_y>>

(* sti, with everything before it done.  The keyboard may speak from now.  *)
BootInit ==
  /\ shift_pressed = 0 /\ held = {} /\ fake_shift = FALSE
  /\ key_buffer = << >>
  /\ cursor_x = 0 /\ cursor_y = 0 /\ origin = <<0, 0>>
  /\ shell_active = 0 /\ config_active = 0
  /\ config_status = 1
  /\ user_length = DefaultUserLength
  /\ time_zone = DefaultZone /\ current_tz_offset = 0
  /\ power = "on"
  /\ pc = "sleep" /\ frame = 0 /\ eticks = 0
  /\ timer_ticks = 0 /\ last_blink = 0 /\ cursor_visible = FALSE
  /\ arg = <<0, 0>>
  /\ bars = {} /\ strays = {}
  /\ since = 0 /\ blinked = FALSE /\ late = 0
  /\ displaced = FALSE

-----------------------------------------------------------------------------
(* Steps of main().                                                        *)

At(label) == power = "on" /\ pc = label
GoTo(label) == pc' = label

(* hlt: main() waits for the next interrupt, whichever it is.              *)
Halt(label) == GoTo(label) /\ late' = 0

(* sleep(200) of welcome_animation begins: timer_ticks is read once.       *)
SleepBegin ==
  /\ At("sleep")
  /\ eticks' = (timer_ticks + SleepTicks) % TickMod
  /\ GoTo("wait")
  /\ UNCHANGED <<vars, frame, last_blink, cursor_visible, arg, paintVars,
                 timeVars, blinked, displaced>>

(* Mutant: sleep waits for the very tick.                                  *)
SleepTestExact ==
  /\ At("wait")
  /\ GoTo(IF timer_ticks # eticks THEN "hlt_sleep" ELSE "awake")
  /\ UNCHANGED <<vars, frame, eticks, last_blink, cursor_visible, arg,
                 paintVars, timeVars, blinked, displaced>>

(* while (timer_ticks < eticks) hlt: a tick between the test and the hlt   *)
(* is only seen after the next interrupt.                                  *)
SleepTest ==
  /\ At("wait")
  /\ GoTo(IF timer_ticks < eticks THEN "hlt_sleep" ELSE "awake")
  /\ UNCHANGED <<vars, frame, eticks, last_blink, cursor_visible, arg,
                 paintVars, timeVars, blinked, displaced>>

SleepHalt ==
  /\ At("hlt_sleep")
  /\ Halt("halted_sleep")
  /\ UNCHANGED <<vars, frame, eticks, last_blink, cursor_visible, arg,
                 paintVars, timer_ticks, since, blinked, displaced>>

(* Half-way through, the animation clears the screen.  With sleep's return *)
(* eticks is gone.                                                         *)
SleepEnd ==
  /\ At("awake")
  /\ frame' = frame + 1
  /\ IF 2 * frame' = Frames THEN bars' = {} /\ strays' = {}
     ELSE UNCHANGED paintVars
  /\ eticks' = 0
  /\ GoTo(IF frame' = Frames THEN "clear" ELSE "sleep")
  /\ UNCHANGED <<vars, last_blink, cursor_visible, arg, timeVars,
                 blinked, displaced>>

(* clear_screen(), after the animation.                                    *)
ClearScreen ==
  /\ At("clear")
  /\ bars' = {} /\ strays' = {}
  /\ GoTo("keyboard_init")
  /\ UNCHANGED <<vars, frame, eticks, last_blink, cursor_visible, arg,
                 timeVars, blinked, displaced>>

(* Mutant: main() resets the flags of the session only now.                *)
KeyboardInitLateReset ==
  /\ At("keyboard_init")
  /\ key_buffer' = << >> /\ origin' = Cursor
  /\ shell_active' = 0 /\ config_active' = 0
  /\ GoTo("menu")
  /\ UNCHANGED <<keyVars, cursorVars, setupVars, power, frame,
                 eticks, last_blink, cursor_visible, arg, paintVars, timeVars,
                 blinked, displaced>>

(* keyboard_init(): the line typed during the boot is dropped, though not  *)
(* what an Enter in it has already done.                                   *)
KeyboardInit ==
  /\ At("keyboard_init")
  /\ key_buffer' = << >> /\ origin' = Cursor
  /\ GoTo("menu")
  /\ UNCHANGED <<keyVars, cursorVars, modeVars, setupVars, power, frame,
                 eticks, last_blink, cursor_visible, arg, paintVars, timeVars,
                 blinked, displaced>>

(* cursor_x = 2, then cursor_y = 2, once the menu is painted.  A line that *)
(* is already being typed goes on somewhere else.                          *)
MoveCursor(x, y) ==
  /\ cursor_x' = x /\ cursor_y' = y
  /\ strays' = strays \cup (bars \cap {Cursor})
  /\ origin' = IF key_buffer = << >> THEN <<x, y>> ELSE origin
  /\ displaced' = (displaced \/ key_buffer # << >>)
  /\ UNCHANGED <<keyVars, key_buffer, modeVars, setupVars, power, frame,
                 eticks, last_blink, cursor_visible, arg, bars, timeVars,
                 blinked>>

SetCursor ==
  \/ At("menu") /\ MoveCursor(2, cursor_y) /\ GoTo("cursor_y")
  \/ At("cursor_y") /\ MoveCursor(cursor_x, 2) /\ GoTo("time")

(* The loop: get_time and the clock at the bottom right (module Rtc).      *)
ShowTime ==
  /\ At("time")
  /\ GoTo("blink")
  /\ UNCHANGED <<vars, frame, eticks, last_blink, cursor_visible, arg,
                 paintVars, timeVars, blinked, displaced>>

(* Mutant: the difference is not unsigned, so it does not wrap.            *)
BlinkDueSigned == timer_ticks - last_blink >= BlinkTicks

(* timer_ticks - last_blink >= 50, in unsigned arithmetic.                 *)
BlinkDue == (timer_ticks - last_blink) % TickMod >= BlinkTicks

BlinkTest ==
  /\ At("blink")
  /\ IF BlinkDue
     THEN cursor_visible' = ~cursor_visible /\ GoTo("args")
     ELSE UNCHANGED cursor_visible /\ GoTo("hlt_loop")
  /\ UNCHANGED <<vars, frame, eticks, last_blink, arg, paintVars, timeVars,
                 blinked, displaced>>

(* cursor_x and cursor_y are read one after the other, in the order the    *)
(* compiler chooses.                                                       *)
ReadArgs ==
  /\ \/ At("args")   /\ arg' = [arg EXCEPT ![1] = cursor_x] /\ GoTo("args_y")
     \/ At("args")   /\ arg' = [arg EXCEPT ![2] = cursor_y] /\ GoTo("args_x")
     \/ At("args_y") /\ arg' = [arg EXCEPT ![2] = cursor_y] /\ GoTo("draw")
     \/ At("args_x") /\ arg' = [arg EXCEPT ![1] = cursor_x] /\ GoTo("draw")
  /\ UNCHANGED <<vars, frame, eticks, last_blink, cursor_visible, paintVars,
                 timeVars, blinked, displaced>>

(* draw_cursor paints or wipes a cell, be it the cursor's or not.          *)
DrawCursor ==
  /\ At("draw")
  /\ IF cursor_visible
     THEN /\ bars' = bars \cup {arg}
          /\ strays' = strays \cup ({arg} \ {Cursor})
     ELSE bars' = bars \ {arg} /\ strays' = strays \ {arg}
  /\ arg' = <<0, 0>>
  /\ GoTo("stamp")
  /\ UNCHANGED <<vars, frame, eticks, last_blink, cursor_visible, timeVars,
                 blinked, displaced>>

(* Mutant: last_blink += 50.                                               *)
StampBlinkDue ==
  /\ At("stamp")
  /\ last_blink' = (last_blink + BlinkTicks) % TickMod
  /\ since' = 0 /\ blinked' = TRUE
  /\ GoTo("hlt_loop")
  /\ UNCHANGED <<vars, frame, eticks, cursor_visible, arg, paintVars,
                 timer_ticks, late, displaced>>

(* last_blink = timer_ticks, which is read again.                          *)
StampBlink ==
  /\ At("stamp")
  /\ last_blink' = timer_ticks /\ since' = 0 /\ blinked' = TRUE
  /\ GoTo("hlt_loop")
  /\ UNCHANGED <<vars, frame, eticks, cursor_visible, arg, paintVars,
                 timer_ticks, late, displaced>>

LoopHalt ==
  /\ At("hlt_loop")
  /\ Halt("halted_loop")
  /\ UNCHANGED <<vars, frame, eticks, last_blink, cursor_visible, arg,
                 paintVars, timer_ticks, since, blinked, displaced>>

MainStep ==
  \/ SleepBegin \/ SleepTest \/ SleepHalt \/ SleepEnd
  \/ ClearScreen \/ KeyboardInit \/ SetCursor
  \/ ShowTime \/ BlinkTest \/ ReadArgs \/ DrawCursor \/ StampBlink \/ LoopHalt

-----------------------------------------------------------------------------
(* Interrupts.                                                             *)

Halted == pc \in {"halted_sleep", "halted_loop"}

(* The iretq of a handler leaves main() after its hlt.                     *)
Wake ==
  /\ pc' = IF pc = "halted_sleep" THEN "wait"
           ELSE IF pc = "halted_loop" THEN "time" ELSE pc
  /\ UNCHANGED <<frame, eticks, last_blink, cursor_visible, arg, blinked>>

(* Mutant: timer_ticks is wider than main()'s last_blink.                  *)
TickWide ==
  /\ power = "on"
  /\ Halted \/ late < MaxLate
  /\ timer_ticks < 2 * TickMod
  /\ timer_ticks' = timer_ticks + 1
  /\ since' = IF since < TickMod THEN since + 1 ELSE since
  /\ late' = IF Halted THEN late ELSE late + 1
  /\ Wake
  /\ UNCHANGED <<vars, paintVars, displaced>>

(* IRQ0: timer_handler.  since saturates above every value of interest.    *)
Tick ==
  /\ power = "on"
  /\ Halted \/ late < MaxLate
  /\ timer_ticks' = (timer_ticks + 1) % TickMod
  /\ since' = IF since < TickMod THEN since + 1 ELSE since
  /\ late' = IF Halted THEN late ELSE late + 1
  /\ Wake
  /\ UNCHANGED <<vars, paintVars, displaced>>

(* What keyboard_handler paints.  It first wipes the cell of the cursor; a *)
(* path that returns early has cleared the screen and paints no bar, the   *)
(* others end with a bar at the cursor's new place.  (Output of a command  *)
(* may cover a bar: here the bar is kept.)                                 *)
Paint(cells) == bars' = cells /\ strays' = strays \cap cells

Cleared == Paint({})
OnCleared == Paint({Cursor'})
Moved == Paint((bars \ {Cursor, <<0, cursor_y'>>}) \cup {Cursor'})

(* Mutant: the handler does not wipe the cursor before it acts.            *)
InPlaceUnwiped == Paint(bars \cup {Cursor'})

InPlace == Paint((bars \ {Cursor}) \cup {Cursor'})

EnterPaint ==
  \/ (StartShell \/ StartSetup \/ ChooseName \/ ChooseZone) /\ Cleared
  \/ FinishSetup /\ IF LineIs("exit") THEN OnCleared ELSE Moved
  \/ LeaveShell /\ OnCleared
  \/ ShellCommand /\ IF LineIs("cls") THEN OnCleared ELSE Moved
  \/ MenuHint /\ Moved
  \/ PowerCommand /\ IF power' = "on" THEN Moved ELSE Paint(bars \ {Cursor})
  \/ StellarHangs /\ Paint(bars \ {Cursor})

(* IRQ1: keyboard_handler.                                                 *)
KeyInterrupt ==
  /\ \/ Shift /\ UNCHANGED <<paintVars, displaced>>
     \/ \E sc \in Scancode :
          /\ Key(sc)
          /\ IF CharOf(sc) = Newline
             THEN EnterPaint /\ displaced' = (displaced /\ power' # "on")
             ELSE InPlace /\ UNCHANGED displaced
  /\ Wake
  /\ UNCHANGED timeVars

KernelNext == MainStep \/ Tick \/ KeyInterrupt

KernelSpec == BootInit /\ [][KernelNext]_kernelVars

(* main() keeps running between interrupts, and the PIT keeps ticking.     *)
Fairness == WF_kernelVars(MainStep) /\ WF_kernelVars(Tick)

FairKernelSpec == KernelSpec /\ Fairness
=============================================================================
