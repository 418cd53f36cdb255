-------------------------------- MODULE Rtc --------------------------------
(***************************************************************************)
(* The real time clock driver (rtcdriver.c).  A register is read by an     *)
(* outb of its number to port 0x70 and an inb of port 0x71, and get_time   *)
(* makes four such reads, the first of them until no update is in          *)
(* progress.  main() runs it in its loop; keyboard_handler runs it for the *)
(* time command, between any two of main()'s port accesses, and the clock  *)
(* chip goes on meanwhile.                                                 *)
(*                                                                         *)
(* A day has Hours hours of Minutes minutes of Seconds seconds.  The       *)
(* registers are in BCD in the chip; bcd is how get_time decodes them.     *)
(***************************************************************************)
EXTENDS Integers

CONSTANTS
  Hours,     \* 24
  Minutes,   \* 60
  Seconds,   \* 60
  Offset     \* the offsets in tz_table

ASSUME RtcAssumption ==
  /\ {Hours, Minutes, Seconds} \subseteq Nat \ {0}
  /\ Offset \subseteq -Hours .. Hours /\ 0 \in Offset

Reader == {"main", "handler"}

VARIABLES
  chip,      \* the chip's time, <<hour, minute, second>>
  uip,       \* register 0x0A's update-in-progress bit
  index,     \* the register number last written to port 0x70
  pc,        \* of each reader: "idle", "poll", "polled", "select", "read",
             \*   "adjust"
  next,      \* the register each reader is about to read: 1, 2, 3 for 0, 2, 4
  got,       \* what each has read: <<second, minute, hour>>
  current_tz_offset,
  cut,       \* history: a handler has interrupted main()'s get_time
  instant,   \* history: the chip's time and the zone when the reader polled
  early      \* history: then no update had been announced

vars == <<chip, uip, index, pc, next, got, current_tz_offset, cut, instant,
          early>>

(* Register numbers: 0x0A is 0 here, and 0x00, 0x02, 0x04 are 1, 2, 3.     *)
StatusA == 0

Register(i) ==
  IF i = StatusA THEN 0 ELSE chip[4 - i]

(* Mutant: hour 24 is left as it is.                                       *)
adjusted_h_late(raw_h, offset) ==
  LET h == raw_h + offset
  IN IF h > Hours THEN h - Hours ELSE IF h < 0 THEN h + Hours ELSE h

(* raw_h + current_tz_offset, brought back into the day once.              *)
adjusted_h(raw_h, offset) ==
  LET h == raw_h + offset
  IN IF h >= Hours THEN h - Hours ELSE IF h < 0 THEN h + Hours ELSE h

TimeOf(registers, offset) ==
  <<adjusted_h(registers[3], offset), registers[2], registers[1]>>

Midnight == <<0, 0, 0>>

Init ==
  /\ chip \in {Midnight, <<Hours - 1, Minutes - 1, Seconds - 1>>}
  /\ uip = FALSE /\ index = StatusA
  /\ pc = [r \in Reader |-> "idle"]
  /\ next = [r \in Reader |-> 1]
  /\ got = [r \in Reader |-> <<0, 0, 0>>]
  /\ current_tz_offset = 0
  /\ cut = FALSE
  /\ early = [r \in Reader |-> FALSE]
  /\ instant = [r \in Reader |-> <<Midnight, 0>>]

-----------------------------------------------------------------------------
(* Readers.  While the handler runs, main() does not.                      *)

Runs(r) == r = "main" => pc["handler"] = "idle"

Goto(r, label) == pc' = [pc EXCEPT ![r] = label]

(* get_time is called: by main() in its loop, or by exeCommand, perhaps    *)
(* after a new time zone was chosen.                                       *)
Call(r) ==
  /\ Runs(r) /\ pc[r] = "idle"
  /\ Goto(r, "poll")
  /\ cut' = (r = "handler" /\ (pc["main"] # "idle" \/ cut))
  /\ UNCHANGED <<chip, uip, index, next, got, current_tz_offset, instant,
                 early>>

(* is_update_in_progress: outb(0x70, 0x0A) ...                             *)
PollSelect(r) ==
  /\ Runs(r) /\ pc[r] = "poll"
  /\ index' = StatusA
  /\ Goto(r, "polled")
  /\ UNCHANGED <<chip, uip, next, got, current_tz_offset, cut,
                 instant, early>>

(* Mutant: get_time does not wait for the end of an update.                *)
PollReadOnce(r) ==
  /\ Runs(r) /\ pc[r] = "polled"
  /\ next' = [next EXCEPT ![r] = 1]
  /\ instant' = [instant EXCEPT ![r] = <<chip, current_tz_offset>>]
  /\ early' = [early EXCEPT ![r] = ~uip]
  /\ Goto(r, "select")
  /\ UNCHANGED <<chip, uip, index, got, current_tz_offset, cut>>

(* ... and inb(0x71), which is not register 0x0A if a handler has been     *)
(* there in between.  Its bit 7 is never set in a BCD time.                *)
PollRead(r) ==
  /\ Runs(r) /\ pc[r] = "polled"
  /\ IF index = StatusA /\ uip
     THEN Goto(r, "poll") /\ UNCHANGED <<next, instant, early>>
     ELSE /\ next' = [next EXCEPT ![r] = 1]
          /\ instant' = [instant EXCEPT ![r] = <<chip, current_tz_offset>>]
          /\ early' = [early EXCEPT ![r] = ~uip]
          /\ Goto(r, "select")
  /\ UNCHANGED <<chip, uip, index, got, current_tz_offset, cut>>

(* Mutant: the register number is one too high.                            *)
SelectNext(r) ==
  /\ Runs(r) /\ pc[r] = "select"
  /\ index' = next[r] + 1
  /\ Goto(r, "read")
  /\ UNCHANGED <<chip, uip, next, got, current_tz_offset, cut,
                 instant, early>>

(* get_rtc_register: outb ...                                              *)
Select(r) ==
  /\ Runs(r) /\ pc[r] = "select"
  /\ index' = next[r]
  /\ Goto(r, "read")
  /\ UNCHANGED <<chip, uip, next, got, current_tz_offset, cut,
                 instant, early>>

(* ... and inb, of the register the port has now.                          *)
Read(r) ==
  /\ Runs(r) /\ pc[r] = "read"
  /\ got' = [got EXCEPT ![r][next[r]] = Register(index)]
  /\ IF next[r] < 3
     THEN next' = [next EXCEPT ![r] = next[r] + 1] /\ Goto(r, "select")
     ELSE Goto(r, "adjust") /\ UNCHANGED next
  /\ UNCHANGED <<chip, uip, index, current_tz_offset, cut, instant, early>>

(* get_time returns TimeOf(got[r], current_tz_offset).                     *)
Adjust(r) ==
  /\ Runs(r) /\ pc[r] = "adjust"
  /\ got' = [got EXCEPT ![r] = <<0, 0, 0>>]
  /\ instant' = [instant EXCEPT ![r] = <<Midnight, 0>>]
  /\ Goto(r, "idle")
  /\ UNCHANGED <<chip, uip, index, next, current_tz_offset, cut, early>>

(* Another handler runs, for as long as it likes: perhaps it chooses a     *)
(* time zone (update_tz_by_name).  main() may be anywhere.                 *)
OtherHandler ==
  /\ pc["handler"] = "idle"
  /\ current_tz_offset' \in Offset
  /\ cut' = TRUE
  /\ UNCHANGED <<chip, uip, index, pc, next, got, instant, early>>

-----------------------------------------------------------------------------
(* The chip (external).  It announces an update 244 microseconds before it *)
(* makes it: time enough for a get_time that has seen no announcement to   *)
(* end, if it is not interrupted.                                          *)

Second(t) ==
  LET s == t[3] + 1
      m == t[2] + (IF s = Seconds THEN 1 ELSE 0)
      h == t[1] + (IF m = Minutes THEN 1 ELSE 0)
  IN <<h % Hours, m % Minutes, s % Seconds>>

Announce ==
  /\ ~uip
  /\ uip' = TRUE
  /\ UNCHANGED <<chip, index, pc, next, got, current_tz_offset,
                 cut, instant, early>>

InWindow(r) == pc[r] \in {"select", "read", "adjust"}

Update ==
  /\ uip
  /\ \A r \in Reader : InWindow(r) /\ early[r] => r = "main" /\ cut
  /\ chip' = Second(chip) /\ uip' = FALSE
  /\ UNCHANGED <<index, pc, next, got, current_tz_offset, cut,
                 instant, early>>

-----------------------------------------------------------------------------
Next ==
  \/ \E r \in Reader :
       Call(r) \/ PollSelect(r) \/ PollRead(r)
       \/ Select(r) \/ Read(r) \/ Adjust(r)
  \/ OtherHandler
  \/ Announce \/ Update

Spec == Init /\ [][Next]_vars
-----------------------------------------------------------------------------
(* The variables have their types (rtcdriver.c).                           *)
Time == (0 .. Hours - 1) \X (0 .. Minutes - 1) \X (0 .. Seconds - 1)

RtcTypeOK ==
  /\ chip \in Time /\ uip \in BOOLEAN
  /\ index \in 0 .. 3
  /\ pc \in [Reader -> {"idle", "poll", "polled", "select", "read", "adjust"}]
  /\ next \in [Reader -> 1 .. 3]
  /\ got \in [Reader -> Nat \X Nat \X Nat]
  /\ current_tz_offset \in Offset
  /\ cut \in BOOLEAN
  /\ instant \in [Reader -> Time \X Offset]
  /\ early \in [Reader -> BOOLEAN]

(* The time of day in a zone: seconds since midnight, round the day.       *)
LocalTime(t, offset) ==
  LET day == Hours * Minutes * Seconds
      s   == (((t[1] + offset) * Minutes + t[2]) * Seconds + t[3]) % day
  IN <<s \div (Minutes * Seconds), (s \div Seconds) % Minutes, s % Seconds>>

(* What get_time returns is one moment's time, in the zone of that moment, *)
(* although it takes four accesses of two ports and the clock goes on: for *)
(* the time command always ...                                             *)
Coherent(r) ==
  pc[r] = "adjust" =>
    TimeOf(got[r], current_tz_offset) = LocalTime(instant[r][1], instant[r][2])

HandlerCoherent == Coherent("handler")

(* ... and for the clock on the screen if no handler came in between: then *)
(* the port may have another index, the second may be over or the zone     *)
(* another, and the clock is wrong until the loop comes round again.       *)
MainCoherent == ~cut => Coherent("main")
=============================================================================
