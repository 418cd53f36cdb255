----------------------------- MODULE RtcProofs -----------------------------
(***************************************************************************)
(* Proofs about the real time clock driver, for a day of any length and    *)
(* any table of offsets up to a day.                                       *)
(***************************************************************************)
EXTENDS Rtc, TLAPS

(* main()'s get_time is cut short whenever a handler is in its own.        *)
CutKnown == pc["main"] # "idle" /\ pc["handler"] # "idle" => cut

(* A get_time that nothing has come between has the port to itself, polled *)
(* before the announcement, and has read so far what the chip still shows, *)
(* in the zone that is still chosen.                                       *)
Undisturbed(r) ==
  /\ pc[r] = "polled" => index = StatusA
  /\ InWindow(r) => early[r] /\ instant[r] = <<chip, current_tz_offset>>
  /\ pc[r] = "read" => index = next[r]
  /\ pc[r] \in {"select", "read"} =>
       \A i \in 1 .. 3 : i < next[r] => got[r][i] = Register(i)
  /\ pc[r] = "adjust" => \A i \in 1 .. 3 : got[r][i] = Register(i)

IInv ==
  /\ RtcTypeOK /\ CutKnown
  /\ Undisturbed("handler")
  /\ ~cut => Undisturbed("main")

-----------------------------------------------------------------------------
(* Arithmetic.                                                             *)

LEMMA Multiple ==
  ASSUME NEW d \in Nat \ {0}, NEW k \in Int, k >= 1
  PROVE  d * k >= d
<1>1. k - 1 \in Nat  OBVIOUS
<1>2. \A a, b \in Nat : a * b \in Nat  OBVIOUS
<1>3. d * (k - 1) \in Nat  BY <1>1, <1>2
<1>4. d * k = d * (k - 1) + d  OBVIOUS
<1>5. d * k \in Int  OBVIOUS
<1> QED  BY <1>3, <1>4

(* The quotient and the remainder are the only numbers that are right.     *)
LEMMA DivisionUnique ==
  ASSUME NEW d \in Nat \ {0}, NEW q \in Int, NEW r \in 0 .. d - 1
  PROVE  (d * q + r) \div d = q /\ (d * q + r) % d = r
<1> DEFINE a == d * q + r
<1>0. a \in Int  OBVIOUS
<1> HIDE DEF a
<1> DEFINE p == a \div d
           t == a % d
<1>1. p \in Int /\ t \in 0 .. d - 1 /\ a = d * p + t  BY <1>0
<1> HIDE DEF p, t
<1>2. d * p + t = d * q + r  BY <1>1 DEF a
<1>3. ~(p - q >= 1)
  <2>1. SUFFICES ASSUME p - q >= 1 PROVE FALSE  OBVIOUS
  <2>2. p - q \in Int  BY <1>1
  <2>3. d * (p - q) >= d  BY <2>1, <2>2, Multiple
  <2>4. d * (p - q) = d * p - d * q  BY <1>1
  <2>5. d * p \in Int /\ d * q \in Int  BY <1>1
  <2> QED  BY <1>1, <1>2, <2>3, <2>4, <2>5
<1>4. ~(q - p >= 1)
  <2>1. SUFFICES ASSUME q - p >= 1 PROVE FALSE  OBVIOUS
  <2>2. q - p \in Int  BY <1>1
  <2>3. d * (q - p) >= d  BY <2>1, <2>2, Multiple
  <2>4. d * (q - p) = d * q - d * p  BY <1>1
  <2>5. d * p \in Int /\ d * q \in Int  BY <1>1
  <2> QED  BY <1>1, <1>2, <2>3, <2>4, <2>5
<1>5. p = q  BY <1>1, <1>3, <1>4
<1>6. t = r
  <2>1. d * p = d * q /\ d * q \in Int  BY <1>5
  <2> QED  BY <1>1, <1>2, <2>1
<1> QED  BY <1>5, <1>6 DEF a, p, t

LEMMA ProductType ==
  ASSUME NEW a \in Nat \ {0}, NEW b \in Nat \ {0}
  PROVE  a * b \in Nat \ {0}
<1>1. a * b >= a  BY Multiple
<1> QED  BY <1>1

(* A number of two digits, the lower of base b, is below the number of     *)
(* their combinations.                                                     *)
LEMMA TwoDigits ==
  ASSUME NEW a \in Nat \ {0}, NEW b \in Nat \ {0},
         NEW hi \in 0 .. a - 1, NEW lo \in 0 .. b - 1
  PROVE  b * hi + lo \in 0 .. a * b - 1
<1>1. \A x, y \in Nat : x * y \in Nat  OBVIOUS
<1>2. b * hi \in Nat /\ b * (a - 1 - hi) \in Nat
  <2>1. hi \in Nat /\ a - 1 - hi \in Nat /\ b \in Nat  OBVIOUS
  <2> QED  BY <1>1, <2>1
<1>3. b * (a - 1 - hi) = a * b - b - b * hi  OBVIOUS
<1>4. a * b \in Int  OBVIOUS
<1> QED  BY <1>2, <1>3, <1>4

(* The hour is moved by the offset, round the day.                         *)
LEMMA HourRoundTheDay ==
  ASSUME NEW h \in 0 .. Hours - 1, NEW offset \in Offset
  PROVE  /\ adjusted_h(h, offset) \in 0 .. Hours - 1
         /\ \E k \in {-1, 0, 1} : h + offset = adjusted_h(h, offset) + k * Hours
<1>1. Hours \in Nat \ {0} /\ offset \in Int /\ -Hours <= offset /\ offset <= Hours
  BY RtcAssumption
<1> DEFINE g == adjusted_h(h, offset)
<1>2. CASE h + offset >= Hours
  <2>1. g = h + offset - Hours  BY <1>1, <1>2 DEF adjusted_h
  <2>2. g \in 0 .. Hours - 1 /\ h + offset = g + 1 * Hours  BY <1>1, <1>2, <2>1
  <2> QED  BY <2>2
<1>3. CASE h + offset < 0
  <2>1. g = h + offset + Hours  BY <1>1, <1>3 DEF adjusted_h
  <2>2. g \in 0 .. Hours - 1 /\ h + offset = g + (-1) * Hours  BY <1>1, <1>3, <2>1
  <2> QED  BY <2>2
<1>4. CASE ~(h + offset >= Hours) /\ ~(h + offset < 0)
  <2>1. g = h + offset  BY <1>4 DEF adjusted_h
  <2>2. g \in 0 .. Hours - 1 /\ h + offset = g + 0 * Hours  BY <1>1, <1>4, <2>1
  <2> QED  BY <2>2
<1> QED  BY <1>2, <1>3, <1>4

(* What get_time makes of the three registers of one moment is the time of *)
(* that moment in the zone.                                                *)
LEMMA OneMoment ==
  ASSUME NEW t \in Time, NEW offset \in Offset, NEW registers,
         \A i \in 1 .. 3 : registers[i] = t[4 - i]
  PROVE  TimeOf(registers, offset) = LocalTime(t, offset)
<1> DEFINE h == t[1]
           m == t[2]
           s == t[3]
           g == adjusted_h(h, offset)
           day == Hours * Minutes * Seconds
           y == (g * Minutes + m) * Seconds + s
           x == ((h + offset) * Minutes + m) * Seconds + s
<1>1. /\ Hours \in Nat \ {0} /\ Minutes \in Nat \ {0} /\ Seconds \in Nat \ {0}
      /\ h \in 0 .. Hours - 1 /\ m \in 0 .. Minutes - 1 /\ s \in 0 .. Seconds - 1
      /\ offset \in Int
  BY RtcAssumption DEF Time
<1>2. PICK k \in {-1, 0, 1} : g \in 0 .. Hours - 1 /\ h + offset = g + k * Hours
  BY <1>1, HourRoundTheDay
<1>3. TimeOf(registers, offset) = <<g, m, s>>
  <2>1. 1 \in 1 .. 3 /\ 2 \in 1 .. 3 /\ 3 \in 1 .. 3
        /\ 4 - 1 = 3 /\ 4 - 2 = 2 /\ 4 - 3 = 1
    OBVIOUS
  <2>2. registers[1] = s /\ registers[2] = m /\ registers[3] = h  BY <2>1
  <2> QED  BY <2>2 DEF TimeOf
<1>4. LocalTime(t, offset) =
        <<(x % day) \div (Minutes * Seconds),
          ((x % day) \div Seconds) % Minutes, (x % day) % Seconds>>
  BY DEF LocalTime
<1> HIDE DEF h, m, s, g
<1>5. Minutes * Seconds \in Nat \ {0} /\ day \in Nat \ {0}
      /\ day = Hours * (Minutes * Seconds)
  <2>1. Minutes * Seconds \in Nat \ {0} /\ Hours * Minutes \in Nat \ {0}
    BY <1>1, ProductType
  <2>2. Hours * Minutes * Seconds \in Nat \ {0}  BY <1>1, <2>1, ProductType
  <2> QED  BY <1>1, <2>1, <2>2
<1>6. /\ Seconds * m + s \in 0 .. Minutes * Seconds - 1
      /\ (Minutes * Seconds) * g + (Seconds * m + s) \in 0 .. day - 1
  <2>1. Seconds * m + s \in 0 .. Minutes * Seconds - 1  BY <1>1, TwoDigits
  <2> QED  BY <1>1, <1>2, <1>5, <2>1, TwoDigits
<1>7. y = (Minutes * Seconds) * g + (Seconds * m + s)  BY <1>1, <1>2
<1>8. x = day * k + y
  <2>1. h + offset = g + k * Hours /\ k \in Int /\ g \in Int  BY <1>2
  <2>2. x = ((g + k * Hours) * Minutes + m) * Seconds + s  BY <2>1
  <2> QED  BY <1>1, <2>1, <2>2
<1>9. y = Seconds * (Minutes * g + m) + s  BY <1>1, <1>2
<1> HIDE DEF x, y, day
<1>10. x % day = y
  <2>1. k \in Int /\ y \in 0 .. day - 1 /\ day \in Nat \ {0}
    BY <1>5, <1>6, <1>7
  <2>2. (day * k + y) % day = y  BY <2>1, DivisionUnique
  <2> QED  BY <1>8, <2>2
<1>11. y \div (Minutes * Seconds) = g
  BY <1>2, <1>5, <1>6, <1>7, DivisionUnique
<1>12. Minutes * g + m \in Int  BY <1>1, <1>2
<1>13. y \div Seconds = Minutes * g + m /\ y % Seconds = s
  BY <1>1, <1>9, <1>12, DivisionUnique
<1>14. (Minutes * g + m) % Minutes = m
  BY <1>1, <1>2, DivisionUnique
<1> QED  BY <1>3, <1>4, <1>10, <1>11, <1>13, <1>14

-----------------------------------------------------------------------------
(* Type correctness.                                                       *)

LEMMA TypeInit == Init => RtcTypeOK
<1> SUFFICES ASSUME Init PROVE RtcTypeOK  OBVIOUS
<1>1. /\ Hours \in Nat \ {0} /\ Minutes \in Nat \ {0} /\ Seconds \in Nat \ {0}
      /\ 0 \in Offset
  BY RtcAssumption
<1>2. Midnight \in Time /\ <<Hours - 1, Minutes - 1, Seconds - 1>> \in Time
  BY <1>1 DEF Midnight, Time
<1>3. instant \in [Reader -> Time \X Offset]  BY <1>1, <1>2 DEF Init
<1>4. got \in [Reader -> Nat \X Nat \X Nat]  BY DEF Init
<1>5. chip \in Time /\ current_tz_offset \in Offset  BY <1>1, <1>2 DEF Init
<1>6. next \in [Reader -> 1 .. 3] /\ early \in [Reader -> BOOLEAN]  BY DEF Init
<1>7. pc \in [Reader -> {"idle", "poll", "polled", "select", "read", "adjust"}]
  BY DEF Init
<1>8. index \in 0 .. 3  BY DEF Init, StatusA
<1>9. uip \in BOOLEAN /\ cut \in BOOLEAN  BY Zenon DEF Init
<1> QED  BY <1>3, <1>4, <1>5, <1>6, <1>7, <1>8, <1>9 DEF RtcTypeOK

LEMMA SecondType ==
  ASSUME NEW t \in Time
  PROVE  Second(t) \in Time
<1>1. /\ Hours \in Nat \ {0} /\ Minutes \in Nat \ {0} /\ Seconds \in Nat \ {0}
  BY RtcAssumption
<1>2. \A d \in Nat \ {0}, a \in Int : a % d \in 0 .. d - 1  OBVIOUS
<1> DEFINE s == t[3] + 1
           m == t[2] + (IF s = Seconds THEN 1 ELSE 0)
           h == t[1] + (IF m = Minutes THEN 1 ELSE 0)
<1>3. s \in Int /\ m \in Int /\ h \in Int  BY <1>1 DEF Time
<1>4. Second(t) = <<h % Hours, m % Minutes, s % Seconds>>  BY DEF Second
<1> HIDE DEF s, m, h
<1>5. h % Hours \in 0 .. Hours - 1 /\ m % Minutes \in 0 .. Minutes - 1
      /\ s % Seconds \in 0 .. Seconds - 1
  BY <1>1, <1>2, <1>3
<1> QED  BY <1>4, <1>5 DEF Time

LEMMA RegisterType ==
  ASSUME RtcTypeOK, NEW i \in 0 .. 3
  PROVE  Register(i) \in Nat
<1>1. chip[1] \in Nat /\ chip[2] \in Nat /\ chip[3] \in Nat
  BY RtcAssumption DEF RtcTypeOK, Time
<1>2. CASE i = 0  BY <1>2 DEF Register, StatusA
<1>3. CASE i # 0
  <2>1. Register(i) = chip[4 - i]  BY <1>3 DEF Register, StatusA
  <2>2. 4 - i = 1 \/ 4 - i = 2 \/ 4 - i = 3  BY <1>3
  <2> QED  BY <1>1, <2>1, <2>2
<1> QED  BY <1>2, <1>3

(* Every step keeps the types.                                             *)
LEMMA TypeStep ==
  ASSUME RtcTypeOK, [Next]_vars
  PROVE  RtcTypeOK'
<1> USE DEF RtcTypeOK, Goto
<1>1. ASSUME NEW r \in Reader, Call(r)  PROVE RtcTypeOK'
  <2>1. (r = "handler" /\ (pc["main"] # "idle" \/ cut)) \in BOOLEAN  OBVIOUS
  <2> QED  BY <1>1, <2>1 DEF Call
<1>2. ASSUME NEW r \in Reader, PollSelect(r)  PROVE RtcTypeOK'
  BY <1>2 DEF PollSelect, StatusA
<1>3. ASSUME NEW r \in Reader, PollRead(r)  PROVE RtcTypeOK'
  <2>1. <<chip, current_tz_offset>> \in Time \X Offset  OBVIOUS
  <2>2. CASE index = StatusA /\ uip  BY <1>3, <2>2 DEF PollRead
  <2>3. CASE ~(index = StatusA /\ uip)
    <3>1. instant' \in [Reader -> Time \X Offset]
      BY <1>3, <2>1, <2>3 DEF PollRead
    <3>2. early' \in [Reader -> BOOLEAN]
      <4>1. early' = [early EXCEPT ![r] = ~uip]  BY <1>3, <2>3 DEF PollRead
      <4>2. (~uip) \in BOOLEAN  OBVIOUS
      <4> QED  BY <4>1, <4>2, Zenon
    <3>3. pc' = [pc EXCEPT ![r] = "select"] /\ next' = [next EXCEPT ![r] = 1]
          /\ UNCHANGED <<chip, uip, index, got, current_tz_offset, cut>>
      BY <1>3, <2>3 DEF PollRead
    <3> QED  BY <3>1, <3>2, <3>3
  <2> QED  BY <2>2, <2>3
<1>4. ASSUME NEW r \in Reader, Select(r)  PROVE RtcTypeOK'
  <2>1. next[r] \in 0 .. 3  OBVIOUS
  <2> QED  BY <1>4, <2>1 DEF Select
<1>5. ASSUME NEW r \in Reader, Read(r)  PROVE RtcTypeOK'
  <2>1. Register(index) \in Nat  BY RegisterType
  <2>2. got' \in [Reader -> Nat \X Nat \X Nat]
    <3>1. got[r] \in Nat \X Nat \X Nat /\ next[r] \in 1 .. 3  OBVIOUS
    <3>2. [got[r] EXCEPT ![next[r]] = Register(index)] \in Nat \X Nat \X Nat
      BY <2>1, <3>1
    <3> QED  BY <1>5, <3>2 DEF Read
  <2>3. next' \in [Reader -> 1 .. 3]
    <3>1. next[r] < 3 => next[r] + 1 \in 1 .. 3  OBVIOUS
    <3> QED  BY <1>5, <3>1 DEF Read
  <2> QED  BY <1>5, <2>2, <2>3 DEF Read
<1>6. ASSUME NEW r \in Reader, Adjust(r)  PROVE RtcTypeOK'
  <2>1. <<Midnight, 0>> \in Time \X Offset  BY RtcAssumption DEF Midnight, Time
  <2>2. instant' \in [Reader -> Time \X Offset]  BY <1>6, <2>1 DEF Adjust
  <2>3. got' \in [Reader -> Nat \X Nat \X Nat]  BY <1>6 DEF Adjust
  <2> QED  BY <1>6, <2>2, <2>3 DEF Adjust
<1>7. CASE OtherHandler  BY <1>7 DEF OtherHandler
<1>8. CASE Announce  BY <1>8 DEF Announce
<1>9. CASE Update  BY <1>9, SecondType DEF Update
<1>10. CASE UNCHANGED vars  BY <1>10 DEF vars
<1> QED
  BY <1>1, <1>2, <1>3, <1>4, <1>5, <1>6, <1>7, <1>8, <1>9, <1>10 DEF Next

-----------------------------------------------------------------------------
(* A get_time is undisturbed by its own steps.                             *)

LEMMA OwnStep ==
  ASSUME RtcTypeOK, NEW r \in Reader, Undisturbed(r),
         \/ Call(r) \/ PollSelect(r) \/ PollRead(r)
         \/ Select(r) \/ Read(r) \/ Adjust(r)
  PROVE  Undisturbed(r)'
<1> USE DEF Undisturbed, InWindow
<1>0. /\ pc \in [Reader -> {"idle", "poll", "polled", "select", "read", "adjust"}]
      /\ next \in [Reader -> 1 .. 3] /\ got \in [Reader -> Nat \X Nat \X Nat]
      /\ instant \in [Reader -> Time \X Offset] /\ early \in [Reader -> BOOLEAN]
  BY DEF RtcTypeOK
<1>1. CASE Call(r)
  <2>1. pc'[r] = "poll"  BY <1>0, <1>1 DEF Call, Goto
  <2> QED  BY <2>1
<1>2. CASE PollSelect(r)
  <2>1. pc'[r] = "polled" /\ index' = StatusA
    BY <1>0, <1>2 DEF PollSelect, Goto
  <2> QED  BY <2>1
<1>3. CASE PollRead(r)
  <2>1. pc[r] = "polled" /\ index = StatusA  BY <1>3 DEF PollRead
  <2>2. CASE uip
    <3>1. pc'[r] = "poll"  BY <1>0, <1>3, <2>1, <2>2 DEF PollRead, Goto
    <3> QED  BY <3>1
  <2>3. CASE ~uip
    <3>1. /\ pc'[r] = "select" /\ next'[r] = 1
          /\ instant'[r] = <<chip, current_tz_offset>>
          /\ chip' = chip /\ current_tz_offset' = current_tz_offset
      BY <1>0, <1>3, <2>1, <2>3 DEF PollRead, Goto
    <3>2. early'[r]
      <4>1. early' = [early EXCEPT ![r] = ~uip]
        BY <1>3, <2>1, <2>3 DEF PollRead
      <4> QED  BY <1>0, <2>3, <4>1, Zenon
    <3> QED  BY <3>1, <3>2
  <2> QED  BY <2>2, <2>3
<1>4. CASE Select(r)
  <2>1. /\ pc[r] = "select" /\ pc'[r] = "read" /\ index' = next[r]
        /\ UNCHANGED <<chip, next, got, current_tz_offset, instant, early>>
    BY <1>0, <1>4 DEF Select, Goto
  <2>2. \A i \in 1 .. 3 : Register(i)' = Register(i)
    BY <2>1 DEF Register
  <2> QED  BY <2>1, <2>2
<1>5. CASE Read(r)
  <2>1. /\ pc[r] = "read" /\ index = next[r]
        /\ UNCHANGED <<chip, current_tz_offset, instant, early>>
        /\ got'[r] = [got[r] EXCEPT ![next[r]] = Register(next[r])]
    BY <1>0, <1>5 DEF Read
  <2>2. \A i \in 1 .. 3 : Register(i)' = Register(i)
    BY <2>1 DEF Register
  <2>3. /\ next[r] \in 1 .. 3 /\ got[r] \in Nat \X Nat \X Nat  BY <1>0
  <2>4. \A i \in 1 .. 3 : i <= next[r] => got'[r][i] = Register(i)
    <3> SUFFICES ASSUME NEW i \in 1 .. 3, i <= next[r]
                 PROVE  got'[r][i] = Register(i)
      OBVIOUS
    <3>1. CASE i = next[r]  BY <2>1, <2>3, <3>1
    <3>2. CASE i # next[r]
      <4>1. i < next[r]  BY <2>3, <3>2
      <4>2. got[r][i] = Register(i)  BY <2>1, <4>1
      <4> QED  BY <2>1, <2>3, <3>2, <4>2
    <3> QED  BY <3>1, <3>2
  <2>5. CASE next[r] < 3
    <3>1. pc'[r] = "select" /\ next'[r] = next[r] + 1
      BY <1>0, <1>5, <2>5 DEF Read, Goto
    <3>2. \A i \in 1 .. 3 : i < next'[r] => got'[r][i] = Register(i)'
      BY <2>2, <2>3, <2>4, <3>1
    <3> QED  BY <2>1, <3>1, <3>2
  <2>6. CASE ~(next[r] < 3)
    <3>1. pc'[r] = "adjust" /\ next[r] = 3
      BY <1>0, <1>5, <2>6 DEF Read, Goto
    <3>2. \A i \in 1 .. 3 : got'[r][i] = Register(i)'
      BY <2>2, <2>4, <3>1
    <3> QED  BY <2>1, <3>1, <3>2
  <2> QED  BY <2>5, <2>6
<1>6. CASE Adjust(r)
  <2>1. pc'[r] = "idle"  BY <1>0, <1>6 DEF Adjust, Goto
  <2> QED  BY <2>1
<1> QED  BY <1>1, <1>2, <1>3, <1>4, <1>5, <1>6

(* A get_time that is not running has nothing to lose.                     *)
LEMMA IdleUndisturbed ==
  ASSUME NEW r \in Reader, pc[r] = "idle"
  PROVE  Undisturbed(r)
BY DEF Undisturbed, InWindow

(* The chip keeps what it has announced from a get_time that polled before *)
(* the announcement, unless a handler has come between.                    *)
LEMMA ChipStep ==
  ASSUME RtcTypeOK, NEW r \in Reader, Undisturbed(r), r = "main" => ~cut,
         Announce \/ Update
  PROVE  Undisturbed(r)'
<1>1. CASE Announce
  BY <1>1 DEF Announce, Undisturbed, InWindow, Register
<1>2. CASE Update
  <2>1. ~InWindow(r)
    BY <1>2 DEF Update, Undisturbed
  <2>2. UNCHANGED <<pc, index>>  BY <1>2 DEF Update
  <2> QED  BY <2>1, <2>2 DEF Undisturbed, InWindow
<1> QED  BY <1>1, <1>2

-----------------------------------------------------------------------------
(* A step of one reader, and what the other may count on.                  *)

Own(r) == \/ Call(r) \/ PollSelect(r) \/ PollRead(r)
          \/ Select(r) \/ Read(r) \/ Adjust(r)

LEMMA OwnMoves ==
  ASSUME RtcTypeOK, NEW r \in Reader, Own(r)
  PROVE  /\ \A q \in Reader \ {r} : pc'[q] = pc[q]
         /\ r = "main" => pc["handler"] = "idle"
         /\ pc[r] = "idle" \/ cut' = cut
         /\ pc[r] = "idle" => Call(r)
<1>1. pc \in [Reader -> {"idle", "poll", "polled", "select", "read", "adjust"}]
  BY DEF RtcTypeOK
<1> QED
  BY <1>1 DEF Own, Call, PollSelect, PollRead, Select, Read, Adjust, Goto, Runs

(* Every step keeps the invariant.                                         *)
LEMMA IndStep ==
  ASSUME IInv, [Next]_vars
  PROVE  IInv'
<1>0. /\ RtcTypeOK /\ CutKnown /\ Undisturbed("handler")
      /\ (~cut => Undisturbed("main"))
      /\ "main" \in Reader /\ "handler" \in Reader
  BY DEF IInv, Reader
<1>1. RtcTypeOK'  BY <1>0, TypeStep
<1>2. CASE Own("main")
  <2>1. pc["handler"] = "idle" /\ pc'["handler"] = "idle"
    BY <1>0, <1>2, OwnMoves DEF Reader
  <2>2. Undisturbed("handler")'  BY <1>0, <2>1, IdleUndisturbed DEF Undisturbed, InWindow
  <2>3. CutKnown'  BY <2>1 DEF CutKnown
  <2>4. ~cut' => Undisturbed("main")'
    <3>1. CASE pc["main"] = "idle"
      <4>1. Call("main")  BY <1>0, <1>2, <3>1, OwnMoves
      <4>2. pc'["main"] = "poll"  BY <1>0, <4>1 DEF Call, Goto, RtcTypeOK
      <4> QED  BY <4>2 DEF Undisturbed, InWindow
    <3>2. CASE pc["main"] # "idle"
      <4>1. cut' = cut  BY <1>0, <1>2, <3>2, OwnMoves
      <4> QED  BY <1>0, <1>2, <4>1, OwnStep DEF Own
    <3> QED  BY <3>1, <3>2
  <2> QED  BY <1>1, <2>2, <2>3, <2>4 DEF IInv
<1>3. CASE Own("handler")
  <2>1. pc'["main"] = pc["main"]  BY <1>0, <1>3, OwnMoves DEF Reader
  <2>2. Undisturbed("handler")'  BY <1>0, <1>3, OwnStep DEF Own
  <2>3. pc["main"] = "idle" \/ cut'
    <3>1. CASE pc["handler"] = "idle"
      <4>1. Call("handler")  BY <1>0, <1>3, <3>1, OwnMoves
      <4> QED  BY <4>1 DEF Call
    <3>2. CASE pc["handler"] # "idle"
      <4>1. cut' = cut  BY <1>0, <1>3, <3>2, OwnMoves
      <4> QED  BY <1>0, <3>2, <4>1 DEF CutKnown
    <3> QED  BY <3>1, <3>2
  <2>4. CutKnown'  BY <2>1, <2>3 DEF CutKnown
  <2>5. ~cut' => Undisturbed("main")'
    BY <2>1, <2>3 DEF Undisturbed, InWindow
  <2> QED  BY <1>1, <2>2, <2>4, <2>5 DEF IInv
<1>4. CASE OtherHandler
  <2>1. pc["handler"] = "idle" /\ cut' /\ pc' = pc  BY <1>4 DEF OtherHandler
  <2>2. Undisturbed("handler")'  BY <2>1 DEF Undisturbed, InWindow
  <2> QED  BY <1>1, <2>1, <2>2 DEF IInv, CutKnown
<1>5. CASE Announce \/ Update
  <2>1. pc' = pc /\ cut' = cut  BY <1>5 DEF Announce, Update
  <2>2. Undisturbed("handler")'  BY <1>0, <1>5, ChipStep
  <2>3. ~cut' => Undisturbed("main")'  BY <1>0, <1>5, <2>1, ChipStep
  <2> QED  BY <1>0, <1>1, <2>1, <2>2, <2>3 DEF IInv, CutKnown
<1>6. CASE UNCHANGED vars
  BY <1>0, <1>1, <1>6
     DEF vars, IInv, CutKnown, Undisturbed, InWindow, Register
<1> QED  BY <1>2, <1>3, <1>4, <1>5, <1>6 DEF Next, Own, Reader

(* The invariant holds in every reachable state.                           *)
LEMMA Inductive == Spec => []IInv
<1>1. Init => IInv
  <2> SUFFICES ASSUME Init PROVE IInv  OBVIOUS
  <2>1. pc["main"] = "idle" /\ pc["handler"] = "idle"  BY DEF Init, Reader
  <2>2. Undisturbed("main") /\ Undisturbed("handler")
    BY <2>1 DEF Undisturbed, InWindow
  <2> QED  BY <2>1, <2>2, TypeInit DEF IInv, CutKnown
<1> QED  BY <1>1, IndStep, PTL DEF Spec

-----------------------------------------------------------------------------
(* The theorems.                                                           *)

(* The registers, the port's index, the zone and the times that are        *)
(* returned have their types, whatever interrupts what.                    *)
THEOREM TypeCorrect == Spec => []RtcTypeOK
<1>1. IInv => RtcTypeOK  BY DEF IInv
<1> QED  BY <1>1, Inductive, PTL

(* A read that nobody disturbed returns the time of one moment.            *)
LEMMA UndisturbedCoherent ==
  ASSUME RtcTypeOK, NEW r \in Reader, Undisturbed(r)
  PROVE  Coherent(r)
<1> SUFFICES ASSUME pc[r] = "adjust"
             PROVE  TimeOf(got[r], current_tz_offset) =
                      LocalTime(instant[r][1], instant[r][2])
  BY DEF Coherent
<1>1. chip \in Time /\ current_tz_offset \in Offset  BY DEF RtcTypeOK
<1>2. instant[r][1] = chip /\ instant[r][2] = current_tz_offset
  BY DEF Undisturbed, InWindow
<1>3. \A i \in 1 .. 3 : got[r][i] = chip[4 - i]
  BY DEF Undisturbed, Register, StatusA
<1>4. TimeOf(got[r], current_tz_offset) = LocalTime(chip, current_tz_offset)
  BY <1>1, <1>3, OneMoment
<1> QED  BY <1>2, <1>4

(* What get_time returns to the time command is the time of one moment, in *)
(* the zone of that moment, for any length of day and any offset up to it. *)
THEOREM HandlerIsCoherent == Spec => []HandlerCoherent
<1>1. IInv => HandlerCoherent
  BY UndisturbedCoherent DEF IInv, HandlerCoherent, Reader
<1> QED  BY <1>1, Inductive, PTL

(* And so is what it returns to the clock of main(), if no handler came in *)
(* between.                                                                *)
THEOREM MainIsCoherent == Spec => []MainCoherent
<1>1. IInv => MainCoherent
  BY UndisturbedCoherent DEF IInv, MainCoherent, Reader
<1> QED  BY <1>1, Inductive, PTL
=============================================================================
