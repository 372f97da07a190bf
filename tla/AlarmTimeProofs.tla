--------------------------- MODULE AlarmTimeProofs ----------------------------
(****************************************************************************)
(* For every length of the day, offset and set of times: the alarm is in the *)
(* next 24 hours, the first time that reads as chosen now, and the phone is  *)
(* told the chosen time but for a change of the offset in between.  The      *)
(* inductive invariant says that a set alarm is what SetAlarm computed; the  *)
(* rest is arithmetic.                                                       *)
(****************************************************************************)
EXTENDS AlarmTime, TLAPS

IInv == TypeOK /\ AlarmKept

-------------------------------------------------------------------------------
(* Arithmetic of days.                                                       *)

LEMMA Remainder ==
  ASSUME NEW x \in Int
  PROVE  x % Day \in 0 .. Day - 1
BY DayAssumption

\* A time of the day is found again on the same date and on the next.
LEMMA SameTime ==
  ASSUME NEW x \in Int, NEW c \in 0 .. Day - 1
  PROVE  /\ (x - (x % Day) + c) % Day = c
         /\ (x - (x % Day) + c + Day) % Day = c
<1> DEFINE q == x \div Day
<1>1. q \in Int /\ x - (x % Day) = q * Day
  BY DayAssumption
<1>2. ASSUME NEW n \in Int PROVE (n * Day + c) % Day = c
  BY DayAssumption
<1>3. (q * Day + c) % Day = c
  BY <1>1, <1>2
<1>4. (q + 1) * Day + c = q * Day + c + Day
  BY <1>1, DayAssumption
<1>5. ((q + 1) * Day + c) % Day = c
  BY <1>1, <1>2
<1> QED
  BY <1>1, <1>3, <1>4, <1>5

\* Whole days do not change the time of the day,
LEMMA WholeDays ==
  ASSUME NEW n \in Int, NEW x \in Int
  PROVE  (n * Day + x) % Day = x % Day
<1> DEFINE q == x \div Day
           r == x % Day
<1>1. q \in Int /\ r \in 0 .. Day - 1 /\ x = q * Day + r
  BY DayAssumption
<1>2. (n + q) * Day + r = n * Day + x
  BY <1>1, DayAssumption
<1>3. \A k \in Int : (k * Day + r) % Day = r
  BY <1>1, DayAssumption
<1>4. ((n + q) * Day + r) % Day = r
  <2>1. n + q \in Int
    BY <1>1
  <2> QED BY <2>1, <1>3
<1> QED
  BY <1>2, <1>4

\* and equal times of the day are whole days apart.
LEMMA DaysApart ==
  ASSUME NEW x \in Int, NEW y \in Int, x % Day = y % Day, x < y
  PROVE  y - x >= Day
<1> DEFINE p == x \div Day
           q == y \div Day
           r == x % Day
<1>1. p \in Int /\ q \in Int /\ r \in Int /\ x = p * Day + r /\ y = q * Day + r
  BY DayAssumption
<1> HIDE DEF p, q, r
<1>2. y - x = (q - p) * Day
  BY <1>1, DayAssumption
<1>3. q - p >= 1
  BY <1>1, <1>2, DayAssumption
<1>4. (q - p) * Day >= Day
  BY <1>1, <1>3, DayAssumption
<1> QED
  BY <1>2, <1>4

-------------------------------------------------------------------------------
(* What SetAlarm computes.                                                   *)

LEMMA LocalType ==
  ASSUME NEW t \in Int, TypeOK
  PROVE  /\ Offset(t) \in Nat
         /\ Local(t) \in Int
         /\ TimeOfDay(t) \in 0 .. Day - 1
         /\ Midnight(t) = Local(t) - TimeOfDay(t)
<1>1. Offset(t) \in Nat /\ Local(t) \in Int
  BY DayAssumption DEF Offset, Local
<1>2. TimeOfDay(t) \in 0 .. Day - 1
  BY <1>1, Remainder DEF TimeOfDay
<1> QED
  BY <1>1, <1>2 DEF Midnight

\* The alarm is today or tomorrow, seen from the offset of now.
LEMMA AlarmType ==
  ASSUME NEW t \in Int, NEW c \in Times, TypeOK
  PROVE  /\ AlarmFor(t, c) \in Int
         /\ t <= AlarmFor(t, c)
         /\ AlarmFor(t, c) < t + Day
<1>1. c \in 0 .. Day - 1
  BY DayAssumption
<1>2. MkTime(t, c) = t - TimeOfDay(t) + c
  BY <1>1, LocalType, DayAssumption DEF MkTime, Local
<1> QED
  BY <1>1, <1>2, LocalType, DayAssumption DEF AlarmFor

\* Seen from the offset of now, its time of the day is the chosen one.
LEMMA AlarmSeen ==
  ASSUME NEW t \in Int, NEW c \in Times, TypeOK
  PROVE  (AlarmFor(t, c) + Offset(t)) % Day = c
<1> DEFINE a == AlarmFor(t, c) + Offset(t)
           x == Local(t)
<1>1. c \in Int /\ c \in 0 .. Day - 1 /\ Day \in Int
  BY DayAssumption
<1>2. /\ x \in Int /\ Offset(t) \in Int
      /\ x % Day \in Int
      /\ Midnight(t) = x - (x % Day)
  BY LocalType DEF TimeOfDay
<1>3. \/ a = x - (x % Day) + c
      \/ a = x - (x % Day) + c + Day
  <2>1. AlarmFor(t, c) = MkTime(t, c) \/ AlarmFor(t, c) = MkTime(t, c) + Day
    BY DEF AlarmFor
  <2>2. MkTime(t, c) = x - (x % Day) + c - Offset(t)
    BY <1>2 DEF MkTime
  <2> QED
    BY <1>1, <1>2, <2>1, <2>2
<1> HIDE DEF a, x
<1>4. (x - (x % Day) + c) % Day = c
  BY <1>1, <1>2, SameTime
<1>5. (x - (x % Day) + c + Day) % Day = c
  BY <1>1, <1>2, SameTime
<1> QED
  BY <1>3, <1>4, <1>5 DEF a

LEMMA AlarmAtChosen ==
  ASSUME NEW t \in Int, NEW c \in Times, TypeOK, Offset(AlarmFor(t, c)) = Offset(t)
  PROVE  TimeOfDay(AlarmFor(t, c)) = c
BY AlarmSeen DEF TimeOfDay, Local

\* Where the offset has changed, its time of the day is off by the difference.
LEMMA AlarmMisses ==
  ASSUME NEW t \in Int, NEW c \in Times, TypeOK
  PROVE  TimeOfDay(AlarmFor(t, c)) = (c + Offset(AlarmFor(t, c)) - Offset(t)) % Day
<1> DEFINE a == AlarmFor(t, c)
           seen == a + Offset(t)
           n == seen \div Day
           d == Offset(a) - Offset(t)
<1>1. a \in Int /\ Offset(t) \in Int /\ Offset(a) \in Int /\ c \in Int
  <2>1. a \in Int /\ c \in Int
    BY AlarmType, DayAssumption
  <2>2. \A u \in Int : Offset(u) \in Int
    BY LocalType
  <2> HIDE DEF a
  <2> QED BY <2>1, <2>2
<1>2. seen % Day = c
  BY AlarmSeen
<1>3. n \in Int /\ seen = n * Day + c
  <2>1. seen \in Int
    BY <1>1
  <2>2. \A x \in Int : x \div Day \in Int /\ x = (x \div Day) * Day + (x % Day)
    BY DayAssumption
  <2> HIDE DEF seen
  <2> QED BY <1>2, <2>1, <2>2 DEF n
<1>4. Local(a) = n * Day + (c + d)
  <2>1. n * Day \in Int
    BY <1>3, DayAssumption
  <2> HIDE DEF n
  <2> QED BY <1>1, <1>3, <2>1 DEF Local
<1>5. c + d \in Int
  BY <1>1
<1> HIDE DEF a, n, d
<1>6. Local(a) % Day = (c + d) % Day
  BY <1>3, <1>4, <1>5, WholeDays
<1>7. c + d = c + Offset(a) - Offset(t)
  BY <1>1 DEF d
<1> QED
  BY <1>6, <1>7 DEF a, TimeOfDay

-------------------------------------------------------------------------------
LEMMA InitTime == Init => IInv
<1> SUFFICES ASSUME Init PROVE IInv
  OBVIOUS
<1>1. TypeOK
  <2>1. now \in Nat \ {0} /\ change \in Nat
    BY DayAssumption DEF Init
  <2>2. chosen \in Times \cup {None} /\ summer \in BOOLEAN
    BY DEF Init
  <2>3. alarmTime \in Int /\ setAt \in Nat
    BY DEF Init
  <2>4. isSet \in BOOLEAN
    BY DEF Init
  <2> QED
    BY <2>1, <2>2, <2>3, <2>4 DEF TypeOK
<1>2. AlarmKept
  BY DEF Init, AlarmKept
<1> QED
  BY <1>1, <1>2 DEF IInv

LEMMA StepTime == IInv /\ [Next]_vars => IInv'
<1> SUFFICES ASSUME IInv, [Next]_vars PROVE IInv'
  OBVIOUS
<1> USE DEF IInv, vars, zone
<1>1. CASE TimePasses
  <2>1. TypeOK'
    BY <1>1 DEF TimePasses, TypeOK
  <2>2. AlarmKept'
    BY <1>1 DEF TimePasses, AlarmKept, AlarmFor, MkTime, Midnight, TimeOfDay, Local, Offset
  <2> QED
    BY <2>1, <2>2
<1>2. ASSUME NEW c \in Times, SetAlarm(c) PROVE IInv'
  <2>1. AlarmFor(now, c) \in Int
    BY AlarmType DEF TypeOK
  <2>2. TypeOK'
    BY <1>2, <2>1 DEF SetAlarm, TypeOK
  <2>3. AlarmKept'
    BY <1>2 DEF SetAlarm, AlarmKept, TypeOK, AlarmFor, MkTime, Midnight, TimeOfDay,
                Local, Offset
  <2> QED
    BY <2>2, <2>3
<1>3. CASE DisableAlarm
  BY <1>3 DEF DisableAlarm, TypeOK, AlarmKept
<1>4. CASE UNCHANGED vars
  <2>1. TypeOK'
    BY <1>4 DEF TypeOK
  <2>2. AlarmKept'
    BY <1>4 DEF AlarmKept, AlarmFor, MkTime, Midnight, TimeOfDay, Local, Offset
  <2> QED
    BY <2>1, <2>2
<1> QED
  BY <1>1, <1>2, <1>3, <1>4 DEF Next

LEMMA TimeInv == Spec => []IInv
BY InitTime, StepTime, PTL DEF Spec

(****************************************************************************)
(* A set alarm lies in the 24 hours that follow SetAlarm.                    *)
(****************************************************************************)
THEOREM AlarmWithinADay == Spec => []SetWithinADay
<1>1. IInv => SetWithinADay
  BY AlarmType DEF IInv, AlarmKept, SetWithinADay, TypeOK
<1> QED
  BY <1>1, TimeInv, PTL

(****************************************************************************)
(* The reply to getAlarmTime is the chosen time, or -1 if no alarm is set,   *)
(* unless the offset changes before the alarm.                               *)
(****************************************************************************)
THEOREM ReplyIsChosen == Spec => []PhoneShowsChosen
<1>1. ASSUME IInv PROVE PhoneShowsChosen
  <2>1. ~isSet => Reply = None
    BY DEF Reply
  <2>2. ASSUME isSet, Offset(setAt) = Offset(alarmTime) PROVE Reply = chosen
    <3>1. chosen \in Times /\ setAt \in Int /\ setAt > 0
          /\ alarmTime = AlarmFor(setAt, chosen)
      BY <1>1, <2>2 DEF IInv, AlarmKept, TypeOK
    <3>2. TimeOfDay(alarmTime) = chosen
      BY <1>1, <2>2, <3>1, AlarmAtChosen DEF IInv
    <3>3. alarmTime # 0
      BY <1>1, <3>1, AlarmType DEF IInv
    <3> QED
      BY <2>2, <3>2, <3>3 DEF Reply
  <2> QED
    BY <2>1, <2>2 DEF PhoneShowsChosen
<1> QED
  BY <1>1, TimeInv, PTL

(****************************************************************************)
(* The alarm is the first instant from SetAlarm on at which a clock that     *)
(* keeps the offset SetAlarm saw shows the chosen time: no day is skipped.   *)
(* What the phone shows, and when the alarm rings, is off by what the offset *)
(* has changed in between, and by nothing else.                              *)
(****************************************************************************)
FirstButForTheOffset ==
    isSet =>
        /\ (alarmTime + Offset(setAt)) % Day = chosen
        /\ \A t \in setAt .. alarmTime - 1 : (t + Offset(setAt)) % Day # chosen
        /\ Reply = (chosen + Offset(alarmTime) - Offset(setAt)) % Day

(****************************************************************************)
(* Whatever the zone does: SetAlarm takes the next time that reads as        *)
(* chosen now, and errs by the change of the offset.                         *)
(****************************************************************************)
THEOREM AlarmIsTheNext == Spec => []FirstButForTheOffset
<1>1. ASSUME IInv, isSet
      PROVE  /\ (alarmTime + Offset(setAt)) % Day = chosen
             /\ \A t \in setAt .. alarmTime - 1 : (t + Offset(setAt)) % Day # chosen
             /\ Reply = (chosen + Offset(alarmTime) - Offset(setAt)) % Day
  <2>1. /\ TypeOK /\ chosen \in Times /\ setAt \in Int /\ setAt > 0
        /\ alarmTime = AlarmFor(setAt, chosen)
    BY <1>1 DEF IInv, AlarmKept, TypeOK
  <2>2. alarmTime \in Int /\ setAt <= alarmTime /\ alarmTime < setAt + Day
    BY <2>1, AlarmType
  <2>3. (alarmTime + Offset(setAt)) % Day = chosen
    BY <2>1, AlarmSeen
  <2>4. ASSUME NEW t \in setAt .. alarmTime - 1, (t + Offset(setAt)) % Day = chosen PROVE FALSE
    <3> DEFINE o == Offset(setAt)
    <3>1. o \in Int /\ t \in Int /\ Day \in Int
      BY <2>1, <2>2, LocalType, DayAssumption
    <3> HIDE DEF o
    <3>2. t + o \in Int /\ alarmTime + o \in Int /\ t + o < alarmTime + o
      BY <2>1, <2>2, <3>1
    <3>3. (alarmTime + o) - (t + o) >= Day
      BY <2>3, <2>4, <3>2, DaysApart DEF o
    <3> QED BY <2>1, <2>2, <3>1, <3>3
  <2>5. Reply = TimeOfDay(alarmTime)
    BY <1>1, <2>1, <2>2 DEF Reply
  <2>6. TimeOfDay(alarmTime) = (chosen + Offset(alarmTime) - Offset(setAt)) % Day
    BY <2>1, AlarmMisses
  <2> QED BY <2>3, <2>4, <2>5, <2>6
<1>2. IInv => FirstButForTheOffset
  BY <1>1 DEF FirstButForTheOffset
<1> QED
  BY <1>2, TimeInv, PTL
==============================================================================
