------------------------------ MODULE AlarmTime -------------------------------
(****************************************************************************)
(* Which instant SetAlarm chooses for an hour and a minute, and which hour   *)
(* and minute the phone is told of it: AlarmManager.cpp's use of localtime   *)
(* and mktime, and the reply to getAlarmTime.                                *)
(* AlarmManager leaves alarmTime_ open; this module computes it.             *)
(*                                                                          *)
(* Instants count from the epoch; a local time is an instant moved by the    *)
(* time zone's offset, which changes once, when daylight saving time begins  *)
(* or ends.  (The zone's standard offset only renames the instants.)         *)
(****************************************************************************)
EXTENDS Integers

CONSTANTS
    Day,        \* hours(24)
    Dst,        \* what daylight saving time adds
    Times,      \* the times of the day that an hour and a minute can name
    Horizon     \* bound on the instants the clock reaches

ASSUME DayAssumption ==
    /\ Day \in Nat \ {0}
    /\ Dst \in Nat
    /\ Times \subseteq 0 .. Day - 1
    /\ Horizon \in Nat

VARIABLES
    now,        \* system_clock::now()
    change,     \* the instant at which the offset changes; never assigned
    summer,     \* daylight saving time is in force until then; never assigned
    isSet,      \* isSet_
    alarmTime,  \* alarmTime_
    setAt,      \* history: when SetAlarm ran
    chosen      \* history: the time of the day it was given

zone == <<change, summer>>
vars == <<now, zone, isSet, alarmTime, setAt, chosen>>

None == -1      \* no time

-------------------------------------------------------------------------------
(* localtime and mktime.                                                     *)

Offset(t) == IF (t < change) = summer THEN Dst ELSE 0

Local(t) == t + Offset(t)

TimeOfDay(t) == Local(t) % Day

Midnight(t) == Local(t) - TimeOfDay(t)

(****************************************************************************)
(* mktime of t's date with the time of the day replaced by c.  tm_isdst is   *)
(* still t's own, and mktime takes the caller's word for it.                 *)
(****************************************************************************)
MkTime(t, c) == Midnight(t) + c - Offset(t)

-------------------------------------------------------------------------------
(* Slips: what the checks must not let pass.                                 *)

AlarmNotMoved(t, c) == MkTime(t, c)

ReplyStale == IF alarmTime = 0 THEN None ELSE TimeOfDay(alarmTime)

-------------------------------------------------------------------------------
\* SetAlarm: an alarm that is already past is moved by 24 hours.
AlarmFor(t, c) == IF t > MkTime(t, c) THEN MkTime(t, c) + Day ELSE MkTime(t, c)

\* ReciveHandler::GetAlarmTime: the epoch stands for an alarm that is not set,
\* hour -1 in the reply too, which the phone shows as "Alarm not set".
Reply ==
    LET alarmPoint == IF isSet THEN alarmTime ELSE 0
    IN  IF alarmPoint = 0 THEN None ELSE TimeOfDay(alarmPoint)

Init ==
    /\ now \in 1 .. Horizon
    /\ change \in 0 .. Horizon + Day
    /\ summer \in BOOLEAN
    /\ isSet = FALSE
    /\ alarmTime = 0
    /\ setAt = 0
    /\ chosen = None

TimePasses ==
    /\ now < Horizon
    /\ now' = now + 1
    /\ UNCHANGED <<zone, isSet, alarmTime, setAt, chosen>>

SetAlarm(c) ==
    /\ alarmTime' = AlarmFor(now, c)
    /\ isSet' = TRUE
    /\ setAt' = now
    /\ chosen' = c
    /\ UNCHANGED <<now, zone>>

DisableAlarm ==
    /\ isSet' = FALSE
    /\ UNCHANGED <<now, zone, alarmTime, setAt, chosen>>

Next == TimePasses \/ (\E c \in Times : SetAlarm(c)) \/ DisableAlarm

Spec == Init /\ [][Next]_vars

-------------------------------------------------------------------------------
TypeOK ==
    /\ now \in Nat \ {0}
    /\ change \in Nat
    /\ summer \in BOOLEAN
    /\ isSet \in BOOLEAN
    /\ alarmTime \in Int
    /\ setAt \in Nat
    /\ chosen \in Times \cup {None}

\* A set alarm is the one that SetAlarm computed from what it was given.
AlarmKept ==
    isSet => chosen \in Times /\ setAt > 0 /\ alarmTime = AlarmFor(setAt, chosen)

(****************************************************************************)
(* SetAlarm never chooses an instant that is past, nor one 24 hours away or  *)
(* more, whichever side of a change of the offset it looks from.             *)
(****************************************************************************)
SetWithinADay == isSet => setAt <= alarmTime /\ alarmTime < setAt + Day

(****************************************************************************)
(* The phone shows the time that was chosen, and no time when no alarm is    *)
(* set, as long as the offset does not change before the alarm: the epoch    *)
(* that stands for "not set" is never the time of a set alarm.               *)
(****************************************************************************)
PhoneShowsChosen ==
    /\ ~isSet => Reply = None
    /\ isSet /\ Offset(setAt) = Offset(alarmTime) => Reply = chosen

\* SetAlarm's comment on adding hours(24) to an alarm that is past, "add 1 day":
\* an alarm on the next day is at the chosen time of that day.
TomorrowIsADayLater ==
    isSet /\ Midnight(alarmTime) # Midnight(setAt) => TimeOfDay(alarmTime) = chosen
==============================================================================
