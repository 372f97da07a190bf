----------------------------- MODULE AlarmManager -----------------------------
(****************************************************************************)
(* AlarmManager.cpp: SetAlarm, DisableAlarm and the alarm threads.  The      *)
(* class has no lock: each access to isSet_, workerFlag_, alarmTime_ and     *)
(* worker_ is a step.  alarmHandler_ and disableHandler_ are the callbacks   *)
(* the application installs; an alarm thread leaves for the former at        *)
(* "ringLock" and is back at "fired", a command leaves for the latter at     *)
(* "off" and is back at "disabled".                                          *)
(*                                                                          *)
(* Of alarmTime_ only one thing matters here: whether now has reached it.    *)
(* AlarmTime.tla models how it is computed.                                  *)
(****************************************************************************)
EXTENDS Threads

VARIABLES
    isSet,        \* isSet_
    workerFlag,   \* workerFlag_, the one flag that every alarm thread polls
    due,          \* alarmTime_ <= now
    joinable,     \* worker_.joinable()
    cont          \* cont[t]: where t continues after StopWorker ("disabled" outside it)

alarmVars == <<isSet, workerFlag, due, joinable, cont>>

\* due: alarmTime_ starts as the epoch
AlarmInit ==
    /\ isSet = FALSE
    /\ workerFlag = FALSE
    /\ due = TRUE
    /\ joinable = FALSE
    /\ cont = [t \in Goer |-> "disabled"]

\* now reaches alarmTime_
TimePasses ==
    /\ ~aborted
    /\ ~due
    /\ due' = TRUE
    /\ UNCHANGED <<threadVars, isSet, workerFlag, joinable, cont>>

-------------------------------------------------------------------------------
(* Slips: what the checks must not let pass.                                 *)

DisableWithoutHandler(t) ==
    /\ At(t, "disable")
    /\ cont' = [cont EXCEPT ![t] = "disabled"]
    /\ Goto(t, "clear")
    /\ UNCHANGED <<aborted, isSet, workerFlag, due, joinable>>

StopWithoutDetach(t) ==
    /\ At(t, "stopJoinable")
    /\ Goto(t, cont[t])
    /\ cont' = [cont EXCEPT ![t] = "disabled"]
    /\ UNCHANGED <<aborted, isSet, workerFlag, due, joinable>>

ArmWithoutFlag ==
    /\ At(Net, "arm")
    /\ Goto(Net, "spawn")
    /\ UNCHANGED <<aborted, alarmVars>>

RingEarly(w) ==
    /\ At(w, "check")
    /\ Goto(w, "ringLock")
    /\ UNCHANGED <<aborted, alarmVars>>

LoopIgnoresFlag(w) ==
    /\ At(w, "loop")
    /\ Goto(w, "check")
    /\ UNCHANGED <<aborted, alarmVars>>

-------------------------------------------------------------------------------
\* DisableAlarm reads isSet_ once; the disable handler runs only if it was set.
Disable(t) ==
    /\ At(t, "disable")
    /\ cont' = [cont EXCEPT ![t] = IF isSet THEN "off" ELSE "disabled"]
    /\ Goto(t, "clear")
    /\ UNCHANGED <<aborted, isSet, workerFlag, due, joinable>>

ClearAlarm(t) ==
    /\ At(t, "clear")
    /\ isSet' = FALSE
    /\ Goto(t, "stop")
    /\ UNCHANGED <<aborted, workerFlag, due, joinable, cont>>

StopFlag(t) ==
    /\ At(t, "stop")
    /\ workerFlag' = FALSE
    /\ Goto(t, "stopJoinable")
    /\ UNCHANGED <<aborted, isSet, due, joinable, cont>>

Returned(t) == [cont EXCEPT ![t] = "disabled"]

StopJoinable(t) ==
    /\ At(t, "stopJoinable")
    /\ IF joinable
       THEN Goto(t, "detach") /\ UNCHANGED cont
       ELSE Goto(t, cont[t]) /\ cont' = Returned(t)
    /\ UNCHANGED <<aborted, isSet, workerFlag, due, joinable>>

\* detach() throws when another thread has detached worker_ in between.
StopDetach(t) ==
    /\ At(t, "detach")
    /\ IF joinable
       THEN joinable' = FALSE /\ Goto(t, cont[t]) /\ UNCHANGED aborted
       ELSE Throw(t) /\ UNCHANGED joinable
    /\ cont' = Returned(t)
    /\ UNCHANGED <<isSet, workerFlag, due>>

DisableAlarm(t) ==
    \/ Disable(t)
    \/ ClearAlarm(t)
    \/ StopFlag(t)
    \/ StopJoinable(t)
    \/ StopDetach(t)

-------------------------------------------------------------------------------
(****************************************************************************)
(* The rest of SetAlarm, once DisableAlarm is done.  The new time may be due *)
(* at once: `now > alarmTimePoint` adds a day, so not when they are equal,   *)
(* nor when the request's hour is so negative that a day does not help.      *)
(****************************************************************************)
SetTime ==
    /\ At(Net, "setTime")
    /\ due' \in BOOLEAN
    /\ Goto(Net, "setFlag")
    /\ UNCHANGED <<aborted, isSet, workerFlag, joinable, cont>>

SetFlag ==
    /\ At(Net, "setFlag")
    /\ isSet' = TRUE
    /\ cont' = [cont EXCEPT ![Net] = "arm"]
    /\ Goto(Net, "stop")
    /\ UNCHANGED <<aborted, workerFlag, due, joinable>>

ArmFlag ==
    /\ At(Net, "arm")
    /\ workerFlag' = TRUE
    /\ Goto(Net, "spawn")
    /\ UNCHANGED <<aborted, isSet, due, joinable, cont>>

\* Start the thread and assign it to worker_, which terminates if it is joinable.
SpawnWorker(w) ==
    /\ At(Net, "spawn")
    /\ pc[w] = "idle"
    /\ IF joinable
       THEN aborted' = TRUE /\ UNCHANGED <<pc, raced, joinable>>
       ELSE /\ joinable' = TRUE
            /\ pc' = [pc EXCEPT ![Net] = "unlock", ![w] = "loop"]
            /\ raced' = (raced \/ Race(pc'))
            /\ UNCHANGED aborted
    /\ UNCHANGED <<isSet, workerFlag, due, cont>>

StartWorker == ArmFlag \/ \E w \in Workers : SpawnWorker(w)

-------------------------------------------------------------------------------
WorkerLoop(w) ==
    /\ At(w, "loop")
    /\ Goto(w, IF workerFlag THEN "check" ELSE "idle")
    /\ UNCHANGED <<aborted, alarmVars>>

(****************************************************************************)
(* alarmTime_ <= now.  alarmTime_ is 64 bits wide and the target is a 32-bit *)
(* ARM, so a read while SetAlarm stores it may mix both halves and compare   *)
(* either way.                                                               *)
(****************************************************************************)
WorkerCheck(w) ==
    /\ At(w, "check")
    /\ \E seen \in {due} \cup (IF pc[Net] = "setTime" THEN BOOLEAN ELSE {}) :
           Goto(w, IF seen THEN "ringLock" ELSE "sleep")
    /\ UNCHANGED <<aborted, alarmVars>>

\* alarmHandler_ has returned
WorkerFired(w) ==
    /\ At(w, "fired")
    /\ workerFlag' = FALSE
    /\ Goto(w, "sleep")
    /\ UNCHANGED <<aborted, isSet, due, joinable, cont>>

\* sleep_until the next full second
WorkerWakes(w) ==
    /\ At(w, "sleep")
    /\ Goto(w, "loop")
    /\ UNCHANGED <<aborted, alarmVars>>

WorkerFunc(w) ==
    WorkerLoop(w) \/ WorkerCheck(w) \/ WorkerFired(w) \/ WorkerWakes(w)
==============================================================================
