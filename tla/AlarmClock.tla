------------------------------ MODULE AlarmClock ------------------------------
(****************************************************************************)
(* The running clock: Application.cpp's handlers composed with the alarm     *)
(* manager and the buzzer.  Requests from the phone reach the alarm manager  *)
(* with appMutex_ held, a long press of the button reaches it without, and   *)
(* its own threads call back into the application, which rings the buzzer.   *)
(*                                                                          *)
(* The model starts when Start() has started every thread and the display    *)
(* loop has made its first pass.                                             *)
(****************************************************************************)
EXTENDS Buzzer, AlarmManager

VARIABLES
    alarmRinging,   \* alarmRinging_
    mode,           \* mode_: what the display loop shows
    screen,         \* what the display shows
    request         \* the request Net serves, or "none"

appVars == <<alarmRinging, mode, screen, request>>

vars == <<threadVars, buzzerVars, alarmVars, appVars>>

(****************************************************************************)
(* Requests that change the alarm, and "other": a query, the LED, an unknown *)
(* or malformed request, none of which touches what is modelled here.        *)
(****************************************************************************)
Requests == {"set", "disable", "other"}

Init ==
    /\ ThreadsInit
    /\ BuzzerInit
    /\ AlarmInit
    /\ alarmRinging = FALSE
    /\ mode = "clock"
    /\ screen = "clock"
    /\ request = "none"

-------------------------------------------------------------------------------
(* Slips: what the checks must not let pass.                                 *)

NetLocksNothing ==
    /\ At(Net, "frameLock")
    /\ Goto(Net, IF request = "other" THEN "unlock" ELSE "disable")
    /\ UNCHANGED <<mutex, aborted, buzzerVars, alarmVars, appVars>>

SilencedKeepsRinging(t) ==
    /\ At(t, "offDone")
    /\ Goto(t, "disabled")
    /\ UNCHANGED <<mutex, aborted, buzzerVars, alarmVars, appVars>>

DisplayLocksNothing ==
    /\ At(Display, "displayLock")
    /\ Goto(Display, "measure")
    /\ UNCHANGED <<mutex, aborted, buzzerVars, alarmVars, appVars>>

ClickIgnoresAlarm ==
    /\ At(Button, "click")
    /\ Goto(Button, "clickLock")
    /\ UNCHANGED <<mutex, aborted, buzzerVars, alarmVars, appVars>>

RungKeepsLock(w) ==
    /\ At(w, "onDone")
    /\ Goto(w, "fired")
    /\ UNCHANGED <<mutex, aborted, buzzerVars, alarmVars, appVars>>

-------------------------------------------------------------------------------
(* Net: the lambda Start() hands to the server, and FrameHandler.            *)

\* A set needs a thread id to start its worker with: the bound on Workers.
FrameArrives ==
    /\ At(Net, "idle")
    /\ request' \in Requests
    /\ request' = "set" => \E w \in Workers : pc[w] = "idle"
    /\ Goto(Net, "frameLock")
    /\ UNCHANGED <<mutex, aborted, buzzerVars, alarmVars, alarmRinging, mode, screen>>

FrameLock ==
    /\ At(Net, "frameLock")
    /\ Acquire(Net)
    /\ Goto(Net, IF request = "other" THEN "unlock" ELSE "disable")
    /\ UNCHANGED <<aborted, buzzerVars, alarmVars, appVars>>

NetDisabled ==
    /\ At(Net, "disabled")
    /\ Goto(Net, IF request = "set" THEN "setTime" ELSE "unlock")
    /\ UNCHANGED <<mutex, aborted, buzzerVars, alarmVars, appVars>>

NetUnlock ==
    /\ At(Net, "unlock")
    /\ Release
    /\ request' = "none"
    /\ Goto(Net, "idle")
    /\ UNCHANGED <<aborted, buzzerVars, alarmVars, alarmRinging, mode, screen>>

-------------------------------------------------------------------------------
(* Button: clickHandler and holdHandler; neither runs under the lock.        *)

Click ==
    /\ At(Button, "idle")
    /\ Goto(Button, "click")
    /\ UNCHANGED <<mutex, aborted, buzzerVars, alarmVars, appVars>>

\* clickHandler reads alarmRinging_ first and takes the lock afterwards.
ClickCheck ==
    /\ At(Button, "click")
    /\ Goto(Button, IF alarmRinging THEN "idle" ELSE "clickLock")
    /\ UNCHANGED <<mutex, aborted, buzzerVars, alarmVars, appVars>>

ClickLock ==
    /\ At(Button, "clickLock")
    /\ Acquire(Button)
    /\ Goto(Button, "toggle")
    /\ UNCHANGED <<aborted, buzzerVars, alarmVars, appVars>>

NextDisplayMode ==
    /\ At(Button, "toggle")
    /\ mode' = IF mode = "clock" THEN "measure" ELSE "clock"
    /\ Goto(Button, "redraw")
    /\ UNCHANGED <<mutex, aborted, buzzerVars, alarmVars, alarmRinging, screen, request>>

\* the end of NextDisplayMode: the display in the mode it chose
Redraw ==
    /\ At(Button, "redraw")
    /\ screen' = mode
    /\ Release
    /\ Goto(Button, "idle")
    /\ UNCHANGED <<aborted, buzzerVars, alarmVars, alarmRinging, mode, request>>

Hold ==
    /\ At(Button, "idle")
    /\ Goto(Button, "disable")
    /\ UNCHANGED <<mutex, aborted, buzzerVars, alarmVars, appVars>>

HoldDone ==
    /\ At(Button, "disabled")
    /\ Goto(Button, "idle")
    /\ UNCHANGED <<mutex, aborted, buzzerVars, alarmVars, appVars>>

-------------------------------------------------------------------------------
(* The callbacks.                                                            *)

\* disableAlarmHandler, after buzzer_.Off()
Silenced(t) ==
    /\ At(t, "offDone")
    /\ alarmRinging' = FALSE
    /\ Goto(t, "disabled")
    /\ UNCHANGED <<mutex, aborted, buzzerVars, alarmVars, mode, screen, request>>

RingLock(w) ==
    /\ At(w, "ringLock")
    /\ Acquire(w)
    /\ Goto(w, "ring")
    /\ UNCHANGED <<aborted, buzzerVars, alarmVars, appVars>>

Ring(w) ==
    /\ At(w, "ring")
    /\ alarmRinging' = TRUE
    /\ mode' = "clock"
    /\ Goto(w, "ringScreen")
    /\ UNCHANGED <<mutex, aborted, buzzerVars, alarmVars, screen, request>>

\* DisplayClock; buzzer_.On() comes next
RingScreen(w) ==
    /\ At(w, "ringScreen")
    /\ screen' = "clock"
    /\ Goto(w, "on")
    /\ UNCHANGED <<mutex, aborted, buzzerVars, alarmVars, alarmRinging, mode, request>>

Rung(w) ==
    /\ At(w, "onDone")
    /\ Release
    /\ Goto(w, "fired")
    /\ UNCHANGED <<aborted, buzzerVars, alarmVars, appVars>>

-------------------------------------------------------------------------------
(* Display: MeasureAndDisplay once a second.                                 *)

DisplayWakes ==
    /\ At(Display, "idle")
    /\ Goto(Display, "displayLock")
    /\ UNCHANGED <<mutex, aborted, buzzerVars, alarmVars, appVars>>

DisplayLock ==
    /\ At(Display, "displayLock")
    /\ Acquire(Display)
    /\ Goto(Display, "measure")
    /\ UNCHANGED <<aborted, buzzerVars, alarmVars, appVars>>

\* Measure, and then switch (mode_)
Measure ==
    /\ At(Display, "measure")
    /\ Goto(Display, IF mode = "clock" THEN "drawClock" ELSE "drawMeasure")
    /\ UNCHANGED <<mutex, aborted, buzzerVars, alarmVars, appVars>>

Draw ==
    /\ pc[Display] \in {"drawClock", "drawMeasure"} /\ ~aborted
    /\ screen' = IF pc[Display] = "drawClock" THEN "clock" ELSE "measure"
    /\ Release
    /\ Goto(Display, "idle")
    /\ UNCHANGED <<aborted, buzzerVars, alarmVars, alarmRinging, mode, request>>

-------------------------------------------------------------------------------
\* The alarm manager's and the buzzer's own steps leave the application alone.
AlarmStep(A) == A /\ UNCHANGED <<mutex, buzzerVars, appVars>>

BuzzerStep(A) == A /\ UNCHANGED <<mutex, alarmVars, appVars>>

Command(t) ==
    \/ AlarmStep(DisableAlarm(t))
    \/ BuzzerStep(Off(t))
    \/ Silenced(t)

NetRuns ==
    \/ Command(Net)
    \/ FrameLock \/ NetDisabled \/ NetUnlock
    \/ AlarmStep(SetTime) \/ AlarmStep(SetFlag) \/ AlarmStep(StartWorker)

ButtonRuns ==
    \/ Command(Button)
    \/ ClickCheck \/ ClickLock \/ NextDisplayMode \/ Redraw \/ HoldDone

DisplayRuns == DisplayWakes \/ DisplayLock \/ Measure \/ Draw

WorkerRuns(w) ==
    \/ AlarmStep(WorkerFunc(w))
    \/ RingLock(w) \/ Ring(w) \/ RingScreen(w) \/ Rung(w)
    \/ BuzzerStep(On(w)) \/ BuzzerStep(Off(w))

BuzzerRuns == BuzzerStep(BuzzerThreadEnds)

ClockRuns == TimePasses /\ UNCHANGED <<buzzerVars, appVars>>

\* std::terminate: nothing runs any more
Dead == aborted /\ UNCHANGED vars

Next ==
    \/ FrameArrives \/ Click \/ Hold
    \/ NetRuns \/ ButtonRuns \/ DisplayRuns
    \/ \E w \in Workers : WorkerRuns(w)
    \/ BuzzerRuns \/ ClockRuns
    \/ Dead

(****************************************************************************)
(* Fairness.  The scheduler lets every thread that can run do so, sleeps     *)
(* end and time passes.  std::mutex promises a waiting thread nothing, but   *)
(* every holder gives appMutex_ up and then sleeps, for a frame, a press or  *)
(* the rest of the second: a waiting thread finds it free again and again,   *)
(* and strong fairness says that it takes it at last (in its other steps a   *)
(* thread depends on no lock, and strong fairness asks no more than weak).   *)
(* Nothing obliges the user or the phone to do anything.                     *)
(****************************************************************************)
Fairness ==
    /\ SF_vars(NetRuns) /\ SF_vars(ButtonRuns) /\ SF_vars(DisplayRuns)
    /\ \A w \in Workers : SF_vars(WorkerRuns(w))
    /\ WF_vars(BuzzerRuns) /\ WF_vars(ClockRuns)

Spec == Init /\ [][Next]_vars

FairSpec == Spec /\ Fairness

(****************************************************************************)
(* The clock when the operations on its alarm never overlap: what holds here *)
(* is what AlarmManager promises to callers that take turns.                 *)
(****************************************************************************)
OrderlySpec == Init /\ [][Next /\ ~raced']_vars /\ Fairness

-------------------------------------------------------------------------------
(* Types, and where each thread may be.                                      *)

DisableLabels == {"disable", "clear", "stop", "stopJoinable", "detach",
                  "off", "offJoinable", "offJoin", "joining", "offDone", "disabled"}

NetLabels == {"idle", "frameLock", "unlock", "setTime", "setFlag", "arm", "spawn"}
                 \cup DisableLabels

ButtonLabels == {"idle", "click", "clickLock", "toggle", "redraw"} \cup DisableLabels

DisplayLabels == {"idle", "displayLock", "measure", "drawClock", "drawMeasure"}

RingLabels == {"ring", "ringScreen", "on", "off", "offJoinable", "offJoin", "joining",
               "offDone", "onSpawn", "onDone"}

WorkerLabels == {"idle", "loop", "check", "ringLock", "fired", "sleep"} \cup RingLabels

Labels == NetLabels \cup ButtonLabels \cup DisplayLabels \cup WorkerLabels

PcOK ==
    /\ pc \in [Thread -> Labels]
    /\ pc[Net] \in NetLabels
    /\ pc[Button] \in ButtonLabels
    /\ pc[Display] \in DisplayLabels
    /\ \A w \in Workers : pc[w] \in WorkerLabels

DataOK ==
    /\ mutex \in Thread \cup {None}
    /\ aborted \in BOOLEAN
    /\ raced \in BOOLEAN
    /\ buzzFlag \in BOOLEAN
    /\ buzzThread \in {"none", "running", "ended"}
    /\ isSet \in BOOLEAN
    /\ workerFlag \in BOOLEAN
    /\ due \in BOOLEAN
    /\ joinable \in BOOLEAN
    /\ cont \in [Goer -> {"off", "disabled", "arm"}]
    /\ cont[Button] # "arm"
    /\ alarmRinging \in BOOLEAN
    /\ mode \in {"clock", "measure"}
    /\ screen \in {"clock", "measure"}
    /\ request \in Requests \cup {"none"}

\* Every variable has its type, and every thread is somewhere in its own code.
TypeOK == PcOK /\ DataOK

-------------------------------------------------------------------------------
(* Whatever overlaps.                                                        *)

\* The labels of t that lie inside a lock_guard of appMutex_.
InsideLock(t, label) ==
    \/ t = Net /\ label \notin {"idle", "frameLock"}
    \/ t = Button /\ label \in {"toggle", "redraw"}
    \/ t = Display /\ label \in {"measure", "drawClock", "drawMeasure"}
    \/ t \in Workers /\ label \in RingLabels

(****************************************************************************)
(* The lock is held by exactly the thread that is inside a guarded section,  *)
(* through every callback, throw and early return: so localtime's static     *)
(* buffer, the screen and the results never have two users.                  *)
(****************************************************************************)
LockIsHeldInside == \A t \in Thread : InsideLock(t, pc[t]) <=> mutex = t

(****************************************************************************)
(* Neither std::thread member is ever assigned to while it is joinable,      *)
(* which would end the process, although Off() and StopWorker() also run on  *)
(* the button thread without the lock.                                       *)
(****************************************************************************)
NoThreadOverwritten ==
    /\ \A w \in Workers : pc[w] = "onSpawn" => buzzThread = "none"
    /\ pc[Net] = "spawn" => ~joinable

(****************************************************************************)
(* Between guarded sections the screen shows what mode_ says: the display    *)
(* loop, which reads mode_ after a long measurement, never draws over what   *)
(* the button or the alarm has just put there.                               *)
(****************************************************************************)
ScreenMatchesMode == mutex = None => screen = mode

\* The process dies of an uncaught join() or detach() only after a race.
AbortNeedsRace == aborted => raced

-------------------------------------------------------------------------------
(* As long as no two operations on the alarm have overlapped.                *)

Quiet == ~raced /\ \A t \in Goer : ~Commanding(pc, t)

(****************************************************************************)
(* When no handler is at work the application, the buzzer's flag and the     *)
(* buzzer's thread agree on whether the alarm is ringing.                    *)
(****************************************************************************)
RingingIsHeard ==
    Quiet /\ mutex = None =>
        /\ alarmRinging = buzzFlag
        /\ alarmRinging <=> buzzThread = "running"

\* DisableAlarm silences a ringing alarm only if isSet_ is still true.
RingingCanBeDisabled == Quiet /\ alarmRinging => isSet

(****************************************************************************)
(* A set alarm is ringing, or a thread is there to ring it: a worker that    *)
(* survived an earlier alarm never takes the flag of the new one away.       *)
(****************************************************************************)
SetAlarmIsWatched ==
    Quiet /\ isSet =>
        \/ alarmRinging
        \/ workerFlag /\ \E w \in Workers : pc[w] # "idle"

(****************************************************************************)
(* The clock whose alarm operations take turns keeps the promise of          *)
(* AlarmPromise.  DisableAlarm clears isSet_ before it stops the buzzer: to  *)
(* the promise the alarm is cancelled when isSet_ is, and rings only while   *)
(* it is set.                                                                *)
(****************************************************************************)
Promise == INSTANCE AlarmPromise WITH
               set <- isSet, due <- due, ringing <- alarmRinging /\ isSet

KeepsPromise == Promise!Spec

\* SetAlarm reports "Alarm was set to": a set alarm whose time has come rings,
\* unless it is disabled first.
SetAlarmRings == isSet /\ due ~> alarmRinging \/ ~isSet \/ aborted

\* DisableAlarm reports "Alarm disabled": with no alarm set and no handler at
\* work, nothing rings.
DisabledIsSilent ==
    ~isSet /\ mutex = None /\ (\A t \in Goer : ~Commanding(pc, t)) => ~alarmRinging

\* A long press ends, and ends with a clock that does not ring.
HoldSilences == pc[Button] = "disable" ~> pc[Button] = "idle" /\ ~alarmRinging

(****************************************************************************)
(* clickHandler ignores the button while the alarm rings.  It looks before   *)
(* it locks, so a click can slip in when the alarm starts to ring, but as    *)
(* long as the alarm rings on the mode settles.                              *)
(****************************************************************************)
RingingFreezesMode == <>[]alarmRinging => <>[][mode' = mode]_mode

\* Detached workers do not pile up: once no new alarm is armed they all end.
StaleWorkersEnd ==
    <>[]~workerFlag => <>[](aborted \/ \A w \in Workers : pc[w] = "idle")

-------------------------------------------------------------------------------
(* Whatever overlaps, the lock is never kept for good, although Off() joins   *)
(* the buzzer's thread with the lock held.                                   *)

\* The display loop never stops measuring and redrawing.
DisplayNeverFreezes == []<>(aborted \/ pc[Display] = "measure")

\* The handler of every request returns, so the server answers the next one.
RequestsAlwaysFinish == []<>(aborted \/ pc[Net] = "idle")
==============================================================================
