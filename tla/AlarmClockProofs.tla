--------------------------- MODULE AlarmClockProofs ---------------------------
(****************************************************************************)
(* What holds of the clock for any number of alarm threads: whatever         *)
(* overlaps, types, the discipline of appMutex_, what rests on it, and that  *)
(* its holder goes on; as long as operations on the alarm take turns, what   *)
(* rings, what is set and what is promised.                                  *)
(****************************************************************************)
EXTENDS AlarmClock, TLAPS

-------------------------------------------------------------------------------
(* Goto, one thread at a time.                                               *)

\* A thread that goes to a label of its own code leaves every thread in its own.
LEMMA GotoNet ==
    ASSUME PcOK, NEW l \in NetLabels, Goto(Net, l)
    PROVE  PcOK' /\ raced' \in BOOLEAN
<1>1. pc' = [pc EXCEPT ![Net] = l] /\ raced' \in BOOLEAN
    BY DEF Goto
<1>2. pc' \in [Thread -> Labels]
    BY <1>1 DEF PcOK, Labels, Thread
<1> QED
    BY <1>1, <1>2, ThreadsAreDistinct DEF PcOK, Thread

LEMMA GotoButton ==
    ASSUME PcOK, NEW l \in ButtonLabels, Goto(Button, l)
    PROVE  PcOK' /\ raced' \in BOOLEAN
<1>1. pc' = [pc EXCEPT ![Button] = l] /\ raced' \in BOOLEAN
    BY DEF Goto
<1>2. pc' \in [Thread -> Labels]
    BY <1>1 DEF PcOK, Labels, Thread
<1> QED
    BY <1>1, <1>2, ThreadsAreDistinct DEF PcOK, Thread

LEMMA GotoDisplay ==
    ASSUME PcOK, NEW l \in DisplayLabels, Goto(Display, l)
    PROVE  PcOK' /\ raced' \in BOOLEAN
<1>1. pc' = [pc EXCEPT ![Display] = l] /\ raced' \in BOOLEAN
    BY DEF Goto
<1>2. pc' \in [Thread -> Labels]
    BY <1>1 DEF PcOK, Labels, Thread
<1> QED
    BY <1>1, <1>2, ThreadsAreDistinct DEF PcOK, Thread

LEMMA GotoWorker ==
    ASSUME PcOK, NEW w \in Workers, NEW l \in WorkerLabels, Goto(w, l)
    PROVE  PcOK' /\ raced' \in BOOLEAN
<1>1. pc' = [pc EXCEPT ![w] = l] /\ raced' \in BOOLEAN
    BY DEF Goto
<1>2. pc' \in [Thread -> Labels]
    BY <1>1 DEF PcOK, Labels, Thread
<1> QED
    BY <1>1, <1>2, ThreadsAreDistinct DEF PcOK, Thread

\* A command runs on Net or on Button, and both may be anywhere in DisableAlarm.
LEMMA GotoGoer ==
    ASSUME PcOK, NEW t \in Goer, NEW l \in DisableLabels, Goto(t, l)
    PROVE  PcOK' /\ raced' \in BOOLEAN
<1>1. CASE t = Net
    BY <1>1, GotoNet DEF NetLabels
<1>2. CASE t = Button
    BY <1>2, GotoButton DEF ButtonLabels
<1> QED
    BY <1>1, <1>2 DEF Goer

LEMMA ThrowGoer ==
    ASSUME PcOK, raced \in BOOLEAN, NEW t \in Goer, aborted \in BOOLEAN, Throw(t)
    PROVE  PcOK' /\ raced' \in BOOLEAN /\ aborted' \in BOOLEAN
<1>1. CASE t = Net
    BY <1>1, GotoNet DEF Throw, NetLabels
<1>2. CASE t # Net
    BY <1>2 DEF Throw, PcOK
<1> QED
    BY <1>1, <1>2 DEF Goer

-------------------------------------------------------------------------------
(* Types.                                                                    *)

LEMMA TypeInit == Init => TypeOK
BY DEF Init, ThreadsInit, BuzzerInit, AlarmInit, TypeOK, PcOK, DataOK, Labels,
       NetLabels, ButtonLabels, DisplayLabels, WorkerLabels, Thread, Goer

LEMMA TypeCommand ==
    ASSUME TypeOK, NEW t \in Goer, Command(t)
    PROVE  TypeOK'
<1> USE DEF TypeOK, DataOK, buzzerVars, alarmVars, appVars
<1>1. CASE AlarmStep(Disable(t))
    <2>1. PcOK' /\ raced' \in BOOLEAN
        BY <1>1, GotoGoer DEF AlarmStep, Disable, DisableLabels
    <2> QED
        BY <1>1, <2>1 DEF AlarmStep, Disable
<1>2. CASE AlarmStep(ClearAlarm(t))
    <2>1. PcOK' /\ raced' \in BOOLEAN
        BY <1>2, GotoGoer DEF AlarmStep, ClearAlarm, DisableLabels
    <2> QED
        BY <1>2, <2>1 DEF AlarmStep, ClearAlarm
<1>3. CASE AlarmStep(StopFlag(t))
    <2>1. PcOK' /\ raced' \in BOOLEAN
        BY <1>3, GotoGoer DEF AlarmStep, StopFlag, DisableLabels
    <2> QED
        BY <1>3, <2>1 DEF AlarmStep, StopFlag
<1>4. ASSUME Goto(t, cont[t])
      PROVE  PcOK' /\ raced' \in BOOLEAN
    <2>1. CASE t = Net
        <3>1. cont[Net] \in NetLabels
            BY DEF Goer, NetLabels, DisableLabels
        <3> QED
            BY <1>4, <2>1, <3>1, GotoNet
    <2>2. CASE t = Button
        <3>1. cont[Button] \in ButtonLabels
            BY DEF Goer, ButtonLabels, DisableLabels
        <3> QED
            BY <1>4, <2>2, <3>1, GotoButton
    <2> QED
        BY <2>1, <2>2 DEF Goer
<1>5. CASE AlarmStep(StopJoinable(t))
    <2>1. PcOK' /\ raced' \in BOOLEAN
        BY <1>4, <1>5, GotoGoer DEF AlarmStep, StopJoinable, DisableLabels
    <2> QED
        BY <1>5, <2>1 DEF AlarmStep, StopJoinable, Returned, Goer
<1>6. CASE AlarmStep(StopDetach(t))
    <2>1. PcOK' /\ raced' \in BOOLEAN /\ aborted' \in BOOLEAN
        BY <1>4, <1>6, ThrowGoer DEF AlarmStep, StopDetach
    <2>2. cont' \in [Goer -> {"off", "disabled", "arm"}] /\ cont'[Button] # "arm"
        BY <1>6 DEF AlarmStep, StopDetach, Returned, Goer
    <2>3. joinable' \in BOOLEAN
        BY <1>6 DEF AlarmStep, StopDetach
    <2>4. UNCHANGED <<mutex, buzzerVars, appVars, isSet, workerFlag, due>>
        BY <1>6 DEF AlarmStep, StopDetach
    <2> QED
        BY <2>1, <2>2, <2>3, <2>4
<1>7. CASE BuzzerStep(OffFlag(t))
    <2>1. PcOK' /\ raced' \in BOOLEAN
        BY <1>7, GotoGoer DEF BuzzerStep, OffFlag, DisableLabels
    <2> QED
        BY <1>7, <2>1 DEF BuzzerStep, OffFlag
<1>8. CASE BuzzerStep(OffJoinable(t))
    <2>1. PcOK' /\ raced' \in BOOLEAN
        BY <1>8, GotoGoer DEF BuzzerStep, OffJoinable, DisableLabels
    <2> QED
        BY <1>8, <2>1 DEF BuzzerStep, OffJoinable
<1>9. CASE BuzzerStep(OffJoin(t))
    <2>1. PcOK' /\ raced' \in BOOLEAN /\ aborted' \in BOOLEAN
        BY <1>9, GotoGoer, ThrowGoer DEF BuzzerStep, OffJoin, DisableLabels
    <2> QED
        BY <1>9, <2>1 DEF BuzzerStep, OffJoin
<1>10. CASE BuzzerStep(OffJoined(t))
    <2>1. PcOK' /\ raced' \in BOOLEAN
        BY <1>10, GotoGoer DEF BuzzerStep, OffJoined, DisableLabels
    <2> QED
        BY <1>10, <2>1 DEF BuzzerStep, OffJoined
<1>11. CASE Silenced(t)
    <2>1. PcOK' /\ raced' \in BOOLEAN
        BY <1>11, GotoGoer DEF Silenced, DisableLabels
    <2> QED
        BY <1>11, <2>1 DEF Silenced
<1> QED
    BY <1>1, <1>2, <1>3, <1>5, <1>6, <1>7, <1>8, <1>9, <1>10, <1>11
    DEF Command, DisableAlarm, Off, AlarmStep, BuzzerStep

LEMMA TypeNet ==
    ASSUME TypeOK, NetRuns \/ FrameArrives
    PROVE  TypeOK'
<1> USE DEF TypeOK, DataOK, buzzerVars, alarmVars, appVars
<1>1. CASE Command(Net)
    BY <1>1, TypeCommand DEF Goer
<1>2. CASE FrameArrives
    <2>1. PcOK' /\ raced' \in BOOLEAN
        BY <1>2, GotoNet DEF FrameArrives, NetLabels
    <2> QED
        BY <1>2, <2>1 DEF FrameArrives
<1>3. CASE FrameLock
    <2>1. PcOK' /\ raced' \in BOOLEAN
        BY <1>3, GotoNet DEF FrameLock, NetLabels, DisableLabels
    <2> QED
        BY <1>3, <2>1 DEF FrameLock, Acquire, Thread
<1>4. CASE NetDisabled
    <2>1. PcOK' /\ raced' \in BOOLEAN
        BY <1>4, GotoNet DEF NetDisabled, NetLabels
    <2> QED
        BY <1>4, <2>1 DEF NetDisabled
<1>5. CASE NetUnlock
    <2>1. PcOK' /\ raced' \in BOOLEAN
        BY <1>5, GotoNet DEF NetUnlock, NetLabels
    <2> QED
        BY <1>5, <2>1 DEF NetUnlock, Release
<1>6. CASE AlarmStep(SetTime)
    <2>1. PcOK' /\ raced' \in BOOLEAN
        BY <1>6, GotoNet DEF AlarmStep, SetTime, NetLabels
    <2> QED
        BY <1>6, <2>1 DEF AlarmStep, SetTime
<1>7. CASE AlarmStep(SetFlag)
    <2>1. PcOK' /\ raced' \in BOOLEAN
        BY <1>7, GotoNet DEF AlarmStep, SetFlag, NetLabels, DisableLabels
    <2> QED
        BY <1>7, <2>1, ThreadsAreDistinct DEF AlarmStep, SetFlag, Goer
<1>8. CASE AlarmStep(ArmFlag)
    <2>1. PcOK' /\ raced' \in BOOLEAN
        BY <1>8, GotoNet DEF AlarmStep, ArmFlag, NetLabels
    <2> QED
        BY <1>8, <2>1 DEF AlarmStep, ArmFlag
<1>9. ASSUME NEW w \in Workers, AlarmStep(SpawnWorker(w))
      PROVE  TypeOK'
    <2>1. CASE joinable
        BY <1>9, <2>1 DEF AlarmStep, SpawnWorker, PcOK
    <2>2. CASE ~joinable
        <3>1. /\ pc' = [pc EXCEPT ![Net] = "unlock", ![w] = "loop"]
              /\ raced' \in BOOLEAN
            BY <1>9, <2>2 DEF AlarmStep, SpawnWorker
        <3>2. pc' \in [Thread -> Labels]
            BY <3>1 DEF PcOK, Thread, Labels, NetLabels, WorkerLabels
        <3>3. PcOK'
            BY <3>1, <3>2, ThreadsAreDistinct DEF PcOK, Thread, NetLabels, WorkerLabels
        <3> QED
            BY <1>9, <2>2, <3>1, <3>3 DEF AlarmStep, SpawnWorker
    <2> QED
        BY <2>1, <2>2
<1> QED
    BY <1>1, <1>2, <1>3, <1>4, <1>5, <1>6, <1>7, <1>8, <1>9
    DEF NetRuns, StartWorker, AlarmStep

LEMMA TypeButton ==
    ASSUME TypeOK, ButtonRuns \/ Click \/ Hold
    PROVE  TypeOK'
<1> USE DEF TypeOK, DataOK, buzzerVars, alarmVars, appVars
<1>1. CASE Command(Button)
    BY <1>1, TypeCommand DEF Goer
<1>2. CASE Click \/ Hold
    <2>1. PcOK' /\ raced' \in BOOLEAN
        BY <1>2, GotoButton DEF Click, Hold, ButtonLabels, DisableLabels
    <2> QED
        BY <1>2, <2>1 DEF Click, Hold
<1>3. CASE ClickCheck
    <2>1. PcOK' /\ raced' \in BOOLEAN
        BY <1>3, GotoButton DEF ClickCheck, ButtonLabels
    <2> QED
        BY <1>3, <2>1 DEF ClickCheck
<1>4. CASE ClickLock
    <2>1. PcOK' /\ raced' \in BOOLEAN
        BY <1>4, GotoButton DEF ClickLock, ButtonLabels
    <2> QED
        BY <1>4, <2>1 DEF ClickLock, Acquire, Thread
<1>5. CASE NextDisplayMode
    <2>1. PcOK' /\ raced' \in BOOLEAN
        BY <1>5, GotoButton DEF NextDisplayMode, ButtonLabels
    <2> QED
        BY <1>5, <2>1 DEF NextDisplayMode
<1>6. CASE Redraw
    <2>1. PcOK' /\ raced' \in BOOLEAN
        BY <1>6, GotoButton DEF Redraw, ButtonLabels
    <2> QED
        BY <1>6, <2>1 DEF Redraw, Release
<1>7. CASE HoldDone
    <2>1. PcOK' /\ raced' \in BOOLEAN
        BY <1>7, GotoButton DEF HoldDone, ButtonLabels
    <2> QED
        BY <1>7, <2>1 DEF HoldDone
<1> QED
    BY <1>1, <1>2, <1>3, <1>4, <1>5, <1>6, <1>7 DEF ButtonRuns

LEMMA TypeDisplay ==
    ASSUME TypeOK, DisplayRuns
    PROVE  TypeOK'
<1> USE DEF TypeOK, DataOK, buzzerVars, alarmVars, appVars
<1>1. CASE DisplayWakes
    <2>1. PcOK' /\ raced' \in BOOLEAN
        BY <1>1, GotoDisplay DEF DisplayWakes, DisplayLabels
    <2> QED
        BY <1>1, <2>1 DEF DisplayWakes
<1>2. CASE DisplayLock
    <2>1. PcOK' /\ raced' \in BOOLEAN
        BY <1>2, GotoDisplay DEF DisplayLock, DisplayLabels
    <2> QED
        BY <1>2, <2>1 DEF DisplayLock, Acquire, Thread
<1>3. CASE Measure
    <2>1. PcOK' /\ raced' \in BOOLEAN
        BY <1>3, GotoDisplay DEF Measure, DisplayLabels
    <2> QED
        BY <1>3, <2>1 DEF Measure
<1>4. CASE Draw
    <2>1. PcOK' /\ raced' \in BOOLEAN
        BY <1>4, GotoDisplay DEF Draw, DisplayLabels
    <2> QED
        BY <1>4, <2>1 DEF Draw, Release
<1> QED
    BY <1>1, <1>2, <1>3, <1>4 DEF DisplayRuns

LEMMA TypeWorker ==
    ASSUME TypeOK, NEW w \in Workers, WorkerRuns(w)
    PROVE  TypeOK'
<1> USE DEF TypeOK, DataOK, buzzerVars, alarmVars, appVars
<1>1. CASE AlarmStep(WorkerLoop(w))
    <2>1. PcOK' /\ raced' \in BOOLEAN
        BY <1>1, GotoWorker DEF AlarmStep, WorkerLoop, WorkerLabels
    <2> QED
        BY <1>1, <2>1 DEF AlarmStep, WorkerLoop
<1>2. CASE AlarmStep(WorkerCheck(w))
    <2>1. PICK seen \in {due} \cup (IF pc[Net] = "setTime" THEN BOOLEAN ELSE {}) :
              Goto(w, IF seen THEN "ringLock" ELSE "sleep")
        BY <1>2 DEF AlarmStep, WorkerCheck
    <2>2. PcOK' /\ raced' \in BOOLEAN
        BY <2>1, GotoWorker DEF WorkerLabels
    <2> QED
        BY <1>2, <2>2 DEF AlarmStep, WorkerCheck
<1>3. CASE AlarmStep(WorkerFired(w))
    <2>1. PcOK' /\ raced' \in BOOLEAN
        BY <1>3, GotoWorker DEF AlarmStep, WorkerFired, WorkerLabels
    <2> QED
        BY <1>3, <2>1 DEF AlarmStep, WorkerFired
<1>4. CASE AlarmStep(WorkerWakes(w))
    <2>1. PcOK' /\ raced' \in BOOLEAN
        BY <1>4, GotoWorker DEF AlarmStep, WorkerWakes, WorkerLabels
    <2> QED
        BY <1>4, <2>1 DEF AlarmStep, WorkerWakes
<1>5. CASE RingLock(w)
    <2>1. PcOK' /\ raced' \in BOOLEAN
        BY <1>5, GotoWorker DEF RingLock, WorkerLabels, RingLabels
    <2> QED
        BY <1>5, <2>1 DEF RingLock, Acquire, Thread
<1>6. CASE Ring(w)
    <2>1. PcOK' /\ raced' \in BOOLEAN
        BY <1>6, GotoWorker DEF Ring, WorkerLabels, RingLabels
    <2> QED
        BY <1>6, <2>1 DEF Ring
<1>7. CASE RingScreen(w)
    <2>1. PcOK' /\ raced' \in BOOLEAN
        BY <1>7, GotoWorker DEF RingScreen, WorkerLabels, RingLabels
    <2> QED
        BY <1>7, <2>1 DEF RingScreen
<1>8. CASE Rung(w)
    <2>1. PcOK' /\ raced' \in BOOLEAN
        BY <1>8, GotoWorker DEF Rung, WorkerLabels
    <2> QED
        BY <1>8, <2>1 DEF Rung, Release
<1>9. CASE BuzzerStep(OnEnter(w))
    <2>1. PcOK' /\ raced' \in BOOLEAN
        BY <1>9, GotoWorker DEF BuzzerStep, OnEnter, WorkerLabels, RingLabels
    <2> QED
        BY <1>9, <2>1 DEF BuzzerStep, OnEnter
<1>10. CASE BuzzerStep(OnFlag(w))
    <2>1. PcOK' /\ raced' \in BOOLEAN
        BY <1>10, GotoWorker DEF BuzzerStep, OnFlag, WorkerLabels, RingLabels
    <2> QED
        BY <1>10, <2>1 DEF BuzzerStep, OnFlag
<1>11. CASE BuzzerStep(OnSpawn(w))
    <2>1. PcOK' /\ raced' \in BOOLEAN
        <3>1. CASE buzzThread = "none"
            BY <1>11, <3>1, GotoWorker DEF BuzzerStep, OnSpawn, WorkerLabels, RingLabels
        <3>2. CASE buzzThread # "none"
            BY <1>11, <3>2 DEF BuzzerStep, OnSpawn, PcOK
        <3> QED
            BY <3>1, <3>2
    <2>2. aborted' \in BOOLEAN /\ buzzThread' \in {"none", "running", "ended"}
        BY <1>11 DEF BuzzerStep, OnSpawn
    <2>3. UNCHANGED <<mutex, buzzFlag, alarmVars, appVars>>
        BY <1>11 DEF BuzzerStep, OnSpawn
    <2> QED
        BY <2>1, <2>2, <2>3
<1>12. CASE BuzzerStep(OffFlag(w))
    <2>1. PcOK' /\ raced' \in BOOLEAN
        BY <1>12, GotoWorker DEF BuzzerStep, OffFlag, WorkerLabels, RingLabels
    <2> QED
        BY <1>12, <2>1 DEF BuzzerStep, OffFlag
<1>13. CASE BuzzerStep(OffJoinable(w))
    <2>1. PcOK' /\ raced' \in BOOLEAN
        BY <1>13, GotoWorker DEF BuzzerStep, OffJoinable, WorkerLabels, RingLabels
    <2> QED
        BY <1>13, <2>1 DEF BuzzerStep, OffJoinable
<1>14. CASE BuzzerStep(OffJoin(w))
    <2>1. CASE buzzThread = "none" \/ Joining
        <3>1. PcOK' /\ raced' \in BOOLEAN /\ aborted' \in BOOLEAN
            BY <1>14, <2>1, ThreadsAreDistinct DEF BuzzerStep, OffJoin, Throw, PcOK
        <3> QED
            BY <1>14, <3>1 DEF BuzzerStep, OffJoin
    <2>2. CASE ~(buzzThread = "none" \/ Joining)
        <3>1. PcOK' /\ raced' \in BOOLEAN
            BY <1>14, <2>2, GotoWorker DEF BuzzerStep, OffJoin, WorkerLabels, RingLabels
        <3> QED
            BY <1>14, <2>2, <3>1 DEF BuzzerStep, OffJoin
    <2> QED
        BY <2>1, <2>2
<1>15. CASE BuzzerStep(OffJoined(w))
    <2>1. PcOK' /\ raced' \in BOOLEAN
        BY <1>15, GotoWorker DEF BuzzerStep, OffJoined, WorkerLabels, RingLabels
    <2> QED
        BY <1>15, <2>1 DEF BuzzerStep, OffJoined
<1> QED
    BY <1>1, <1>2, <1>3, <1>4, <1>5, <1>6, <1>7, <1>8, <1>9, <1>10, <1>11,
       <1>12, <1>13, <1>14, <1>15
    DEF WorkerRuns, WorkerFunc, On, Off, AlarmStep, BuzzerStep

LEMMA TypeStep == TypeOK /\ [Next]_vars => TypeOK'
<1> SUFFICES ASSUME TypeOK, [Next]_vars PROVE TypeOK'
    OBVIOUS
<1>1. CASE NetRuns \/ FrameArrives
    BY <1>1, TypeNet
<1>2. CASE ButtonRuns \/ Click \/ Hold
    BY <1>2, TypeButton
<1>3. CASE DisplayRuns
    BY <1>3, TypeDisplay
<1>4. CASE \E w \in Workers : WorkerRuns(w)
    BY <1>4, TypeWorker
<1>5. CASE BuzzerRuns
    BY <1>5 DEF BuzzerRuns, BuzzerStep, BuzzerThreadEnds, threadVars, alarmVars, appVars,
                TypeOK, PcOK, DataOK
<1>6. CASE ClockRuns
    BY <1>6 DEF ClockRuns, TimePasses, threadVars, buzzerVars, appVars,
                TypeOK, PcOK, DataOK
<1>7. CASE UNCHANGED vars
    BY <1>7 DEF vars, threadVars, buzzerVars, alarmVars, appVars, TypeOK, PcOK, DataOK
<1> QED
    BY <1>1, <1>2, <1>3, <1>4, <1>5, <1>6, <1>7 DEF Next, Dead

(****************************************************************************)
(* Every variable keeps its type and every thread its own code, for any      *)
(* number of alarm threads.                                                  *)
(****************************************************************************)
THEOREM TypeCorrect == Spec => []TypeOK
BY TypeInit, TypeStep, PTL DEF Spec

-------------------------------------------------------------------------------
(* The lock.  A step of one thread moves that thread alone, so it is enough  *)
(* to look at where the thread was, where it goes and what mutex becomes.    *)

\* A thread that neither enters nor leaves guarded code leaves the lock alone.
LEMMA StayLock ==
    ASSUME PcOK, LockIsHeldInside, NEW t \in Thread, NEW l, Goto(t, l), UNCHANGED mutex,
           InsideLock(t, pc[t]) <=> InsideLock(t, l)
    PROVE  LockIsHeldInside'
<1>1. pc' = [pc EXCEPT ![t] = l] /\ pc \in [Thread -> Labels]
    BY DEF Goto, PcOK
<1>2. ASSUME NEW u \in Thread
      PROVE  InsideLock(u, pc'[u]) <=> InsideLock(u, pc[u])
    BY <1>1, <1>2
<1> QED
    BY <1>2 DEF LockIsHeldInside, InsideLock

\* A thread that takes the free lock enters guarded code.
LEMMA EnterLock ==
    ASSUME PcOK, LockIsHeldInside, NEW t \in Thread, NEW l, Goto(t, l), Acquire(t),
           InsideLock(t, l)
    PROVE  LockIsHeldInside'
<1>1. /\ pc' = [pc EXCEPT ![t] = l] /\ pc \in [Thread -> Labels]
      /\ mutex = None /\ mutex' = t
    BY DEF Goto, PcOK, Acquire
<1>2. ASSUME NEW u \in Thread
      PROVE  InsideLock(u, pc'[u]) <=> mutex' = u
    <2>1. CASE u = t
        BY <1>1, <2>1
    <2>2. CASE u # t
        BY <1>1, <2>2, ThreadsAreDistinct DEF LockIsHeldInside
    <2> QED
        BY <2>1, <2>2
<1> QED
    BY <1>2 DEF LockIsHeldInside, InsideLock

\* A thread inside guarded code holds the lock, and gives it up as it leaves.
LEMMA LeaveLock ==
    ASSUME PcOK, LockIsHeldInside, NEW t \in Thread, NEW l, Goto(t, l), Release,
           InsideLock(t, pc[t]), ~InsideLock(t, l)
    PROVE  LockIsHeldInside'
<1>1. /\ pc' = [pc EXCEPT ![t] = l] /\ pc \in [Thread -> Labels]
      /\ mutex = t /\ mutex' = None
    BY DEF Goto, PcOK, Release, LockIsHeldInside
<1>2. ASSUME NEW u \in Thread
      PROVE  InsideLock(u, pc'[u]) <=> mutex' = u
    <2>1. CASE u = t
        BY <1>1, <2>1, ThreadsAreDistinct
    <2>2. CASE u # t
        BY <1>1, <2>2, ThreadsAreDistinct DEF LockIsHeldInside
    <2> QED
        BY <2>1, <2>2
<1> QED
    BY <1>2 DEF LockIsHeldInside, InsideLock

\* Nothing moves.
LEMMA SameLock ==
    ASSUME LockIsHeldInside, UNCHANGED <<pc, mutex>>
    PROVE  LockIsHeldInside'
BY DEF LockIsHeldInside, InsideLock

\* All of DisableAlarm runs with the lock on Net and without it on Button.
LEMMA CommandLabels ==
    ASSUME NEW t \in Goer, NEW l \in DisableLabels, NEW m \in DisableLabels
    PROVE  InsideLock(t, l) <=> InsideLock(t, m)
BY ThreadsAreDistinct DEF Goer, InsideLock, DisableLabels

LEMMA LockCommand ==
    ASSUME TypeOK, LockIsHeldInside, NEW t \in Goer, Command(t)
    PROVE  LockIsHeldInside'
<1>1. PcOK /\ t \in Thread /\ UNCHANGED mutex
    BY DEF TypeOK, Command, AlarmStep, BuzzerStep, Silenced, Goer, Thread
<1>2. pc[t] \in DisableLabels
    BY DEF Command, AlarmStep, BuzzerStep, Silenced, DisableAlarm, Disable, ClearAlarm,
           StopFlag, StopJoinable, StopDetach, Off, OffFlag, OffJoinable, OffJoin,
           OffJoined, At, DisableLabels
<1>3. ASSUME NEW l \in DisableLabels, Goto(t, l)
      PROVE  LockIsHeldInside'
    BY <1>1, <1>2, <1>3, CommandLabels, StayLock
<1>4. ASSUME Goto(t, cont[t])
      PROVE  LockIsHeldInside'
    <2>1. CASE cont[t] \in DisableLabels
        BY <1>3, <1>4, <2>1
    <2>2. CASE cont[t] \notin DisableLabels
        <3>1. t = Net /\ cont[t] = "arm"
            BY <2>2 DEF TypeOK, DataOK, Goer, DisableLabels
        <3>2. InsideLock(t, pc[t]) <=> InsideLock(t, cont[t])
            BY <1>2, <3>1 DEF InsideLock, DisableLabels
        <3> QED
            BY <1>1, <1>4, <3>2, StayLock
    <2> QED
        BY <2>1, <2>2
<1>5. ASSUME Throw(t)
      PROVE  LockIsHeldInside'
    <2>1. CASE t = Net
        <3>1. InsideLock(t, pc[t]) <=> InsideLock(t, "unlock")
            BY <1>2, <2>1 DEF InsideLock, DisableLabels
        <3> QED
            BY <1>1, <1>5, <2>1, <3>1, StayLock DEF Throw
    <2>2. CASE t # Net
        BY <1>1, <1>5, <2>2, SameLock DEF Throw
    <2> QED
        BY <2>1, <2>2
<1>6. CASE AlarmStep(DisableAlarm(t))
    BY <1>3, <1>4, <1>5, <1>6 DEF AlarmStep, DisableAlarm, Disable, ClearAlarm, StopFlag,
       StopJoinable, StopDetach, DisableLabels
<1>7. CASE BuzzerStep(Off(t))
    BY <1>3, <1>5, <1>7 DEF BuzzerStep, Off, OffFlag, OffJoinable, OffJoin, OffJoined,
       DisableLabels
<1>8. CASE Silenced(t)
    BY <1>3, <1>8 DEF Silenced, DisableLabels
<1> QED
    BY <1>6, <1>7, <1>8 DEF Command

LEMMA LockNet ==
    ASSUME TypeOK, LockIsHeldInside, NetRuns \/ FrameArrives
    PROVE  LockIsHeldInside'
<1> USE DEF TypeOK
<1>1. CASE Command(Net)
    BY <1>1, LockCommand DEF Goer
<1>2. CASE FrameArrives
    BY <1>2, StayLock, ThreadsAreDistinct DEF FrameArrives, At, InsideLock, Thread
<1>3. CASE FrameLock
    BY <1>3, EnterLock DEF FrameLock, InsideLock, Thread
<1>4. CASE NetDisabled
    BY <1>4, StayLock DEF NetDisabled, At, InsideLock, Thread
<1>5. CASE NetUnlock
    BY <1>5, LeaveLock, ThreadsAreDistinct DEF NetUnlock, At, InsideLock, Thread
<1>6. CASE AlarmStep(SetTime) \/ AlarmStep(SetFlag) \/ AlarmStep(ArmFlag)
    BY <1>6, StayLock DEF AlarmStep, SetTime, SetFlag, ArmFlag, At, InsideLock, Thread
<1>7. ASSUME NEW w \in Workers, AlarmStep(SpawnWorker(w))
      PROVE  LockIsHeldInside'
    <2>1. CASE joinable
        BY <1>7, <2>1, SameLock DEF AlarmStep, SpawnWorker
    <2>2. CASE ~joinable
        <3>1. /\ pc' = [pc EXCEPT ![Net] = "unlock", ![w] = "loop"]
              /\ pc[Net] = "spawn" /\ pc[w] = "idle" /\ mutex' = mutex
              /\ pc \in [Thread -> Labels]
            BY <1>7, <2>2 DEF AlarmStep, SpawnWorker, At, PcOK
        <3>2. ASSUME NEW u \in Thread
              PROVE  InsideLock(u, pc'[u]) <=> InsideLock(u, pc[u])
            <4>1. CASE u = Net
                BY <3>1, <4>1, ThreadsAreDistinct DEF InsideLock, Thread
            <4>2. CASE u = w
                BY <3>1, <4>2, ThreadsAreDistinct DEF InsideLock, Thread, RingLabels
            <4>3. CASE u # Net /\ u # w
                BY <3>1, <4>3
            <4> QED
                BY <4>1, <4>2, <4>3
        <3> QED
            BY <3>1, <3>2 DEF LockIsHeldInside, InsideLock
    <2> QED
        BY <2>1, <2>2
<1> QED
    BY <1>1, <1>2, <1>3, <1>4, <1>5, <1>6, <1>7 DEF NetRuns, StartWorker, AlarmStep

LEMMA LockButton ==
    ASSUME TypeOK, LockIsHeldInside, ButtonRuns \/ Click \/ Hold
    PROVE  LockIsHeldInside'
<1> USE DEF TypeOK
<1>1. CASE Command(Button)
    BY <1>1, LockCommand DEF Goer
<1>2. CASE Click \/ Hold \/ ClickCheck \/ HoldDone \/ NextDisplayMode
    BY <1>2, StayLock, ThreadsAreDistinct
    DEF Click, Hold, ClickCheck, HoldDone, NextDisplayMode, At, InsideLock, Thread
<1>3. CASE ClickLock
    BY <1>3, EnterLock DEF ClickLock, InsideLock, Thread
<1>4. CASE Redraw
    BY <1>4, LeaveLock, ThreadsAreDistinct DEF Redraw, At, InsideLock, Thread
<1> QED
    BY <1>1, <1>2, <1>3, <1>4 DEF ButtonRuns

LEMMA LockDisplay ==
    ASSUME TypeOK, LockIsHeldInside, DisplayRuns
    PROVE  LockIsHeldInside'
<1> USE DEF TypeOK
<1>1. CASE DisplayWakes \/ Measure
    BY <1>1, StayLock, ThreadsAreDistinct DEF DisplayWakes, Measure, At, InsideLock, Thread
<1>2. CASE DisplayLock
    BY <1>2, EnterLock DEF DisplayLock, InsideLock, Thread
<1>3. CASE Draw
    BY <1>3, LeaveLock, ThreadsAreDistinct DEF Draw, InsideLock, Thread
<1> QED
    BY <1>1, <1>2, <1>3 DEF DisplayRuns

LEMMA LockWorker ==
    ASSUME TypeOK, LockIsHeldInside, NEW w \in Workers, WorkerRuns(w)
    PROVE  LockIsHeldInside'
<1>1. PcOK /\ w \in Thread /\ w # Net /\ w # Button /\ w # Display
    BY ThreadsAreDistinct DEF TypeOK, Thread
<1>2. CASE AlarmStep(WorkerLoop(w)) \/ AlarmStep(WorkerFired(w)) \/ AlarmStep(WorkerWakes(w))
    BY <1>1, <1>2, StayLock
    DEF AlarmStep, WorkerLoop, WorkerFired, WorkerWakes, At, InsideLock, RingLabels
<1>3. CASE AlarmStep(WorkerCheck(w))
    <2>1. PICK l \in {"ringLock", "sleep"} : Goto(w, l)
        BY <1>3 DEF AlarmStep, WorkerCheck
    <2> QED
        BY <1>1, <1>3, <2>1, StayLock DEF AlarmStep, WorkerCheck, At, InsideLock, RingLabels
<1>4. CASE RingLock(w)
    BY <1>1, <1>4, EnterLock DEF RingLock, InsideLock, RingLabels
<1>5. CASE Ring(w) \/ RingScreen(w)
    BY <1>1, <1>5, StayLock DEF Ring, RingScreen, At, InsideLock, RingLabels
<1>6. CASE Rung(w)
    BY <1>1, <1>6, LeaveLock DEF Rung, At, InsideLock, RingLabels
<1>7. ASSUME NEW l \in RingLabels, pc[w] \in RingLabels, Goto(w, l), UNCHANGED mutex
      PROVE  LockIsHeldInside'
    BY <1>1, <1>7, StayLock DEF InsideLock
<1>8. CASE BuzzerStep(OnEnter(w)) \/ BuzzerStep(OnFlag(w))
    BY <1>7, <1>8 DEF BuzzerStep, OnEnter, OnFlag, At, RingLabels
<1>9. CASE BuzzerStep(OnSpawn(w))
    BY <1>7, <1>9, SameLock DEF BuzzerStep, OnSpawn, At, RingLabels
<1>10. CASE BuzzerStep(OffFlag(w)) \/ BuzzerStep(OffJoinable(w)) \/ BuzzerStep(OffJoined(w))
    BY <1>7, <1>10 DEF BuzzerStep, OffFlag, OffJoinable, OffJoined, At, RingLabels
<1>11. CASE BuzzerStep(OffJoin(w))
    BY <1>1, <1>7, <1>11, SameLock DEF BuzzerStep, OffJoin, Throw, At, RingLabels
<1> QED
    BY <1>2, <1>3, <1>4, <1>5, <1>6, <1>8, <1>9, <1>10, <1>11
    DEF WorkerRuns, WorkerFunc, On, Off, AlarmStep, BuzzerStep

LEMMA LockStep == TypeOK /\ LockIsHeldInside /\ [Next]_vars => LockIsHeldInside'
<1> SUFFICES ASSUME TypeOK, LockIsHeldInside, [Next]_vars PROVE LockIsHeldInside'
    OBVIOUS
<1>1. CASE NetRuns \/ FrameArrives
    BY <1>1, LockNet
<1>2. CASE ButtonRuns \/ Click \/ Hold
    BY <1>2, LockButton
<1>3. CASE DisplayRuns
    BY <1>3, LockDisplay
<1>4. CASE \E w \in Workers : WorkerRuns(w)
    BY <1>4, LockWorker
<1>5. CASE BuzzerRuns \/ ClockRuns \/ UNCHANGED vars
    BY <1>5, SameLock DEF BuzzerRuns, BuzzerStep, BuzzerThreadEnds, ClockRuns, TimePasses,
                          vars, threadVars
<1> QED
    BY <1>1, <1>2, <1>3, <1>4, <1>5 DEF Next, Dead

LEMMA LockInit == Init => LockIsHeldInside
BY ThreadsAreDistinct
DEF Init, ThreadsInit, LockIsHeldInside, InsideLock, Thread, RingLabels

(****************************************************************************)
(* appMutex_ is held by exactly the thread inside a guarded section, whoever *)
(* throws, rings or presses meanwhile.                                       *)
(****************************************************************************)
THEOREM LockCorrect == Spec => []LockIsHeldInside
BY TypeInit, TypeStep, LockInit, LockStep, PTL DEF Spec

-------------------------------------------------------------------------------
(* The two std::thread members.  Each is filled by threads that exclude each *)
(* other and emptied by anyone: once its filler has seen it empty, it stays  *)
(* empty until the filler fills it.                                          *)

\* An alarm thread that is done with Off() finds Buzzer::worker_ empty.
BuzzSlotFree == \A w \in Workers : pc[w] \in {"offDone", "onSpawn"} => buzzThread = "none"

\* SetAlarm, done with StopWorker(), finds AlarmManager::worker_ empty.
AlarmSlotFree == pc[Net] \in {"arm", "spawn"} => ~joinable

SlotsFree == BuzzSlotFree /\ AlarmSlotFree

LEMMA SlotsNet ==
    ASSUME TypeOK, SlotsFree, NetRuns \/ FrameArrives
    PROVE  SlotsFree'
<1> USE DEF TypeOK, SlotsFree, BuzzSlotFree, AlarmSlotFree
<1>1. pc \in [Thread -> Labels] /\ Net \in Thread /\ \A w \in Workers : w \in Thread /\ w # Net
    BY ThreadsAreDistinct DEF PcOK, Thread
<1>2. ASSUME NEW l, Goto(Net, l), buzzThread' \in {buzzThread, "none"},
             l \in {"arm", "spawn"} => ~joinable'
      PROVE  SlotsFree'
    BY <1>1, <1>2 DEF Goto
<1>3. CASE FrameArrives \/ FrameLock \/ NetDisabled \/ NetUnlock
    BY <1>2, <1>3 DEF FrameArrives, FrameLock, NetDisabled, NetUnlock, buzzerVars
<1>4. CASE AlarmStep(SetTime) \/ AlarmStep(SetFlag) \/ AlarmStep(ArmFlag)
    BY <1>2, <1>4 DEF AlarmStep, SetTime, SetFlag, ArmFlag, At, buzzerVars
<1>5. CASE AlarmStep(Disable(Net)) \/ AlarmStep(ClearAlarm(Net)) \/ AlarmStep(StopFlag(Net))
    BY <1>2, <1>5 DEF AlarmStep, Disable, ClearAlarm, StopFlag, buzzerVars
<1>6. CASE AlarmStep(StopJoinable(Net))
    <2>1. CASE joinable
        BY <1>2, <1>6, <2>1 DEF AlarmStep, StopJoinable, buzzerVars
    <2>2. CASE ~joinable
        BY <1>2, <1>6, <2>2 DEF AlarmStep, StopJoinable, buzzerVars
    <2> QED
        BY <2>1, <2>2
<1>7. CASE AlarmStep(StopDetach(Net))
    <2>1. CASE joinable
        BY <1>2, <1>7, <2>1 DEF AlarmStep, StopDetach, buzzerVars
    <2>2. CASE ~joinable
        BY <1>2, <1>7, <2>2 DEF AlarmStep, StopDetach, Throw, buzzerVars
    <2> QED
        BY <2>1, <2>2
<1>8. CASE BuzzerStep(Off(Net))
    BY <1>2, <1>8 DEF BuzzerStep, Off, OffFlag, OffJoinable, OffJoin, OffJoined, Throw,
                      buzzerVars
<1>9. CASE Silenced(Net)
    BY <1>2, <1>9 DEF Silenced, buzzerVars
<1>10. ASSUME NEW w \in Workers, AlarmStep(SpawnWorker(w))
       PROVE  SlotsFree'
    BY <1>1, <1>10 DEF AlarmStep, SpawnWorker, At, buzzerVars
<1> QED
    BY <1>3, <1>4, <1>5, <1>6, <1>7, <1>8, <1>9, <1>10
    DEF NetRuns, Command, DisableAlarm, StartWorker, AlarmStep

LEMMA SlotsButton ==
    ASSUME TypeOK, SlotsFree, ButtonRuns \/ Click \/ Hold
    PROVE  SlotsFree'
<1> USE DEF TypeOK, SlotsFree, BuzzSlotFree, AlarmSlotFree
<1>1. /\ pc \in [Thread -> Labels] /\ Button \in Thread /\ Net \in Thread /\ Button # Net
      /\ \A w \in Workers : w \in Thread /\ w # Button
    BY ThreadsAreDistinct DEF PcOK, Thread
<1>2. ASSUME NEW l, Goto(Button, l), buzzThread' \in {buzzThread, "none"},
             joinable' => joinable
      PROVE  SlotsFree'
    BY <1>1, <1>2 DEF Goto
<1>3. CASE \/ Click \/ Hold \/ ClickCheck \/ ClickLock \/ NextDisplayMode \/ Redraw
           \/ HoldDone \/ Silenced(Button)
    BY <1>2, <1>3 DEF Click, Hold, ClickCheck, ClickLock, NextDisplayMode, Redraw,
                      HoldDone, Silenced, buzzerVars, alarmVars
<1>4. CASE AlarmStep(DisableAlarm(Button))
    <2>1. CASE aborted' = TRUE /\ UNCHANGED <<pc, joinable, buzzThread>>
        BY <2>1
    <2>2. CASE ~(aborted' = TRUE /\ UNCHANGED <<pc, joinable, buzzThread>>)
        BY <1>1, <1>2, <1>4, <2>2
        DEF AlarmStep, DisableAlarm, Disable, ClearAlarm, StopFlag, StopJoinable,
            StopDetach, Throw, buzzerVars
    <2> QED
        BY <2>1, <2>2
<1>5. CASE BuzzerStep(Off(Button))
    <2>1. CASE aborted' = TRUE /\ UNCHANGED <<pc, joinable, buzzThread>>
        BY <2>1
    <2>2. CASE ~(aborted' = TRUE /\ UNCHANGED <<pc, joinable, buzzThread>>)
        BY <1>1, <1>2, <1>5, <2>2
        DEF BuzzerStep, Off, OffFlag, OffJoinable, OffJoin, OffJoined, Throw,
            buzzerVars, alarmVars
    <2> QED
        BY <2>1, <2>2
<1> QED
    BY <1>3, <1>4, <1>5 DEF ButtonRuns, Command

LEMMA SlotsWorker ==
    ASSUME TypeOK, LockIsHeldInside, SlotsFree, NEW w \in Workers, WorkerRuns(w)
    PROVE  SlotsFree'
<1> USE DEF TypeOK, SlotsFree, BuzzSlotFree, AlarmSlotFree
<1>1. /\ pc \in [Thread -> Labels] /\ Net \in Thread
      /\ \A v \in Workers : v \in Thread /\ v # Net
    BY ThreadsAreDistinct DEF PcOK, Thread
<1>2. ASSUME NEW l, Goto(w, l), UNCHANGED joinable,
             buzzThread' \in {buzzThread, "none"},
             l \in {"offDone", "onSpawn"} => buzzThread' = "none"
      PROVE  SlotsFree'
    BY <1>1, <1>2 DEF Goto
<1>3. CASE RingLock(w) \/ Ring(w) \/ RingScreen(w) \/ Rung(w)
    BY <1>2, <1>3 DEF RingLock, Ring, RingScreen, Rung, buzzerVars, alarmVars
<1>4. CASE AlarmStep(WorkerFunc(w))
    <2>1. PICK l \in {"check", "idle", "ringLock", "sleep", "loop"} : Goto(w, l)
        BY <1>4 DEF AlarmStep, WorkerFunc, WorkerLoop, WorkerCheck, WorkerFired, WorkerWakes
    <2>2. UNCHANGED <<joinable, buzzThread>>
        BY <1>4 DEF AlarmStep, WorkerFunc, WorkerLoop, WorkerCheck, WorkerFired,
                    WorkerWakes, buzzerVars, alarmVars
    <2> QED
        BY <1>2, <2>1, <2>2
<1>5. CASE BuzzerStep(OnEnter(w)) \/ BuzzerStep(OnFlag(w))
    BY <1>2, <1>5 DEF BuzzerStep, OnEnter, OnFlag, At, buzzerVars, alarmVars
<1>6. CASE BuzzerStep(OnSpawn(w))
    <2>1. pc[w] = "onSpawn" /\ buzzThread = "none"
        BY <1>6 DEF BuzzerStep, OnSpawn, At
    <2>2. pc' = [pc EXCEPT ![w] = "onDone"] /\ UNCHANGED joinable
        BY <1>6, <2>1 DEF BuzzerStep, OnSpawn, Goto, alarmVars
    <2>3. ASSUME NEW v \in Workers, v # w
          PROVE  pc[v] \notin {"offDone", "onSpawn"}
        BY <1>1, <2>1, <2>3 DEF LockIsHeldInside, InsideLock, RingLabels
    <2> QED
        BY <1>1, <2>2, <2>3
<1>7. CASE BuzzerStep(OffFlag(w)) \/ BuzzerStep(OffJoinable(w)) \/ BuzzerStep(OffJoined(w))
    BY <1>2, <1>7 DEF BuzzerStep, OffFlag, OffJoinable, OffJoined, buzzerVars, alarmVars
<1>8. CASE BuzzerStep(OffJoin(w))
    <2>1. CASE buzzThread = "none" \/ Joining
        BY <1>1, <1>8, <2>1 DEF BuzzerStep, OffJoin, Throw, buzzerVars, alarmVars
    <2>2. CASE ~(buzzThread = "none" \/ Joining)
        BY <1>2, <1>8, <2>2 DEF BuzzerStep, OffJoin, buzzerVars, alarmVars
    <2> QED
        BY <2>1, <2>2
<1> QED
    BY <1>3, <1>4, <1>5, <1>6, <1>7, <1>8 DEF WorkerRuns, On, Off, BuzzerStep

LEMMA SlotsStep == TypeOK /\ LockIsHeldInside /\ SlotsFree /\ [Next]_vars => SlotsFree'
<1> SUFFICES ASSUME TypeOK, LockIsHeldInside, SlotsFree, [Next]_vars PROVE SlotsFree'
    OBVIOUS
<1>1. CASE NetRuns \/ FrameArrives
    BY <1>1, SlotsNet
<1>2. CASE ButtonRuns \/ Click \/ Hold
    BY <1>2, SlotsButton
<1>3. CASE DisplayRuns
    <2>1. PICK l \in DisplayLabels : Goto(Display, l)
        BY <1>3 DEF DisplayRuns, DisplayWakes, DisplayLock, Measure, Draw, DisplayLabels
    <2>2. UNCHANGED <<buzzThread, joinable>>
        BY <1>3 DEF DisplayRuns, DisplayWakes, DisplayLock, Measure, Draw, buzzerVars,
                    alarmVars
    <2> QED
        BY <2>1, <2>2, ThreadsAreDistinct
        DEF Goto, SlotsFree, BuzzSlotFree, AlarmSlotFree, TypeOK, PcOK, Thread
<1>4. CASE \E w \in Workers : WorkerRuns(w)
    BY <1>4, SlotsWorker
<1>5. CASE BuzzerRuns
    BY <1>5 DEF BuzzerRuns, BuzzerStep, BuzzerThreadEnds, threadVars, alarmVars,
                SlotsFree, BuzzSlotFree, AlarmSlotFree
<1>6. CASE ClockRuns \/ UNCHANGED vars
    BY <1>6 DEF ClockRuns, TimePasses, vars, threadVars, buzzerVars, alarmVars,
                SlotsFree, BuzzSlotFree, AlarmSlotFree
<1> QED
    BY <1>1, <1>2, <1>3, <1>4, <1>5, <1>6 DEF Next, Dead

LEMMA SlotsInit == Init => SlotsFree
BY ThreadsAreDistinct
DEF Init, ThreadsInit, Thread, SlotsFree, BuzzSlotFree, AlarmSlotFree

(****************************************************************************)
(* No std::thread member is assigned to while joinable: std::terminate is    *)
(* never reached that way, however a long press overlaps requests and alarms.*)
(****************************************************************************)
THEOREM ThreadsNeverOverwritten == Spec => []NoThreadOverwritten
<1>1. SlotsFree => NoThreadOverwritten
    BY DEF SlotsFree, BuzzSlotFree, AlarmSlotFree, NoThreadOverwritten
<1> QED
    BY <1>1, TypeInit, TypeStep, LockInit, LockStep, SlotsInit, SlotsStep, PTL DEF Spec

-------------------------------------------------------------------------------
(* The screen.  mode_ and the screen differ only while the thread that has   *)
(* changed one is about to change the other, with the lock held.             *)

ScreenFollows ==
    /\ pc[Display] = "drawClock" => mode = "clock"
    /\ pc[Display] = "drawMeasure" => mode = "measure"
    /\ \A w \in Workers : pc[w] = "ringScreen" => mode = "clock"
    /\ \/ screen = mode
       \/ pc[Button] = "redraw"
       \/ \E w \in Workers : pc[w] = "ringScreen"

\* A step that touches neither, by a thread that owes no redraw.
LEMMA ScreenStay ==
    ASSUME PcOK, ScreenFollows, NEW t \in Thread, NEW l, Goto(t, l),
           UNCHANGED <<mode, screen>>,
           l \notin {"drawClock", "drawMeasure", "ringScreen"},
           pc[t] \notin {"redraw", "ringScreen"}
    PROVE  ScreenFollows'
<1>1. pc' = [pc EXCEPT ![t] = l] /\ pc \in [Thread -> Labels]
    BY DEF Goto, PcOK
<1>2. ASSUME NEW u \in Thread
      PROVE  \/ pc'[u] = pc[u]
             \/ /\ pc[u] \notin {"redraw", "ringScreen"}
                /\ pc'[u] \notin {"drawClock", "drawMeasure", "ringScreen"}
    BY <1>1
<1>3. /\ Display \in Thread /\ Button \in Thread
      /\ \A w \in Workers : w \in Thread
    BY DEF Thread
<1> QED
    BY <1>2, <1>3 DEF ScreenFollows

LEMMA ScreenSame ==
    ASSUME ScreenFollows, UNCHANGED <<pc, mode, screen>>
    PROVE  ScreenFollows'
BY DEF ScreenFollows

LEMMA ScreenCommand ==
    ASSUME TypeOK, ScreenFollows, NEW t \in Goer, Command(t)
    PROVE  ScreenFollows'
<1>1. PcOK /\ t \in Thread /\ UNCHANGED <<mode, screen>>
    BY DEF TypeOK, Command, AlarmStep, BuzzerStep, Silenced, Goer, Thread, appVars
<1>2. pc[t] \notin {"redraw", "ringScreen"}
    BY DEF Command, AlarmStep, BuzzerStep, Silenced, DisableAlarm, Disable, ClearAlarm,
           StopFlag, StopJoinable, StopDetach, Off, OffFlag, OffJoinable, OffJoin,
           OffJoined, At
<1>3. UNCHANGED pc \/ \E l \in DisableLabels \cup {"arm", "unlock"} : Goto(t, l)
    <2>1. cont[t] \in DisableLabels \cup {"arm"}
        BY DEF TypeOK, DataOK, DisableLabels
    <2>2. CASE AlarmStep(DisableAlarm(t))
        BY <2>1, <2>2 DEF AlarmStep, DisableAlarm, Disable, ClearAlarm, StopFlag,
           StopJoinable, StopDetach, Throw, DisableLabels
    <2>3. CASE BuzzerStep(Off(t)) \/ Silenced(t)
        BY <2>3 DEF BuzzerStep, Silenced, Off, OffFlag, OffJoinable, OffJoin, OffJoined,
           Throw, DisableLabels
    <2> QED
        BY <2>2, <2>3 DEF Command
<1> QED
    BY <1>1, <1>2, <1>3, ScreenStay, ScreenSame DEF DisableLabels

LEMMA ScreenNet ==
    ASSUME TypeOK, ScreenFollows, NetRuns \/ FrameArrives
    PROVE  ScreenFollows'
<1>1. PcOK /\ Net \in Thread
    BY DEF TypeOK, Thread
<1>2. CASE Command(Net)
    BY <1>2, ScreenCommand DEF Goer
<1>3. CASE FrameArrives \/ FrameLock \/ NetDisabled \/ NetUnlock
    BY <1>1, <1>3, ScreenStay
    DEF FrameArrives, FrameLock, NetDisabled, NetUnlock, At, appVars
<1>4. CASE AlarmStep(SetTime) \/ AlarmStep(SetFlag) \/ AlarmStep(ArmFlag)
    BY <1>1, <1>4, ScreenStay DEF AlarmStep, SetTime, SetFlag, ArmFlag, At, appVars
<1>5. ASSUME NEW w \in Workers, AlarmStep(SpawnWorker(w))
      PROVE  ScreenFollows'
    <2>1. CASE joinable
        BY <1>5, <2>1, ScreenSame DEF AlarmStep, SpawnWorker, appVars
    <2>2. CASE ~joinable
        <3>1. /\ pc' = [pc EXCEPT ![Net] = "unlock", ![w] = "loop"]
              /\ pc[Net] = "spawn" /\ pc[w] = "idle" /\ UNCHANGED <<mode, screen>>
              /\ pc \in [Thread -> Labels]
            BY <1>1, <1>5, <2>2 DEF AlarmStep, SpawnWorker, At, PcOK, appVars
        <3>2. /\ pc'[Display] = pc[Display] /\ pc'[Button] = pc[Button]
              /\ \A v \in Workers : (pc'[v] = "ringScreen") <=> (pc[v] = "ringScreen")
            BY <3>1, ThreadsAreDistinct DEF Thread
        <3> QED
            BY <3>1, <3>2 DEF ScreenFollows
    <2> QED
        BY <2>1, <2>2
<1> QED
    BY <1>2, <1>3, <1>4, <1>5 DEF NetRuns, StartWorker, AlarmStep

LEMMA ScreenButton ==
    ASSUME TypeOK, LockIsHeldInside, ScreenFollows, ButtonRuns \/ Click \/ Hold
    PROVE  ScreenFollows'
<1>1. /\ PcOK /\ pc \in [Thread -> Labels]
      /\ Button \in Thread /\ Display \in Thread /\ Button # Display
      /\ \A w \in Workers : w \in Thread /\ w # Button
    BY ThreadsAreDistinct DEF TypeOK, PcOK, Thread
<1>2. CASE Command(Button)
    BY <1>2, ScreenCommand DEF Goer
<1>3. CASE Click \/ Hold \/ ClickCheck \/ ClickLock \/ HoldDone
    BY <1>1, <1>3, ScreenStay DEF Click, Hold, ClickCheck, ClickLock, HoldDone, At, appVars
<1>4. CASE NextDisplayMode \/ Redraw
    <2>1. InsideLock(Button, pc[Button])
        BY <1>4 DEF NextDisplayMode, Redraw, At, InsideLock
    <2>2. /\ pc[Display] \notin {"drawClock", "drawMeasure"}
          /\ \A w \in Workers : pc[w] # "ringScreen"
        BY <1>1, <2>1 DEF LockIsHeldInside, InsideLock, RingLabels
    <2>3. CASE NextDisplayMode
        BY <1>1, <2>2, <2>3 DEF NextDisplayMode, Goto, ScreenFollows
    <2>4. CASE Redraw
        BY <1>1, <2>2, <2>4 DEF Redraw, Goto, ScreenFollows
    <2> QED
        BY <1>4, <2>3, <2>4
<1> QED
    BY <1>2, <1>3, <1>4 DEF ButtonRuns

LEMMA ScreenDisplay ==
    ASSUME TypeOK, ScreenFollows, DisplayRuns
    PROVE  ScreenFollows'
<1>1. /\ PcOK /\ pc \in [Thread -> Labels]
      /\ Button \in Thread /\ Display \in Thread /\ Button # Display
      /\ \A w \in Workers : w \in Thread /\ w # Display
      /\ mode \in {"clock", "measure"}
    BY ThreadsAreDistinct DEF TypeOK, PcOK, DataOK, Thread
<1>2. CASE DisplayWakes \/ DisplayLock
    BY <1>1, <1>2, ScreenStay DEF DisplayWakes, DisplayLock, At, appVars
<1>3. CASE Measure
    BY <1>1, <1>3 DEF Measure, Goto, ScreenFollows, appVars
<1>4. CASE Draw
    <2>1. screen' = mode /\ mode' = mode
        BY <1>1, <1>4 DEF Draw, ScreenFollows
    <2> QED
        BY <1>1, <1>4, <2>1 DEF Draw, Goto, ScreenFollows
<1> QED
    BY <1>2, <1>3, <1>4 DEF DisplayRuns

LEMMA ScreenWorker ==
    ASSUME TypeOK, LockIsHeldInside, ScreenFollows, NEW w \in Workers, WorkerRuns(w)
    PROVE  ScreenFollows'
<1>1. /\ PcOK /\ pc \in [Thread -> Labels]
      /\ Button \in Thread /\ Display \in Thread /\ w # Button /\ w # Display
      /\ \A v \in Workers : v \in Thread
    BY ThreadsAreDistinct DEF TypeOK, PcOK, Thread
<1>2. CASE Ring(w) \/ RingScreen(w)
    <2>1. InsideLock(w, pc[w])
        BY <1>2 DEF Ring, RingScreen, At, InsideLock, RingLabels
    <2>2. /\ pc[Display] \notin {"drawClock", "drawMeasure"}
          /\ pc[Button] # "redraw"
          /\ \A v \in Workers : v # w => pc[v] # "ringScreen"
        BY <1>1, <2>1 DEF LockIsHeldInside, InsideLock, RingLabels
    <2>3. CASE Ring(w)
        BY <1>1, <2>2, <2>3 DEF Ring, Goto, ScreenFollows
    <2>4. CASE RingScreen(w)
        BY <1>1, <2>2, <2>4 DEF RingScreen, At, Goto, ScreenFollows
    <2> QED
        BY <1>2, <2>3, <2>4
<1>3. CASE RingLock(w) \/ Rung(w)
    BY <1>1, <1>3, ScreenStay DEF RingLock, Rung, At, appVars
<1>4. CASE AlarmStep(WorkerFunc(w))
    <2>1. PICK l \in {"check", "idle", "ringLock", "sleep", "loop"} : Goto(w, l)
        BY <1>4 DEF AlarmStep, WorkerFunc, WorkerLoop, WorkerCheck, WorkerFired, WorkerWakes
    <2>2. UNCHANGED <<mode, screen>> /\ pc[w] \notin {"redraw", "ringScreen"}
        BY <1>4 DEF AlarmStep, WorkerFunc, WorkerLoop, WorkerCheck, WorkerFired,
                    WorkerWakes, At, appVars
    <2> QED
        BY <1>1, <2>1, <2>2, ScreenStay
<1>5. CASE BuzzerStep(On(w)) \/ BuzzerStep(Off(w))
    <2>1. UNCHANGED <<mode, screen>> /\ pc[w] \notin {"redraw", "ringScreen"}
        BY <1>5 DEF BuzzerStep, On, OnEnter, OnFlag, OnSpawn, Off, OffFlag, OffJoinable,
                    OffJoin, OffJoined, At, appVars
    <2>2. UNCHANGED pc \/ \E l \in RingLabels \ {"ringScreen"} : Goto(w, l)
        BY <1>5, ThreadsAreDistinct
        DEF BuzzerStep, On, OnEnter, OnFlag, OnSpawn, Off, OffFlag, OffJoinable, OffJoin,
            OffJoined, Throw, RingLabels, Thread
    <2> QED
        BY <1>1, <2>1, <2>2, ScreenStay, ScreenSame DEF RingLabels
<1> QED
    BY <1>2, <1>3, <1>4, <1>5 DEF WorkerRuns

LEMMA ScreenStep ==
    TypeOK /\ LockIsHeldInside /\ ScreenFollows /\ [Next]_vars => ScreenFollows'
<1> SUFFICES ASSUME TypeOK, LockIsHeldInside, ScreenFollows, [Next]_vars
             PROVE  ScreenFollows'
    OBVIOUS
<1>1. CASE NetRuns \/ FrameArrives
    BY <1>1, ScreenNet
<1>2. CASE ButtonRuns \/ Click \/ Hold
    BY <1>2, ScreenButton
<1>3. CASE DisplayRuns
    BY <1>3, ScreenDisplay
<1>4. CASE \E w \in Workers : WorkerRuns(w)
    BY <1>4, ScreenWorker
<1>5. CASE BuzzerRuns \/ ClockRuns \/ UNCHANGED vars
    BY <1>5, ScreenSame DEF BuzzerRuns, BuzzerStep, BuzzerThreadEnds, ClockRuns, TimePasses,
                            vars, threadVars, appVars
<1> QED
    BY <1>1, <1>2, <1>3, <1>4, <1>5 DEF Next, Dead

LEMMA ScreenInit == Init => ScreenFollows
BY DEF Init, ThreadsInit, Thread, ScreenFollows

(****************************************************************************)
(* Whenever appMutex_ is free the screen shows what mode_ says: no redraw    *)
(* works from a mode_ that has changed since it was read.                    *)
(****************************************************************************)
THEOREM ScreenCorrect == Spec => []ScreenMatchesMode
<1>1. LockIsHeldInside /\ ScreenFollows => ScreenMatchesMode
    BY ThreadsAreDistinct
    DEF LockIsHeldInside, ScreenFollows, ScreenMatchesMode, InsideLock, RingLabels, Thread
<1> QED
    BY <1>1, TypeInit, TypeStep, LockInit, LockStep, ScreenInit, ScreenStep, PTL DEF Spec

-------------------------------------------------------------------------------
(* Off() joins the buzzer's thread, and a request or an alarm thread does so *)
(* with appMutex_ held.                                                      *)

(****************************************************************************)
(* Whoever holds appMutex_ can go on, however operations overlap: it does    *)
(* not ask for the lock again, and if it joins the buzzer's thread, that     *)
(* thread has ended or been told to end, by a flag that nobody sets again    *)
(* meanwhile.  (A long press, which joins without the lock, may see the flag *)
(* set again: it then waits as long as the alarm rings.)                     *)
(****************************************************************************)
HolderGoesOn ==
    \A t \in Thread : mutex = t =>
        /\ pc[t] \notin {"frameLock", "clickLock", "displayLock", "ringLock"}
        /\ pc[t] = "joining" =>
              buzzThread = "ended" \/ (buzzThread = "running" /\ ~buzzFlag)

ToJoin == {"offJoinable", "offJoin", "joining"}

JoinInv ==
    /\ \A t \in Thread \ {Button} : pc[t] \in ToJoin => ~buzzFlag
    /\ \A t \in Thread : pc[t] = "joining" => buzzThread # "none"
    /\ \A t, u \in Thread : pc[t] = "joining" /\ pc[u] = "joining" => t = u

\* Steps that neither lead to a join nor touch the buzzer.
LEMMA JoinElsewhere ==
    ASSUME JoinInv, UNCHANGED buzzerVars,
           \A u \in Thread : pc'[u] = pc[u] \/ pc'[u] \notin ToJoin
    PROVE  JoinInv'
  BY DEF JoinInv, ToJoin, buzzerVars

LEMMA JoinOff ==
    ASSUME TypeOK, JoinInv, NEW t \in Thread, BuzzerStep(Off(t))
    PROVE  JoinInv'
<1> USE DEF JoinInv, ToJoin
<1>1. ASSUME NEW l, Goto(t, l) PROVE pc'[t] = l /\ \A u \in Thread : u # t => pc'[u] = pc[u]
  BY <1>1 DEF Goto, TypeOK, PcOK
<1>2. CASE OffFlag(t)
  <2>1. ~buzzFlag' /\ UNCHANGED buzzThread /\ Goto(t, "offJoinable")
    BY <1>2, SMT DEF OffFlag
  <2> QED BY <1>1, <2>1
<1>3. CASE OffJoinable(t)
  <2>1. pc[t] = "offJoinable" /\ UNCHANGED <<buzzFlag, buzzThread>>
    BY <1>3 DEF OffJoinable, At, buzzerVars
  <2>2. PICK l \in {"offDone", "offJoin"} : Goto(t, l)
    BY <1>3 DEF OffJoinable
  <2> QED BY <1>1, <2>1, <2>2
<1>4. CASE OffJoin(t)
  <2>1. pc[t] = "offJoin" /\ UNCHANGED <<buzzFlag, buzzThread>>
    BY <1>4 DEF OffJoin, At, buzzerVars
  <2>2. CASE buzzThread = "none" \/ Joining
    <3>1. Goto(t, "unlock") \/ UNCHANGED pc
      BY <1>4, <2>2 DEF OffJoin, Throw
    <3> QED BY <1>1, <2>1, <3>1
  <2>3. CASE ~(buzzThread = "none" \/ Joining)
    <3>1. Goto(t, "joining") /\ \A u \in Thread : pc[u] # "joining"
      BY <1>4, <2>3 DEF OffJoin, Joining
    <3> QED BY <1>1, <2>1, <2>3, <3>1
  <2> QED BY <2>2, <2>3
<1>5. CASE OffJoined(t)
  <2>1. /\ pc[t] = "joining" /\ UNCHANGED buzzFlag /\ Goto(t, "offDone")
        /\ \A u \in Thread : pc[u] = "joining" => u = t
    BY <1>5 DEF OffJoined, At
  <2> QED BY <1>1, <2>1
<1> QED
  BY <1>2, <1>3, <1>4, <1>5 DEF BuzzerStep, Off

LEMMA JoinOn ==
    ASSUME TypeOK, LockIsHeldInside, JoinInv, NEW w \in Workers, BuzzerStep(On(w))
    PROVE  JoinInv'
<1>1. ASSUME NEW l, Goto(w, l) PROVE pc'[w] = l /\ \A u \in Thread : u # w => pc'[u] = pc[u]
  BY <1>1 DEF Goto, TypeOK, PcOK, Thread
<1>2. w \in Thread /\ w # Net /\ w # Button
  BY ThreadsAreDistinct DEF Thread
<1>3. CASE OnEnter(w)
  <2>1. PICK l \in {"onDone", "off"} : Goto(w, l)
    BY <1>3 DEF OnEnter
  <2>2. UNCHANGED buzzerVars
    BY <1>3 DEF OnEnter
  <2> QED BY <1>1, <1>2, <2>1, <2>2, JoinElsewhere DEF ToJoin
\* Nobody else who holds or has held the lock is about to join.
<1>4. CASE OnFlag(w)
  <2>1. pc[w] = "offDone" /\ UNCHANGED buzzThread /\ Goto(w, "onSpawn")
    BY <1>4 DEF OnFlag, At
  <2>2. mutex = w
    BY <1>2, <2>1 DEF LockIsHeldInside, InsideLock, RingLabels
  <2>3. ASSUME NEW t \in Thread \ {Button}, t # w PROVE pc[t] \notin ToJoin
    <3>1. ~InsideLock(t, pc[t])
      BY <2>2, <2>3 DEF LockIsHeldInside
    <3>2. CASE t = Net
      BY <3>1, <3>2 DEF InsideLock, ToJoin
    <3>3. CASE t = Display
      BY <3>3 DEF TypeOK, PcOK, DisplayLabels, ToJoin
    <3>4. CASE t \in Workers
      BY <3>1, <3>4 DEF InsideLock, ToJoin, RingLabels
    <3> QED BY <2>3, <3>2, <3>3, <3>4 DEF Thread
  <2> QED BY <1>1, <2>1, <2>3 DEF JoinInv, ToJoin
<1>5. CASE OnSpawn(w)
  <2>1. CASE buzzThread = "none"
    <3>1. buzzThread' = "running" /\ UNCHANGED buzzFlag /\ Goto(w, "onDone")
      BY <1>5, <2>1 DEF OnSpawn
    <3> QED BY <1>1, <3>1 DEF JoinInv, ToJoin
  <2>2. CASE buzzThread # "none"
    <3>1. UNCHANGED pc /\ UNCHANGED buzzerVars
      BY <1>5, <2>2 DEF OnSpawn, buzzerVars
    <3> QED BY <3>1, JoinElsewhere
  <2> QED BY <2>1, <2>2
<1> QED
  BY <1>3, <1>4, <1>5 DEF BuzzerStep, On

LEMMA JoinStep == TypeOK /\ LockIsHeldInside /\ JoinInv /\ [Next]_vars => JoinInv'
<1> SUFFICES ASSUME TypeOK, LockIsHeldInside, JoinInv, [Next]_vars PROVE JoinInv'
  OBVIOUS
<1>1. ASSUME NEW t \in Thread, NEW l, Goto(t, l), l \notin ToJoin, UNCHANGED buzzerVars
      PROVE  JoinInv'
  <2>1. pc'[t] = l /\ \A u \in Thread : u # t => pc'[u] = pc[u]
    BY <1>1 DEF Goto, TypeOK, PcOK
  <2> QED BY <1>1, <2>1, JoinElsewhere
<1>2. ASSUME UNCHANGED <<pc, buzzFlag, buzzThread>> PROVE JoinInv'
  BY <1>2, JoinElsewhere DEF buzzerVars
<1>3. ASSUME NEW t \in Goer, Command(t) PROVE JoinInv'
  <2>1. t \in Thread /\ cont[t] \in {"off", "disabled", "arm"}
    BY DEF Goer, Thread, TypeOK, DataOK
  <2>2. CASE BuzzerStep(Off(t))
    BY <2>1, <2>2, JoinOff
  <2>3. CASE ~BuzzerStep(Off(t))
    <3>1. /\ UNCHANGED <<buzzFlag, buzzThread>>
          /\ \/ UNCHANGED pc
             \/ \E l \in {"clear", "stop", "stopJoinable", "detach", "disabled", "unlock", cont[t]} :
                   Goto(t, l)
      BY <1>3, <2>3 DEF Command, AlarmStep, DisableAlarm, Disable, ClearAlarm, StopFlag,
                        StopJoinable, StopDetach, Silenced, Throw, buzzerVars
    <3> QED BY <1>1, <1>2, <2>1, <3>1 DEF ToJoin, buzzerVars
  <2> QED BY <2>2, <2>3
<1>4. CASE \/ AlarmStep(SetTime) \/ AlarmStep(SetFlag) \/ AlarmStep(ArmFlag)
           \/ FrameArrives \/ FrameLock \/ NetDisabled \/ NetUnlock
  <2>1. /\ UNCHANGED buzzerVars
        /\ \E l \in {"setFlag", "stop", "spawn", "frameLock", "unlock", "disable", "setTime", "idle"} :
              Goto(Net, l)
    BY <1>4 DEF AlarmStep, SetTime, SetFlag, ArmFlag, FrameArrives, FrameLock, NetDisabled, NetUnlock
  <2> QED BY <1>1, <2>1 DEF ToJoin, Thread
<1>5. ASSUME NEW w \in Workers, AlarmStep(SpawnWorker(w)) PROVE JoinInv'
  <2>1. /\ UNCHANGED buzzerVars
        /\ UNCHANGED pc \/ pc' = [pc EXCEPT ![Net] = "unlock", ![w] = "loop"]
    BY <1>5 DEF AlarmStep, SpawnWorker
  <2>2. \A u \in Thread : pc'[u] \in {pc[u], "unlock", "loop"}
    BY <2>1 DEF TypeOK, PcOK
  <2> QED BY <2>1, <2>2, JoinElsewhere DEF ToJoin
<1>6. CASE NetRuns \/ FrameArrives
  <2>1. CASE AlarmStep(StartWorker)
    BY <1>4, <1>5, <2>1 DEF AlarmStep, StartWorker
  <2> QED BY <1>3, <1>4, <1>6, <2>1 DEF NetRuns, Goer
<1>7. CASE ButtonRuns \/ Click \/ Hold
  <2>1. CASE Command(Button)
    BY <1>3, <2>1 DEF Goer
  <2>2. CASE ~Command(Button)
    <3>1. /\ UNCHANGED buzzerVars
          /\ \E l \in {"click", "idle", "clickLock", "toggle", "redraw", "disable"} : Goto(Button, l)
      BY <1>7, <2>2 DEF ButtonRuns, Click, Hold, ClickCheck, ClickLock, NextDisplayMode, Redraw,
                        HoldDone
    <3> QED BY <1>1, <3>1 DEF ToJoin, Thread
  <2> QED BY <2>1, <2>2
<1>8. CASE DisplayRuns
  <2>1. UNCHANGED buzzerVars /\ \E l \in DisplayLabels : Goto(Display, l)
    BY <1>8 DEF DisplayRuns, DisplayWakes, DisplayLock, Measure, Draw, DisplayLabels
  <2> QED BY <1>1, <2>1 DEF ToJoin, Thread, DisplayLabels
<1>9. ASSUME NEW w \in Workers, WorkerRuns(w) PROVE JoinInv'
  <2>1. w \in Thread
    BY DEF Thread
  <2>2. CASE BuzzerStep(On(w)) \/ BuzzerStep(Off(w))
    BY <2>1, <2>2, JoinOn, JoinOff
  <2>3. CASE ~(BuzzerStep(On(w)) \/ BuzzerStep(Off(w)))
    <3>1. /\ UNCHANGED buzzerVars
          /\ \E l \in {"check", "idle", "ringLock", "sleep", "loop", "ring", "ringScreen", "on", "fired"} :
                Goto(w, l)
      BY <1>9, <2>3 DEF WorkerRuns, AlarmStep, WorkerFunc, WorkerLoop, WorkerCheck, WorkerFired,
                        WorkerWakes, RingLock, Ring, RingScreen, Rung
    <3> QED BY <1>1, <2>1, <3>1 DEF ToJoin
  <2> QED BY <2>2, <2>3
<1>10. CASE BuzzerRuns
  BY <1>10 DEF BuzzerRuns, BuzzerStep, BuzzerThreadEnds, threadVars, JoinInv
<1>11. CASE ClockRuns \/ UNCHANGED vars
  BY <1>2, <1>11 DEF ClockRuns, TimePasses, vars, threadVars, buzzerVars
<1> QED
  BY <1>6, <1>7, <1>8, <1>9, <1>10, <1>11 DEF Next, Dead

(****************************************************************************)
(* Nobody holds appMutex_ and waits for what only another holder could do:   *)
(* the joins that Off() makes with the lock held are of a thread on its way  *)
(* out, whatever the callers of DisableAlarm and On() do meanwhile.          *)
(****************************************************************************)
THEOREM LockIsGivenUp == Spec => []HolderGoesOn
<1>1. Init => JoinInv
  BY DEF Init, ThreadsInit, JoinInv, ToJoin
<1>2. TypeOK /\ LockIsHeldInside /\ JoinInv => HolderGoesOn
  <2> SUFFICES ASSUME TypeOK, LockIsHeldInside, JoinInv, NEW t \in Thread, mutex = t
               PROVE  /\ pc[t] \notin {"frameLock", "clickLock", "displayLock", "ringLock"}
                      /\ pc[t] = "joining" =>
                            buzzThread = "ended" \/ (buzzThread = "running" /\ ~buzzFlag)
    BY DEF HolderGoesOn
  <2>1. InsideLock(t, pc[t])
    BY DEF LockIsHeldInside
  <2>2. pc[t] \notin {"frameLock", "clickLock", "displayLock", "ringLock"}
    <3>1. CASE t = Net
      BY <2>1, <3>1, ThreadsAreDistinct DEF InsideLock, TypeOK, PcOK, NetLabels, DisableLabels
    <3>2. CASE t # Net
      BY <2>1, <3>2 DEF InsideLock, RingLabels
    <3> QED BY <3>1, <3>2
  <2>3. t = Button => pc[t] # "joining"
    BY <2>1, ThreadsAreDistinct DEF InsideLock
  <2>4. pc[t] = "joining" => ~buzzFlag /\ buzzThread # "none"
    BY <2>3 DEF JoinInv, ToJoin
  <2>5. buzzThread \in {"none", "running", "ended"}
    BY DEF TypeOK, DataOK
  <2> QED BY <2>2, <2>4, <2>5
<1> QED
  BY <1>1, <1>2, TypeInit, TypeStep, LockInit, LockStep, JoinStep, PTL DEF Spec

-------------------------------------------------------------------------------
(* As long as no two operations on the alarm have overlapped.                *)

\* The buzzer is heard exactly while the alarm rings.
Agree ==
    \/ alarmRinging /\ buzzFlag /\ buzzThread = "running"
    \/ ~alarmRinging /\ ~buzzFlag /\ buzzThread = "none"

\* What rings is set, what is armed is set, and what is set rings or is watched.
Watched ==
    /\ alarmRinging => isSet
    /\ workerFlag => isSet
    /\ isSet => \/ alarmRinging
                \/ workerFlag /\ \E w \in Workers : pc[w] # "idle"

Stopping == {"offJoinable", "offJoin", "joining", "offDone"}

Sounding == RingLabels \ {"ring"}

StopWorker == {"stop", "stopJoinable", "detach"}

\* What a command has done so far and what is left for it to do.
CommandOK(t) ==
    /\ pc[t] \in Stopping => ~buzzFlag
    /\ pc[t] \in {"offJoin", "joining"} => buzzThread # "none"
    /\ pc[t] = "offDone" => buzzThread = "none"
    /\ pc[t] = "disable" => Watched
    /\ pc[t] = "clear" => cont[t] # "arm"
    /\ (pc[t] \in {"clear"} \cup StopWorker /\ alarmRinging) => cont[t] = "off"
    /\ pc[t] \in StopWorker => (isSet <=> cont[t] = "arm")
    /\ pc[t] \in {"stopJoinable", "detach"} => ~workerFlag
    /\ pc[t] = "detach" => joinable
    /\ pc[t] \in {"off", "disabled", "setTime", "setFlag"} \cup Stopping => ~isSet /\ ~workerFlag
    /\ pc[t] \in {"disabled", "setTime", "setFlag", "arm", "spawn"} => ~alarmRinging
    /\ pc[t] \in {"arm", "spawn"} => isSet
    /\ pc[t] = "spawn" => workerFlag

\* An alarm thread that is awake serves a set alarm; how far it is with ringing.
WorkerOK(w) ==
    /\ pc[w] \in {"check", "ringLock", "fired"} \cup RingLabels => isSet
    /\ pc[w] \in Sounding \cup {"fired"} => alarmRinging
    /\ pc[w] \in {"ringScreen", "on"} => buzzThread = IF buzzFlag THEN "running" ELSE "none"
    /\ pc[w] \in {"off", "offJoinable", "offDone"} => ~buzzFlag /\ buzzThread = "none"
    /\ pc[w] = "onSpawn" => buzzFlag /\ buzzThread = "none"
    /\ pc[w] = "onDone" => buzzFlag /\ buzzThread = "running"
    /\ pc[w] \notin {"offJoin", "joining"}

Agreed ==
    (\A t \in Goer : pc[t] \notin Stopping) /\ (\A w \in Workers : pc[w] \notin Sounding)
        => Agree

Watching == (\A t \in Goer : ~Commanding(pc, t)) => Watched

InOrder ==
    /\ ~aborted
    /\ Agreed /\ Watching
    /\ \A t \in Goer : CommandOK(t)
    /\ \A w \in Workers : WorkerOK(w)

RaceSeen == Race(pc) => raced

\* Where nobody commands, and where nobody is awake.
LEMMA Turns ==
    ASSUME NEW p, ~Race(p)
    PROVE  /\ \A t, u \in Goer : t # u /\ Commanding(p, t) => ~Commanding(p, u)
           /\ \A t \in Goer, w \in Workers : Commanding(p, t) => ~Awake(p, w)
  BY DEF Race, Goer

LEMMA RaceNoticed ==
    ASSUME TypeOK, RaceSeen, [Next]_vars
    PROVE  RaceSeen' /\ (raced => raced')
<1> SUFFICES UNCHANGED <<pc, raced>> \/ raced' = (raced \/ Race(pc'))
  BY DEF RaceSeen, TypeOK, DataOK
<1>1. CASE NetRuns \/ FrameArrives \/ ButtonRuns \/ Click \/ Hold \/ DisplayRuns
  <2>1. CASE Command(Net) \/ Command(Button)
    BY <2>1 DEF Command, AlarmStep, BuzzerStep, DisableAlarm, Disable, ClearAlarm, StopFlag,
                StopJoinable, StopDetach, Off, OffFlag, OffJoinable, OffJoin, OffJoined,
                Silenced, Throw, Goto
  <2>2. CASE AlarmStep(StartWorker) \/ AlarmStep(SetTime) \/ AlarmStep(SetFlag)
    BY <2>2 DEF AlarmStep, StartWorker, ArmFlag, SpawnWorker, SetTime, SetFlag, Goto
  <2>3. CASE FrameLock \/ NetDisabled \/ NetUnlock \/ FrameArrives
    BY <2>3 DEF FrameLock, NetDisabled, NetUnlock, FrameArrives, Goto
  <2>4. CASE ClickCheck \/ ClickLock \/ NextDisplayMode \/ Redraw \/ HoldDone \/ Click \/ Hold
    BY <2>4 DEF ClickCheck, ClickLock, NextDisplayMode, Redraw, HoldDone, Click, Hold, Goto
  <2>5. CASE DisplayRuns
    BY <2>5 DEF DisplayRuns, DisplayWakes, DisplayLock, Measure, Draw, Goto
  <2> QED
    BY <1>1, <2>1, <2>2, <2>3, <2>4, <2>5 DEF NetRuns, ButtonRuns
<1>2. ASSUME NEW w \in Workers, WorkerRuns(w)
      PROVE  UNCHANGED <<pc, raced>> \/ raced' = (raced \/ Race(pc'))
  BY <1>2 DEF WorkerRuns, AlarmStep, BuzzerStep, WorkerFunc, WorkerLoop, WorkerCheck, WorkerFired,
              WorkerWakes, RingLock, Ring, RingScreen, Rung, On, OnEnter, OnFlag, OnSpawn, Off,
              OffFlag, OffJoinable, OffJoin, OffJoined, Throw, Goto
<1>3. CASE BuzzerRuns \/ ClockRuns \/ UNCHANGED vars
  BY <1>3 DEF BuzzerRuns, BuzzerStep, BuzzerThreadEnds, ClockRuns, TimePasses, vars, threadVars
<1> QED
  BY <1>1, <1>2, <1>3 DEF Next, Dead

\* The labels at which a command has nothing more to keep.
LEMMA NoCommandOK ==
    ASSUME NEW t \in Goer, ~Commanding(pc, t)
    PROVE  CommandOK(t) /\ pc[t] \notin Stopping
<1>1. pc[t] \in {"idle", "frameLock", "unlock", "click", "clickLock", "toggle", "redraw"}
  BY DEF Commanding
<1> QED BY <1>1 DEF CommandOK, Stopping, StopWorker

LEMMA AsleepOK ==
    ASSUME NEW w \in Workers, ~Awake(pc, w)
    PROVE  WorkerOK(w) /\ pc[w] \notin Sounding
<1>1. pc[w] \in {"idle", "sleep"}
  BY DEF Awake
<1> QED BY <1>1 DEF WorkerOK, Sounding, RingLabels

\* While a command runs, nobody else is at work on the alarm.
LEMMA CommandAlone ==
    ASSUME ~Race(pc), NEW t \in Goer, Commanding(pc, t)
    PROVE  /\ \A u \in Goer : u # t => ~Commanding(pc, u) /\ CommandOK(u) /\ pc[u] \notin Stopping
           /\ \A w \in Workers : ~Awake(pc, w) /\ WorkerOK(w) /\ pc[w] \notin Sounding
<1>1. /\ \A u \in Goer : u # t => ~Commanding(pc, u)
      /\ \A w \in Workers : ~Awake(pc, w)
  BY Turns
<1> QED BY <1>1, NoCommandOK, AsleepOK

LEMMA AgreeInCommand ==
    ASSUME ~Race(pc), InOrder, NEW t \in Goer, Commanding(pc, t), pc[t] \notin Stopping
    PROVE  Agree
  BY CommandAlone DEF InOrder, Agreed

\* The next access of a running command.
LEMMA CommandGoes ==
    ASSUME TypeOK, ~Race(pc), InOrder, ~aborted', NEW t \in Goer, Commanding(pc, t),
           NEW l, Goto(t, l), CommandOK(t)',
           l \notin Stopping => Agree',
           ~Commanding(pc', t) => Watched',
           l \in Labels
    PROVE  InOrder'
<1>1. pc'[t] = l /\ \A u \in Thread : u # t => pc'[u] = pc[u]
  BY DEF Goto, TypeOK, PcOK, Goer, Thread
<1>2. \A u \in Goer : u # t => ~Commanding(pc', u) /\ pc'[u] = pc[u]
  BY <1>1, CommandAlone DEF Goer, Thread, Commanding
<1>3. \A w \in Workers : ~Awake(pc', w) /\ pc'[w] = pc[w]
  BY <1>1, CommandAlone, ThreadsAreDistinct DEF Goer, Thread, Awake
<1>4. \A u \in Goer : CommandOK(u)'
  <2>1. ASSUME NEW u \in Goer, u # t PROVE CommandOK(u)'
    BY <1>2, <2>1 DEF CommandOK, Stopping, StopWorker, Commanding
  <2> QED BY <2>1
<1>5. \A w \in Workers : WorkerOK(w)' /\ pc'[w] \notin Sounding
  BY <1>3 DEF WorkerOK, Sounding, RingLabels, Awake
<1>6. Agreed'
  BY <1>1 DEF Agreed
<1>7. Watching'
  BY DEF Watching
<1> QED BY <1>4, <1>5, <1>6, <1>7 DEF InOrder

\* DisableAlarm, SetAlarm's and the button's, in order.
LEMMA OrderedDisable ==
    ASSUME TypeOK, ~Race(pc), InOrder, NEW t \in Goer, AlarmStep(DisableAlarm(t))
    PROVE  InOrder'
<1>1. \A l : Goto(t, l) => pc'[t] = l
  BY DEF TypeOK, PcOK, Goer, Thread, Goto
<1>2. /\ cont \in [Goer -> {"off", "disabled", "arm"}] /\ alarmRinging \in BOOLEAN
      /\ isSet \in BOOLEAN /\ workerFlag \in BOOLEAN /\ joinable \in BOOLEAN
  BY DEF TypeOK, DataOK
<1>3. /\ CommandOK(t) /\ ~aborted
      /\ UNCHANGED <<buzzFlag, buzzThread, alarmRinging>>
  BY DEF InOrder, AlarmStep, buzzerVars, appVars
<1>4. Agree => Agree'
  BY <1>3 DEF Agree
<1>5. CASE Disable(t)
  <2>1. pc[t] = "disable" /\ Goto(t, "clear") /\ Commanding(pc, t) /\ pc[t] \notin Stopping
    BY <1>5 DEF Disable, At, Commanding, Stopping
  <2>2. Agree'
    BY <1>4, <2>1, AgreeInCommand
  <2>3. /\ cont' = [cont EXCEPT ![t] = IF isSet THEN "off" ELSE "disabled"]
        /\ UNCHANGED <<aborted, isSet, workerFlag, joinable>>
    BY <1>5 DEF Disable
  <2>4. pc'[t] = "clear" /\ cont'[t] = IF isSet THEN "off" ELSE "disabled"
    BY <1>1, <1>2, <2>1, <2>3
  <2>5. alarmRinging => isSet
    BY <1>3, <2>1 DEF CommandOK, Watched
  <2>6. CommandOK(t)'
    BY <1>3, <2>3, <2>4, <2>5 DEF CommandOK, Stopping, StopWorker
  <2>7. ~aborted' /\ Commanding(pc', t) /\ "clear" \in Labels
    BY <1>3, <2>3, <2>4 DEF Commanding, Labels, NetLabels, DisableLabels
  <2> QED BY <2>1, <2>2, <2>6, <2>7, CommandGoes
<1>6. CASE ClearAlarm(t)
  <2>1. pc[t] = "clear" /\ Goto(t, "stop") /\ Commanding(pc, t) /\ pc[t] \notin Stopping
    BY <1>6 DEF ClearAlarm, At, Commanding, Stopping
  <2>2. Agree'
    BY <1>4, <2>1, AgreeInCommand
  <2>3. isSet' = FALSE /\ UNCHANGED <<aborted, cont, workerFlag, joinable>>
    BY <1>6 DEF ClearAlarm
  <2>4. pc'[t] = "stop"
    BY <1>1, <2>1
  <2>5. CommandOK(t)'
    BY <1>3, <2>1, <2>3, <2>4 DEF CommandOK, Stopping, StopWorker
  <2>6. ~aborted' /\ Commanding(pc', t) /\ "stop" \in Labels
    BY <1>3, <2>3, <2>4 DEF Commanding, Labels, NetLabels, DisableLabels
  <2> QED BY <2>1, <2>2, <2>5, <2>6, CommandGoes
<1>7. CASE StopFlag(t)
  <2>1. pc[t] = "stop" /\ Goto(t, "stopJoinable") /\ Commanding(pc, t) /\ pc[t] \notin Stopping
    BY <1>7 DEF StopFlag, At, Commanding, Stopping
  <2>2. Agree'
    BY <1>4, <2>1, AgreeInCommand
  <2>3. workerFlag' = FALSE /\ UNCHANGED <<aborted, cont, isSet, joinable>>
    BY <1>7 DEF StopFlag
  <2>4. pc'[t] = "stopJoinable"
    BY <1>1, <2>1
  <2>5. CommandOK(t)'
    BY <1>3, <2>1, <2>3, <2>4 DEF CommandOK, Stopping, StopWorker
  <2>6. ~aborted' /\ Commanding(pc', t) /\ "stopJoinable" \in Labels
    BY <1>3, <2>3, <2>4 DEF Commanding, Labels, NetLabels, DisableLabels
  <2> QED BY <2>1, <2>2, <2>5, <2>6, CommandGoes
\* The end of StopWorker: back to where it was called.
<1>8. ASSUME pc[t] \in {"stopJoinable", "detach"}, Goto(t, cont[t]),
             UNCHANGED <<aborted, isSet, workerFlag>>
      PROVE  InOrder'
  <2>1. Commanding(pc, t) /\ pc[t] \notin Stopping
    BY <1>8 DEF Commanding, Stopping
  <2>2. Agree'
    BY <1>4, <2>1, AgreeInCommand
  <2>3. cont[t] \in {"off", "disabled", "arm"} /\ pc'[t] = cont[t]
    BY <1>1, <1>2, <1>8
  <2>4. /\ ~workerFlag' /\ (isSet' <=> cont[t] = "arm") /\ (alarmRinging' => cont[t] = "off")
    BY <1>3, <1>8 DEF CommandOK, StopWorker
  <2>5. CommandOK(t)'
    BY <2>3, <2>4 DEF CommandOK, Stopping, StopWorker
  <2>6. ~aborted' /\ Commanding(pc', t) /\ cont[t] \in Labels
    BY <1>3, <1>8, <2>3 DEF Commanding, Labels, NetLabels, DisableLabels
  <2> QED BY <1>8, <2>1, <2>2, <2>5, <2>6, CommandGoes
<1>9. CASE StopJoinable(t)
  <2>1. CASE ~joinable
    BY <1>8, <1>9, <2>1 DEF StopJoinable, At
  <2>2. CASE joinable
    <3>1. /\ pc[t] = "stopJoinable" /\ Goto(t, "detach")
          /\ Commanding(pc, t) /\ pc[t] \notin Stopping
      BY <1>9, <2>2 DEF StopJoinable, At, Commanding, Stopping
    <3>2. Agree'
      BY <1>4, <3>1, AgreeInCommand
    <3>3. UNCHANGED <<aborted, cont, isSet, workerFlag, joinable>>
      BY <1>9, <2>2 DEF StopJoinable
    <3>4. pc'[t] = "detach"
      BY <1>1, <3>1
    <3>5. CommandOK(t)'
      BY <1>3, <2>2, <3>1, <3>3, <3>4 DEF CommandOK, Stopping, StopWorker
    <3>6. ~aborted' /\ Commanding(pc', t) /\ "detach" \in Labels
      BY <1>3, <3>3, <3>4 DEF Commanding, Labels, NetLabels, DisableLabels
    <3> QED BY <3>1, <3>2, <3>5, <3>6, CommandGoes
  <2> QED BY <2>1, <2>2
<1>10. CASE StopDetach(t)
  <2>1. pc[t] = "detach" /\ joinable
    BY <1>3, <1>10 DEF StopDetach, At, CommandOK
  <2> QED BY <1>8, <1>10, <2>1 DEF StopDetach
<1> QED
  BY <1>5, <1>6, <1>7, <1>9, <1>10 DEF AlarmStep, DisableAlarm

\* The disable handler: the buzzer is switched off and joined, nobody else meddles.
LEMMA OrderedOff ==
    ASSUME TypeOK, ~Race(pc), InOrder, NEW t \in Goer, BuzzerStep(Off(t)) \/ Silenced(t)
    PROVE  InOrder'
<1>1. \A l : Goto(t, l) => pc'[t] = l
  BY DEF TypeOK, PcOK, Goer, Thread, Goto
<1>2. /\ CommandOK(t) /\ ~aborted
      /\ buzzFlag \in BOOLEAN /\ buzzThread \in {"none", "running", "ended"}
      /\ UNCHANGED <<isSet, workerFlag, cont, joinable>>
  BY DEF InOrder, BuzzerStep, alarmVars, Silenced, TypeOK, DataOK
<1>3. CASE BuzzerStep(OffFlag(t))
  <2>1. pc[t] = "off" /\ Goto(t, "offJoinable") /\ Commanding(pc, t) /\ buzzFlag' = FALSE
        /\ UNCHANGED aborted
    BY <1>3 DEF BuzzerStep, OffFlag, At, Commanding
  <2>2. pc'[t] = "offJoinable" /\ "offJoinable" \in Labels \cap Stopping
    BY <1>1, <2>1 DEF Labels, NetLabels, DisableLabels, Stopping
  <2>3. CommandOK(t)'
    BY <1>2, <2>1, <2>2 DEF CommandOK, Stopping, StopWorker
  <2>4. ~aborted' /\ Commanding(pc', t)
    BY <1>2, <2>1, <2>2 DEF Commanding
  <2> QED BY <2>1, <2>2, <2>3, <2>4, CommandGoes
<1>4. CASE BuzzerStep(OffJoinable(t))
  <2>1. PICK l \in {"offDone", "offJoin"} : Goto(t, l) /\ (l = "offDone" <=> buzzThread = "none")
    BY <1>4 DEF BuzzerStep, OffJoinable
  <2>2. pc[t] = "offJoinable" /\ Commanding(pc, t) /\ UNCHANGED <<aborted, buzzFlag, buzzThread>>
    BY <1>4 DEF BuzzerStep, OffJoinable, At, Commanding, buzzerVars
  <2>3. pc'[t] = l /\ l \in Labels \cap Stopping
    BY <1>1, <2>1 DEF Labels, NetLabels, DisableLabels, Stopping
  <2>4. CommandOK(t)'
    BY <1>2, <2>1, <2>2, <2>3 DEF CommandOK, Stopping, StopWorker
  <2>5. ~aborted' /\ Commanding(pc', t)
    BY <1>2, <2>1, <2>2, <2>3 DEF Commanding
  <2> QED BY <2>1, <2>2, <2>3, <2>4, <2>5, CommandGoes
<1>5. CASE BuzzerStep(OffJoin(t))
  <2>1. pc[t] = "offJoin" /\ Commanding(pc, t) /\ buzzThread # "none"
    BY <1>2, <1>5 DEF BuzzerStep, OffJoin, At, Commanding, CommandOK
  <2>2. ~Joining
    <3>1. \A u \in Goer : pc[u] # "joining"
      BY <2>1, CommandAlone DEF Commanding
    <3>2. \A w \in Workers : pc[w] # "joining"
      BY <2>1, CommandAlone DEF Awake
    <3>3. pc[Display] # "joining"
      BY DEF TypeOK, PcOK, DisplayLabels
    <3> QED BY <3>1, <3>2, <3>3 DEF Joining, Thread, Goer
  <2>3. Goto(t, "joining") /\ UNCHANGED <<aborted, buzzFlag, buzzThread>>
    BY <1>5, <2>1, <2>2 DEF BuzzerStep, OffJoin, buzzerVars
  <2>4. pc'[t] = "joining" /\ "joining" \in Labels \cap Stopping
    BY <1>1, <2>3 DEF Labels, NetLabels, DisableLabels, Stopping
  <2>5. CommandOK(t)'
    BY <1>2, <2>1, <2>3, <2>4 DEF CommandOK, Stopping, StopWorker
  <2>6. ~aborted' /\ Commanding(pc', t)
    BY <1>2, <2>3, <2>4 DEF Commanding
  <2> QED BY <2>1, <2>3, <2>4, <2>5, <2>6, CommandGoes
<1>6. CASE BuzzerStep(OffJoined(t))
  <2>1. /\ pc[t] = "joining" /\ Goto(t, "offDone") /\ Commanding(pc, t) /\ buzzThread' = "none"
        /\ UNCHANGED <<aborted, buzzFlag>>
    BY <1>6 DEF BuzzerStep, OffJoined, At, Commanding
  <2>2. pc'[t] = "offDone" /\ "offDone" \in Labels \cap Stopping
    BY <1>1, <2>1 DEF Labels, NetLabels, DisableLabels, Stopping
  <2>3. CommandOK(t)'
    BY <1>2, <2>1, <2>2 DEF CommandOK, Stopping, StopWorker
  <2>4. ~aborted' /\ Commanding(pc', t)
    BY <1>2, <2>1, <2>2 DEF Commanding
  <2> QED BY <2>1, <2>2, <2>3, <2>4, CommandGoes
<1>7. CASE Silenced(t)
  <2>1. /\ pc[t] = "offDone" /\ Goto(t, "disabled") /\ Commanding(pc, t) /\ alarmRinging' = FALSE
        /\ UNCHANGED <<aborted, buzzFlag, buzzThread>>
    BY <1>7 DEF Silenced, At, Commanding, buzzerVars
  <2>2. pc'[t] = "disabled" /\ "disabled" \in Labels
    BY <1>1, <2>1 DEF Labels, NetLabels, DisableLabels
  <2>3. ~buzzFlag /\ buzzThread = "none"
    BY <1>2, <2>1 DEF CommandOK, Stopping
  <2>4. CommandOK(t)'
    BY <1>2, <2>1, <2>2 DEF CommandOK, Stopping, StopWorker
  <2>5. Agree'
    BY <2>1, <2>3 DEF Agree
  <2>6. ~aborted' /\ Commanding(pc', t)
    BY <1>2, <2>1, <2>2 DEF Commanding
  <2> QED BY <2>1, <2>2, <2>4, <2>5, <2>6, CommandGoes
<1> QED
  BY <1>3, <1>4, <1>5, <1>6, <1>7 DEF BuzzerStep, Off

\* The rest of SetAlarm, and the return of DisableAlarm to its callers.
LEMMA OrderedSet ==
    ASSUME TypeOK, SlotsFree, ~Race(pc), InOrder,
           \/ NetDisabled \/ HoldDone
           \/ AlarmStep(SetTime) \/ AlarmStep(SetFlag) \/ AlarmStep(StartWorker)
    PROVE  InOrder'
<1>1. \A t \in Goer : \A l : Goto(t, l) => pc'[t] = l
  BY DEF TypeOK, PcOK, Goer, Thread, Goto
<1>2. /\ Net \in Goer /\ Button \in Goer
      /\ CommandOK(Net) /\ CommandOK(Button) /\ ~aborted
      /\ UNCHANGED <<buzzFlag, buzzThread, alarmRinging>>
  BY DEF InOrder, AlarmStep, buzzerVars, appVars, NetDisabled, HoldDone, Goer
<1>3. Agree => Agree'
  BY <1>2 DEF Agree
\* DisableAlarm has returned: nothing is set and nothing rings.
<1>4. ASSUME NEW t \in Goer, pc[t] = "disabled", NEW l \in {"idle", "unlock", "setTime"}, Goto(t, l),
             UNCHANGED <<aborted, alarmVars>>
      PROVE  InOrder'
  <2>1. Commanding(pc, t) /\ pc[t] \notin Stopping /\ pc'[t] = l /\ l \in Labels
    BY <1>1, <1>4 DEF Commanding, Stopping, Labels, NetLabels
  <2>2. Agree'
    BY <1>3, <2>1, AgreeInCommand
  <2>3. CommandOK(t)
    BY DEF InOrder
  <2>4. ~isSet' /\ ~workerFlag' /\ ~alarmRinging'
    BY <1>2, <1>4, <2>3 DEF CommandOK, alarmVars
  <2>5. CommandOK(t)' /\ Watched'
    BY <2>1, <2>4 DEF CommandOK, Stopping, StopWorker, Watched
  <2> QED BY <1>2, <1>4, <2>1, <2>2, <2>5, CommandGoes
<1>5. CASE NetDisabled
  BY <1>2, <1>4, <1>5 DEF NetDisabled, At
<1>6. CASE HoldDone
  BY <1>2, <1>4, <1>6 DEF HoldDone, At
<1>7. CASE AlarmStep(SetTime)
  <2>1. /\ pc[Net] = "setTime" /\ Goto(Net, "setFlag") /\ Commanding(pc, Net)
        /\ pc[Net] \notin Stopping /\ UNCHANGED <<aborted, isSet, workerFlag, joinable, cont>>
    BY <1>7 DEF AlarmStep, SetTime, At, Commanding, Stopping
  <2>2. Agree'
    BY <1>2, <1>3, <2>1, AgreeInCommand
  <2>3. pc'[Net] = "setFlag" /\ "setFlag" \in Labels
    BY <1>1, <1>2, <2>1 DEF Labels, NetLabels
  <2>4. CommandOK(Net)'
    BY <1>2, <2>1, <2>3 DEF CommandOK, Stopping, StopWorker
  <2>5. Commanding(pc', Net)
    BY <2>3 DEF Commanding
  <2> QED BY <1>2, <2>1, <2>2, <2>3, <2>4, <2>5, CommandGoes
<1>8. CASE AlarmStep(SetFlag)
  <2>1. /\ pc[Net] = "setFlag" /\ Goto(Net, "stop") /\ Commanding(pc, Net)
        /\ pc[Net] \notin Stopping /\ UNCHANGED <<aborted, workerFlag, joinable>>
        /\ isSet' = TRUE /\ cont' = [cont EXCEPT ![Net] = "arm"]
    BY <1>8 DEF AlarmStep, SetFlag, At, Commanding, Stopping
  <2>2. Agree'
    BY <1>2, <1>3, <2>1, AgreeInCommand
  <2>3. pc'[Net] = "stop" /\ "stop" \in Labels /\ cont'[Net] = "arm"
    BY <1>1, <1>2, <2>1 DEF Labels, NetLabels, DisableLabels, TypeOK, DataOK
  <2>4. CommandOK(Net)'
    BY <1>2, <2>1, <2>3 DEF CommandOK, Stopping, StopWorker
  <2>5. Commanding(pc', Net)
    BY <2>3 DEF Commanding
  <2> QED BY <1>2, <2>1, <2>2, <2>3, <2>4, <2>5, CommandGoes
<1>9. CASE AlarmStep(ArmFlag)
  <2>1. /\ pc[Net] = "arm" /\ Goto(Net, "spawn") /\ Commanding(pc, Net)
        /\ pc[Net] \notin Stopping /\ UNCHANGED <<aborted, isSet, joinable, cont>>
        /\ workerFlag' = TRUE
    BY <1>9 DEF AlarmStep, ArmFlag, At, Commanding, Stopping
  <2>2. Agree'
    BY <1>2, <1>3, <2>1, AgreeInCommand
  <2>3. pc'[Net] = "spawn" /\ "spawn" \in Labels
    BY <1>1, <1>2, <2>1 DEF Labels, NetLabels
  <2>4. CommandOK(Net)'
    BY <1>2, <2>1, <2>3 DEF CommandOK, Stopping, StopWorker
  <2>5. Commanding(pc', Net)
    BY <2>3 DEF Commanding
  <2> QED BY <1>2, <2>1, <2>2, <2>3, <2>4, <2>5, CommandGoes
<1>10. ASSUME NEW w \in Workers, AlarmStep(SpawnWorker(w))
       PROVE  InOrder'
  <2>1. pc[Net] = "spawn" /\ ~joinable /\ Commanding(pc, Net) /\ pc[Net] \notin Stopping
    BY <1>10 DEF AlarmStep, SpawnWorker, At, SlotsFree, AlarmSlotFree, Commanding, Stopping
  <2>2. /\ pc' = [pc EXCEPT ![Net] = "unlock", ![w] = "loop"]
        /\ UNCHANGED <<aborted, isSet, workerFlag>>
    BY <1>10, <2>1 DEF AlarmStep, SpawnWorker
  <2>3. /\ pc'[Net] = "unlock" /\ pc'[w] = "loop"
        /\ \A u \in Thread \ {Net, w} : pc'[u] = pc[u]
    BY <2>2, ThreadsAreDistinct DEF TypeOK, PcOK, Thread
  <2>4. Agree'
    BY <1>2, <1>3, <2>1, AgreeInCommand
  <2>5. Watched'
    BY <1>2, <2>1, <2>2, <2>3 DEF CommandOK, Watched
  <2>6. \A u \in Goer : CommandOK(u)'
    <3>1. pc'[Button] = pc[Button] /\ ~Commanding(pc, Button)
      BY <1>2, <2>1, <2>3, CommandAlone, ThreadsAreDistinct DEF Goer, Thread
    <3>2. ~Commanding(pc', Button) /\ ~Commanding(pc', Net)
      BY <2>3, <3>1 DEF Commanding
    <3>3. \A u \in Goer : ~Commanding(pc', u)
      BY <3>2 DEF Goer
    <3> QED BY <3>3 DEF CommandOK, Stopping, StopWorker, Commanding
  <2>7. \A v \in Workers : WorkerOK(v)'
    <3>1. ASSUME NEW v \in Workers, v # w PROVE WorkerOK(v)'
      <4>1. pc'[v] = pc[v] /\ ~Awake(pc, v)
        BY <1>2, <2>1, <2>3, <3>1, CommandAlone, ThreadsAreDistinct DEF Thread
      <4> QED BY <4>1 DEF WorkerOK, Awake, Sounding, RingLabels
    <3>2. WorkerOK(w)'
      BY <2>3 DEF WorkerOK, Sounding, RingLabels
    <3> QED BY <3>1, <3>2
  <2> QED BY <1>2, <2>2, <2>4, <2>5, <2>6, <2>7 DEF InOrder, Agreed, Watching
<1> QED
  BY <1>5, <1>6, <1>7, <1>8, <1>9, <1>10 DEF AlarmStep, StartWorker

\* Requests, clicks and holds that begin, and what a thread does outside commands.
LEMMA OrderedOutside ==
    ASSUME TypeOK, ~Race(pc'), InOrder, NEW t \in Goer, ~Commanding(pc, t),
           NEW l, Goto(t, l),
           l \in {"idle", "frameLock", "unlock", "click", "clickLock", "toggle", "redraw", "disable"},
           UNCHANGED <<aborted, buzzerVars, alarmVars, alarmRinging>>
    PROVE  InOrder'
<1>1. pc'[t] = l /\ \A u \in Thread : u # t => pc'[u] = pc[u]
  BY DEF Goto, TypeOK, PcOK, Goer, Thread
<1>2. /\ \A w \in Workers : pc'[w] = pc[w]
      /\ \A u \in Goer : u # t => pc'[u] = pc[u]
  BY <1>1, ThreadsAreDistinct DEF Goer, Thread
<1>3. UNCHANGED <<aborted, buzzFlag, buzzThread, isSet, workerFlag, cont, joinable, alarmRinging>>
  BY DEF buzzerVars, alarmVars
<1>4. Watched' <=> Watched
  BY <1>2, <1>3 DEF Watched
<1>5. Agree' <=> Agree
  BY <1>3 DEF Agree
<1>6. \A w \in Workers : WorkerOK(w)'
  BY <1>2, <1>3 DEF InOrder, WorkerOK
<1>7. \A u \in Goer : u # t => CommandOK(u)'
  BY <1>2, <1>3, <1>4 DEF InOrder, CommandOK
<1>8. pc[t] \notin Stopping /\ pc'[t] \notin Stopping
  BY <1>1, NoCommandOK DEF Stopping
<1>9. Agreed'
  BY <1>2, <1>5, <1>8 DEF InOrder, Agreed
<1>10. (\A u \in Goer : u # t => ~Commanding(pc', u)) => Watched
  BY <1>2 DEF InOrder, Watching, Commanding
<1>11. CASE l = "disable"
  <2>1. Commanding(pc', t)
    BY <1>1, <1>11 DEF Commanding
  <2>2. \A u \in Goer : u # t => ~Commanding(pc', u)
    BY <2>1, Turns
  <2>3. Watched'
    BY <1>4, <1>10, <2>2
  <2>4. CommandOK(t)'
    BY <1>1, <1>11, <2>3 DEF CommandOK, Stopping, StopWorker
  <2> QED BY <1>3, <1>6, <1>7, <1>9, <2>3, <2>4 DEF InOrder, Watching
<1>12. CASE l # "disable"
  <2>1. ~Commanding(pc', t)
    BY <1>1, <1>12 DEF Commanding
  <2>2. CommandOK(t)'
    BY <1>1, <1>12 DEF CommandOK, Stopping, StopWorker
  <2>3. Watching'
    BY <1>4, <1>10 DEF Watching
  <2> QED BY <1>3, <1>6, <1>7, <1>9, <2>2, <2>3 DEF InOrder
<1> QED BY <1>11, <1>12

LEMMA OrderedCalls ==
    ASSUME TypeOK, ~Race(pc'), InOrder,
           \/ FrameArrives \/ FrameLock \/ NetUnlock
           \/ Click \/ ClickCheck \/ ClickLock \/ NextDisplayMode \/ Redraw \/ Hold
    PROVE  InOrder'
<1>1. UNCHANGED <<aborted, buzzerVars, alarmVars, alarmRinging>>
  BY DEF FrameArrives, FrameLock, NetUnlock, Click, ClickCheck, ClickLock, NextDisplayMode,
         Redraw, Hold, appVars
<1>2. CASE FrameArrives \/ FrameLock \/ NetUnlock
  <2>1. PICK l \in {"frameLock", "unlock", "disable", "idle"} : Goto(Net, l)
    BY <1>2 DEF FrameArrives, FrameLock, NetUnlock
  <2>2. ~Commanding(pc, Net) /\ Net \in Goer
    BY <1>2 DEF FrameArrives, FrameLock, NetUnlock, At, Commanding, Goer
  <2> QED BY <1>1, <2>1, <2>2, OrderedOutside
<1>3. CASE Click \/ ClickCheck \/ ClickLock \/ NextDisplayMode \/ Redraw \/ Hold
  <2>1. PICK l \in {"click", "idle", "clickLock", "toggle", "redraw", "disable"} : Goto(Button, l)
    BY <1>3 DEF Click, ClickCheck, ClickLock, NextDisplayMode, Redraw, Hold
  <2>2. ~Commanding(pc, Button) /\ Button \in Goer
    BY <1>3 DEF Click, ClickCheck, ClickLock, NextDisplayMode, Redraw, Hold, At, Commanding, Goer
  <2> QED BY <1>1, <2>1, <2>2, OrderedOutside
<1> QED BY <1>2, <1>3

\* While an alarm thread is awake, nobody commands.
LEMMA AwakeAlone ==
    ASSUME TypeOK, NEW w \in Workers, NEW l, Goto(w, l),
           (~Race(pc) /\ Awake(pc, w)) \/ (~Race(pc') /\ Awake(pc', w))
    PROVE  /\ pc'[w] = l /\ \A v \in Workers : v # w => pc'[v] = pc[v]
           /\ \A t \in Goer : /\ ~Commanding(pc, t) /\ ~Commanding(pc', t)
                              /\ pc'[t] = pc[t] /\ CommandOK(t)' /\ pc[t] \notin Stopping
<1>1. pc'[w] = l /\ \A u \in Thread : u # w => pc'[u] = pc[u]
  BY DEF Goto, TypeOK, PcOK, Thread
<1>2. /\ \A v \in Workers : v # w => pc'[v] = pc[v]
      /\ \A t \in Goer : pc'[t] = pc[t]
  BY <1>1, ThreadsAreDistinct DEF Goer, Thread
<1>3. \A t \in Goer : ~Commanding(pc, t) /\ ~Commanding(pc', t)
  <2>1. (\A t \in Goer : ~Commanding(pc, t)) \/ (\A t \in Goer : ~Commanding(pc', t))
    BY Turns
  <2> QED BY <1>2, <2>1 DEF Commanding
<1>4. \A t \in Goer : pc[t] \notin Stopping
  BY <1>3, NoCommandOK
<1>5. \A t \in Goer : CommandOK(t)'
  BY <1>3 DEF CommandOK, Stopping, StopWorker, Commanding
<1> QED BY <1>1, <1>2, <1>3, <1>4, <1>5

\* An alarm thread polls, wakes up, and takes the lock to ring.
LEMMA OrderedPolling ==
    ASSUME TypeOK, ~Race(pc), ~Race(pc'), InOrder, NEW w \in Workers,
           AlarmStep(WorkerFunc(w)) \/ RingLock(w)
    PROVE  InOrder'
<1>1. UNCHANGED <<aborted, buzzFlag, buzzThread, isSet, alarmRinging>>
  BY DEF AlarmStep, WorkerFunc, WorkerLoop, WorkerCheck, WorkerFired, WorkerWakes, RingLock,
         buzzerVars, alarmVars, appVars
<1>2. WorkerOK(w) /\ ~aborted
  BY DEF InOrder
<1>3. ASSUME NEW l \in {"check", "idle", "ringLock", "sleep", "loop", "ring"}, Goto(w, l),
             Awake(pc, w) \/ Awake(pc', w), pc[w] \notin Sounding,
             l \in {"check", "ringLock", "ring"} => isSet,
             workerFlag' => workerFlag,
             (l = "idle" \/ ~workerFlag') => (isSet => alarmRinging)
      PROVE  InOrder'
  <2>1. /\ pc'[w] = l /\ \A v \in Workers : v # w => pc'[v] = pc[v]
        /\ \A t \in Goer : /\ ~Commanding(pc, t) /\ ~Commanding(pc', t)
                           /\ pc'[t] = pc[t] /\ CommandOK(t)' /\ pc[t] \notin Stopping
    BY <1>3, AwakeAlone
  <2>2. WorkerOK(w)' /\ pc'[w] \notin Sounding
    BY <1>1, <1>3, <2>1 DEF WorkerOK, Sounding, RingLabels
  <2>3. \A v \in Workers : WorkerOK(v)'
    BY <1>1, <2>1, <2>2 DEF InOrder, WorkerOK
  <2>4. Agreed'
    BY <1>1, <1>3, <2>1 DEF InOrder, Agreed, Agree
  <2>5. Watched
    BY <2>1 DEF InOrder, Watching
  <2>6. Watched'
    BY <1>1, <1>3, <2>1, <2>5 DEF Watched
  <2> QED BY <1>1, <1>2, <2>1, <2>3, <2>4, <2>6 DEF InOrder, Watching
<1>4. CASE AlarmStep(WorkerLoop(w))
  <2>1. PICK l \in {"check", "idle"} : Goto(w, l) /\ (l = "check" <=> workerFlag)
    BY <1>4 DEF AlarmStep, WorkerLoop, TypeOK, DataOK
  <2>2. pc[w] = "loop" /\ UNCHANGED workerFlag /\ pc[w] \notin Sounding /\ Awake(pc, w)
    BY <1>4 DEF AlarmStep, WorkerLoop, At, alarmVars, Sounding, RingLabels, Awake
  <2>3. Watched
    BY <2>1, <2>2, AwakeAlone DEF InOrder, Watching
  <2> QED BY <1>3, <2>1, <2>2, <2>3 DEF Watched
<1>5. CASE AlarmStep(WorkerCheck(w))
  <2>1. PICK l \in {"ringLock", "sleep"} : Goto(w, l)
    BY <1>5 DEF AlarmStep, WorkerCheck
  <2>2. pc[w] = "check" /\ UNCHANGED workerFlag /\ pc[w] \notin Sounding /\ Awake(pc, w)
    BY <1>5 DEF AlarmStep, WorkerCheck, At, alarmVars, Sounding, RingLabels, Awake
  <2>3. Watched /\ isSet
    BY <1>2, <2>1, <2>2, AwakeAlone DEF InOrder, Watching, WorkerOK
  <2> QED BY <1>3, <2>1, <2>2, <2>3 DEF Watched
<1>6. CASE AlarmStep(WorkerFired(w))
  <2>1. /\ pc[w] = "fired" /\ Goto(w, "sleep") /\ workerFlag' = FALSE
        /\ pc[w] \notin Sounding /\ Awake(pc, w)
    BY <1>6 DEF AlarmStep, WorkerFired, At, Sounding, RingLabels, Awake
  <2>2. alarmRinging
    BY <1>2, <2>1 DEF WorkerOK
  <2> QED BY <1>3, <2>1, <2>2
<1>7. CASE AlarmStep(WorkerWakes(w))
  <2>1. /\ pc[w] = "sleep" /\ Goto(w, "loop") /\ UNCHANGED workerFlag
        /\ pc[w] \notin Sounding
    BY <1>7 DEF AlarmStep, WorkerWakes, At, alarmVars, Sounding, RingLabels
  <2>2. Awake(pc', w)
    BY <2>1 DEF Goto, Awake, TypeOK, PcOK, Thread
  <2>3. Watched
    BY <2>1, <2>2, AwakeAlone DEF InOrder, Watching
  <2> QED BY <1>3, <2>1, <2>2, <2>3 DEF Watched
<1>8. CASE RingLock(w)
  <2>1. /\ pc[w] = "ringLock" /\ Goto(w, "ring") /\ UNCHANGED workerFlag
        /\ pc[w] \notin Sounding /\ Awake(pc, w)
    BY <1>8 DEF RingLock, At, alarmVars, Sounding, RingLabels, Awake
  <2>2. Watched /\ isSet
    BY <1>2, <2>1, AwakeAlone DEF InOrder, Watching, WorkerOK
  <2> QED BY <1>3, <2>1, <2>2 DEF Watched
<1> QED
  BY <1>4, <1>5, <1>6, <1>7, <1>8 DEF AlarmStep, WorkerFunc

\* The alarm handler: who holds the lock rings alone.
LEMMA OrderedRinging ==
    ASSUME TypeOK, LockIsHeldInside, ~Race(pc), InOrder, NEW w \in Workers,
           Ring(w) \/ RingScreen(w) \/ Rung(w) \/ BuzzerStep(On(w)) \/ BuzzerStep(Off(w))
    PROVE  InOrder'
<1>1. UNCHANGED <<isSet, workerFlag>>
  BY DEF Ring, RingScreen, Rung, BuzzerStep, alarmVars
<1>2. /\ WorkerOK(w) /\ ~aborted
      /\ buzzFlag \in BOOLEAN /\ alarmRinging \in BOOLEAN
  BY DEF InOrder, TypeOK, DataOK
<1>3. ASSUME pc[w] \in RingLabels
      PROVE  \A v \in Workers : v # w => pc[v] \notin RingLabels
  <2>1. mutex = w
    BY <1>3, ThreadsAreDistinct DEF LockIsHeldInside, InsideLock, Thread
  <2>2. \A v \in Workers : pc[v] \in RingLabels => mutex = v
    BY ThreadsAreDistinct DEF LockIsHeldInside, InsideLock, Thread
  <2> QED BY <2>1, <2>2
<1>4. ASSUME pc[w] \in RingLabels, NEW l \in RingLabels \cup {"fired"}, Goto(w, l), UNCHANGED aborted,
             WorkerOK(w)', alarmRinging => alarmRinging',
             l \notin Sounding => Agree'
      PROVE  InOrder'
  <2>1. Awake(pc, w) /\ l # "idle"
    BY <1>4 DEF Awake, RingLabels
  <2>2. /\ pc'[w] = l /\ \A v \in Workers : v # w => pc'[v] = pc[v]
        /\ \A t \in Goer : /\ ~Commanding(pc, t) /\ ~Commanding(pc', t)
                           /\ pc'[t] = pc[t] /\ CommandOK(t)' /\ pc[t] \notin Stopping
    BY <1>4, <2>1, AwakeAlone
  <2>3. \A v \in Workers : v # w => WorkerOK(v)'
    <3>1. ASSUME NEW v \in Workers, v # w PROVE WorkerOK(v)'
      <4>1. pc'[v] = pc[v] /\ pc[v] \notin RingLabels /\ WorkerOK(v)
        BY <1>3, <1>4, <2>2, <3>1 DEF InOrder
      <4> QED BY <1>1, <1>4, <4>1 DEF WorkerOK, Sounding, RingLabels
    <3> QED BY <3>1
  <2>4. Agreed'
    BY <1>4, <2>2 DEF Agreed
  <2>5. Watched /\ isSet
    BY <1>2, <1>4, <2>2 DEF InOrder, Watching, WorkerOK
  <2>6. Watched'
    BY <1>1, <1>4, <2>1, <2>2, <2>5 DEF Watched
  <2> QED BY <1>2, <1>4, <2>2, <2>3, <2>4, <2>6 DEF InOrder, Watching
<1>5. \A l : Goto(w, l) => pc'[w] = l
  BY DEF Goto, TypeOK, PcOK, Thread
<1>6. CASE Ring(w)
  <2>1. /\ pc[w] = "ring" /\ Goto(w, "ringScreen") /\ alarmRinging' = TRUE
        /\ UNCHANGED <<aborted, buzzFlag, buzzThread>>
    BY <1>6 DEF Ring, At, buzzerVars
  <2>2. Awake(pc, w) /\ pc[w] \in RingLabels
    BY <2>1 DEF Awake, RingLabels
  <2>3. Agree
    <3>1. \A v \in Workers : pc[v] \notin Sounding
      BY <1>3, <2>1, <2>2 DEF Sounding
    <3>2. \A t \in Goer : pc[t] \notin Stopping
      BY <2>1, <2>2, AwakeAlone
    <3> QED BY <3>1, <3>2 DEF InOrder, Agreed
  <2>4. pc'[w] = "ringScreen"
    BY <1>5, <2>1
  <2>5. WorkerOK(w)'
    BY <1>1, <1>2, <2>1, <2>2, <2>3, <2>4 DEF WorkerOK, Sounding, RingLabels, Agree
  <2> QED BY <1>4, <2>1, <2>2, <2>5 DEF RingLabels, Sounding
<1>7. CASE RingScreen(w)
  <2>1. /\ pc[w] = "ringScreen" /\ Goto(w, "on")
        /\ UNCHANGED <<aborted, buzzFlag, buzzThread, alarmRinging>>
    BY <1>7 DEF RingScreen, At, buzzerVars
  <2>2. pc'[w] = "on"
    BY <1>5, <2>1
  <2>3. WorkerOK(w)'
    BY <1>1, <1>2, <2>1, <2>2 DEF WorkerOK, Sounding, RingLabels
  <2> QED BY <1>4, <2>1, <2>3 DEF RingLabels, Sounding
<1>8. CASE Rung(w)
  <2>1. /\ pc[w] = "onDone" /\ Goto(w, "fired")
        /\ UNCHANGED <<aborted, buzzFlag, buzzThread, alarmRinging>>
    BY <1>8 DEF Rung, At, buzzerVars, appVars
  <2>2. pc'[w] = "fired"
    BY <1>5, <2>1
  <2>3. isSet /\ alarmRinging /\ buzzFlag /\ buzzThread = "running"
    BY <1>2, <2>1 DEF WorkerOK, Sounding, RingLabels
  <2>4. WorkerOK(w)' /\ Agree'
    BY <1>1, <2>1, <2>2, <2>3 DEF WorkerOK, Sounding, RingLabels, Agree
  <2> QED BY <1>4, <2>1, <2>4 DEF RingLabels
<1>9. ASSUME pc[w] \in Sounding, BuzzerStep(On(w)) \/ BuzzerStep(Off(w))
      PROVE  InOrder'
  <2>1. isSet /\ alarmRinging /\ UNCHANGED alarmRinging /\ pc[w] \in RingLabels
    BY <1>2, <1>9 DEF WorkerOK, Sounding, BuzzerStep, appVars
  <2>2. CASE BuzzerStep(OnEnter(w))
    <3>1. PICK l \in {"onDone", "off"} : Goto(w, l) /\ (l = "onDone" <=> buzzFlag)
      BY <1>2, <2>2 DEF BuzzerStep, OnEnter
    <3>2. pc[w] = "on" /\ pc'[w] = l /\ UNCHANGED <<aborted, buzzFlag, buzzThread>>
      BY <1>5, <2>2, <3>1 DEF BuzzerStep, OnEnter, At, buzzerVars
    <3>3. WorkerOK(w)'
      BY <1>1, <1>2, <2>1, <3>1, <3>2 DEF WorkerOK, Sounding, RingLabels
    <3> QED BY <1>4, <2>1, <3>1, <3>2, <3>3 DEF RingLabels, Sounding
  <2>3. CASE BuzzerStep(OnFlag(w))
    <3>1. /\ pc[w] = "offDone" /\ Goto(w, "onSpawn") /\ buzzFlag' = TRUE
          /\ UNCHANGED <<aborted, buzzThread>>
      BY <2>3 DEF BuzzerStep, OnFlag, At
    <3>2. pc'[w] = "onSpawn"
      BY <1>5, <3>1
    <3>3. WorkerOK(w)'
      BY <1>1, <1>2, <2>1, <3>1, <3>2 DEF WorkerOK, Sounding, RingLabels
    <3> QED BY <1>4, <2>1, <3>1, <3>3 DEF RingLabels, Sounding
  <2>4. CASE BuzzerStep(OnSpawn(w))
    <3>1. pc[w] = "onSpawn" /\ buzzFlag /\ buzzThread = "none"
      BY <1>2, <2>4 DEF BuzzerStep, OnSpawn, At, WorkerOK
    <3>2. Goto(w, "onDone") /\ buzzThread' = "running" /\ UNCHANGED <<aborted, buzzFlag>>
      BY <2>4, <3>1 DEF BuzzerStep, OnSpawn
    <3>3. pc'[w] = "onDone"
      BY <1>5, <3>2
    <3>4. WorkerOK(w)'
      BY <1>1, <2>1, <3>1, <3>2, <3>3 DEF WorkerOK, Sounding, RingLabels
    <3> QED BY <1>4, <2>1, <3>2, <3>4 DEF RingLabels, Sounding
  <2>5. CASE BuzzerStep(OffFlag(w))
    <3>1. /\ pc[w] = "off" /\ Goto(w, "offJoinable") /\ buzzFlag' = FALSE
          /\ UNCHANGED <<aborted, buzzThread>>
      BY <2>5 DEF BuzzerStep, OffFlag, At
    <3>2. pc'[w] = "offJoinable"
      BY <1>5, <3>1
    <3>3. WorkerOK(w)'
      BY <1>1, <1>2, <2>1, <3>1, <3>2 DEF WorkerOK, Sounding, RingLabels
    <3> QED BY <1>4, <2>1, <3>1, <3>3 DEF RingLabels, Sounding
  <2>6. CASE BuzzerStep(OffJoinable(w))
    <3>1. pc[w] = "offJoinable" /\ buzzThread = "none" /\ ~buzzFlag
      BY <1>2, <2>6 DEF BuzzerStep, OffJoinable, At, WorkerOK
    <3>2. Goto(w, "offDone") /\ UNCHANGED <<aborted, buzzFlag, buzzThread>>
      BY <2>6, <3>1 DEF BuzzerStep, OffJoinable, buzzerVars
    <3>3. pc'[w] = "offDone"
      BY <1>5, <3>2
    <3>4. WorkerOK(w)'
      BY <1>1, <2>1, <3>1, <3>2, <3>3 DEF WorkerOK, Sounding, RingLabels
    <3> QED BY <1>4, <2>1, <3>2, <3>4 DEF RingLabels, Sounding
  <2>7. ~ BuzzerStep(OffJoin(w)) /\ ~ BuzzerStep(OffJoined(w))
    BY <1>2 DEF BuzzerStep, OffJoin, OffJoined, At, WorkerOK
  <2> QED
    BY <1>9, <2>2, <2>3, <2>4, <2>5, <2>6, <2>7 DEF BuzzerStep, On, Off
<1>10. BuzzerStep(On(w)) \/ BuzzerStep(Off(w)) => pc[w] \in Sounding
  BY DEF BuzzerStep, On, OnEnter, OnFlag, OnSpawn, Off, OffFlag, OffJoinable, OffJoin, OffJoined,
         At, Sounding, RingLabels
<1> QED
  BY <1>6, <1>7, <1>8, <1>9, <1>10

\* The display loop, the buzzer's thread and the passing of time.
LEMMA OrderedElsewhere ==
    ASSUME TypeOK, InOrder, DisplayRuns \/ BuzzerRuns \/ ClockRuns \/ UNCHANGED vars
    PROVE  InOrder'
<1>1. \A u \in Goer \cup Workers : pc'[u] = pc[u]
  BY ThreadsAreDistinct
     DEF DisplayRuns, DisplayWakes, DisplayLock, Measure, Draw, Goto, BuzzerRuns, BuzzerStep,
         BuzzerThreadEnds, ClockRuns, TimePasses, vars, threadVars, Goer, Thread, TypeOK, PcOK
<1>2. UNCHANGED <<aborted, buzzFlag, isSet, workerFlag, joinable, cont, alarmRinging>>
  BY DEF DisplayRuns, DisplayWakes, DisplayLock, Measure, Draw, BuzzerRuns, BuzzerStep,
         BuzzerThreadEnds, ClockRuns, TimePasses, vars, threadVars, buzzerVars, alarmVars, appVars
<1>3. Watched' <=> Watched
  BY <1>1, <1>2 DEF Watched
<1>4. Watching'
  BY <1>1, <1>3 DEF InOrder, Watching, Commanding
<1>5. CASE UNCHANGED buzzThread
  <2>1. \A t \in Goer : CommandOK(t)'
    BY <1>1, <1>2, <1>3, <1>5 DEF InOrder, CommandOK
  <2>2. \A w \in Workers : WorkerOK(w)'
    BY <1>1, <1>2, <1>5 DEF InOrder, WorkerOK
  <2>3. Agreed'
    BY <1>1, <1>2, <1>5 DEF InOrder, Agreed, Agree
  <2> QED BY <1>2, <1>4, <2>1, <2>2, <2>3 DEF InOrder
<1>6. CASE BuzzerRuns
  <2>1. buzzThread = "running" /\ ~buzzFlag /\ buzzThread' = "ended"
    BY <1>6 DEF BuzzerRuns, BuzzerStep, BuzzerThreadEnds
  <2>2. ~Agree
    BY <2>1 DEF Agree
  <2>3. \A w \in Workers : pc[w] \notin Sounding /\ WorkerOK(w)'
    <3>1. ASSUME NEW w \in Workers PROVE pc[w] \notin Sounding
      BY <2>1 DEF InOrder, WorkerOK, Sounding, RingLabels
    <3> QED BY <1>1, <1>2, <3>1 DEF InOrder, WorkerOK, Sounding, RingLabels
  <2>4. PICK t \in Goer : pc[t] \in Stopping
    BY <2>2, <2>3 DEF InOrder, Agreed
  <2>5. Agreed'
    BY <1>1, <2>4 DEF Agreed
  <2>6. \A u \in Goer : CommandOK(u)'
    BY <1>1, <1>2, <1>3, <2>1 DEF InOrder, CommandOK
  <2> QED BY <1>2, <1>4, <2>3, <2>5, <2>6 DEF InOrder
<1> QED
  BY <1>5, <1>6 DEF DisplayRuns, DisplayWakes, DisplayLock, Measure, Draw, ClockRuns, TimePasses,
                    vars, buzzerVars

TurnsInv == RaceSeen /\ (~raced => InOrder)

LEMMA TurnsInit == Init => TurnsInv
<1> SUFFICES ASSUME Init PROVE TurnsInv
  OBVIOUS
<1>1. \A u \in Thread : pc[u] = "idle"
  BY DEF Init, ThreadsInit
<1>2. \A t \in Goer : pc[t] = "idle"
  BY <1>1 DEF Goer, Thread
<1>3. \A w \in Workers : pc[w] = "idle"
  BY <1>1 DEF Thread
<1>4. /\ ~aborted /\ ~alarmRinging /\ ~buzzFlag /\ buzzThread = "none" /\ ~isSet /\ ~workerFlag
  BY DEF Init, ThreadsInit, BuzzerInit, AlarmInit
<1>5. ~Race(pc)
  BY <1>2, <1>3 DEF Race, Commanding, Awake, Goer
<1>6. Agree /\ Watched
  BY <1>4 DEF Agree, Watched
<1>7. \A t \in Goer : CommandOK(t)
  BY <1>2, NoCommandOK DEF Commanding
<1>8. \A w \in Workers : WorkerOK(w)
  BY <1>3, AsleepOK DEF Awake
<1> QED
  BY <1>4, <1>5, <1>6, <1>7, <1>8 DEF TurnsInv, RaceSeen, InOrder, Agreed, Watching

LEMMA TurnsStep ==
    TypeOK /\ LockIsHeldInside /\ SlotsFree /\ TurnsInv /\ [Next]_vars => TurnsInv'
<1> SUFFICES ASSUME TypeOK, LockIsHeldInside, SlotsFree, TurnsInv, [Next]_vars
             PROVE  TurnsInv'
  OBVIOUS
<1>1. RaceSeen' /\ (raced => raced')
  BY RaceNoticed DEF TurnsInv
<1>2. ASSUME ~raced' PROVE InOrder'
  <2>1. ~Race(pc) /\ ~Race(pc') /\ InOrder
    BY <1>1, <1>2 DEF TurnsInv, RaceSeen
  <2>2. CASE NetRuns \/ FrameArrives
    <3>1. CASE Command(Net)
      BY <2>1, <3>1, OrderedDisable, OrderedOff DEF Command, Goer
    <3>2. CASE ~Command(Net)
      BY <2>1, <2>2, <3>2, OrderedCalls, OrderedSet DEF NetRuns
    <3> QED BY <3>1, <3>2
  <2>3. CASE ButtonRuns \/ Click \/ Hold
    <3>1. CASE Command(Button)
      BY <2>1, <3>1, OrderedDisable, OrderedOff DEF Command, Goer
    <3>2. CASE ~Command(Button)
      BY <2>1, <2>3, <3>2, OrderedCalls, OrderedSet DEF ButtonRuns
    <3> QED BY <3>1, <3>2
  <2>4. CASE \E w \in Workers : WorkerRuns(w)
    BY <2>1, <2>4, OrderedPolling, OrderedRinging DEF WorkerRuns
  <2>5. CASE DisplayRuns \/ BuzzerRuns \/ ClockRuns \/ UNCHANGED vars
    BY <2>1, <2>5, OrderedElsewhere
  <2> QED
    BY <2>2, <2>3, <2>4, <2>5 DEF Next, Dead
<1> QED
  BY <1>1, <1>2 DEF TurnsInv

LEMMA TurnsCorrect == Spec => [](TypeOK /\ LockIsHeldInside /\ TurnsInv)
BY TypeInit, TypeStep, LockInit, LockStep, SlotsInit, SlotsStep, TurnsInit, TurnsStep, PTL DEF Spec

(****************************************************************************)
(* A join() or detach() that nothing catches needs two operations on the     *)
(* alarm that overlap: callers that take turns never end the process.        *)
(****************************************************************************)
THEOREM AbortIsARace == Spec => []AbortNeedsRace
<1>1. TurnsInv => AbortNeedsRace
  BY DEF TurnsInv, InOrder, AbortNeedsRace
<1> QED
  BY <1>1, TurnsCorrect, PTL

(****************************************************************************)
(* Between handlers the application, the buzzer's flag and its thread agree  *)
(* on whether the alarm rings.                                               *)
(****************************************************************************)
THEOREM RingingHeard == Spec => []RingingIsHeard
<1>1. TypeOK /\ LockIsHeldInside /\ TurnsInv => RingingIsHeard
  <2> SUFFICES ASSUME TypeOK, LockIsHeldInside, TurnsInv, Quiet, mutex = None PROVE RingingIsHeard
    BY DEF RingingIsHeard
  <2>1. \A w \in Workers : pc[w] \notin RingLabels
    BY ThreadsAreDistinct DEF LockIsHeldInside, InsideLock, Thread
  <2>2. \A w \in Workers : pc[w] \notin Sounding
    BY <2>1 DEF Sounding
  <2>3. \A t \in Goer : pc[t] \notin Stopping
    BY NoCommandOK DEF Quiet
  <2>4. Agree
    BY <2>2, <2>3 DEF TurnsInv, InOrder, Agreed, Quiet
  <2> QED BY <2>4 DEF Agree, RingingIsHeard, TypeOK, DataOK
<1> QED
  BY <1>1, TurnsCorrect, PTL

(****************************************************************************)
(* A ringing alarm is set, which DisableAlarm insists on before it silences  *)
(* it.                                                                       *)
(****************************************************************************)
THEOREM RingingCanStop == Spec => []RingingCanBeDisabled
<1>1. TurnsInv => RingingCanBeDisabled
  BY DEF TurnsInv, InOrder, Watching, Watched, Quiet, RingingCanBeDisabled
<1> QED
  BY <1>1, TurnsCorrect, PTL

(****************************************************************************)
(* A set alarm rings already, or an alarm thread is there and the flag that  *)
(* keeps it polling is up, however many detached threads share that flag.    *)
(****************************************************************************)
THEOREM AlarmIsWatched == Spec => []SetAlarmIsWatched
<1>1. TurnsInv => SetAlarmIsWatched
  BY DEF TurnsInv, InOrder, Watching, Watched, Quiet, SetAlarmIsWatched
<1> QED
  BY <1>1, TurnsCorrect, PTL

(****************************************************************************)
(* Where DisableAlarm comes back to its caller nothing rings and nothing is  *)
(* left that would ring: the buzzer's thread is gone, the alarm is not set,  *)
(* and the alarm threads that are still there have been told to end.         *)
(****************************************************************************)
DisabledMeansSilent ==
    \A t \in Goer : ~raced /\ pc[t] = "disabled" =>
        /\ ~alarmRinging /\ ~buzzFlag /\ buzzThread = "none"
        /\ ~isSet /\ ~workerFlag

(****************************************************************************)
(* A request or a long press that disables the alarm and overlaps with no    *)
(* other operation returns with the clock silent and disarmed.               *)
(****************************************************************************)
THEOREM DisableSilences == Spec => []DisabledMeansSilent
<1>1. TurnsInv => DisabledMeansSilent
  <2> SUFFICES ASSUME TurnsInv, ~raced, NEW t \in Goer, pc[t] = "disabled"
               PROVE  /\ ~alarmRinging /\ ~buzzFlag /\ buzzThread = "none"
                      /\ ~isSet /\ ~workerFlag
    BY DEF DisabledMeansSilent
  <2>1. ~isSet /\ ~workerFlag /\ ~alarmRinging
    BY DEF TurnsInv, InOrder, CommandOK
  <2>2. Commanding(pc, t) /\ ~Race(pc)
    BY DEF Commanding, TurnsInv, RaceSeen
  <2>3. Agree
    BY <2>2, AgreeInCommand DEF TurnsInv, Stopping
  <2> QED BY <2>1, <2>3 DEF Agree
<1> QED
  BY <1>1, TurnsCorrect, PTL

-------------------------------------------------------------------------------
(* Callers that take turns get what AlarmPromise promises, step by step.     *)

\* Who is about to ring has seen the time come, and nobody has set it since.
DueSeen == \A w \in Workers : pc[w] \in {"ringLock", "ring"} => due

LEMMA DueStep ==
    ASSUME TypeOK, ~Race(pc), DueSeen, [Next]_vars
    PROVE  DueSeen'
<1> USE DEF DueSeen
<1>1. ASSUME UNCHANGED due, \A w \in Workers : pc'[w] \in {pc[w], "loop"}
      PROVE  DueSeen'
  BY <1>1
<1>2. ASSUME NEW t \in Goer, Command(t) PROVE DueSeen'
  <2>1. UNCHANGED due
    BY <1>2 DEF Command, AlarmStep, BuzzerStep, DisableAlarm, Disable, ClearAlarm, StopFlag,
                StopJoinable, StopDetach, Silenced, alarmVars
  <2>2. UNCHANGED pc \/ \E l : Goto(t, l)
    BY <1>2 DEF Command, AlarmStep, BuzzerStep, DisableAlarm, Disable, ClearAlarm, StopFlag,
                StopJoinable, StopDetach, Silenced, Off, OffFlag, OffJoinable, OffJoin, OffJoined,
                Throw
  <2>3. \A w \in Workers : pc'[w] = pc[w]
    BY <2>2, ThreadsAreDistinct DEF Goto, TypeOK, PcOK, Thread, Goer
  <2> QED BY <1>1, <2>1, <2>3
<1>3. CASE AlarmStep(SetTime)
  <2>1. pc[Net] = "setTime" /\ Goto(Net, "setFlag") /\ Commanding(pc, Net) /\ Net \in Goer
    BY <1>3 DEF AlarmStep, SetTime, At, Commanding, Goer
  <2>2. \A w \in Workers : pc'[w] = pc[w] /\ ~Awake(pc, w)
    BY <2>1, Turns, ThreadsAreDistinct DEF Goto, TypeOK, PcOK, Thread
  <2> QED BY <2>2 DEF Awake
<1>4. CASE \/ AlarmStep(SetFlag) \/ AlarmStep(ArmFlag)
           \/ FrameArrives \/ FrameLock \/ NetDisabled \/ NetUnlock
           \/ Click \/ ClickCheck \/ ClickLock \/ NextDisplayMode \/ Redraw \/ Hold \/ HoldDone
           \/ DisplayRuns
  <2>1. UNCHANGED due
    BY <1>4 DEF AlarmStep, SetFlag, ArmFlag, FrameArrives, FrameLock, NetDisabled, NetUnlock,
                Click, ClickCheck, ClickLock, NextDisplayMode, Redraw, Hold, HoldDone,
                DisplayRuns, DisplayWakes, DisplayLock, Measure, Draw, alarmVars
  <2>2. \E t \in {Net, Button, Display} : \E l : Goto(t, l)
    BY <1>4 DEF AlarmStep, SetFlag, ArmFlag, FrameArrives, FrameLock, NetDisabled, NetUnlock,
                Click, ClickCheck, ClickLock, NextDisplayMode, Redraw, Hold, HoldDone,
                DisplayRuns, DisplayWakes, DisplayLock, Measure, Draw
  <2>3. \A w \in Workers : pc'[w] = pc[w]
    BY <2>2, ThreadsAreDistinct DEF Goto, TypeOK, PcOK, Thread
  <2> QED BY <1>1, <2>1, <2>3
<1>5. ASSUME NEW w \in Workers, AlarmStep(SpawnWorker(w)) PROVE DueSeen'
  <2>1. UNCHANGED due /\ (UNCHANGED pc \/ pc' = [pc EXCEPT ![Net] = "unlock", ![w] = "loop"])
    BY <1>5 DEF AlarmStep, SpawnWorker
  <2>2. \A v \in Workers : pc'[v] \in {pc[v], "loop"}
    BY <2>1, ThreadsAreDistinct DEF TypeOK, PcOK, Thread
  <2> QED BY <1>1, <2>1, <2>2
<1>6. ASSUME NEW w \in Workers, WorkerRuns(w) PROVE DueSeen'
  <2>1. UNCHANGED due
    BY <1>6 DEF WorkerRuns, AlarmStep, BuzzerStep, WorkerFunc, WorkerLoop, WorkerCheck,
                WorkerFired, WorkerWakes, RingLock, Ring, RingScreen, Rung, alarmVars
  <2>2. ASSUME NEW l, Goto(w, l) PROVE pc'[w] = l /\ \A v \in Workers : v # w => pc'[v] = pc[v]
    BY <2>2 DEF Goto, TypeOK, PcOK, Thread
  <2>3. CASE WorkerCheck(w)
    <3>1. pc[w] = "check" /\ Awake(pc, w)
      BY <2>3 DEF WorkerCheck, At, Awake
    <3>2. ~Commanding(pc, Net)
      BY <3>1, Turns DEF Goer
    <3>3. pc[Net] # "setTime"
      BY <3>2 DEF Commanding
    <3>4. Goto(w, IF due THEN "ringLock" ELSE "sleep")
      BY <2>3, <3>3 DEF WorkerCheck
    <3> QED BY <2>1, <2>2, <3>4
  <2>4. CASE RingLock(w)
    <3>1. pc[w] = "ringLock" /\ Goto(w, "ring")
      BY <2>4 DEF RingLock, At
    <3> QED BY <2>1, <2>2, <3>1
  <2>5. CASE ~WorkerCheck(w) /\ ~RingLock(w)
    <3>1. \/ UNCHANGED pc
          \/ \E l : Goto(w, l) /\ l \notin {"ringLock", "ring"}
      BY <1>6, <2>5
         DEF WorkerRuns, AlarmStep, BuzzerStep, WorkerFunc, WorkerLoop, WorkerFired, WorkerWakes,
             Ring, RingScreen, Rung, On, OnEnter, OnFlag, OnSpawn, Off, OffFlag, OffJoinable,
             OffJoin, OffJoined, Throw
    <3> QED BY <2>1, <2>2, <3>1
  <2> QED BY <2>3, <2>4, <2>5
<1>7. CASE BuzzerRuns \/ ClockRuns \/ UNCHANGED vars
  <2>1. UNCHANGED pc /\ (due => due')
    BY <1>7 DEF BuzzerRuns, BuzzerStep, BuzzerThreadEnds, ClockRuns, TimePasses, vars, threadVars,
                alarmVars
  <2> QED BY <2>1
<1>8. CASE AlarmStep(StartWorker)
  BY <1>4, <1>5, <1>8 DEF AlarmStep, StartWorker
<1>9. CASE NetRuns \/ ButtonRuns
  BY <1>2, <1>3, <1>4, <1>8, <1>9 DEF NetRuns, ButtonRuns, Goer
<1> QED
  BY <1>4, <1>6, <1>7, <1>9 DEF Next, Dead

\* A command: DisableAlarm cancels when it clears isSet_, SetAlarm sets what is not set.
LEMMA PromisedCommand ==
    ASSUME TypeOK, InOrder, NEW t \in Goer, Command(t)
    PROVE  [Promise!Next]_(Promise!vars)
<1> USE DEF Promise!Next, Promise!Choose, Promise!Set, Promise!TimeComes, Promise!Ring,
            Promise!Cancel, Promise!vars
<1>1. CommandOK(t) /\ isSet \in BOOLEAN /\ alarmRinging \in BOOLEAN
  BY DEF InOrder, TypeOK, DataOK
<1>2. CASE AlarmStep(ClearAlarm(t))
  BY <1>1, <1>2 DEF AlarmStep, ClearAlarm, appVars
<1>3. CASE Silenced(t)
  <2>1. ~isSet
    BY <1>1, <1>3 DEF Silenced, At, CommandOK, Stopping
  <2> QED BY <1>3, <2>1 DEF Silenced, alarmVars
<1>4. CASE ~AlarmStep(ClearAlarm(t)) /\ ~Silenced(t)
  BY <1>4 DEF Command, AlarmStep, BuzzerStep, DisableAlarm, Disable, StopFlag, StopJoinable,
              StopDetach, alarmVars, appVars
<1> QED BY <1>2, <1>3, <1>4

LEMMA PromisedStep ==
    ASSUME TypeOK, InOrder, DueSeen, [Next]_vars
    PROVE  [Promise!Next]_(Promise!vars)
<1> USE DEF Promise!Next, Promise!Choose, Promise!Set, Promise!TimeComes, Promise!Ring,
            Promise!Cancel, Promise!vars
<1>1. /\ isSet \in BOOLEAN /\ due \in BOOLEAN /\ alarmRinging \in BOOLEAN
      /\ CommandOK(Net)
  BY DEF InOrder, TypeOK, DataOK, Goer
<1>2. CASE Command(Net) \/ Command(Button)
  BY <1>2, PromisedCommand DEF Goer
<1>3. CASE AlarmStep(SetTime)
  <2>1. ~isSet
    BY <1>1, <1>3 DEF AlarmStep, SetTime, At, CommandOK
  <2> QED BY <1>3, <2>1 DEF AlarmStep, SetTime, appVars
<1>4. CASE AlarmStep(SetFlag)
  <2>1. ~isSet /\ ~alarmRinging
    BY <1>1, <1>4 DEF AlarmStep, SetFlag, At, CommandOK
  <2> QED BY <1>4, <2>1 DEF AlarmStep, SetFlag, appVars
<1>5. CASE \/ AlarmStep(StartWorker)
           \/ FrameArrives \/ FrameLock \/ NetDisabled \/ NetUnlock
           \/ Click \/ ClickCheck \/ ClickLock \/ NextDisplayMode \/ Redraw \/ Hold \/ HoldDone
           \/ DisplayRuns \/ BuzzerRuns \/ UNCHANGED vars
  <2>1. UNCHANGED <<isSet, due, alarmRinging>>
    BY <1>5
       DEF AlarmStep, StartWorker, ArmFlag, SpawnWorker, FrameArrives, FrameLock, NetDisabled,
           NetUnlock, Click, ClickCheck, ClickLock, NextDisplayMode, Redraw, Hold, HoldDone,
           DisplayRuns, DisplayWakes, DisplayLock, Measure, Draw, BuzzerRuns, BuzzerStep,
           BuzzerThreadEnds, vars, alarmVars, appVars
  <2> QED BY <2>1
<1>6. CASE ClockRuns
  BY <1>1, <1>6 DEF ClockRuns, TimePasses, appVars
<1>7. ASSUME NEW w \in Workers, WorkerRuns(w) PROVE [Promise!Next]_(Promise!vars)
  <2>1. CASE Ring(w)
    <3>1. due
      BY <2>1 DEF Ring, At, DueSeen
    <3>2. alarmRinging' /\ UNCHANGED <<isSet, due>>
      BY <2>1 DEF Ring, alarmVars
    <3> QED BY <1>1, <3>1, <3>2
  <2>2. CASE ~Ring(w)
    <3>1. UNCHANGED <<isSet, due, alarmRinging>>
      BY <1>7, <2>2
         DEF WorkerRuns, AlarmStep, BuzzerStep, WorkerFunc, WorkerLoop, WorkerCheck, WorkerFired,
             WorkerWakes, RingLock, RingScreen, Rung, alarmVars, appVars
    <3> QED BY <3>1
  <2> QED BY <2>1, <2>2
<1> QED
  BY <1>2, <1>3, <1>4, <1>5, <1>6, <1>7 DEF Next, NetRuns, ButtonRuns, Dead

(****************************************************************************)
(* The clock whose alarm operations take turns implements AlarmPromise: an   *)
(* alarm rings only when it is set and due, rings until it is cancelled, and *)
(* a time is chosen only while none is set.  That it rings at last is up to  *)
(* fairness.                                                                 *)
(****************************************************************************)
THEOREM TurnsKeepPromise == OrderlySpec => Promise!Init /\ [][Promise!Next]_(Promise!vars)
<1>1. Init => Promise!Init /\ DueSeen /\ ~raced
  <2> SUFFICES ASSUME Init PROVE Promise!Init /\ DueSeen /\ ~raced
    OBVIOUS
  <2>1. \A w \in Workers : pc[w] = "idle"
    BY DEF Init, ThreadsInit, Thread
  <2> QED BY <2>1 DEF Init, AlarmInit, ThreadsInit, Promise!Init, DueSeen
<1>2. TypeOK /\ TurnsInv /\ DueSeen /\ ~raced /\ [Next /\ ~raced']_vars
          => DueSeen' /\ ~raced' /\ [Promise!Next]_(Promise!vars)
  <2> SUFFICES ASSUME TypeOK, TurnsInv, DueSeen, ~raced, [Next /\ ~raced']_vars
               PROVE  DueSeen' /\ ~raced' /\ [Promise!Next]_(Promise!vars)
    OBVIOUS
  <2>1. ~Race(pc) /\ InOrder /\ [Next]_vars
    BY DEF TurnsInv, RaceSeen
  <2>2. ~raced'
    BY DEF vars, threadVars
  <2> QED BY <2>1, <2>2, DueStep, PromisedStep
<1>3. [Next /\ ~raced']_vars => [Next]_vars
  OBVIOUS
<1> QED
  BY <1>1, <1>2, <1>3, TypeInit, TypeStep, LockInit, LockStep, SlotsInit, SlotsStep, TurnsInit,
     TurnsStep, PTL DEF OrderlySpec
==============================================================================
