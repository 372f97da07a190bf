---------------------------- MODULE ProgramProofs -----------------------------
(****************************************************************************)
(* For any number of alarm threads and results: which thread can still run   *)
(* when, and from it who may use a destroyed member; who uses the results    *)
(* when; and what keeps a thread that the end waits for from ending.         *)
(****************************************************************************)
EXTENDS Program, TLAPS

Places == {"off", "load", "setup", "server", "listener", "display", "run", "joinNet",
           "stopLoop", "joinLoop", "open", "write", "destroy"}

Runs(t) == pc[t] # "none"

(****************************************************************************)
(* A thread runs only between the step that starts it and the one that       *)
(* joins it; members are destroyed only at the end.  Server is the fifth     *)
(* member, Button the fourth.                                                *)
(****************************************************************************)
NetLives == Runs("net") =>
    \/ main \in {"listener", "display", "run", "joinNet"}
    \/ main = "destroy" /\ failed /\ alive >= 5

ButtonLives == Runs("button") =>
    \/ main \notin {"off", "load", "setup", "destroy"}
    \/ main = "destroy" /\ alive >= 4

LoopLives == Runs("loop") => main \in {"run", "joinNet", "stopLoop", "joinLoop"}

AlarmsLive == \A w \in Alarms : Runs(w) => main # "off"

MembersLive ==
    /\ alive \in 0 .. 7
    /\ main \notin {"off", "destroy"} => alive = 7

Labels == {"none", "idle", "pressed", "off", "hung", "click", "toggle", "last", "set", "getLast", "setAlarm",
           "reply", "writing", "stuck", "check", "wait", "measure", "asleep", "due", "ring", "rung"}

ThreadsOK == main \in Places /\ pc \in [Thread -> Labels]

LifeInv ==
    /\ ThreadsOK /\ MembersLive
    /\ NetLives /\ ButtonLives /\ LoopLives /\ AlarmsLive
    /\ LifetimesRespected

-------------------------------------------------------------------------------
\* The declaration order, member by member.
LEMMA AliveIs ==
    ASSUME alive \in 0 .. 7
    PROVE  /\ Alive("screen") <=> alive >= 1
           /\ Alive("buzzer") <=> alive >= 2
           /\ Alive("alarmMan") <=> alive >= 3
           /\ Alive("button") <=> alive >= 4
           /\ Alive("server") <=> alive >= 5
           /\ Alive("results") <=> alive >= 6
           /\ Alive("appMutex") <=> alive >= 7
<1> DEFINE n(i) == Members[i]
<1>1. /\ n(1) = "screen" /\ n(2) = "buzzer" /\ n(3) = "alarmMan" /\ n(4) = "button"
      /\ n(5) = "server" /\ n(6) = "results" /\ n(7) = "appMutex"
  BY DEF Members
<1>2. ASSUME NEW m, NEW k \in 1 .. 7, n(k) = m, \A i \in 1 .. 7 : n(i) = m => i = k
      PROVE  Alive(m) <=> alive >= k
  BY <1>2 DEF Alive
<1>3. \A i \in 1 .. 7 : i = 1 \/ i = 2 \/ i = 3 \/ i = 4 \/ i = 5 \/ i = 6 \/ i = 7
  OBVIOUS
<1> HIDE DEF n
<1>4. Alive("screen") <=> alive >= 1
  BY <1>1, <1>2, <1>3
<1>5. Alive("buzzer") <=> alive >= 2
  BY <1>1, <1>2, <1>3
<1>6. Alive("alarmMan") <=> alive >= 3
  BY <1>1, <1>2, <1>3
<1>7. Alive("button") <=> alive >= 4
  BY <1>1, <1>2, <1>3
<1>8. Alive("server") <=> alive >= 5
  BY <1>1, <1>2, <1>3
<1>9. Alive("results") <=> alive >= 6
  BY <1>1, <1>2, <1>3
<1>10. Alive("appMutex") <=> alive >= 7
  BY <1>1, <1>2, <1>3
<1> QED
  BY <1>4, <1>5, <1>6, <1>7, <1>8, <1>9, <1>10
-------------------------------------------------------------------------------
(* What a step may use.                                                      *)

LEMMA UseIsAllowed ==
    ASSUME LifetimesRespected, NEW t \in Thread, NEW ms, Use(t, ms),
           failed' = failed, main' = main,
           \A m \in ms : ~Alive(m) => m \in MayOutlive(t),
           main # "destroy" => \A m \in ms : Alive(m)
    PROVE  LifetimesRespected'
<1>1. \A s : MayOutlive(s)' = MayOutlive(s)
  BY DEF MayOutlive
<1>2. \A u \in misused' : u \in misused \/ \E m \in ms : ~Alive(m) /\ u = <<t, m>>
  BY DEF Use
<1>3. \A u \in misused' : u[2] \in MayOutlive(u[1])'
  BY <1>1, <1>2 DEF LifetimesRespected
<1>4. main # "destroy" => misused' = {}
  BY <1>2 DEF LifetimesRespected
<1> QED
  BY <1>3, <1>4 DEF LifetimesRespected

\* Everybody is at peace until the destructors run.
LEMMA AllAlive ==
    ASSUME MembersLive, main \notin {"off", "destroy"},
           NEW m \in {"screen", "buzzer", "alarmMan", "results", "appMutex"}
    PROVE  Alive(m)
<1>1. alive = 7
  BY DEF MembersLive
<1> QED
  BY <1>1, AliveIs

LEMMA AlarmUses ==
    ASSUME LifeInv, NEW w \in Alarms, Runs(w), main' = main, failed' = failed,
           NEW ms \in SUBSET {"screen", "buzzer", "alarmMan", "appMutex"}, Use(w, ms)
    PROVE  LifetimesRespected'
<1>1. MayOutlive(w) = {"screen", "buzzer", "alarmMan", "appMutex"}
  BY AlarmsAreThreads DEF MayOutlive
<1>2. main # "off"
  BY DEF LifeInv, AlarmsLive
<1>3. main # "destroy" => \A m \in ms : Alive(m)
  BY <1>2, AllAlive DEF LifeInv
<1> QED
  BY <1>1, <1>3, UseIsAllowed DEF LifeInv, Thread

\* screen, buzzer, alarmMan and button are destroyed after the button's thread.
LEMMA ButtonUses ==
    ASSUME LifeInv, Runs("button"), main' = main, failed' = failed,
           NEW ms \in SUBSET {"screen", "buzzer", "alarmMan", "results", "appMutex"},
           Use("button", ms)
    PROVE  LifetimesRespected'
<1>1. MayOutlive("button") = {"results", "appMutex"}
  BY DEF MayOutlive
<1>2. main # "off"
  BY DEF LifeInv, ButtonLives
<1>3. main # "destroy" => \A m \in ms : Alive(m)
  BY <1>2, AllAlive DEF LifeInv
<1>4. main = "destroy" => Alive("screen") /\ Alive("buzzer") /\ Alive("alarmMan")
  BY AliveIs DEF LifeInv, ButtonLives, MembersLive
<1>5. \A m \in ms : ~Alive(m) => m \in {"results", "appMutex"}
  BY <1>3, <1>4
<1> QED
  BY <1>1, <1>3, <1>5, UseIsAllowed DEF Thread, LifeInv

\* So are they after the io thread, which is gone anyway unless Start() threw.
LEMMA NetUses ==
    ASSUME LifeInv, Runs("net"), main' = main, failed' = failed,
           NEW ms \in SUBSET {"screen", "buzzer", "alarmMan", "results", "appMutex"},
           Use("net", ms)
    PROVE  LifetimesRespected'
<1>1. main # "off" /\ (main = "destroy" => failed)
  BY DEF LifeInv, NetLives
<1>2. main # "destroy" => \A m \in ms : Alive(m)
  BY <1>1, AllAlive DEF LifeInv
<1>3. main = "destroy" => Alive("screen") /\ Alive("buzzer") /\ Alive("alarmMan")
  BY AliveIs DEF LifeInv, NetLives, MembersLive
<1>4. main = "destroy" => MayOutlive("net") = {"results", "appMutex"}
  BY <1>1 DEF MayOutlive
<1>5. \A m \in ms : ~Alive(m) => m \in MayOutlive("net")
  BY <1>2, <1>3, <1>4
<1> QED
  BY <1>2, <1>5, UseIsAllowed DEF Thread, LifeInv

LEMMA LoopUses ==
    ASSUME LifeInv, Runs("loop"), main' = main, failed' = failed,
           NEW ms \in SUBSET {"screen", "buzzer", "alarmMan", "results", "appMutex"},
           Use("loop", ms)
    PROVE  LifetimesRespected'
<1>1. main \notin {"off", "destroy"}
  BY DEF LifeInv, LoopLives
<1>2. \A m \in ms : Alive(m)
  BY <1>1, AllAlive DEF LifeInv
<1> QED
  BY <1>2, UseIsAllowed DEF Thread, LifeInv

-------------------------------------------------------------------------------
(* The steps.                                                                *)

Lives == ThreadsOK /\ MembersLive /\ NetLives /\ ButtonLives /\ LoopLives /\ AlarmsLive

\* Threads that run go on to other places: everything else is as it was.
LEMMA ThreadsGoOn ==
    ASSUME Lives, pc' \in [Thread -> Labels], \A s \in Thread : Runs(s)' => Runs(s),
           UNCHANGED <<main, alive, failed>>
    PROVE  Lives'
<1>1. ThreadsOK' /\ MembersLive'
  BY DEF Lives, ThreadsOK, MembersLive
<1> QED
  BY <1>1 DEF Lives, NetLives, ButtonLives, LoopLives, AlarmsLive, Thread

LEMMA ThreadGoesOn ==
    ASSUME Lives, NEW t \in Thread, NEW l \in Labels, Runs(t),
           pc' = [pc EXCEPT ![t] = l], UNCHANGED <<main, alive, failed>>
    PROVE  Lives'
<1>1. pc' \in [Thread -> Labels]
  BY DEF Lives, ThreadsOK
<1>2. \A s \in Thread : Runs(s)' => Runs(s)
  BY DEF Lives, ThreadsOK, Runs
<1> QED
  BY <1>1, <1>2, ThreadsGoOn

\* A ring while the button is inside Off.
LEMMA RingChanges ==
    ASSUME ThreadsOK, NEW w \in Alarms, Ring(w)
    PROVE  \E b \in OnAgain :
              /\ b \in Labels /\ (b # "none" => Runs("button"))
              /\ b \in {"off", "hung"} \/ b = pc["button"]
              /\ pc[w] = "ring" /\ pc'[w] = "rung" /\ pc'["button"] = b
              /\ \A s \in Thread : s \notin {w, "button"} => pc'[s] = pc[s]
              /\ pc' \in [Thread -> Labels]
<1>1. PICK b \in OnAgain : pc' = [pc EXCEPT ![w] = "rung", !["button"] = b]
  BY DEF Ring
<1>2. w \in Thread /\ "button" \in Thread /\ w # "button" /\ "rung" \in Labels
  BY AlarmsAreThreads DEF Thread, Labels
<1>3. pc["button"] \in Labels /\ b \in Labels
  BY <1>2 DEF ThreadsOK, OnAgain, Labels
<1>4. b # "none" => Runs("button")
  BY DEF OnAgain, Runs
<1>5. b \in {"off", "hung"} \/ b = pc["button"]
  BY DEF OnAgain
<1> QED
  BY <1>1, <1>2, <1>3, <1>4, <1>5 DEF ThreadsOK, Ring

LEMMA ThreadUses ==
    ASSUME LifeInv, UNCHANGED <<main, alive, failed>>, Lives',
           UNCHANGED misused \/ LifetimesRespected'
    PROVE  LifeInv'
<1>1. UNCHANGED misused => LifetimesRespected'
  BY DEF LifeInv, LifetimesRespected, MayOutlive
<1> QED
  BY <1>1 DEF LifeInv, Lives

LEMMA ButtonStep ==
    ASSUME LifeInv, Press \/ LetGo \/ Hold \/ ButtonRuns
    PROVE  LifeInv'
<1> USE DEF Moves, Goto, Unlock, Lock, Uses, seenVars, flags
<1>1. UNCHANGED <<main, alive, failed>> /\ Runs("button")
      /\ \E l \in Labels : pc' = [pc EXCEPT !["button"] = l]
  BY DEF Press, LetGo, Hold, HoldEnds, ButtonRuns, ClickLock, NextDisplayMode, ButtonEnds,
         Runs, Labels, ReadsLast
<1>2. Lives'
  BY <1>1, ThreadGoesOn DEF LifeInv, Lives, Thread
<1>3. UNCHANGED misused \/ LifetimesRespected'
  <2>1. CASE Press \/ LetGo \/ ButtonEnds
    BY <2>1 DEF Press, LetGo, ButtonEnds
  <2>2. CASE Hold \/ HoldEnds
    BY <1>1, <2>2, ButtonUses DEF Hold, HoldEnds
  <2>3. CASE ClickLock
    BY <1>1, <2>3, ButtonUses DEF ClickLock
  <2>4. CASE NextDisplayMode
    <3>1. Use("button", {"screen", "appMutex", "results"})
          \/ Use("button", {"screen", "appMutex"})
      <4>1. {"screen", "appMutex"} \cup {"results"} = {"screen", "appMutex", "results"}
        OBVIOUS
      <4> QED
        BY <2>4, <4>1 DEF NextDisplayMode, ReadsLast
    <3> QED
      BY <1>1, <3>1, ButtonUses
  <2> QED
    BY <2>1, <2>2, <2>3, <2>4 DEF ButtonRuns
<1> QED
  BY <1>1, <1>2, <1>3, ThreadUses

LEMMA LoopStep ==
    ASSUME LifeInv, LoopRuns
    PROVE  LifeInv'
<1> USE DEF Moves, Goto, Unlock, Lock, Uses, seenVars, flags
<1>1. UNCHANGED <<main, alive, failed>> /\ Runs("loop")
      /\ \E l \in Labels : pc' = [pc EXCEPT !["loop"] = l]
  BY DEF LoopRuns, LoopGoesOn, LoopEnds, LoopLock, MeasureAndDisplay, Runs, Labels
<1>2. Lives'
  BY <1>1, ThreadGoesOn DEF LifeInv, Lives, Thread
<1>3. UNCHANGED misused \/ LifetimesRespected'
  BY <1>1, LoopUses DEF LoopRuns, LoopGoesOn, LoopEnds, LoopLock, MeasureAndDisplay
<1> QED
  BY <1>1, <1>2, <1>3, ThreadUses

LEMMA AlarmStep ==
    ASSUME LifeInv, NEW w \in Alarms, AlarmRuns(w)
    PROVE  LifeInv'
<1> USE DEF Moves, Goto, Unlock, Lock, Uses, seenVars, flags
<1>1. UNCHANGED <<main, alive, failed>> /\ Runs(w)
  BY DEF AlarmRuns, AlarmLooks, RingLock, Ring, Rung, Runs
<1>2. Lives'
  <2>1. CASE Ring(w)
    <3>1. pc' \in [Thread -> Labels] /\ \A s \in Thread : Runs(s)' => Runs(s)
      BY <1>1, <2>1, RingChanges DEF LifeInv, Runs
    <3> QED
      BY <1>1, <3>1, ThreadsGoOn DEF LifeInv, Lives
  <2>2. CASE ~Ring(w)
    <3>1. \E l \in Labels : pc' = [pc EXCEPT ![w] = l]
      BY <2>2 DEF AlarmRuns, AlarmLooks, RingLock, Rung, Labels
    <3> QED
      BY <1>1, <3>1, ThreadGoesOn DEF LifeInv, Lives, Thread
  <2> QED
    BY <2>1, <2>2
<1>3. LifetimesRespected'
  BY <1>1, AlarmUses DEF AlarmRuns, AlarmLooks, RingLock, Ring, Rung
<1> QED
  BY <1>1, <1>2, <1>3, ThreadUses

LEMMA NetStep ==
    ASSUME LifeInv, Request \/ NetRuns
    PROVE  LifeInv'
<1> USE DEF Moves, Goto, Unlock, Lock, Uses, seenVars, flags
<1>1. UNCHANGED <<main, alive, failed>> /\ Runs("net")
  BY DEF Request, NetRuns, FrameLock, GetLastResult, SetClockAlarm, Reply, Replied,
         ClientIsDeaf, NetEnds, Runs, ReadsLast
<1>2. Lives'
  <2>1. CASE \E l \in Labels : pc' = [pc EXCEPT !["net"] = l]
    BY <1>1, <2>1, ThreadGoesOn DEF LifeInv, Lives, Thread
  <2>2. CASE SetClockAlarm
    <3>1. PICK w \in Alarms, b \in OffAgain :
              pc' = [pc EXCEPT !["net"] = "idle", ![w] = "asleep", !["button"] = b]
      BY <2>2 DEF SetClockAlarm
    <3>a. b \in Labels /\ (b # "none" => Runs("button"))
      BY DEF LifeInv, ThreadsOK, OffAgain, Labels, Runs, Thread
    <3>2. pc' \in [Thread -> Labels]
      BY <3>1, <3>a DEF LifeInv, ThreadsOK, Labels
    <3>3. \A s \in {"net", "button", "loop"} : Runs(s)' => Runs(s)
      BY <1>1, <3>1, <3>a, AlarmsAreThreads DEF LifeInv, ThreadsOK, Runs, Thread
    <3>4. main # "off"
      BY <1>1 DEF LifeInv, NetLives
    <3> QED
      BY <1>1, <3>2, <3>3, <3>4
         DEF LifeInv, Lives, ThreadsOK, MembersLive, NetLives, ButtonLives, LoopLives, AlarmsLive
  <2> QED
    BY <2>1, <2>2 DEF Request, NetRuns, FrameLock, GetLastResult, Reply, Replied,
                      ClientIsDeaf, NetEnds, Labels
<1>3. UNCHANGED misused \/ LifetimesRespected'
  <2>1. CASE GetLastResult
    <3>1. {"appMutex"} \cup {"results"} = {"appMutex", "results"}
      OBVIOUS
    <3>2. Use("net", {"appMutex", "results"})
      BY <2>1, <3>1 DEF GetLastResult, ReadsLast
    <3> QED
      BY <1>1, <3>2, NetUses
  <2>2. CASE FrameLock \/ SetClockAlarm
    BY <1>1, <2>2, NetUses DEF FrameLock, SetClockAlarm
  <2> QED
    BY <2>1, <2>2 DEF Request, NetRuns, Reply, Replied, ClientIsDeaf, NetEnds
<1> QED
  BY <1>1, <1>2, <1>3, ThreadUses

LEMMA OffIsFine ==
    ASSUME Off
    PROVE  LifeInv'
<1>1. ThreadsOK'
  BY DEF Off, ThreadsOK, Places, Labels
<1>2. LifetimesRespected'
  BY DEF Off, LifetimesRespected
<1>3. \A t \in {"net", "button", "loop"} \cup Alarms : pc'[t] = "none"
  BY DEF Off, Thread
<1>4. main' = "off" /\ alive' = 0
  BY DEF Off
<1>5. MembersLive'
  BY <1>4 DEF MembersLive
<1>6. NetLives' /\ ButtonLives' /\ LoopLives'
  BY <1>3 DEF NetLives, ButtonLives, LoopLives, Runs
<1>7. AlarmsLive'
  BY <1>3 DEF AlarmsLive, Runs
<1> QED
  BY <1>1, <1>2, <1>5, <1>6, <1>7 DEF LifeInv

\* The main thread before the destructors.
LEMMA StartStep ==
    ASSUME LifeInv,
           \/ Construct \/ Enter \/ Load \/ SetupThrows \/ Setup
           \/ ServerStart \/ ListenerStart \/ ListenerThrows \/ StartDisplay
           \/ JoinNet \/ StopLoop \/ JoinLoop \/ Open \/ Write
    PROVE  LifeInv'
<1> USE DEF StepsTo, Goto, seenVars, flags, threadVars,
            Construct, Enter, Load, SetupThrows, Setup, ServerStart, ListenerStart,
            ListenerThrows, StartDisplay, JoinNet, StopLoop, JoinLoop, Open, Write
<1>1. main # "destroy" /\ misused' = misused
  OBVIOUS
<1>2. LifetimesRespected'
  BY <1>1 DEF LifeInv, LifetimesRespected
<1>3. ThreadsOK' /\ MembersLive'
  <2>1. Len(Members) = 7
    BY DEF Members
  <2> QED
    BY <2>1 DEF LifeInv, ThreadsOK, MembersLive, Places, Labels
<1>4. AlarmsLive'
  <2>1. pc' = pc \/ \E t \in {"net", "button", "loop"}, l \in {"idle", "check"} :
                       pc' = [pc EXCEPT ![t] = l]
    OBVIOUS
  <2>2. \A w \in Alarms : w \in Thread /\ w \notin {"net", "button", "loop"}
    BY AlarmsAreThreads DEF Thread
  <2>3. \A w \in Alarms : pc'[w] = pc[w]
    <3> HIDE DEF Goto, Setup, ServerStart, StartDisplay
    <3> QED
      BY <2>1, <2>2 DEF LifeInv, ThreadsOK
  <2>4. main' # "off"
    OBVIOUS
  <2> QED
    BY <2>3, <2>4 DEF LifeInv, AlarmsLive, Runs
<1>5. NetLives'
  BY DEF LifeInv, ThreadsOK, MembersLive, NetLives, Runs, Thread
<1>6. ButtonLives'
  BY DEF LifeInv, ThreadsOK, MembersLive, ButtonLives, Runs, Thread
<1>7. LoopLives'
  BY DEF LifeInv, ThreadsOK, LoopLives, Runs, Thread
<1> QED
  BY <1>2, <1>3, <1>4, <1>5, <1>6, <1>7 DEF LifeInv

LEMMA DestroyStep ==
    ASSUME LifeInv,
           \/ DestroyPlain \/ StopServer \/ DestroyServer
           \/ ShutdownButton \/ DestroyButton \/ DestroyAlarm
    PROVE  LifeInv'
<1> USE DEF Destroyed, Destroys, seenVars, flags,
            DestroyPlain, StopServer, DestroyServer, ShutdownButton, DestroyButton, DestroyAlarm
<1>1. UNCHANGED <<main, pc, failed, misused>> /\ main = "destroy"
  OBVIOUS
<1>2. LifetimesRespected'
  BY <1>1 DEF LifeInv, LifetimesRespected, MayOutlive
<1>3. ThreadsOK' /\ MembersLive' /\ LoopLives' /\ AlarmsLive'
  BY <1>1 DEF LifeInv, ThreadsOK, MembersLive, LoopLives, AlarmsLive, Runs
<1>4. NetLives' /\ ButtonLives'
  <2>1. /\ Members[1] = "screen" /\ Members[2] = "buzzer" /\ Members[3] = "alarmMan"
        /\ Members[4] = "button" /\ Members[5] = "server" /\ Members[6] = "results"
        /\ Members[7] = "appMutex"
    BY DEF Members
  <2>2. alive \in 0 .. 7 /\ (alive' = alive \/ alive' = alive - 1)
    BY DEF LifeInv, MembersLive
  <2>3. ~Runs("net") \/ alive' >= 5
    BY <1>1, <2>1, <2>2 DEF LifeInv, NetLives, Runs
  <2>4. ~Runs("button") \/ alive' >= 4
    BY <1>1, <2>1, <2>2 DEF LifeInv, ButtonLives, Runs
  <2> QED
    BY <1>1, <2>3, <2>4 DEF LifeInv, NetLives, ButtonLives, Runs
<1> QED
  BY <1>2, <1>3, <1>4 DEF LifeInv

LEMMA InitLife == Init => LifeInv
BY DEF Init, LifeInv, ThreadsOK, Places, Labels, MembersLive, NetLives, ButtonLives,
       LoopLives, AlarmsLive, Runs, Thread, LifetimesRespected

LEMMA StepLife == LifeInv /\ [Next]_vars => LifeInv'
<1> SUFFICES ASSUME LifeInv, [Next]_vars PROVE LifeInv'
  OBVIOUS
<1>1. CASE Crash \/ Return
  BY <1>1, OffIsFine DEF Crash, Return
<1>2. CASE UNCHANGED vars
  BY <1>2 DEF vars, threadVars, seenVars, LifeInv, ThreadsOK, MembersLive, NetLives,
              ButtonLives, LoopLives, AlarmsLive, Runs, LifetimesRespected, MayOutlive
<1> QED
  BY <1>1, <1>2, StartStep, DestroyStep, ButtonStep, NetStep, LoopStep, AlarmStep
     DEF Next, MainRuns

(****************************************************************************)
(* Destroyed members are used only by the button's thread, after Start(),    *)
(* by alarm threads, and by the io thread when the listener failed.          *)
(****************************************************************************)
THEOREM LifetimesCorrect == Spec => []LifetimesRespected
BY InitLife, StepLife, PTL DEF Spec, LifeInv

-------------------------------------------------------------------------------
(* appMutex_, and what the end of the program waits for.                     *)

\* Inside a lock_guard.
Guarded == {"toggle", "getLast", "setAlarm", "measure", "ring"}

(****************************************************************************)
(* The collection of results never has two users of which one changes it:    *)
(* the threads' sections exclude each other from the first start to the last *)
(* destructor, nobody runs yet while the history is loaded, and neither the  *)
(* display loop, which appends, nor the io thread is left while it is saved. *)
(****************************************************************************)
ResultsAreGuarded ==
    /\ \A t, u \in Thread : pc[t] \in Guarded /\ pc[u] \in Guarded => t = u
    /\ main \in {"off", "load"} => \A t \in Thread : ~Runs(t)
    /\ main \in {"open", "write"} => ~Runs("net") /\ ~Runs("loop")

\* The labels at which a thread waits for appMutex_.
AtLock == {"click", "last", "set", "wait", "due"}

\* t waits for nobody: a step of its own is possible.
GoesOn(t) ==
    \/ pc[t] \in Guarded
    \/ t = "net" /\ (pc[t] = "writing" \/ (stopped /\ pc[t] \in {"idle", "reply"}))
    \/ t = "button" /\ (pc[t] = "off" \/ (~work /\ pc[t] \in {"idle", "pressed"}))
    \/ t = "loop" /\ ~appFlag /\ pc[t] = "check"

\* The joins of the end: Server::Stop and Start(), then ~Server and ~Button,
\* which clear the flag themselves.
Joins(t) ==
    \/ t = "net" /\ main = "joinNet"
    \/ t = "loop" /\ main = "joinLoop"
    \/ t = "net" /\ Destroys("server") /\ stopped
    \/ t = "button" /\ Destroys("button") /\ ~work

(****************************************************************************)
(* A thread that the end of the program joins has been told to end, and goes *)
(* on or waits for appMutex_, which is free or held by a thread that goes    *)
(* on.  The two that may keep the end waiting are an io thread that writes   *)
(* to a client which does not read, and a button that joins a buzzer turned  *)
(* on again.                                                                 *)
(****************************************************************************)
ExitIsPrepared ==
    \A t \in Thread : Joins(t) /\ Runs(t) =>
        \/ GoesOn(t)
        \/ pc[t] \in AtLock /\ (mutex = "nobody" \/ (mutex \in Thread /\ GoesOn(mutex)))
        \/ t = "net" /\ pc[t] = "stuck"
        \/ t = "button" /\ pc[t] = "hung"

LockInv ==
    /\ mutex \in Thread \cup {"nobody"}
    /\ \A t \in Thread : pc[t] \in Guarded <=> mutex = t

ToldInv ==
    /\ main = "joinNet" => stopped
    /\ main = "joinLoop" => ~appFlag
    /\ main \in {"off", "load", "setup", "server"} => \A w \in Alarms : ~Runs(w)

LEMMA NobodyIsNoThread == "nobody" \notin Thread
  BY AlarmsAreThreads DEF Thread

\* One thread goes on, outside, into, inside or out of its section.
LEMMA LockFollows ==
    ASSUME ThreadsOK, LockInv, NEW t \in Thread, NEW l, pc' = [pc EXCEPT ![t] = l],
           \/ pc[t] \notin Guarded /\ l \notin Guarded /\ UNCHANGED mutex
           \/ mutex = "nobody" /\ mutex' = t /\ l \in Guarded
           \/ pc[t] \in Guarded /\ l \notin Guarded /\ mutex' = "nobody"
    PROVE  LockInv'
<1>1. pc'[t] = l /\ \A u \in Thread : u # t => pc'[u] = pc[u]
  BY DEF ThreadsOK
<1>2. CASE pc[t] \notin Guarded /\ l \notin Guarded /\ UNCHANGED mutex
  BY <1>1, <1>2 DEF LockInv
<1>3. CASE mutex = "nobody" /\ mutex' = t /\ l \in Guarded
  BY <1>1, <1>3, NobodyIsNoThread DEF LockInv
<1>4. CASE pc[t] \in Guarded /\ l \notin Guarded /\ mutex' = "nobody"
  BY <1>1, <1>4, NobodyIsNoThread DEF LockInv
<1> QED BY <1>2, <1>3, <1>4

LEMMA LockStep == LifeInv /\ LockInv /\ [Next]_vars => LockInv'
<1> SUFFICES ASSUME LifeInv, LockInv, [Next]_vars PROVE LockInv'
  OBVIOUS
<1>1. ThreadsOK
  BY DEF LifeInv
<1>2. ASSUME NEW t \in Thread, NEW a, NEW b, Goto(t, a, b), a \notin Guarded, b \notin Guarded,
             UNCHANGED mutex
      PROVE  LockInv'
  BY <1>1, <1>2, LockFollows DEF Goto
<1>3. ASSUME NEW t \in Thread, NEW a, NEW b \in Guarded, Lock(t, a, b) PROVE LockInv'
  BY <1>1, <1>3, LockFollows DEF Lock
<1>4. ASSUME NEW t \in Thread, NEW a \in Guarded, NEW b, b \notin Guarded, Unlock(t, a, b)
      PROVE  LockInv'
  BY <1>1, <1>4, LockFollows DEF Unlock, Goto
<1>5. ASSUME UNCHANGED <<pc, mutex>> PROVE LockInv'
  BY <1>5 DEF LockInv
<1>6. {"net", "button", "loop"} \subseteq Thread /\ Alarms \subseteq Thread
  BY DEF Thread
<1>7. CASE Off
  BY <1>7, NobodyIsNoThread DEF Off, LockInv, Guarded
<1>8. CASE \/ Construct \/ Enter \/ Load \/ SetupThrows \/ Setup
           \/ ServerStart \/ ListenerStart \/ ListenerThrows \/ StartDisplay
           \/ JoinNet \/ StopLoop \/ JoinLoop \/ Open \/ Write
  <2>1. UNCHANGED mutex
    BY <1>8 DEF Construct, Enter, Load, SetupThrows, Setup, ServerStart, ListenerStart,
                ListenerThrows, StartDisplay, JoinNet, StopLoop, JoinLoop, Open, Write
  <2>2. UNCHANGED pc \/ \E t \in {"net", "button", "loop"}, b \in {"idle", "check"} :
                           Goto(t, "none", b)
    BY <1>8 DEF Construct, Enter, Load, SetupThrows, Setup, ServerStart, ListenerStart,
                ListenerThrows, StartDisplay, JoinNet, StopLoop, JoinLoop, Open, Write
  <2> QED BY <1>2, <1>5, <1>6, <2>1, <2>2 DEF Guarded
<1>9. CASE \/ DestroyPlain \/ StopServer \/ DestroyServer
           \/ ShutdownButton \/ DestroyButton \/ DestroyAlarm
  BY <1>5, <1>9 DEF DestroyPlain, StopServer, DestroyServer, ShutdownButton, DestroyButton,
                    DestroyAlarm
<1>10. CASE Press \/ LetGo \/ Hold \/ ButtonRuns
  <2>1. CASE ClickLock
    BY <1>3, <1>6, <2>1 DEF ClickLock, Guarded
  <2>2. CASE NextDisplayMode
    BY <1>4, <1>6, <2>2 DEF NextDisplayMode, Guarded
  <2>3. CASE Press \/ LetGo \/ Hold \/ HoldEnds \/ ButtonEnds
    <3>1. /\ UNCHANGED mutex
          /\ \E a \in {"idle", "pressed", "off"}, b \in {"pressed", "click", "off", "idle", "none"} :
                Goto("button", a, b)
      BY <2>3 DEF Press, LetGo, Hold, HoldEnds, ButtonEnds, Moves
    <3> QED BY <1>2, <1>6, <3>1 DEF Guarded
  <2> QED BY <1>10, <2>1, <2>2, <2>3 DEF ButtonRuns
<1>11. CASE Request \/ NetRuns
  <2>1. CASE FrameLock
    BY <1>3, <1>6, <2>1 DEF FrameLock, Guarded
  <2>2. CASE GetLastResult
    BY <1>4, <1>6, <2>2 DEF GetLastResult, Guarded
  <2>3. CASE SetClockAlarm
    <3>1. PICK w \in Alarms, b \in OffAgain :
              /\ pc[w] = "none"
              /\ pc' = [pc EXCEPT !["net"] = "idle", ![w] = "asleep", !["button"] = b]
      BY <2>3 DEF SetClockAlarm
    <3>2. mutex' = "nobody" /\ pc["net"] = "setAlarm"
      BY <2>3 DEF SetClockAlarm
    <3>3. /\ pc'["net"] = "idle" /\ pc'[w] = "asleep"
          /\ pc'["button"] \in {"hung", "off", pc["button"]}
          /\ \A u \in Thread : u \notin {"net", w, "button"} => pc'[u] = pc[u]
      BY <1>1, <1>6, <3>1, AlarmsAreThreads DEF ThreadsOK, OffAgain
    <3>4. mutex = "net"
      BY <1>6, <3>2 DEF LockInv, Guarded
    <3>5. \A u \in Thread : pc'[u] \notin Guarded
      BY <1>6, <3>3, <3>4 DEF LockInv, Guarded
    <3> QED BY <3>2, <3>5, NobodyIsNoThread DEF LockInv
  <2>4. CASE Request \/ Reply \/ Replied \/ ClientIsDeaf \/ NetEnds
    <3>1. /\ UNCHANGED mutex
          /\ \E a \in {"idle", "reply", "writing"},
                b \in {"last", "set", "writing", "idle", "stuck", "none"} : Goto("net", a, b)
      BY <2>4 DEF Request, Reply, Replied, ClientIsDeaf, NetEnds, Moves
    <3> QED BY <1>2, <1>6, <3>1 DEF Guarded
  <2> QED BY <1>11, <2>1, <2>2, <2>3, <2>4 DEF NetRuns
<1>12. CASE LoopRuns
  <2>1. CASE LoopLock
    BY <1>3, <1>6, <2>1 DEF LoopLock, Guarded
  <2>2. CASE MeasureAndDisplay
    BY <1>4, <1>6, <2>2 DEF MeasureAndDisplay, Guarded
  <2>3. CASE LoopGoesOn \/ LoopEnds
    <3>1. UNCHANGED mutex /\ \E b \in {"wait", "none"} : Goto("loop", "check", b)
      BY <2>3 DEF LoopGoesOn, LoopEnds, Moves
    <3> QED BY <1>2, <1>6, <3>1 DEF Guarded
  <2> QED BY <1>12, <2>1, <2>2, <2>3 DEF LoopRuns
<1>13. ASSUME NEW w \in Alarms, AlarmRuns(w) PROVE LockInv'
  <2>1. CASE RingLock(w)
    BY <1>3, <1>6, <2>1 DEF RingLock, Guarded
  <2>2. CASE Ring(w)
    <3>1. /\ pc[w] = "ring" /\ pc'[w] = "rung"
          /\ pc'["button"] \in {"off", "hung", pc["button"]}
          /\ \A s \in Thread : s \notin {w, "button"} => pc'[s] = pc[s]
      BY <1>1, <2>2, RingChanges
    <3>2. mutex = w /\ mutex' = "nobody" /\ w # "button"
      BY <1>6, <2>2, <3>1, AlarmsAreThreads DEF Ring, LockInv, Guarded
    <3>3. \A u \in Thread : pc'[u] \notin Guarded
      BY <1>6, <3>1, <3>2 DEF LockInv, Guarded
    <3> QED BY <3>2, <3>3, NobodyIsNoThread DEF LockInv
  <2>3. CASE AlarmLooks(w) \/ Rung(w)
    <3>1. /\ UNCHANGED mutex
          /\ \E a \in {"asleep", "rung"}, b \in {"due", "none", "asleep"} : Goto(w, a, b)
      BY <2>3 DEF AlarmLooks, Rung
    <3> QED BY <1>2, <1>6, <3>1 DEF Guarded
  <2> QED BY <1>13, <2>1, <2>2, <2>3 DEF AlarmRuns
<1>14. CASE UNCHANGED vars
  BY <1>5, <1>14 DEF vars, threadVars
<1> QED
  BY <1>7, <1>8, <1>9, <1>10, <1>11, <1>12, <1>13, <1>14 DEF Next, MainRuns, Crash, Return

LEMMA ToldStep == LifeInv /\ ToldInv /\ [Next]_vars => ToldInv'
<1> SUFFICES ASSUME LifeInv, ToldInv, [Next]_vars PROVE ToldInv'
  OBVIOUS
<1>1. CASE Off
  BY <1>1 DEF Off, ToldInv, Runs, Thread
<1>2. ASSUME UNCHANGED <<main, stopped, appFlag>>, \A w \in Alarms : Runs(w)' => Runs(w)
      PROVE  ToldInv'
  BY <1>2 DEF ToldInv
<1>3. ASSUME NEW t \in Thread, NEW a, NEW b, Goto(t, a, b), a # "none"
      PROVE  \A w \in Alarms : Runs(w)' => Runs(w)
  BY <1>3 DEF Goto, Runs, LifeInv, ThreadsOK, Thread
<1>4. CASE \/ Construct \/ Enter \/ Load \/ SetupThrows \/ Setup
           \/ ServerStart \/ ListenerStart \/ ListenerThrows \/ StartDisplay
           \/ JoinNet \/ StopLoop \/ JoinLoop \/ Open \/ Write
  <2>1. \A w \in Alarms : Runs(w)' <=> Runs(w)
    <3>1. UNCHANGED pc \/ \E t \in {"net", "button", "loop"}, b \in {"idle", "check"} :
                             Goto(t, "none", b)
      BY <1>4 DEF Construct, Enter, Load, SetupThrows, Setup, ServerStart, ListenerStart,
                  ListenerThrows, StartDisplay, JoinNet, StopLoop, JoinLoop, Open, Write
    <3>2. \A w \in Alarms : w \in Thread /\ w \notin {"net", "button", "loop"}
      BY AlarmsAreThreads DEF Thread
    <3> QED BY <3>1, <3>2 DEF Goto, Runs, LifeInv, ThreadsOK
  <2>2. /\ main' \in {"off", "load", "setup", "server"} =>
              main \in {"off", "load", "setup", "server"}
        /\ main' = "joinNet" => stopped'
        /\ main' = "joinLoop" => ~appFlag'
    BY <1>4 DEF Construct, Enter, Load, SetupThrows, Setup, ServerStart, ListenerStart, StepsTo,
                ListenerThrows, StartDisplay, JoinNet, StopLoop, JoinLoop, Open, Write
  <2> QED BY <2>1, <2>2 DEF ToldInv
<1>5. CASE \/ DestroyPlain \/ StopServer \/ DestroyServer
           \/ ShutdownButton \/ DestroyButton \/ DestroyAlarm
  <2>1. main = "destroy" /\ UNCHANGED main
    BY <1>5 DEF DestroyPlain, StopServer, DestroyServer, ShutdownButton, DestroyButton,
                DestroyAlarm, Destroyed, Destroys
  <2> QED BY <2>1 DEF ToldInv
<1>6. CASE \/ Press \/ LetGo \/ Hold \/ ButtonRuns \/ LoopRuns
           \/ Request \/ (NetRuns /\ ~SetClockAlarm)
  <2>1. UNCHANGED <<main, stopped, appFlag>>
    BY <1>6 DEF Press, LetGo, Hold, HoldEnds, ButtonRuns, ClickLock, NextDisplayMode, ButtonEnds,
                LoopRuns, LoopGoesOn, LoopEnds, LoopLock, MeasureAndDisplay,
                Request, NetRuns, FrameLock, GetLastResult, Reply, Replied, ClientIsDeaf, NetEnds,
                Moves, Lock, flags
  <2>2. \E t \in {"net", "button", "loop"}, b \in Labels : pc' = [pc EXCEPT ![t] = b]
    BY <1>6 DEF Press, LetGo, Hold, HoldEnds, ButtonRuns, ClickLock, NextDisplayMode, ButtonEnds,
                LoopRuns, LoopGoesOn, LoopEnds, LoopLock, MeasureAndDisplay,
                Request, NetRuns, FrameLock, GetLastResult, Reply, Replied, ClientIsDeaf, NetEnds,
                Moves, Lock, Unlock, Goto, Labels
  <2>3. \A w \in Alarms : w \in Thread /\ w \notin {"net", "button", "loop"}
    BY AlarmsAreThreads DEF Thread
  <2>4. \A w \in Alarms : pc'[w] = pc[w]
    BY <2>2, <2>3 DEF LifeInv, ThreadsOK
  <2> QED BY <1>2, <2>1, <2>4 DEF Runs
<1>7. CASE SetClockAlarm
  <2>1. UNCHANGED <<main, stopped, appFlag>> /\ Runs("net")
    BY <1>7 DEF SetClockAlarm, Runs
  <2>2. main \notin {"off", "load", "setup", "server"}
    BY <2>1 DEF LifeInv, NetLives
  <2> QED BY <2>1, <2>2 DEF ToldInv
<1>8. ASSUME NEW w \in Alarms, AlarmRuns(w) PROVE ToldInv'
  <2>1. UNCHANGED <<main, stopped, appFlag>>
    BY <1>8 DEF AlarmRuns, AlarmLooks, RingLock, Ring, Rung, Lock, flags
  <2>2. CASE Ring(w)
    <3>1. \A v \in Alarms : Runs(v)' => Runs(v)
      BY <2>2, RingChanges, AlarmsAreThreads DEF LifeInv, Runs, Thread
    <3> QED BY <1>2, <2>1, <3>1
  <2>3. CASE ~Ring(w)
    <3>1. \E a \in {"asleep", "due", "rung"}, b \in Labels : Goto(w, a, b)
      BY <1>8, <2>3 DEF AlarmRuns, AlarmLooks, RingLock, Rung, Lock, Goto, Labels
    <3> QED BY <1>2, <1>3, <2>1, <3>1 DEF Thread
  <2> QED BY <2>2, <2>3
<1>9. CASE UNCHANGED vars
  BY <1>2, <1>9 DEF vars, threadVars, flags, Runs
<1> QED
  BY <1>1, <1>4, <1>5, <1>6, <1>7, <1>8, <1>9 DEF Next, MainRuns, Crash, Return

LEMMA LockAlways == Spec => [](LifeInv /\ LockInv /\ ToldInv)
<1>1. Init => LockInv /\ ToldInv
  BY NobodyIsNoThread DEF Init, LockInv, ToldInv, Guarded, Runs, Thread
<1> QED BY <1>1, InitLife, StepLife, LockStep, ToldStep, PTL DEF Spec

(****************************************************************************)
(* From loading to saving nobody reads the results while another thread      *)
(* changes them, whichever threads a failed start or the end has left.       *)
(****************************************************************************)
THEOREM ResultsGuarded == Spec => []ResultsAreGuarded
<1>1. LifeInv /\ LockInv /\ ToldInv => ResultsAreGuarded
  <2> SUFFICES ASSUME LifeInv, LockInv, ToldInv PROVE ResultsAreGuarded
    OBVIOUS
  <2>1. \A t, u \in Thread : pc[t] \in Guarded /\ pc[u] \in Guarded => t = u
    BY DEF LockInv
  <2>2. main \in {"off", "load"} => \A t \in Thread : ~Runs(t)
    BY DEF LifeInv, NetLives, ButtonLives, LoopLives, ToldInv, Thread
  <2>3. main \in {"open", "write"} => ~Runs("net") /\ ~Runs("loop")
    BY DEF LifeInv, NetLives, LoopLives
  <2> QED BY <2>1, <2>2, <2>3 DEF ResultsAreGuarded
<1> QED BY <1>1, LockAlways, PTL

-------------------------------------------------------------------------------
\* Where each thread can be.
PlacesInv ==
    /\ pc["net"] \in {"none", "idle", "last", "set", "getLast", "setAlarm",
                     "reply", "writing", "stuck"}
    /\ pc["button"] \in {"none", "idle", "pressed", "off", "hung", "click", "toggle"}
    /\ pc["loop"] \in {"none", "check", "wait", "measure"}

LEMMA PlacesStep == LifeInv /\ PlacesInv /\ [Next]_vars => PlacesInv'
<1> SUFFICES ASSUME LifeInv, PlacesInv, [Next]_vars PROVE PlacesInv'
  OBVIOUS
<1>1. ThreadsOK
  BY DEF LifeInv
<1>2. /\ {"net", "button", "loop"} \subseteq Thread /\ Alarms \subseteq Thread
      /\ Alarms \cap {"net", "button", "loop"} = {}
  BY AlarmsAreThreads DEF Thread
<1>3. CASE UNCHANGED pc
  BY <1>3 DEF PlacesInv
<1>4. CASE Off
  BY <1>2, <1>4 DEF Off, PlacesInv
<1>5. CASE \/ Construct \/ Enter \/ Load \/ SetupThrows \/ Setup
           \/ ServerStart \/ ListenerStart \/ ListenerThrows \/ StartDisplay
           \/ JoinNet \/ StopLoop \/ JoinLoop \/ Open \/ Write
  <2>1. UNCHANGED pc \/ Goto("button", "none", "idle") \/ Goto("net", "none", "idle")
        \/ Goto("loop", "none", "check")
    BY <1>5 DEF Construct, Enter, Load, SetupThrows, Setup, ServerStart, ListenerStart,
                ListenerThrows, StartDisplay, JoinNet, StopLoop, JoinLoop, Open, Write
  <2> QED BY <1>1, <1>2, <1>3, <2>1 DEF Goto, ThreadsOK, PlacesInv
<1>6. CASE \/ DestroyPlain \/ StopServer \/ DestroyServer
           \/ ShutdownButton \/ DestroyButton \/ DestroyAlarm
  BY <1>3, <1>6 DEF DestroyPlain, StopServer, DestroyServer, ShutdownButton, DestroyButton,
                    DestroyAlarm
<1>7. CASE Press \/ LetGo \/ Hold \/ ButtonRuns
  <2>1. \E b \in {"none", "idle", "pressed", "off", "click", "toggle"} :
           pc' = [pc EXCEPT !["button"] = b]
    BY <1>7 DEF Press, LetGo, Hold, HoldEnds, ButtonRuns, ClickLock, NextDisplayMode, ButtonEnds,
                Moves, Lock, Unlock, Goto
  <2> QED BY <1>1, <1>2, <2>1 DEF ThreadsOK, PlacesInv
<1>8. CASE Request \/ (NetRuns /\ ~SetClockAlarm)
  <2>1. \E b \in {"none", "idle", "last", "set", "getLast", "setAlarm", "reply", "writing", "stuck"} :
           pc' = [pc EXCEPT !["net"] = b]
    BY <1>8 DEF Request, NetRuns, FrameLock, GetLastResult, Reply, Replied, ClientIsDeaf, NetEnds,
                Moves, Lock, Unlock, Goto
  <2> QED BY <1>1, <1>2, <2>1 DEF ThreadsOK, PlacesInv
<1>9. CASE SetClockAlarm
  <2>1. PICK w \in Alarms, b \in OffAgain :
            pc' = [pc EXCEPT !["net"] = "idle", ![w] = "asleep", !["button"] = b]
    BY <1>9 DEF SetClockAlarm
  <2>2. pc'["net"] = "idle" /\ pc'["button"] = b /\ pc'["loop"] = pc["loop"]
    BY <1>1, <1>2, <2>1 DEF ThreadsOK
  <2> QED BY <2>2 DEF OffAgain, PlacesInv
<1>10. CASE LoopRuns
  <2>1. \E b \in {"none", "check", "wait", "measure"} : pc' = [pc EXCEPT !["loop"] = b]
    BY <1>10 DEF LoopRuns, LoopGoesOn, LoopEnds, LoopLock, MeasureAndDisplay,
                 Moves, Lock, Unlock, Goto
  <2> QED BY <1>1, <1>2, <2>1 DEF ThreadsOK, PlacesInv
<1>11. ASSUME NEW w \in Alarms, AlarmRuns(w) PROVE PlacesInv'
  <2>1. CASE Ring(w)
    <3>1. /\ pc'["button"] \in {"off", "hung", pc["button"]}
          /\ pc'["net"] = pc["net"] /\ pc'["loop"] = pc["loop"]
      BY <1>1, <1>2, <2>1, RingChanges
    <3> QED BY <3>1 DEF PlacesInv
  <2>2. CASE ~Ring(w)
    <3>1. \E b \in Labels : pc' = [pc EXCEPT ![w] = b]
      BY <1>11, <2>2 DEF AlarmRuns, AlarmLooks, RingLock, Rung, Lock, Goto, Labels
    <3> QED BY <1>1, <1>2, <3>1 DEF ThreadsOK, PlacesInv
  <2> QED BY <2>1, <2>2
<1>12. CASE UNCHANGED vars
  BY <1>3, <1>12 DEF vars, threadVars
<1> QED
  BY <1>4, <1>5, <1>6, <1>7, <1>8, <1>9, <1>10, <1>11, <1>12 DEF Next, MainRuns, Crash, Return

LEMMA PlacesAlways == Spec => []PlacesInv
<1>1. Init => PlacesInv
  BY DEF Init, PlacesInv, Thread
<1> QED BY <1>1, LockAlways, PlacesStep, PTL DEF Spec

(****************************************************************************)
(* Whatever the threads were doing and however the end came about, nobody    *)
(* keeps Server::Stop, the join of the display loop, ~Server or ~Button      *)
(* waiting but a deaf client and a buzzer that was turned on again.          *)
(****************************************************************************)
THEOREM ExitPrepared == Spec => []ExitIsPrepared
<1>1. LifeInv /\ LockInv /\ ToldInv /\ PlacesInv => ExitIsPrepared
  <2> SUFFICES ASSUME LifeInv, LockInv, ToldInv, PlacesInv,
                      NEW t \in Thread, Joins(t), Runs(t)
               PROVE  \/ GoesOn(t)
                      \/ pc[t] \in AtLock /\ (mutex = "nobody" \/ (mutex \in Thread /\ GoesOn(mutex)))
                      \/ t = "net" /\ pc[t] = "stuck"
                      \/ t = "button" /\ pc[t] = "hung"
    BY DEF ExitIsPrepared
  <2>1. mutex = "nobody" \/ (mutex \in Thread /\ GoesOn(mutex))
    BY DEF LockInv, GoesOn
  <2>2. CASE t = "net"
    <3>1. stopped
      BY <2>2 DEF Joins, ToldInv
    <3> QED BY <2>1, <2>2, <3>1 DEF PlacesInv, GoesOn, Guarded, AtLock, Runs
  <2>3. CASE t = "button"
    <3>1. ~work
      BY <2>3 DEF Joins
    <3> QED BY <2>1, <2>3, <3>1 DEF PlacesInv, GoesOn, Guarded, AtLock, Runs
  <2>4. CASE t = "loop"
    <3>1. ~appFlag
      BY <2>4 DEF Joins, ToldInv
    <3> QED BY <2>1, <2>4, <3>1 DEF PlacesInv, GoesOn, Guarded, AtLock, Runs
  <2> QED BY <2>2, <2>3, <2>4 DEF Joins
<1> QED BY <1>1, LockAlways, PlacesAlways, PTL
==============================================================================
