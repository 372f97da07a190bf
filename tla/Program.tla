------------------------------- MODULE Program --------------------------------
(****************************************************************************)
(* A run of the clock program from main() to its end, again and again:       *)
(* Application's members are constructed, Start() loads the history and      *)
(* starts one thread after the other, waits for a key, stops and joins some  *)
(* of them and saves; then the members are destroyed in the reverse order    *)
(* of their declaration while the button's thread and the alarm threads      *)
(* still run.  Setting up the hardware or the listener may throw, and the    *)
(* process may be killed at any time.                                        *)
(*                                                                          *)
(* What the threads do is reduced to the members they use; AlarmClock has    *)
(* the display's mode and how operations on the alarm interleave.            *)
(****************************************************************************)
EXTENDS Measurements

CONSTANT Alarms          \* alarm threads: the bound on how many exist at once

Thread == {"net", "button", "loop"} \cup Alarms

ASSUME AlarmsAreThreads == Alarms \cap {"net", "button", "loop", "nobody"} = {}

VARIABLES
    main,         \* where the main thread is
    alive,        \* how many of Members are not destroyed
    pc,           \* where the other threads are
    mutex,        \* the thread that holds appMutex_, or "nobody"
    stopped,      \* io_service_.stopped() of the server
    work,         \* Button::work_
    appFlag,      \* Application::appFlag_
    workerFlag,   \* AlarmManager::workerFlag_
    loaded,       \* history: how many results this start has loaded
    failed,       \* history: the listener could not be started
    misused,      \* history: <<thread, destroyed member it used>>
    emptyRead     \* history: back() was called on an empty collection

flags == <<stopped, work, appFlag, workerFlag>>
threadVars == <<main, alive, pc, mutex, flags>>
seenVars == <<loaded, failed, misused, emptyRead>>
vars == <<logVars, threadVars, seenVars>>

\* Application's members, as declared.
Members == <<"screen", "buzzer", "alarmMan", "button", "server", "results", "appMutex">>

Alive(m) == \E i \in 1 .. alive : Members[i] = m

\* The process is gone, and everything in its memory.
Off ==
    /\ main' = "off" /\ alive' = 0
    /\ pc' = [t \in Thread |-> "none"]
    /\ mutex' = "nobody"
    /\ stopped' = FALSE /\ work' = FALSE /\ appFlag' = FALSE /\ workerFlag' = FALSE
    /\ loaded' = 0 /\ failed' = FALSE /\ misused' = {} /\ emptyRead' = FALSE
    /\ Forget

Init ==
    /\ MeasurementsInit
    /\ main = "off" /\ alive = 0
    /\ pc = [t \in Thread |-> "none"]
    /\ mutex = "nobody"
    /\ stopped = FALSE /\ work = FALSE /\ appFlag = FALSE /\ workerFlag = FALSE
    /\ loaded = 0 /\ failed = FALSE /\ misused = {} /\ emptyRead = FALSE

-------------------------------------------------------------------------------
(* What threads do to members.                                               *)

Use(t, ms) == misused' = misused \cup {<<t, m>> : m \in {x \in ms : ~Alive(x)}}

Uses(t, ms) == Use(t, ms) /\ UNCHANGED <<loaded, failed, emptyRead>>

\* resultsCollection_.back(), among other uses
ReadsLast(t, ms) ==
    /\ Use(t, ms \cup {"results"})
    /\ emptyRead' = (emptyRead \/ (Alive("results") /\ results = <<>>))
    /\ UNCHANGED <<loaded, failed>>

Lock(t, from, to) ==
    /\ pc[t] = from
    /\ mutex = "nobody" /\ mutex' = t
    /\ pc' = [pc EXCEPT ![t] = to]
    /\ Uses(t, {"appMutex"})
    /\ UNCHANGED <<logVars, main, alive, flags>>

Goto(t, from, to) ==
    /\ pc[t] = from
    /\ pc' = [pc EXCEPT ![t] = to]

Unlock(t, from, to) == Goto(t, from, to) /\ mutex' = "nobody"

\* A step of t that uses nothing which is destroyed and changes nothing else.
Moves(t, from, to) ==
    /\ Goto(t, from, to)
    /\ UNCHANGED <<logVars, seenVars, main, alive, mutex, flags>>

-------------------------------------------------------------------------------
(* The main thread.  Slips first.                                            *)

StepsTo(from, to) == main = from /\ main' = to


SavesTooEarly ==
    /\ StepsTo("joinLoop", "open")
    /\ UNCHANGED <<logVars, seenVars, alive, pc, mutex, flags>>

LoadKeepsNothing ==
    /\ StepsTo("load", "setup")
    /\ loaded' = Len(results)
    /\ UNCHANGED <<logVars, alive, pc, mutex, flags>>
    /\ UNCHANGED <<failed, misused, emptyRead>>

\* The constructors; the acceptor's port is bound here.
Construct ==
    /\ StepsTo("off", "load")
    /\ alive' = Len(Members)
    /\ UNCHANGED <<logVars, seenVars, pc, mutex, flags>>

Load ==
    /\ StepsTo("load", "setup")
    /\ LoadResults
    /\ loaded' = Len(results')
    /\ UNCHANGED <<alive, pc, mutex, flags>>
    /\ UNCHANGED <<failed, misused, emptyRead>>

\* wiringPi, the display or the sensor cannot be set up: Start() throws.
SetupThrows ==
    /\ StepsTo("setup", "destroy")
    /\ UNCHANGED <<logVars, seenVars, alive, pc, mutex, flags>>

\* Everything is set up, the button last.
Setup ==
    /\ StepsTo("setup", "server")
    /\ work' = TRUE
    /\ Goto("button", "none", "idle")
    /\ UNCHANGED <<logVars, seenVars, alive, mutex, stopped, appFlag, workerFlag>>

ServerStart ==
    /\ StepsTo("server", "listener")
    /\ Goto("net", "none", "idle")
    /\ UNCHANGED <<logVars, seenVars, alive, mutex, flags>>

ListenerStart ==
    /\ StepsTo("listener", "display")
    /\ UNCHANGED <<logVars, seenVars, alive, pc, mutex, flags>>

\* Opening or binding its socket throws, with two threads running.
ListenerThrows ==
    /\ StepsTo("listener", "destroy")
    /\ failed' = TRUE
    /\ UNCHANGED <<loaded, misused, emptyRead>>
    /\ UNCHANGED <<logVars, alive, pc, mutex, flags>>

StartDisplay ==
    /\ StepsTo("display", "run")
    /\ appFlag' = TRUE
    /\ Goto("loop", "none", "check")
    /\ UNCHANGED <<logVars, seenVars, alive, mutex, stopped, work, workerFlag>>

\* cin.get() returns, and server_.Stop() stops its io_service.
Enter ==
    /\ StepsTo("run", "joinNet")
    /\ stopped' = TRUE
    /\ UNCHANGED <<logVars, seenVars, alive, pc, mutex, work, appFlag, workerFlag>>

JoinNet ==
    /\ StepsTo("joinNet", "stopLoop")
    /\ pc["net"] = "none"
    /\ UNCHANGED <<logVars, seenVars, alive, pc, mutex, flags>>

StopLoop ==
    /\ StepsTo("stopLoop", "joinLoop")
    /\ appFlag' = FALSE
    /\ UNCHANGED <<logVars, seenVars, alive, pc, mutex, stopped, work, workerFlag>>

JoinLoop ==
    /\ StepsTo("joinLoop", "open")
    /\ pc["loop"] = "none"
    /\ UNCHANGED <<logVars, seenVars, alive, pc, mutex, flags>>

\* SaveResults
Open ==
    /\ StepsTo("open", "write")
    /\ SaveOpen
    /\ UNCHANGED <<seenVars, alive, pc, mutex, flags>>

Write ==
    /\ StepsTo("write", "destroy")
    /\ SaveWrite
    /\ UNCHANGED <<seenVars, alive, pc, mutex, flags>>

-------------------------------------------------------------------------------
(* The destructors, the last member's first.  Slips first.                   *)

Destroys(m) == main = "destroy" /\ alive > 0 /\ Members[alive] = m

Destroyed(m) == Destroys(m) /\ alive' = alive - 1

DestroyButtonDetaches ==
    /\ Destroyed("button")
    /\ work' = FALSE
    /\ UNCHANGED <<logVars, seenVars, main, pc, mutex, stopped, appFlag, workerFlag>>

\* Nothing waits for these (the buzzer's own thread is joined).
DestroyPlain ==
    /\ \E m \in {"appMutex", "results", "buzzer", "screen"} : Destroyed(m)
    /\ UNCHANGED <<logVars, seenVars, main, pc, mutex, flags>>

\* ~Server stops and joins once more, which matters after ListenerThrows.
StopServer ==
    /\ Destroys("server")
    /\ stopped' = TRUE
    /\ UNCHANGED <<logVars, seenVars, main, alive, pc, mutex, work, appFlag, workerFlag>>

DestroyServer ==
    /\ Destroyed("server")
    /\ stopped /\ pc["net"] = "none"
    /\ UNCHANGED <<logVars, seenVars, main, pc, mutex, flags>>

ShutdownButton ==
    /\ Destroys("button")
    /\ work' = FALSE
    /\ UNCHANGED <<logVars, seenVars, main, alive, pc, mutex, stopped, appFlag, workerFlag>>

DestroyButton ==
    /\ Destroyed("button")
    /\ ~work /\ pc["button"] = "none"
    /\ UNCHANGED <<logVars, seenVars, main, pc, mutex, flags>>

\* StopWorker detaches the alarm thread.
DestroyAlarm ==
    /\ Destroyed("alarmMan")
    /\ workerFlag' = FALSE
    /\ UNCHANGED <<logVars, seenVars, main, pc, mutex, stopped, work, appFlag>>

\* main() returns, or its catch does: detached threads end with the process.
Return ==
    /\ main = "destroy" /\ alive = 0
    /\ Off

\* Killed, std::terminate, or the power is cut.
Crash ==
    /\ main # "off"
    /\ Off

MainRuns ==
    \/ Load \/ SetupThrows \/ Setup
    \/ ServerStart \/ ListenerStart \/ ListenerThrows \/ StartDisplay
    \/ JoinNet \/ StopLoop \/ JoinLoop \/ Open \/ Write
    \/ DestroyPlain \/ StopServer \/ DestroyServer
    \/ ShutdownButton \/ DestroyButton \/ DestroyAlarm \/ Return

-------------------------------------------------------------------------------
(* The button's thread.                                                      *)

Press == work /\ Moves("button", "idle", "pressed")

\* Let go soon, or ~Button ends the wait: a click, unless the alarm rings.
LetGo ==
    \/ Moves("button", "pressed", "click")
    \/ Moves("button", "pressed", "idle")

\* DisableAlarm, without the lock, up to the join in Buzzer::Off.
Hold ==
    /\ Goto("button", "pressed", "off")
    /\ workerFlag' = FALSE
    /\ Uses("button", {"alarmMan", "buzzer"})
    /\ UNCHANGED <<logVars, main, alive, mutex, stopped, work, appFlag>>

\* The buzzer's thread has seen its flag.  A press that has held the alarm is
\* not answered again.
HoldEnds ==
    /\ Goto("button", "off", "idle")
    /\ Uses("button", {"buzzer"})
    /\ UNCHANGED <<logVars, main, alive, mutex, flags>>

\* Buzzer::On between that Off's store and its join starts a thread that the
\* button then waits for, with its flag raised: "hung".
OnAgain == IF pc["button"] = "off" THEN {"off", "hung"} ELSE {pc["button"]}

\* It ends only if an alarm that is set is disabled once more.
OffAgain == IF pc["button"] = "hung" THEN {"hung", "off"} ELSE {pc["button"]}

ClickLock == Lock("button", "click", "toggle")

\* To the last result, or back to the clock.
NextDisplayMode ==
    /\ Unlock("button", "toggle", "idle")
    /\ \/ ReadsLast("button", {"screen", "appMutex"})
       \/ Uses("button", {"screen", "appMutex"})
    /\ UNCHANGED <<logVars, main, alive, flags>>

ButtonEnds == ~work /\ Moves("button", "idle", "none")

ButtonRuns == (~work /\ LetGo) \/ HoldEnds \/ ClickLock \/ NextDisplayMode \/ ButtonEnds

-------------------------------------------------------------------------------
(* The io thread, a request at a time.                                       *)

Request ==
    /\ ~stopped
    /\ \/ Moves("net", "idle", "last")
       \/ (\E w \in Alarms : pc[w] = "none") /\ Moves("net", "idle", "set")

FrameLock == \E r \in {"last", "set"} : Lock("net", r, IF r = "last" THEN "getLast" ELSE "setAlarm")

GetLastResult ==
    /\ Unlock("net", "getLast", "reply")
    /\ ReadsLast("net", {"appMutex"})
    /\ UNCHANGED <<logVars, main, alive, flags>>

\* SetAlarm needs a thread to start: Request waits until there is one.
SetClockAlarm ==
    /\ pc["net"] = "setAlarm" /\ mutex' = "nobody"
    /\ \E w \in Alarms, b \in OffAgain :
          /\ pc[w] = "none"
          /\ pc' = [pc EXCEPT !["net"] = "idle", ![w] = "asleep", !["button"] = b]
    /\ workerFlag' = TRUE
    /\ Uses("net", {"alarmMan", "buzzer", "appMutex"})
    /\ UNCHANGED <<logVars, main, alive, stopped, work, appFlag>>

\* Send's handler writes the message, blocking; it is not called after Stop().
Reply == ~stopped /\ Moves("net", "reply", "writing")

\* The client reads it,
Replied == Moves("net", "writing", "idle")

\* or has left so much unread that the socket takes no more.
ClientIsDeaf == Moves("net", "writing", "stuck")

NetEnds == stopped /\ \E l \in {"idle", "reply"} : Moves("net", l, "none")

NetRuns ==
    \/ FrameLock \/ GetLastResult \/ SetClockAlarm
    \/ Reply \/ Replied \/ ClientIsDeaf \/ NetEnds

-------------------------------------------------------------------------------
(* The display loop.                                                         *)

\* With MaxTaken results the loop sleeps until the flag ends it.
LoopGoesOn == appFlag /\ taken < MaxTaken /\ Moves("loop", "check", "wait")

LoopEnds == ~appFlag /\ Moves("loop", "check", "none")

LoopLock == Lock("loop", "wait", "measure")

MeasureAndDisplay ==
    /\ Unlock("loop", "measure", "check")
    /\ Measure
    /\ Uses("loop", {"results", "screen", "appMutex"})
    /\ UNCHANGED <<main, alive, flags>>

LoopRuns == LoopGoesOn \/ LoopEnds \/ LoopLock \/ MeasureAndDisplay

-------------------------------------------------------------------------------
(* The alarm threads, detached ones too.                                     *)

\* Reads the flag, and finds that the time has come.
AlarmLooks(w) ==
    /\ IF workerFlag THEN Goto(w, "asleep", "due") ELSE Goto(w, "asleep", "none")
    /\ Uses(w, {"alarmMan"})
    /\ UNCHANGED <<logVars, main, alive, mutex, flags>>

RingLock(w) == Lock(w, "due", "ring")

Ring(w) ==
    /\ pc[w] = "ring" /\ mutex' = "nobody"
    /\ \E b \in OnAgain : pc' = [pc EXCEPT ![w] = "rung", !["button"] = b]
    /\ Uses(w, {"screen", "buzzer", "appMutex"})
    /\ UNCHANGED <<logVars, main, alive, flags>>

Rung(w) ==
    /\ Goto(w, "rung", "asleep")
    /\ workerFlag' = FALSE
    /\ Uses(w, {"alarmMan"})
    /\ UNCHANGED <<logVars, main, alive, mutex, stopped, work, appFlag>>

AlarmRuns(w) == AlarmLooks(w) \/ RingLock(w) \/ Ring(w) \/ Rung(w)

-------------------------------------------------------------------------------
Next ==
    \/ Construct \/ Enter \/ Crash \/ MainRuns
    \/ Press \/ LetGo \/ Hold \/ ButtonRuns
    \/ Request \/ NetRuns
    \/ LoopRuns
    \/ \E w \in Alarms : AlarmRuns(w)

Spec == Init /\ [][Next]_vars

(****************************************************************************)
(* Threads that can run do run.  The io thread and the display loop get      *)
(* appMutex_ in the end even from a button that is pressed again and again,  *)
(* since every holder gives it up and then sleeps; the others wait only      *)
(* until those two are gone.  Nobody has to press a key or the button, or to *)
(* send a request, and nothing has to free a button that is hung.            *)
(****************************************************************************)
FairSpec ==
    /\ Spec
    /\ WF_vars(MainRuns)
    /\ SF_vars(NetRuns) /\ SF_vars(LoopRuns)
    /\ WF_vars(ButtonRuns)
    /\ \A w \in Alarms : WF_vars(AlarmRuns(w))

-------------------------------------------------------------------------------
(* Properties.                                                               *)

(****************************************************************************)
(* The file is this session's share of the log from Load to Open; while it   *)
(* is being written that share is only in memory.                            *)
(****************************************************************************)
InSession == main \notin {"off", "load", "destroy"}

Log == INSTANCE HistoryLog WITH
    Wrong <- Wrong,
    saved <- IF main = "write" THEN SubSeq(results, 1, loaded) ELSE Loadable,
    unsaved <- IF InSession THEN SubSeq(results, loaded + 1, Len(results)) ELSE <<>>,
    taken <- taken

(****************************************************************************)
(* Over any number of starts, failed starts and crashes, no result is lost,  *)
(* doubled or out of order, but for those HistoryLog gives up.               *)
(****************************************************************************)
KeepsLog == Log!Spec

(****************************************************************************)
(* Who may use a destroyed member, and which.  The button outlives only the  *)
(* collection, the lock and the server it does not use; alarm threads        *)
(* outlive everything; the io thread outlives the collection and the lock,   *)
(* but only when Start() threw after the server was started; the display     *)
(* loop nothing.  In particular everybody is at peace until Start() returns. *)
(****************************************************************************)
MayOutlive(t) ==
    CASE t = "button" -> {"results", "appMutex"}
      [] t = "net"    -> IF failed THEN {"results", "appMutex"} ELSE {}
      [] t = "loop"   -> {}
      [] OTHER        -> {"screen", "buzzer", "alarmMan", "appMutex"}

LifetimesRespected ==
    /\ \A u \in misused : u[2] \in MayOutlive(u[1])
    /\ main # "destroy" => misused = {}

(****************************************************************************)
(* Only the first minutes of a clock without a history have no last result   *)
(* to show: back() finds something whenever the file holds anything.         *)
(****************************************************************************)
EmptyNeedsFresh == emptyRead /\ main \notin {"write", "destroy"} => Loadable = <<>>

(****************************************************************************)
(* The program ends once it has begun to, whatever its threads were doing,   *)
(* with two exceptions.  A client that never takes the message the io thread *)
(* is writing to it keeps Start() from returning: nothing is saved.  A hold  *)
(* handler that joins a buzzer nobody turns off again keeps ~Button waiting. *)
(****************************************************************************)
Ending == main \in {"joinNet", "stopLoop", "joinLoop", "open", "write", "destroy"}

==============================================================================
