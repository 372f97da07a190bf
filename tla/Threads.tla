------------------------------- MODULE Threads -------------------------------
(****************************************************************************)
(* The threads of the clock process and the one lock they share             *)
(* (Application::appMutex_).                                                 *)
(*                                                                          *)
(*   Net      runs the request handler.  Requests are served one at a time:  *)
(*            Session::Recive drops the future of std::async, whose          *)
(*            destructor waits, so the io thread serves no other frame.      *)
(*   Button   polls the push button and calls the click and hold handlers.   *)
(*   Display  measures and redraws once a second.                            *)
(*   Workers  the alarm threads.  SetAlarm starts a new one each time and    *)
(*            detaches the old one, which may live on; the set bounds how    *)
(*            many exist at once.                                            *)
(*                                                                          *)
(* pc[t] is the next access of thread t to shared state.  "idle" is a Net    *)
(* waiting for a frame, a Button not pressed, a Display asleep, a Worker     *)
(* that does not exist.                                                      *)
(****************************************************************************)
CONSTANTS Net, Button, Display, Workers, None

Thread == {Net, Button, Display} \cup Workers

ASSUME ThreadsAreDistinct ==
    /\ Net # Button /\ Button # Display /\ Display # Net
    /\ {Net, Button, Display} \cap Workers = {}
    /\ None \notin Thread

VARIABLES
    pc,        \* where each thread is
    mutex,     \* the thread that holds appMutex_, or None
    aborted,   \* std::terminate ended the process
    raced      \* history: two operations on the alarm have overlapped

threadVars == <<pc, mutex, aborted, raced>>

Goer == {Net, Button}      \* the threads that command the alarm

\* A thread is inside SetAlarm or DisableAlarm.
Commanding(p, t) ==
    p[t] \notin {"idle", "frameLock", "unlock", "click",
                 "clickLock", "toggle", "redraw"}

\* An alarm thread is between two sleeps.
Awake(p, w) == p[w] \notin {"idle", "sleep"}

(****************************************************************************)
(* What AlarmManager is exposed to because it has no lock of its own: a      *)
(* command overlaps another one, or an alarm thread that is awake.           *)
(****************************************************************************)
Race(p) ==
    \/ \A t \in Goer : Commanding(p, t)
    \/ \E t \in Goer, w \in Workers : Commanding(p, t) /\ Awake(p, w)

At(t, label) == ~aborted /\ pc[t] = label

Goto(t, label) ==
    /\ pc' = [pc EXCEPT ![t] = label]
    /\ raced' = (raced \/ Race(pc'))

\* A slip: taking it that every thread catches what it calls.
ThrowAlwaysCaught(t) == Goto(t, "unlock") /\ UNCHANGED aborted

(****************************************************************************)
(* std::system_error out of join() or detach().  FrameHandler catches it,    *)
(* sends no reply and returns, which releases the lock; on any other thread  *)
(* nothing catches it and the process ends.                                  *)
(****************************************************************************)
Throw(t) ==
    IF t = Net
    THEN Goto(t, "unlock") /\ UNCHANGED aborted
    ELSE aborted' = TRUE /\ UNCHANGED <<pc, raced>>

\* std::mutex::lock succeeds
Acquire(t) == mutex = None /\ mutex' = t

\* the end of the lock_guard's scope
Release == mutex' = None

ThreadsInit ==
    /\ pc = [t \in Thread |-> "idle"]
    /\ mutex = None
    /\ aborted = FALSE
    /\ raced = FALSE
==============================================================================
