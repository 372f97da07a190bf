-------------------------------- MODULE Buzzer --------------------------------
(****************************************************************************)
(* Buzzer.cpp: On() and Off() and the thread that drives the pin.  Neither   *)
(* takes a lock; each access to workerFlag and to the std::thread member is  *)
(* a step, so calls from different threads interleave as they can.           *)
(*                                                                          *)
(* The caller enters Off() at "off" and continues at "offDone"; it enters    *)
(* On() at "on" and continues at "onDone".  On() calls Off() itself, so an   *)
(* alarm thread at "offDone" is still inside On().                           *)
(****************************************************************************)
EXTENDS Threads

VARIABLES
    buzzFlag,    \* Buzzer::workerFlag
    buzzThread   \* Buzzer::worker_: none, or joinable and running or ended

buzzerVars == <<buzzFlag, buzzThread>>

BuzzerInit == buzzFlag = FALSE /\ buzzThread = "none"

Joining == \E t \in Thread : pc[t] = "joining"

-------------------------------------------------------------------------------
(* Slips: what the checks must not let pass.                                 *)

OffNoJoin(t) ==
    /\ At(t, "offJoinable")
    /\ Goto(t, "offDone")
    /\ UNCHANGED <<aborted, buzzerVars>>

OffNoFlag(t) ==
    /\ At(t, "off")
    /\ Goto(t, "offJoinable")
    /\ UNCHANGED <<aborted, buzzerVars>>

-------------------------------------------------------------------------------
\* On: nothing to do when the flag says that the buzzer is on.
OnEnter(w) ==
    /\ At(w, "on")
    /\ Goto(w, IF buzzFlag THEN "onDone" ELSE "off")
    /\ UNCHANGED <<aborted, buzzerVars>>

OnFlag(w) ==
    /\ w \in Workers
    /\ At(w, "offDone")
    /\ buzzFlag' = TRUE
    /\ Goto(w, "onSpawn")
    /\ UNCHANGED <<aborted, buzzThread>>

\* Assigning to a std::thread that is joinable calls std::terminate.
OnSpawn(w) ==
    /\ At(w, "onSpawn")
    /\ IF buzzThread = "none"
       THEN buzzThread' = "running" /\ Goto(w, "onDone") /\ UNCHANGED aborted
       ELSE aborted' = TRUE /\ UNCHANGED <<pc, raced, buzzThread>>
    /\ UNCHANGED buzzFlag

On(w) == OnEnter(w) \/ OnFlag(w) \/ OnSpawn(w)

-------------------------------------------------------------------------------
OffFlag(t) ==
    /\ At(t, "off")
    /\ buzzFlag' = FALSE
    /\ Goto(t, "offJoinable")
    /\ UNCHANGED <<aborted, buzzThread>>

OffJoinable(t) ==
    /\ At(t, "offJoinable")
    /\ Goto(t, IF buzzThread = "none" THEN "offDone" ELSE "offJoin")
    /\ UNCHANGED <<aborted, buzzerVars>>

(****************************************************************************)
(* join() throws when the thread has been joined since joinable() said yes,  *)
(* and when another thread is already waiting in join().                     *)
(****************************************************************************)
OffJoin(t) ==
    /\ At(t, "offJoin")
    /\ IF buzzThread = "none" \/ Joining
       THEN Throw(t)
       ELSE Goto(t, "joining") /\ UNCHANGED aborted
    /\ UNCHANGED buzzerVars

OffJoined(t) ==
    /\ At(t, "joining")
    /\ buzzThread = "ended"
    /\ buzzThread' = "none"
    /\ Goto(t, "offDone")
    /\ UNCHANGED <<aborted, buzzFlag>>

Off(t) == OffFlag(t) \/ OffJoinable(t) \/ OffJoin(t) \/ OffJoined(t)

\* workerFunc: one more half period after the flag is cleared, then it ends.
BuzzerThreadEnds ==
    /\ ~aborted
    /\ buzzThread = "running"
    /\ ~buzzFlag
    /\ buzzThread' = "ended"
    /\ UNCHANGED <<threadVars, buzzFlag>>
==============================================================================
