----------------------------- MODULE ButtonProofs -----------------------------
(****************************************************************************)
(* For every HoldTicks: what the counter knows of a press (PressInv, which   *)
(* is inductive as it stands), that a press is answered at most once, and    *)
(* which presses are not answered at all.                                    *)
(****************************************************************************)
EXTENDS ButtonPress, TLAPS

LEMMA InitPress == Init => PressInv
BY HoldTicksIsNat DEF Init, PressInv, Press, Counts

LEMMA StepPress == PressInv /\ [Next]_vars => PressInv'
<1> SUFFICES ASSUME PressInv, [Next]_vars PROVE PressInv'
  OBVIOUS
<1> USE HoldTicksIsNat DEF PressInv, Press, Counts
<1>1. CASE Loop
  BY <1>1 DEF Loop
<1>2. CASE Read
  BY <1>2 DEF Read
<1>3. CASE Poll
  BY <1>3 DEF Poll, StillDown, LetGo
<1>4. CASE HoldHandler
  BY <1>4 DEF HoldHandler
<1>5. CASE Tick
  BY <1>5 DEF Tick, CountOn
<1>6. CASE ClickHandler
  BY <1>6 DEF ClickHandler
<1>7. CASE Pause
  BY <1>7 DEF Pause
<1>8. CASE Finger
  BY <1>8 DEF Finger
<1>9. CASE ShutdownWorker
  BY <1>9 DEF ShutdownWorker
<1>10. CASE UNCHANGED vars
  BY <1>10 DEF vars
<1>11. CASE HoldReturns
  BY <1>11 DEF HoldReturns
<1> QED
  BY <1>1, <1>2, <1>3, <1>4, <1>5, <1>6, <1>7, <1>8, <1>9, <1>10, <1>11 DEF Next, Runs

(****************************************************************************)
(* The counter and the answer agree, whatever the finger does between reads. *)
(****************************************************************************)
THEOREM PressCorrect == Spec => []PressInv
BY InitPress, StepPress, PTL DEF Spec

-------------------------------------------------------------------------------
\* Every step of the thread is a step of the promise, or none.
LEMMA StepAnswers == PressInv /\ [Next]_vars => [Promise!Next]_Promise!vars
<1> SUFFICES ASSUME PressInv, [Next]_vars PROVE [Promise!Next]_Promise!vars
  OBVIOUS
<1> USE DEF Press, Promise!Next, Promise!vars
<1>1. CASE Loop
  BY <1>1 DEF Loop
<1>2. CASE Read
  BY <1>2 DEF Read, Promise!Press
<1>3. CASE Poll
  BY <1>3 DEF Poll, StillDown, LetGo, Promise!Release
<1>4. CASE HoldHandler
  BY <1>4 DEF HoldHandler, PressInv, Promise!Hold
<1>5. CASE Tick
  BY <1>5 DEF Tick
<1>6. CASE ClickHandler
  BY <1>6 DEF ClickHandler, PressInv, Promise!Click
<1>7. CASE Pause
  BY <1>7 DEF Pause
<1>8. CASE Finger \/ ShutdownWorker \/ HoldReturns \/ UNCHANGED vars
  BY <1>8 DEF Finger, ShutdownWorker, HoldReturns, vars
<1> QED
  BY <1>1, <1>2, <1>3, <1>4, <1>5, <1>6, <1>7, <1>8 DEF Next, Runs

(****************************************************************************)
(* Button.cpp implements ButtonPromise: one click or one hold per press.     *)
(****************************************************************************)
THEOREM ButtonAnswersOnce == Spec => AnswersOnce
<1>1. Init => Promise!Init
  BY DEF Init, Promise!Init, Press
<1> QED
  BY <1>1, PressCorrect, StepAnswers, PTL DEF Spec, AnswersOnce, Promise!Spec

-------------------------------------------------------------------------------
(****************************************************************************)
(* A press that calls no handler was let go on the very last tick.           *)
(****************************************************************************)
THEOREM LostPress == Spec => OnlyBoundaryIsLost
<1> DEFINE Lost == pc \in Press /\ pc' \notin Press /\ answer' = "none"
<1>1. ASSUME PressInv, [Next]_vars, Lost
      PROVE  holdCtr = HoldTicks
  <2>1. pc = "poll" /\ pc' = "pause" /\ answer = "none"
    BY <1>1 DEF Press, Next, Runs, Loop, Read, Poll, StillDown, LetGo,
                HoldHandler, HoldReturns, Tick, ClickHandler, Pause, Finger, ShutdownWorker, vars
  <2>2. ~(holdCtr < HoldTicks)
    BY <1>1, <2>1 DEF Next, Runs, Loop, Read, Poll, StillDown, LetGo,
                      HoldHandler, HoldReturns, Tick, ClickHandler, Pause, Finger, ShutdownWorker, vars
  <2>3. ~(holdCtr > HoldTicks)
    BY <1>1, <2>1 DEF PressInv
  <2> QED
    BY <1>1, <2>2, <2>3, HoldTicksIsNat DEF PressInv, Counts
<1>2. PressInv /\ [Next]_vars => [Lost => holdCtr = HoldTicks]_vars
  BY <1>1
<1> QED
  BY <1>2, PressCorrect, PTL DEF Spec, OnlyBoundaryIsLost
==============================================================================
