----------------------------- MODULE ButtonPress ------------------------------
(****************************************************************************)
(* Button.cpp: the thread that polls the pin of the push button every        *)
(* INTERVAL milliseconds and turns what it sees into clicks and holds.  The  *)
(* pin follows the user's finger, and may change between any two reads.      *)
(*                                                                          *)
(* AlarmClock lets its Button call one handler after the other at any time;  *)
(* this module says when the thread does call them.                          *)
(****************************************************************************)
EXTENDS Naturals

CONSTANT HoldTicks       \* HOLD_TICKS, the polls after which a press is a hold

ASSUME HoldTicksIsNat == HoldTicks \in Nat

VARIABLES
    pressed,    \* the pin reads 0
    work,       \* work_
    pc,         \* the next thing that the thread does
    holdCtr,    \* holdCtr_
    answer      \* history: the handler that the last press has called

vars == <<pressed, work, pc, holdCtr, answer>>

\* The code compares holdCtr_ with HOLD_TICKS only: larger counts are one.
Counts == 0 .. HoldTicks + 1

CountOn(n) == IF n > HoldTicks THEN n ELSE n + 1

\* Constructors leave holdCtr_ unset.
Init ==
    /\ pressed \in BOOLEAN
    /\ work = TRUE
    /\ pc = "loop"
    /\ holdCtr \in Counts
    /\ answer = "none"

\* What a poll leads to while the button is down, and once it is up.
StillDown == IF holdCtr = HoldTicks THEN "hold" ELSE "tick"

LetGo == IF holdCtr < HoldTicks THEN "click" ELSE "pause"

-------------------------------------------------------------------------------
(* Slips: what the checks must not let pass.                                 *)

LoopKeepsCount ==
    /\ pc = "loop"
    /\ pc' = IF work THEN "read" ELSE "ended"
    /\ UNCHANGED <<pressed, work, holdCtr, answer>>

PollIgnoresHold ==
    /\ pc = "poll"
    /\ pc' = IF pressed /\ work THEN StillDown ELSE "click"
    /\ UNCHANGED <<pressed, work, holdCtr, answer>>

PollClicksTooSeldom ==
    /\ pc = "poll"
    /\ pc' = IF pressed /\ work THEN StillDown
             ELSE IF holdCtr + 1 < HoldTicks THEN "click" ELSE "pause"
    /\ UNCHANGED <<pressed, work, holdCtr, answer>>

PollIgnoresWork ==
    /\ pc = "poll"
    /\ pc' = IF pressed THEN StillDown ELSE LetGo
    /\ UNCHANGED <<pressed, work, holdCtr, answer>>

TickForgets ==
    /\ pc = "tick"
    /\ pc' = "poll"
    /\ UNCHANGED <<pressed, work, holdCtr, answer>>

-------------------------------------------------------------------------------
(* The thread of StartWorker.                                                *)

Loop ==
    /\ pc = "loop"
    /\ IF work THEN pc' = "read" /\ holdCtr' = 0
               ELSE pc' = "ended" /\ UNCHANGED holdCtr
    /\ UNCHANGED <<pressed, work, answer>>

\* The first read of the pin: a press begins.
Read ==
    /\ pc = "read"
    /\ IF pressed THEN pc' = "poll" /\ answer' = "none"
                  ELSE pc' = "pause" /\ UNCHANGED answer
    /\ UNCHANGED <<pressed, work, holdCtr>>

\* The inner loop's condition, and what follows it either way.
Poll ==
    /\ pc = "poll"
    /\ pc' = IF pressed /\ work THEN StillDown ELSE LetGo
    /\ UNCHANGED <<pressed, work, holdCtr, answer>>

\* The call of the hold handler, and its return.
HoldHandler ==
    /\ pc = "hold"
    /\ answer' = "hold"
    /\ pc' = "holding"
    /\ UNCHANGED <<pressed, work, holdCtr>>

HoldReturns ==
    /\ pc = "holding"
    /\ pc' = "tick"
    /\ UNCHANGED <<pressed, work, holdCtr, answer>>

\* ++holdCtr_ and the delay
Tick ==
    /\ pc = "tick"
    /\ holdCtr' = CountOn(holdCtr)
    /\ pc' = "poll"
    /\ UNCHANGED <<pressed, work, answer>>

ClickHandler ==
    /\ pc = "click"
    /\ answer' = "click"
    /\ pc' = "pause"
    /\ UNCHANGED <<pressed, work, holdCtr>>

Pause ==
    /\ pc = "pause"
    /\ pc' = "loop"
    /\ UNCHANGED <<pressed, work, holdCtr, answer>>

Runs == Loop \/ Read \/ Poll \/ HoldHandler \/ Tick \/ ClickHandler \/ Pause

-------------------------------------------------------------------------------
\* The user's finger.
Finger == pressed' = ~pressed /\ UNCHANGED <<work, pc, holdCtr, answer>>

\* ~Button: the flag is cleared, and the caller waits for the thread.
ShutdownWorker ==
    /\ work
    /\ work' = FALSE
    /\ UNCHANGED <<pressed, pc, holdCtr, answer>>

Next == Runs \/ HoldReturns \/ Finger \/ ShutdownWorker

(****************************************************************************)
(* The thread goes on: delays end, and so does the click handler, which only *)
(* needs appMutex_ (AlarmClock: DisplayNeverFreezes).  The hold handler need *)
(* not return: DisableAlarm joins the buzzer's thread without the lock, and  *)
(* an alarm thread that is past its check can raise the buzzer's flag        *)
(* between Off's store and its join (AlarmClock and Program have the steps). *)
(* Nobody has to press, release or shut down anything.                       *)
(****************************************************************************)
Spec == Init /\ [][Next]_vars /\ WF_vars(Runs)

-------------------------------------------------------------------------------
Press == {"poll", "hold", "holding", "tick", "click"}

(****************************************************************************)
(* Types, and what the counter knows of the press: a handler that is about   *)
(* to run is the first of its press, a press that counted past HoldTicks has *)
(* been answered with a hold, and no other has.                              *)
(****************************************************************************)
PressInv ==
    /\ pressed \in BOOLEAN
    /\ work \in BOOLEAN
    /\ pc \in Press \cup {"loop", "read", "pause", "ended"}
    /\ holdCtr \in Counts
    /\ answer \in {"none", "click", "hold"}
    /\ pc = "read" => holdCtr = 0
    /\ pc = "hold" => holdCtr = HoldTicks /\ answer = "none"
    /\ pc = "holding" => holdCtr = HoldTicks /\ answer = "hold"
    /\ pc = "click" => holdCtr < HoldTicks /\ answer = "none"
    /\ pc = "poll" => answer = IF holdCtr > HoldTicks THEN "hold" ELSE "none"
    /\ pc = "tick" => answer = IF holdCtr < HoldTicks THEN "none" ELSE "hold"

(****************************************************************************)
(* A press calls clickHandler once, or holdHandler once, never both: a long  *)
(* press that stops the alarm does not switch the display when it ends.      *)
(****************************************************************************)
Promise == INSTANCE ButtonPromise WITH down <- pc \in Press, answer <- answer

AnswersOnce == Promise!Spec

(****************************************************************************)
(* No press is lost but one: the finger (or the program) lets go in the last *)
(* interval, after the tick that makes HoldTicks and before the poll that    *)
(* would call the hold handler.                                              *)
(****************************************************************************)
OnlyBoundaryIsLost ==
    [][(pc \in Press /\ pc' \notin Press /\ answer' = "none") => holdCtr = HoldTicks]_vars

\* A finger that stays down is answered with a hold in the end (while the hold
\* handler of an earlier press has not returned, that press is still going on).
LongPressHolds == <>[](pressed /\ work) => <>[](answer = "hold")

\* ~Button's join returns even with the button held down, unless the hold
\* handler never does.
ShutdownEnds == []<>(pc # "holding") => (~work ~> pc = "ended")
==============================================================================
