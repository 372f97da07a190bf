----------------------------- MODULE AlarmPromise -----------------------------
(****************************************************************************)
(* What an alarm clock promises: a set alarm rings once its time has come,   *)
(* not before, and rings until it is cancelled; an alarm that is not set is  *)
(* silent.                                                                   *)
(****************************************************************************)
VARIABLES
    set,       \* an alarm is set
    due,       \* its time has come
    ringing

vars == <<set, due, ringing>>

Init == ~set /\ due \in BOOLEAN /\ ~ringing

Choose ==
    /\ ~set
    /\ due' \in BOOLEAN
    /\ UNCHANGED <<set, ringing>>

Set == ~set /\ set' = TRUE /\ UNCHANGED <<due, ringing>>

TimeComes == ~due /\ due' = TRUE /\ UNCHANGED <<set, ringing>>

Ring == set /\ due /\ ~ringing /\ ringing' = TRUE /\ UNCHANGED <<set, due>>

Cancel == set /\ set' = FALSE /\ ringing' = FALSE /\ UNCHANGED due

Next == Choose \/ Set \/ TimeComes \/ Ring \/ Cancel

Spec == Init /\ [][Next]_vars /\ WF_vars(TimeComes) /\ WF_vars(Ring)
==============================================================================
