---------------------------- MODULE ButtonPromise -----------------------------
(****************************************************************************)
(* What the push button promises the application: a press is answered with   *)
(* one click, when it ends, or with one hold, while it lasts, never both.    *)
(****************************************************************************)
VARIABLES
    down,      \* a press is going on
    answer     \* what the last press has been answered with

vars == <<down, answer>>

Init == ~down /\ answer = "none"

Press == ~down /\ down' = TRUE /\ answer' = "none"

Click == down /\ answer = "none" /\ answer' = "click" /\ down' = FALSE

Hold == down /\ answer = "none" /\ answer' = "hold" /\ UNCHANGED down

Release == down /\ down' = FALSE /\ UNCHANGED answer

Next == Press \/ Click \/ Hold \/ Release

Spec == Init /\ [][Next]_vars
==============================================================================
