------------------------------ MODULE HistoryLog ------------------------------
(****************************************************************************)
(* What the measurement history promises: results are appended while the     *)
(* program runs, become the saved history when it ends, in the order in      *)
(* which they were taken and each of them once, and a program that dies      *)
(* costs only what was not saved, unless it dies saving: then a beginning    *)
(* of the history is left, and perhaps one more result with a cut-off time.  *)
(****************************************************************************)
EXTENDS Naturals, Sequences

CONSTANT Wrong       \* a result whose time was cut off

VARIABLES
    saved,           \* what the next start will find
    unsaved,         \* results of this session
    taken            \* how many results have been taken, ever

vars == <<saved, unsaved, taken>>

Init == saved = <<>> /\ unsaved = <<>> /\ taken = 0

Take ==
    /\ taken' = taken + 1
    /\ unsaved' = Append(unsaved, taken')
    /\ UNCHANGED saved

Save ==
    /\ saved' = saved \o unsaved
    /\ unsaved' = <<>>
    /\ UNCHANGED taken

Lose == unsaved' = <<>> /\ UNCHANGED <<saved, taken>>

\* Dying while saving: the first n results are left.
LoseSaving ==
    LET all == saved \o unsaved IN
    \E n \in 0 .. Len(all) - 1 :
        /\ saved' \in {SubSeq(all, 1, n), Append(SubSeq(all, 1, n), Wrong)}
        /\ unsaved' = <<>>
        /\ UNCHANGED taken

Next == Take \/ Save \/ Lose \/ LoseSaving

Spec == Init /\ [][Next]_vars
==============================================================================
