----------------------------- MODULE Measurements -----------------------------
(****************************************************************************)
(* resultsCollection_ and measurement.csv, the file it is loaded from when   *)
(* the program starts and saved to when it ends.  The n-th result ever       *)
(* measured is n.  A save that is cut short leaves whole lines and a rest    *)
(* of one: LoadResults stops at a rest it cannot parse, which is as good as  *)
(* none, but the rest of a line that ends inside its last field, the time,   *)
(* is a result like any other with a smaller number for its time: Wrong.     *)
(****************************************************************************)
EXTENDS Naturals, Sequences

CONSTANT MaxTaken        \* bound: results measured in a behaviour

ASSUME MaxTakenIsNat == MaxTaken \in Nat

Wrong == 0

VARIABLES
    results,     \* resultsCollection_
    file,        \* the whole lines of the file
    cutTime,     \* they are followed by a line that was cut inside its time
    taken        \* results measured so far

logVars == <<results, file, cutTime, taken>>

MeasurementsInit ==
    /\ results = <<>>
    /\ file = <<>>
    /\ cutTime = FALSE
    /\ taken = 0

\* What LoadResults makes of the file; a missing file is an empty one.
Loadable == IF cutTime THEN Append(file, Wrong) ELSE file

(****************************************************************************)
(* stof or stoll throws at the end of the file, or at a rest it cannot       *)
(* parse; what was pushed before stays.                                      *)
(****************************************************************************)
LoadResults ==
    /\ results' = results \o Loadable
    /\ UNCHANGED <<file, cutTime, taken>>

Measure ==
    /\ taken < MaxTaken
    /\ taken' = taken + 1
    /\ results' = Append(results, taken')
    /\ UNCHANGED <<file, cutTime>>

\* SaveResults: opening the file truncates it.
SaveOpen ==
    /\ file' = <<>>
    /\ cutTime' = FALSE
    /\ UNCHANGED <<results, taken>>

(****************************************************************************)
(* Then all is written at once.  Nothing looks at errors: a full disk, or a  *)
(* power cut before the data is on it, leaves the first n lines and a rest.  *)
(****************************************************************************)
SaveWrite ==
    /\ \E n \in 0 .. Len(results) :
          /\ file' = SubSeq(results, 1, n)
          /\ cutTime' \in BOOLEAN /\ (cutTime' => n < Len(results))
    /\ UNCHANGED <<results, taken>>

\* The process is gone, and the collection with it.
Forget ==
    /\ results' = <<>>
    /\ UNCHANGED <<file, cutTime, taken>>
==============================================================================
