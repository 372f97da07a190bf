----------------------------- MODULE MCAlarmClock -----------------------------
(****************************************************************************)
(* The clock with one or two alarm threads at a time.                        *)
(****************************************************************************)
EXTENDS AlarmClock, TLC

\* Alarm threads differ in nothing but their number.
WorkerSymmetry == Permutations(Workers)
==============================================================================
