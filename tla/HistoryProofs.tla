---------------------------- MODULE HistoryProofs -----------------------------
(****************************************************************************)
(* For any number of results, starts and crashes: what the program keeps in  *)
(* memory and in its file is the log HistoryLog describes.                   *)
(****************************************************************************)
EXTENDS ProgramProofs, SequenceTheorems

Results == Seq(Nat)

(****************************************************************************)
(* The collection is empty before Load and begins with what Load found in    *)
(* the file, which nothing touches until Open; Write finds it empty.         *)
(****************************************************************************)
LogTypeOK ==
    /\ results \in Results /\ file \in Results
    /\ cutTime \in BOOLEAN /\ taken \in Nat
    /\ loaded \in 0 .. Len(results)

Starting == main \in {"off", "load"}
Session == main \in {"setup", "server", "listener", "display", "run", "joinNet",
                     "stopLoop", "joinLoop", "open"}

LogInv ==
    /\ LogTypeOK
    /\ Starting => results = <<>> /\ loaded = 0
    /\ Session => loaded = Len(Loadable) /\ SubSeq(results, 1, loaded) = Loadable
    /\ main = "write" => file = <<>> /\ ~cutTime

HistInv == LifeInv /\ LogInv

Saved == IF main = "write" THEN SubSeq(results, 1, loaded) ELSE Loadable
Unsaved == IF InSession THEN SubSeq(results, loaded + 1, Len(results)) ELSE <<>>

-------------------------------------------------------------------------------
(* The sequences.                                                            *)

LEMMA LoadableType == LogTypeOK => Loadable \in Results
BY AppendProperties DEF LogTypeOK, Loadable, Results, Wrong

LEMMA Split ==
    ASSUME NEW r \in Results, NEW n \in 0 .. Len(r)
    PROVE  /\ SubSeq(r, 1, n) \o SubSeq(r, n + 1, Len(r)) = r
           /\ SubSeq(r, 1, n) \in Results /\ Len(SubSeq(r, 1, n)) = n
           /\ SubSeq(r, n + 1, Len(r)) \in Results
<1>1. Len(r) \in Nat /\ \A i \in 1 .. Len(r) : r[i] \in Nat
  BY LenProperties, ElementOfSeq DEF Results
<1>2. SubSeq(r, 1, n) \o SubSeq(r, n + 1, Len(r)) = SubSeq(r, 1, Len(r))
  <2>1. 1 \in 1 .. Len(r) + 1 /\ n \in 1 - 1 .. Len(r) /\ Len(r) \in n .. Len(r)
    BY <1>1
  <2> QED
    BY <2>1, ConcatAdjacentSubSeq DEF Results
<1>3. SubSeq(r, 1, Len(r)) = r
  BY SubSeqFull DEF Results
<1>4. SubSeq(r, 1, n) \in Results /\ Len(SubSeq(r, 1, n)) = n
  BY <1>1, SubSeqProperties DEF Results
<1>5. SubSeq(r, n + 1, Len(r)) \in Results
  BY <1>1, SubSeqProperties DEF Results
<1> QED
  BY <1>2, <1>3, <1>4, <1>5

\* A result appended leaves the first n alone and ends the others.
LEMMA AppendOne ==
    ASSUME NEW r \in Results, NEW n \in 0 .. Len(r), NEW x \in Nat
    PROVE  /\ Append(r, x) \in Results /\ n \in 0 .. Len(Append(r, x))
           /\ SubSeq(Append(r, x), 1, n) = SubSeq(r, 1, n)
           /\ SubSeq(Append(r, x), n + 1, Len(Append(r, x))) =
                  Append(SubSeq(r, n + 1, Len(r)), x)
<1> DEFINE q == Append(r, x)
<1>1. Len(r) \in Nat /\ q \in Results /\ Len(q) = Len(r) + 1
      /\ (\A i \in 1 .. Len(r) : q[i] = r[i] /\ r[i] \in Nat) /\ q[Len(q)] = x
  BY AppendProperties, LenProperties, ElementOfSeq DEF Results
<1> HIDE DEF q
<1>2. \A i \in 1 .. Len(q) : q[i] \in Nat
  BY <1>1, ElementOfSeq DEF Results
<1>3. SubSeq(q, 1, n) = SubSeq(r, 1, n)
  <2>1. /\ SubSeq(q, 1, n) \in Results /\ Len(SubSeq(q, 1, n)) = n
        /\ \A i \in 1 .. n : SubSeq(q, 1, n)[i] = q[i]
    BY <1>1, <1>2, SubSeqProperties DEF Results
  <2>2. /\ SubSeq(r, 1, n) \in Results /\ Len(SubSeq(r, 1, n)) = n
        /\ \A i \in 1 .. n : SubSeq(r, 1, n)[i] = r[i]
    BY <1>1, SubSeqProperties DEF Results
  <2> QED
    BY <1>1, <2>1, <2>2, SeqEqual DEF Results
<1>4. SubSeq(q, n + 1, Len(q)) = Append(SubSeq(r, n + 1, Len(r)), x)
  <2> DEFINE s == SubSeq(q, n + 1, Len(q))
             u == SubSeq(r, n + 1, Len(r))
  <2>1. /\ s \in Results /\ Len(s) = Len(r) + 1 - n
        /\ \A i \in 1 .. Len(r) + 1 - n : s[i] = q[n + i]
    BY <1>1, <1>2, SubSeqProperties DEF Results
  <2>2. /\ u \in Results /\ Len(u) = Len(r) - n
        /\ \A i \in 1 .. Len(r) - n : u[i] = r[n + i]
    BY <1>1, SubSeqProperties DEF Results
  <2> HIDE DEF s, u
  <2>3. /\ Append(u, x) \in Results /\ Len(Append(u, x)) = Len(r) + 1 - n
        /\ \A i \in 1 .. Len(r) - n : Append(u, x)[i] = u[i]
        /\ Append(u, x)[Len(r) + 1 - n] = x
    BY <1>1, <2>2, AppendProperties DEF Results
  <2>4. ASSUME NEW i \in 1 .. Len(s)
        PROVE  s[i] = Append(u, x)[i]
    <3>1. CASE i \in 1 .. Len(r) - n
      <4>1. n + i \in 1 .. Len(r)
        BY <1>1, <3>1
      <4> QED
        BY <1>1, <2>1, <2>2, <2>3, <3>1, <4>1
    <3>2. CASE i = Len(r) + 1 - n
      BY <1>1, <2>1, <2>3, <3>2
    <3>3. i \in 1 .. Len(r) + 1 - n /\ Len(r) \in Nat
      BY <1>1, <2>1
    <3>4. i \in 1 .. Len(r) - n \/ i = Len(r) + 1 - n
      BY <3>3
    <3> QED
      BY <3>1, <3>2, <3>4
  <2>5. s = Append(u, x)
    BY <2>1, <2>3, <2>4, SeqEqual DEF Results
  <2> QED
    BY <2>5 DEF s, u
<1>5. q \in Results /\ n \in 0 .. Len(q)
  BY <1>1
<1> QED
  BY <1>3, <1>4, <1>5 DEF q

-------------------------------------------------------------------------------
(* LogInv.                                                                   *)

LEMMA InitLog == Init => LogInv
<1>1. <<>> \in Results /\ Len(<<>>) = 0
  BY EmptySeq DEF Results
<1> SUFFICES ASSUME Init PROVE LogInv
  OBVIOUS
<1>2. results = <<>> /\ file = <<>> /\ taken = 0 /\ loaded = 0 /\ main = "off"
  BY DEF Init, MeasurementsInit
<1>3. cutTime \in BOOLEAN
  BY DEF Init, MeasurementsInit
<1>4. LogTypeOK
  BY <1>1, <1>2, <1>3 DEF LogTypeOK
<1> QED
  BY <1>2, <1>4 DEF LogInv, Starting, Session

LEMMA OffLog ==
    ASSUME LogTypeOK, Off
    PROVE  LogInv'
<1>1. results' = <<>> /\ main' = "off" /\ loaded' = 0
      /\ UNCHANGED <<file, cutTime, taken>>
  BY DEF Off, Forget
<1>2. <<>> \in Results /\ Len(<<>>) = 0
  BY EmptySeq DEF Results
<1> QED
  BY <1>1, <1>2 DEF LogInv, LogTypeOK, Starting, Session

LEMMA LoadLog ==
    ASSUME LogInv, Load
    PROVE  LogInv' /\ results' = Loadable /\ loaded' = Len(results')
<1>1. main = "load" /\ main' = "setup" /\ results = <<>>
      /\ results' = <<>> \o Loadable /\ loaded' = Len(results')
      /\ UNCHANGED <<file, cutTime, taken>>
  BY DEF Load, LoadResults, StepsTo, LogInv, Starting
<1>2. Loadable \in Results
  BY LoadableType DEF LogInv
<1>3. results' = Loadable
  BY <1>1, <1>2, ConcatEmptySeq DEF Results
<1>4. SubSeq(results', 1, loaded') = results' /\ loaded' \in 0 .. Len(results')
  BY <1>1, <1>2, <1>3, SubSeqFull, LenProperties DEF Results
<1>5. Loadable' = Loadable
  BY <1>1 DEF Loadable
<1>6. LogTypeOK'
  BY <1>1, <1>2, <1>3, <1>4 DEF LogTypeOK, LogInv
<1> QED
  BY <1>1, <1>3, <1>4, <1>5, <1>6 DEF LogInv, Starting, Session

LEMMA MeasureLog ==
    ASSUME HistInv, MeasureAndDisplay
    PROVE  /\ LogInv' /\ main' = main /\ Session /\ UNCHANGED <<file, cutTime, loaded>>
           /\ results' = Append(results, taken') /\ taken' = taken + 1
<1>1. /\ UNCHANGED <<main, file, cutTime, loaded>>
      /\ results' = Append(results, taken') /\ taken' = taken + 1
      /\ Runs("loop")
  BY DEF MeasureAndDisplay, Measure, Uses, Unlock, Goto, Runs
<1>2. Session
  BY <1>1 DEF HistInv, LifeInv, LoopLives, Session
<1>3. taken' \in Nat
  BY <1>1 DEF HistInv, LogInv, LogTypeOK
<1>4. /\ results' \in Results /\ loaded' \in 0 .. Len(results')
      /\ SubSeq(results', 1, loaded') = SubSeq(results, 1, loaded)
  BY <1>1, <1>3, AppendOne DEF HistInv, LogInv, LogTypeOK
<1>5. LogTypeOK'
  BY <1>1, <1>3, <1>4 DEF HistInv, LogInv, LogTypeOK
<1>6. Loadable' = Loadable
  BY <1>1 DEF Loadable
<1> QED
  BY <1>1, <1>2, <1>4, <1>5, <1>6 DEF HistInv, LogInv, Session, Starting

\* What a save can leave of the results.
LEMMA Written ==
    ASSUME LogInv, Write
    PROVE  /\ LogInv' /\ main = "write" /\ main' = "destroy" /\ UNCHANGED <<results, taken, loaded>>
           /\ \E n \in 0 .. Len(results) :
                 \/ Loadable' = SubSeq(results, 1, n)
                 \/ n < Len(results) /\ Loadable' = Append(SubSeq(results, 1, n), Wrong)
<1>1. main = "write" /\ main' = "destroy" /\ UNCHANGED <<results, taken, loaded>>
  BY DEF Write, StepsTo, SaveWrite, seenVars
<1>2. PICK n \in 0 .. Len(results) :
          /\ file' = SubSeq(results, 1, n)
          /\ cutTime' \in BOOLEAN /\ (cutTime' => n < Len(results))
  BY DEF Write, SaveWrite
<1>3. file' \in Results /\ cutTime' \in BOOLEAN
  <2>1. file' \in Results
    BY <1>2, Split DEF LogInv, LogTypeOK
  <2>2. cutTime' \in BOOLEAN
    BY <1>2
  <2> QED
    BY <2>1, <2>2
<1>4. LogInv'
  <2>1. LogTypeOK'
    BY <1>1, <1>3 DEF LogInv, LogTypeOK
  <2> QED
    BY <1>1, <2>1 DEF LogInv, Starting, Session
<1>5. \/ Loadable' = SubSeq(results, 1, n)
      \/ n < Len(results) /\ Loadable' = Append(SubSeq(results, 1, n), Wrong)
  BY <1>2 DEF Loadable
<1> QED
  BY <1>1, <1>4, <1>5

\* Every other step leaves the log alone.
OtherStep ==
    /\ UNCHANGED <<results, taken, loaded>>
    /\ \/ UNCHANGED <<file, cutTime>>
             /\ (Starting' => Starting) /\ (Session' => Session) /\ (main' = "write" => main = "write")
       \/ Open

LEMMA OtherLog ==
    ASSUME LogInv, OtherStep
    PROVE  LogInv'
<1>1. CASE Open
  <2>1. main' = "write" /\ file' = <<>> /\ cutTime' = FALSE
    BY <1>1 DEF Open, SaveOpen, StepsTo
  <2>2. <<>> \in Results
    BY EmptySeq DEF Results
  <2> QED
    BY <2>1, <2>2 DEF OtherStep, LogInv, LogTypeOK, Starting, Session
<1>2. CASE ~Open
  BY <1>2 DEF OtherStep, LogInv, LogTypeOK, Loadable
<1> QED
  BY <1>1, <1>2

\* The five kinds of step.
LEMMA StepKinds ==
    ASSUME HistInv, [Next]_vars
    PROVE  Off \/ Load \/ MeasureAndDisplay \/ Write \/ OtherStep
<1> USE DEF Moves, Goto, Unlock, Lock, Uses, Use, ReadsLast, logVars, seenVars, flags, threadVars
<1>1. CASE Press \/ LetGo \/ Hold \/ ButtonRuns
  BY <1>1 DEF Press, LetGo, Hold, HoldEnds, ButtonRuns, ClickLock, NextDisplayMode, ButtonEnds,
              OtherStep, Starting, Session
<1>2. CASE Request \/ NetRuns
  BY <1>2 DEF Request, NetRuns, FrameLock, GetLastResult, SetClockAlarm, Reply, Replied,
              ClientIsDeaf, NetEnds, OtherStep, Starting, Session
<1>3. CASE LoopRuns
  BY <1>3 DEF LoopRuns, LoopGoesOn, LoopEnds, LoopLock, OtherStep, Starting, Session
<1>4. CASE \E w \in Alarms : AlarmRuns(w)
  BY <1>4 DEF AlarmRuns, AlarmLooks, RingLock, Ring, Rung, OtherStep, Starting, Session
<1>5. CASE Construct \/ Enter \/ SetupThrows \/ Setup \/ ServerStart \/ ListenerStart
           \/ ListenerThrows \/ StartDisplay \/ JoinNet \/ StopLoop \/ JoinLoop
  BY <1>5 DEF StepsTo, Construct, Enter, SetupThrows, Setup, ServerStart, ListenerStart,
              ListenerThrows, StartDisplay, JoinNet, StopLoop, JoinLoop,
              OtherStep, Starting, Session
<1>6. CASE Open
  BY <1>6 DEF Open, SaveOpen, OtherStep
<1>7. CASE DestroyPlain \/ StopServer \/ DestroyServer \/ ShutdownButton \/ DestroyButton
           \/ DestroyAlarm
  BY <1>7 DEF Destroyed, Destroys, DestroyPlain, StopServer, DestroyServer, ShutdownButton,
              DestroyButton, DestroyAlarm, OtherStep, Starting, Session
<1>8. CASE UNCHANGED vars
  BY <1>8 DEF vars, OtherStep, Starting, Session
<1> QED
  BY <1>1, <1>2, <1>3, <1>4, <1>5, <1>6, <1>7, <1>8 DEF Next, MainRuns, Crash, Return

LEMMA StepHist == HistInv /\ [Next]_vars => HistInv'
BY StepLife, StepKinds, OffLog, LoadLog, MeasureLog, Written, OtherLog DEF HistInv, LogInv

-------------------------------------------------------------------------------
(* The refinement.                                                           *)

LEMMA OffSteps ==
    ASSUME HistInv, Off, [Next]_vars
    PROVE  [Log!Next]_Log!vars
<1>1. main' = "off" /\ UNCHANGED <<file, cutTime, taken>>
  BY DEF Off, Forget
<1>2. Saved' = Loadable /\ Unsaved' = <<>>
  BY <1>1 DEF Saved, Unsaved, InSession, Loadable
<1>3. CASE main # "write"
  <2>1. Saved' = Saved
    BY <1>2, <1>3 DEF Saved
  <2> QED
    BY <1>1, <1>2, <2>1 DEF Log!Next, Log!Lose, Log!vars, Saved, Unsaved
<1>4. CASE main = "write"
  <2>1. Saved' = <<>> /\ Saved \o Unsaved = results
    BY <1>2, <1>4, Split DEF HistInv, LogInv, LogTypeOK, Loadable, Saved, Unsaved, InSession
  <2>2. CASE results = <<>>
    <3>1. Saved = <<>>
      BY <1>4, <2>2, SubSeqEmpty, EmptySeq DEF HistInv, LogInv, LogTypeOK, Saved
    <3> QED
      BY <1>1, <1>2, <2>1, <3>1 DEF Log!Next, Log!Lose, Log!vars, Saved, Unsaved
  <2>3. CASE results # <<>>
    <3>1. 0 \in 0 .. Len(results) - 1
      BY <2>3, EmptySeq DEF HistInv, LogInv, LogTypeOK, Results
    <3>2. SubSeq(results, 1, 0) = <<>>
      BY SubSeqEmpty
    <3>3. \E n \in 0 .. Len(Saved \o Unsaved) - 1 : Saved' = SubSeq(Saved \o Unsaved, 1, n)
      BY <2>1, <3>1, <3>2
    <3> QED
      BY <1>1, <1>2, <3>3 DEF Log!Next, Log!LoseSaving, Saved, Unsaved
  <2> QED
    BY <2>2, <2>3
<1> QED
  BY <1>3, <1>4

LEMMA LoadSteps ==
    ASSUME HistInv, Load
    PROVE  [Log!Next]_Log!vars
<1>1. main = "load" /\ main' = "setup" /\ UNCHANGED <<file, cutTime, taken>>
  BY DEF Load, LoadResults, StepsTo
<1>2. loaded' = Len(results') /\ Len(results') \in Nat
  BY LoadLog, LenProperties DEF HistInv, LogInv, LogTypeOK, Results
<1>3. Unsaved' = <<>> /\ Unsaved = <<>>
  BY <1>1, <1>2, SubSeqEmpty DEF Unsaved, InSession
<1>4. Saved' = Saved
  BY <1>1 DEF Saved, Loadable
<1> QED
  BY <1>1, <1>3, <1>4 DEF Log!vars, Saved, Unsaved

LEMMA MeasureSteps ==
    ASSUME HistInv, MeasureAndDisplay
    PROVE  [Log!Next]_Log!vars
<1>1. /\ main' = main /\ Session /\ UNCHANGED <<file, cutTime, loaded>>
      /\ results' = Append(results, taken') /\ taken' = taken + 1
  BY MeasureLog
<1>2. taken' \in Nat
  BY <1>1 DEF HistInv, LogInv, LogTypeOK
<1>3. Unsaved' = Append(Unsaved, taken')
  BY <1>1, <1>2, AppendOne DEF HistInv, LogInv, LogTypeOK, Unsaved, InSession, Session
<1>4. Saved' = Saved
  BY <1>1 DEF Saved, Loadable, Session
<1> QED
  BY <1>1, <1>3, <1>4 DEF Log!Next, Log!Take, Saved, Unsaved

LEMMA WriteSteps ==
    ASSUME HistInv, Write
    PROVE  [Log!Next]_Log!vars
<1>1. main = "write" /\ main' = "destroy" /\ UNCHANGED <<results, taken, loaded>>
  BY Written DEF HistInv
<1>2. Saved' = Loadable' /\ Unsaved' = <<>>
  BY <1>1 DEF Saved, Unsaved, InSession
<1>3. Saved \o Unsaved = results /\ SubSeq(results, 1, Len(results)) = results
      /\ Len(results) \in Nat
  BY <1>1, Split, SubSeqFull, LenProperties
     DEF HistInv, LogInv, LogTypeOK, Saved, Unsaved, InSession, Results
<1>4. PICK n \in 0 .. Len(results) :
          \/ Loadable' = SubSeq(results, 1, n)
          \/ n < Len(results) /\ Loadable' = Append(SubSeq(results, 1, n), Wrong)
  BY Written DEF HistInv
<1>5. CASE n = Len(results)
  <2>1. Saved' = results
    BY <1>2, <1>3, <1>4, <1>5
  <2> QED
    BY <1>1, <1>2, <1>3, <2>1 DEF Log!Next, Log!Save, Saved, Unsaved
<1>6. CASE n # Len(results)
  <2>1. n \in 0 .. Len(results) - 1
    BY <1>3, <1>6
  <2>2. Saved' \in {SubSeq(results, 1, n), Append(SubSeq(results, 1, n), Wrong)}
    BY <1>2, <1>4
  <2> QED
    BY <1>1, <1>2, <1>3, <2>1, <2>2 DEF Log!Next, Log!LoseSaving, Saved, Unsaved
<1> QED
  BY <1>5, <1>6

\* A start that fails loses nothing: it had measured nothing yet.
LEMMA OtherSteps ==
    ASSUME HistInv, OtherStep, ~Off, ~Load, ~MeasureAndDisplay, ~Write, [Next]_vars
    PROVE  [Log!Next]_Log!vars
<1>1. UNCHANGED <<results, taken, loaded>>
  BY DEF OtherStep
<1>2. CASE Open
  <2>1. main = "open" /\ main' = "write"
    BY <1>2 DEF Open, StepsTo
  <2>2. Saved' = Saved
    BY <1>1, <2>1 DEF HistInv, LogInv, Saved, Session
  <2>3. Unsaved' = Unsaved
    BY <1>1, <2>1 DEF Unsaved, InSession
  <2> QED
    BY <1>1, <2>2, <2>3 DEF Log!vars, Saved, Unsaved
<1>3. CASE ~Open
  <2>1. UNCHANGED <<file, cutTime>> /\ (Starting' => Starting) /\ (Session' => Session)
        /\ (main' = "write" => main = "write")
    BY <1>3 DEF OtherStep
  <2>2. CASE main' = main
    BY <1>1, <2>1, <2>2 DEF Log!vars, Saved, Unsaved, InSession, Loadable
  <2>3. CASE main' # main
    <3>1. main # "write" /\ main' # "write"
      <4>1. main = "write" => Write \/ Off \/ main' = main
        BY DEF Next, MainRuns, StepsTo, Destroyed, Destroys, Moves, Goto, Unlock, Lock, Uses,
               seenVars, logVars, flags, vars, threadVars, Construct, Enter, Crash, Load,
               SetupThrows, Setup, ServerStart, ListenerStart, ListenerThrows, StartDisplay,
               JoinNet, StopLoop, JoinLoop, Open, DestroyPlain, StopServer, DestroyServer,
               ShutdownButton, DestroyButton, DestroyAlarm, Return, Press, LetGo, Hold, HoldEnds,
               ButtonRuns, ClickLock, NextDisplayMode, ButtonEnds, Request, NetRuns, FrameLock,
               GetLastResult, SetClockAlarm, Reply, Replied, ClientIsDeaf, NetEnds, LoopRuns,
               LoopGoesOn, LoopEnds, LoopLock, MeasureAndDisplay, AlarmRuns, AlarmLooks,
               RingLock, Ring, Rung
      <4> QED
        BY <2>1, <2>3, <4>1
    <3>2. Saved' = Saved
      BY <2>1, <3>1 DEF Saved, Loadable
    <3>3. Unsaved' = Unsaved \/ Unsaved' = <<>>
      <4>1. main' \in Places
        BY StepLife DEF HistInv, LifeInv, ThreadsOK
      <4> QED
        BY <1>1, <2>1, <3>1, <4>1 DEF Places, Unsaved, InSession, Session
    <3> QED
      BY <1>1, <3>2, <3>3 DEF Log!Next, Log!Lose, Log!vars, Saved, Unsaved
  <2> QED
    BY <2>2, <2>3
<1> QED
  BY <1>2, <1>3

LEMMA LogSteps == HistInv /\ [Next]_vars => [Log!Next]_Log!vars
BY StepKinds, OffSteps, LoadSteps, MeasureSteps, WriteSteps, OtherSteps

(****************************************************************************)
(* Memory and file together implement HistoryLog: no result is lost, doubled *)
(* or moved but by a crash, and a crash costs saved results only while they  *)
(* are being saved again.                                                    *)
(****************************************************************************)
THEOREM HistoryKept == Spec => KeepsLog
<1>1. Init => HistInv /\ Log!Init
  <2>1. Init => Log!Init
    BY DEF Init, MeasurementsInit, Log!Init, InSession, Loadable
  <2> QED
    BY <2>1, InitLife, InitLog DEF HistInv
<1> QED
  BY <1>1, StepHist, LogSteps, PTL DEF Spec, KeepsLog, Log!Spec

-------------------------------------------------------------------------------
(* back().                                                                   *)

\* There is no way back from the save but the end of the program.
LEMMA EndIsFinal ==
    ASSUME [Next]_vars, main \in {"write", "destroy"}, ~Off
    PROVE  main' \in {"write", "destroy"}
BY DEF Next, MainRuns, StepsTo, Destroyed, Destroys, Moves, Goto, Unlock, Lock, Uses,
       seenVars, logVars, flags, vars, threadVars, Construct, Enter, Crash, Load,
       SetupThrows, Setup, ServerStart, ListenerStart, ListenerThrows, StartDisplay,
       JoinNet, StopLoop, JoinLoop, Open, Write, DestroyPlain, StopServer, DestroyServer,
       ShutdownButton, DestroyButton, DestroyAlarm, Return, Press, LetGo, Hold, HoldEnds,
       ButtonRuns, ClickLock, NextDisplayMode, ButtonEnds, Request, NetRuns, FrameLock,
       GetLastResult, SetClockAlarm, Reply, Replied, ClientIsDeaf, NetEnds, LoopRuns,
       LoopGoesOn, LoopEnds, LoopLock, MeasureAndDisplay, AlarmRuns, AlarmLooks,
       RingLock, Ring, Rung

\* Only a click and a request call back().
LEMMA WhoReads ==
    ASSUME [Next]_vars, ~Off, ~emptyRead, emptyRead'
    PROVE  /\ Runs("button") \/ Runs("net")
           /\ results = <<>> /\ UNCHANGED <<main, file, cutTime>>
<1> USE DEF Moves, Goto, Unlock, Lock, Uses, ReadsLast, logVars, seenVars, flags, threadVars, Runs
<1>1. CASE Press \/ LetGo \/ Hold \/ ButtonRuns \/ Request \/ NetRuns
  BY <1>1 DEF Press, LetGo, Hold, HoldEnds, ButtonRuns, ClickLock, NextDisplayMode, ButtonEnds,
              Request, NetRuns, FrameLock, GetLastResult, SetClockAlarm, Reply, Replied,
              ClientIsDeaf, NetEnds
<1>2. CASE LoopRuns \/ \E w \in Alarms : AlarmRuns(w)
  BY <1>2 DEF LoopRuns, LoopGoesOn, LoopEnds, LoopLock, MeasureAndDisplay,
              AlarmRuns, AlarmLooks, RingLock, Ring, Rung
<1>3. CASE Construct \/ Enter \/ Crash \/ MainRuns
  BY <1>3 DEF Construct, Enter, Crash, MainRuns, Load, SetupThrows, Setup, ServerStart,
              ListenerStart, ListenerThrows, StartDisplay, JoinNet, StopLoop, JoinLoop, Open,
              Write, DestroyPlain, StopServer, DestroyServer, ShutdownButton, DestroyButton,
              DestroyAlarm, Return
<1> QED
  BY <1>1, <1>2, <1>3 DEF Next, vars

LEMMA StepEmpty ==
    ASSUME HistInv, EmptyNeedsFresh, [Next]_vars
    PROVE  EmptyNeedsFresh'
<1>1. CASE Off
  BY <1>1 DEF Off, EmptyNeedsFresh
<1>2. CASE ~Off /\ emptyRead
  <2> SUFFICES ASSUME main' \notin {"write", "destroy"} PROVE Loadable' = <<>>
    BY DEF EmptyNeedsFresh
  <2>1. Loadable = <<>>
    BY <1>2, EndIsFinal DEF EmptyNeedsFresh
  <2>2. ~Write /\ ~Open
    BY DEF Write, Open, StepsTo
  <2>3. UNCHANGED <<file, cutTime>>
    BY <1>2, <2>2, StepKinds DEF Load, LoadResults, MeasureAndDisplay, Measure, OtherStep
  <2> QED
    BY <2>1, <2>3 DEF Loadable
<1>3. CASE ~Off /\ ~emptyRead
  <2> SUFFICES ASSUME emptyRead', main' \notin {"write", "destroy"} PROVE Loadable' = <<>>
    BY DEF EmptyNeedsFresh
  <2>1. /\ Runs("button") \/ Runs("net")
        /\ results = <<>> /\ UNCHANGED <<main, file, cutTime>>
    BY <1>3, WhoReads
  <2>2. Session
    BY <2>1 DEF HistInv, LifeInv, ThreadsOK, Places, ButtonLives, NetLives, Session
  <2>3. loaded = 0 /\ loaded = Len(Loadable) /\ Loadable \in Results
    BY <2>1, <2>2, LoadableType, EmptySeq DEF HistInv, LogInv, LogTypeOK
  <2>4. Loadable = <<>>
    BY <2>3, EmptySeq DEF Results
  <2> QED
    BY <2>1, <2>4 DEF Loadable
<1> QED
  BY <1>1, <1>2, <1>3

(****************************************************************************)
(* A click or a request finds an empty collection only if no start before    *)
(* has left anything to load.                                                *)
(****************************************************************************)
THEOREM EmptyOnlyFresh == Spec => []EmptyNeedsFresh
<1>1. Init => HistInv /\ EmptyNeedsFresh
  BY InitLife, InitLog DEF HistInv, Init, EmptyNeedsFresh
<1>2. HistInv /\ EmptyNeedsFresh /\ [Next]_vars => HistInv' /\ EmptyNeedsFresh'
  BY StepHist, StepEmpty
<1> QED
  BY <1>1, <1>2, PTL DEF Spec

==============================================================================
