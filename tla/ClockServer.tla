----------------------------- MODULE ClockServer ------------------------------
(****************************************************************************)
(* The clock as the phone sees it: Session.cpp reads a request, hands it to  *)
(* ReciveHandler::FrameHandler and sends what that returns.  Requests are    *)
(* served one at a time, each under appMutex_ (AlarmClock).  Of the clock's  *)
(* state only the LED is kept: the phone mirrors it.                         *)
(****************************************************************************)
EXTENDS Connection

VARIABLES
    clockUp,    \* the program runs
    led,        \* LED::isOn_
    silent,     \* history: FrameHandler has caught an exception and sent nothing
    executed    \* history: how often the phone's last request has been executed

serverVars == <<clockUp, led, silent, executed>>

Queries == {"getLastResult", "getAlarmTime", "getLEDState"}
Commands == {"setClockAlarm", "disableClockAlarm", "switchLED"}

\* Requests on which FrameHandler may throw: StopWorker and Buzzer::Off.
MayThrow == {"setClockAlarm", "disableClockAlarm"}

None == -1       \* null; a field that a line does not have

ServerInit ==
    /\ clockUp = TRUE
    /\ led = 0
    /\ silent = FALSE
    /\ executed = 0

-------------------------------------------------------------------------------
(* The lines of a reply: a response, and the message if there is one.        *)

Response(r) == [id |-> r.id, led |-> None]

Message(r) == [id |-> None, led |-> IF r.name = "getLEDState" THEN led ELSE 0]

\* A slip: an empty message is sent too.
AnswerWithBoth(r) == <<Response(r), Message(r)>>

Answer(r) == IF r.name \in Queries THEN <<Response(r), Message(r)>> ELSE <<Response(r)>>

Execute(r) == led' = IF r.name = "switchLED" THEN r.state ELSE led

\* FrameHandler, and Session::Send with what it returns.
Serve ==
    /\ clockUp /\ alive /\ toClock # <<>>
    /\ Execute(Head(toClock))
    /\ executed' = executed + 1
    /\ toPhone' = toPhone \o Answer(Head(toClock))
    /\ toClock' = Tail(toClock)
    /\ UNCHANGED <<clockUp, silent, alive, closed, late, losses>>

\* FrameHandler catches what the request throws: no reply, ready for the next.
ServeFails ==
    /\ clockUp /\ alive /\ toClock # <<>>
    /\ Head(toClock).name \in MayThrow
    /\ silent' = TRUE
    /\ toClock' = Tail(toClock)
    /\ UNCHANGED <<clockUp, led, executed, alive, toPhone, closed, late, losses>>

\* A request of a lost connection; sending its reply fails.
ServeLate ==
    /\ clockUp /\ late # <<>>
    /\ Execute(Head(late))
    /\ late' = Tail(late)
    /\ UNCHANGED <<clockUp, silent, executed, alive, toClock, toPhone, closed, losses>>

\* The program ends, whatever it was doing, with or without a connection.
Crash ==
    /\ clockUp
    /\ Cut
    /\ clockUp' = FALSE
    /\ late' = <<>>
    /\ UNCHANGED <<led, silent, executed>>

\* It is started again: LED::Setup switches the LED off.
Restart ==
    /\ ~clockUp
    /\ clockUp' = TRUE
    /\ led' = 0
    /\ UNCHANGED <<connectionVars, silent, executed>>

ServerRuns == Serve \/ ServeFails \/ ServeLate \/ Restart
==============================================================================
