----------------------------- MODULE Conversation -----------------------------
(****************************************************************************)
(* The phone and the clock together, over a network that loses connections   *)
(* and with a clock that crashes and is started again.                       *)
(****************************************************************************)
EXTENDS PhoneApp

vars == <<connectionVars, serverVars, phoneVars>>

Init == ConnectionInit /\ ServerInit /\ PhoneInit

Network == Lose /\ UNCHANGED <<serverVars, phoneVars>>

Server == ServerRuns /\ UNCHANGED phoneVars

ServerCrashes == Crash /\ UNCHANGED phoneVars

Next ==
    \/ BackgroundRuns \/ MainRuns \/ RefreshThread \/ Click
    \/ Server \/ ServerCrashes \/ Network

(****************************************************************************)
(* Both of the phone's threads, the refresh thread and the clock go on; a    *)
(* clock that is down is started again.  The refresh thread posts whatever   *)
(* the queues hold: its bound, which empties and fills, is not allowed to    *)
(* keep it from posting for ever.  Nobody has to press a button, and no      *)
(* connection has to be lost.                                                *)
(****************************************************************************)
Fairness ==
    /\ WF_vars(BackgroundRuns)
    /\ WF_vars(MainRuns)
    /\ SF_vars(RefreshThread)
    /\ WF_vars(Server)

Spec == Init /\ [][Next]_vars /\ Fairness

-------------------------------------------------------------------------------
Requests == [id : {0, 1}, name : Queries \cup Commands, state : {0, 1}]
Lines == [id : {0, 1, None}, led : {0, 1, None}]
Tasks == {"connect"} \cup Queries \cup Commands
Posts == [is : {"disconnected", "refresh", "done"}, task : Tasks \cup {"none"},
          value : {0, 1, None}]

\* Types; the LED's state stays what the clock can report.
TypeOK ==
    /\ alive \in BOOLEAN /\ clockUp \in BOOLEAN /\ silent \in BOOLEAN
    /\ closed \in BOOLEAN
    /\ toClock \in Seq(Requests) /\ late \in Seq(Requests)
    /\ toPhone \in Seq(Lines)
    /\ losses \in 0 .. MaxLosses
    /\ led \in {0, 1} /\ executed \in Nat
    /\ out \in BOOLEAN /\ nextId \in {0, 1}
    /\ task \in Tasks \cup {"none"}
    /\ step \in {"idle", "connect", "ask", "response", "message"}
    /\ request \in Requests \cup {NoRequest}
    /\ response \in {0, 1, None}
    /\ tasks \in Seq(Tasks) /\ posts \in Seq(Posts)
    /\ serverConnected \in BOOLEAN /\ ledState \in {0, 1}

-------------------------------------------------------------------------------
Asked == step \in {"response", "message"}

(****************************************************************************)
(* Requests and replies stay in step: when no call is out, nothing is left   *)
(* on a working connection that a later call could take for its own; during  *)
(* a call all there is belongs to it.                                        *)
(****************************************************************************)
InStep ==
    out /\ alive =>
        IF Asked
        THEN Len(toClock) + executed <= 1 /\ Len(toPhone) <= 2
        ELSE toClock = <<>> /\ toPhone = <<>>

\* A call that ends without disconnect() has been executed, exactly once, even
\* if what was to be read of its reply is lost and it returns null.
AnsweredMeansExecuted == [][Asked /\ step' = "idle" /\ out' => executed = 1]_vars

(****************************************************************************)
(* A phone without a connection is about to get one, however many tasks      *)
(* failed and whatever their news overtook.                                  *)
(****************************************************************************)
Connecting == task = "connect" \/ "connect" \in Range(tasks)

News(what, t) == \E i \in 1 .. Len(posts) : posts[i].is = what /\ posts[i].task = t

LostIsRetried == ~out => Connecting \/ News("disconnected", "none")

(****************************************************************************)
(* The controls are visible only with a connection, or until the news of its *)
(* loss is served; and with a connection they are, or will be.               *)
(****************************************************************************)
ScreenTellsConnection ==
    /\ serverConnected /\ ~out => News("disconnected", "none")
    /\ out /\ ~serverConnected => Connecting \/ News("done", "connect")

\* The background thread reads from a connection whose loss nobody tells it of.
Deserted == Asked /\ ~alive /\ ~closed /\ toPhone = <<>>

(****************************************************************************)
(* A phone that has lost the clock connects again, unless the connection is  *)
(* lost without a word while a reply is due: then it waits for ever.         *)
(****************************************************************************)
AlwaysReconnects == ~alive ~> (alive \/ Deserted)

(****************************************************************************)
(* Once the LED stays as it is, the phone comes to know its state, and keeps *)
(* it, if no request was left without a reply and it is not deserted.        *)
(****************************************************************************)
PhoneLearnsLed ==
    \A state \in {0, 1} :
        <>[](led = state /\ ~silent /\ ~Deserted) => <>[](ledState = state)
==============================================================================
