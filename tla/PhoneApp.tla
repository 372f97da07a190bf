------------------------------- MODULE PhoneApp -------------------------------
(****************************************************************************)
(* The phone: MainActivity.java's tasks and TCPClient.java.  AsyncTasks run  *)
(* one at a time on a background thread, in the order in which they were     *)
(* started; what they and the refresh thread post runs on the main thread,   *)
(* in the order in which it was posted.  Only the background thread uses     *)
(* the connection.                                                           *)
(*                                                                          *)
(* A task is named by its request, or "connect".  What the app displays of   *)
(* the results is left out, but for the LED's state, which it also uses.     *)
(****************************************************************************)
EXTENDS ClockServer, SequencesExt

CONSTANTS
    Buttons,    \* the buttons that the user presses: a subset of Commands
    MaxTasks    \* bound: no press and no refresh while so much is queued

ASSUME ButtonsAreCommands == Buttons \subseteq Commands

VARIABLES
    out,              \* TCPClient.out # null
    nextId,           \* requestCtr, modulo 2: a reply is at most one call late
    task,             \* the task that the background thread runs
    step,             \* where in it it is
    request,          \* the request the task has sent
    response,         \* the id in the response that it has read
    tasks,            \* the executor's queue
    posts,            \* the main thread's queue
    serverConnected,  \* serverConnected: the controls are visible
    ledState          \* ledState

clientVars == <<out, nextId, request, response>>
taskVars == <<task, step>>
screenVars == <<serverConnected, ledState>>
phoneVars == <<clientVars, taskVars, tasks, posts, screenVars>>

NoRequest == [id |-> None, name |-> "none", state |-> 0]

\* onCreate calls connectingToServer.
PhoneInit ==
    /\ out = FALSE
    /\ nextId = 0
    /\ task = "none"
    /\ step = "idle"
    /\ request = NoRequest
    /\ response = None
    /\ tasks = <<"connect">>
    /\ posts = <<>>
    /\ serverConnected = FALSE
    /\ ledState = 0

-------------------------------------------------------------------------------
(* What the background thread posts.                                         *)

Disconnected == [is |-> "disconnected", task |-> "none", value |-> None]
Refresh == [is |-> "refresh", task |-> "none", value |-> None]
Done(t, value) == [is |-> "done", task |-> t, value |-> value]

Finish(news) ==
    /\ posts' = posts \o news
    /\ task' = "none"
    /\ step' = "idle"
    /\ request' = NoRequest
    /\ response' = None

\* The task ends without disconnect().
Return(value) == Finish(<<Done(task, value)>>) /\ UNCHANGED out

\* Slips: what the checks must not let pass.
DisconnectSilently == Finish(<<Done(task, None)>>) /\ out' = FALSE
NoResultIsNoNews == Return(None)

\* disconnect(): the task's own end is posted after the news.
Disconnect == Finish(<<Disconnected, Done(task, None)>>) /\ out' = FALSE

\* The call was not made, or its response was not the right one.
NoResult ==
    IF task \in {"getAlarmTime", "getLEDState"} THEN Return(None) ELSE Disconnect

-------------------------------------------------------------------------------
(* More slips.                                                               *)

EndUnnoticed ==
    /\ step \in {"response", "message"}
    /\ EndOfStream
    /\ Return(None)
    /\ UNCHANGED <<nextId, tasks, screenVars, connectionVars, serverVars>>

UpdateLEDStateUnchecked(value) == ledState' = value

UpdateMeasurements == <<"getLastResult", "getAlarmTime">>

ConnectingQuietly == tasks' = Append(tasks, "connect") /\ UNCHANGED screenVars

-------------------------------------------------------------------------------
(* The background thread.                                                    *)

StartTask ==
    /\ step = "idle"
    /\ tasks # <<>>
    /\ task' = Head(tasks)
    /\ tasks' = Tail(tasks)
    /\ step' = IF task' = "connect" THEN "connect" ELSE "ask"
    /\ UNCHANGED <<clientVars, posts, screenVars, connectionVars, serverVars>>

\* connectToServer: discovery and connect() are tried until they succeed.
ConnectToServer ==
    /\ step = "connect"
    /\ ~out
    /\ clockUp
    /\ Open
    /\ out' = TRUE
    /\ UNCHANGED <<nextId, request, response, taskVars, tasks, posts, screenVars, serverVars>>

Connected ==
    /\ step = "connect"
    /\ out
    /\ Return(None)
    /\ UNCHANGED <<nextId, tasks, screenVars, connectionVars, serverVars>>

\* out is null, or checkError() knows that the connection is lost.
CannotAsk ==
    /\ step = "ask"
    /\ ~out \/ (~alive /\ closed)
    /\ NoResult
    /\ UNCHANGED <<nextId, tasks, screenVars, connectionVars, serverVars>>

\* SwitchLEDTask asks for the state that is not ledState's.
Ask ==
    /\ step = "ask"
    /\ out
    /\ request' = [id |-> nextId, name |-> task,
                   state |-> IF task = "switchLED" THEN 1 - ledState ELSE 0]
    /\ nextId' = (nextId + 1) % 2
    /\ executed' = 0
    /\ Send(request')
    /\ step' = "response"
    /\ UNCHANGED <<out, response, task, tasks, posts, screenVars, clockUp, led, silent>>

ReadResponse ==
    /\ step = "response"
    /\ ReadLine
    /\ IF task \in Queries
       THEN /\ step' = "message"
            /\ response' = Head(toPhone).id
            /\ UNCHANGED <<task, posts, out, request>>
       ELSE IF Head(toPhone).id = request.id THEN Return(None) ELSE Disconnect
    /\ UNCHANGED <<nextId, tasks, screenVars, serverVars>>

\* A null response throws; a null result is the end of getLastResult only.
ReadMessage ==
    /\ step = "message"
    /\ ReadLine
    /\ LET value == Head(toPhone).led
       IN  CASE response = None -> Disconnect
             [] response = request.id /\ value # None -> Return(value)
             [] OTHER -> NoResult
    /\ UNCHANGED <<nextId, tasks, screenVars, serverVars>>

\* readLine throws, or returns null: a response that is null throws in the call,
\* a message that is null is no result, like one that does not parse.
ReadFails ==
    /\ step \in {"response", "message"}
    /\ EndOfStream
    /\ Disconnect \/ (step = "message" /\ response # None /\ NoResult)
    /\ UNCHANGED <<nextId, tasks, screenVars, connectionVars, serverVars>>

BackgroundRuns ==
    \/ StartTask \/ ConnectToServer \/ Connected \/ CannotAsk \/ Ask
    \/ ReadResponse \/ ReadMessage \/ ReadFails

-------------------------------------------------------------------------------
(* The main thread.                                                          *)

updateAll == <<"getLastResult", "getAlarmTime", "getLEDState">>

connectingToServer ==
    /\ serverConnected' = FALSE
    /\ tasks' = Append(tasks, "connect")
    /\ UNCHANGED ledState

\* GetLEDStateTask: a null state changes nothing.
UpdateLEDState(value) == ledState' = IF value = None THEN ledState ELSE value

\* onPostExecute: a command is followed by the query that shows its effect.
OnPostExecute(t, value) ==
    CASE t = "connect" ->
           serverConnected' = TRUE /\ tasks' = tasks \o updateAll /\ UNCHANGED ledState
      [] t = "getLEDState" ->
           UpdateLEDState(value) /\ UNCHANGED <<serverConnected, tasks>>
      [] t \in Commands ->
           /\ tasks' = Append(tasks, IF t = "switchLED" THEN "getLEDState" ELSE "getAlarmTime")
           /\ UNCHANGED screenVars
      [] OTHER -> UNCHANGED <<tasks, screenVars>>

MainRuns ==
    /\ posts # <<>>
    /\ posts' = Tail(posts)
    /\ LET post == Head(posts)
       IN  CASE post.is = "disconnected" -> connectingToServer
             [] post.is = "refresh" -> tasks' = tasks \o updateAll /\ UNCHANGED screenVars
             [] OTHER -> OnPostExecute(post.task, post.value)
    /\ UNCHANGED <<clientVars, taskVars, connectionVars, serverVars>>

\* A visible button is pressed.
Click ==
    /\ serverConnected
    /\ Len(tasks) + Len(posts) < MaxTasks
    /\ \E button \in Buttons : tasks' = Append(tasks, button)
    /\ UNCHANGED <<clientVars, taskVars, posts, screenVars, connectionVars, serverVars>>

\* The refresh thread, once a second.  The code looks at no queue: the bound
\* leaves out the posts that find much unserved.
RefreshThread ==
    /\ serverConnected
    /\ Len(tasks) + Len(posts) < MaxTasks
    /\ Refresh \notin Range(posts)
    /\ posts' = Append(posts, Refresh)
    /\ UNCHANGED <<clientVars, taskVars, tasks, screenVars, connectionVars, serverVars>>
==============================================================================
