-------------------------- MODULE ConversationProofs --------------------------
(****************************************************************************)
(* What holds between the phone and the clock for any number of lost         *)
(* connections and crashes, and however long the phone's queues grow: types, *)
(* what a call finds in the connection, reads and waits for, and that the    *)
(* phone knows of every connection it has lost.                              *)
(****************************************************************************)
EXTENDS Conversation, TLAPS

-------------------------------------------------------------------------------
(* Queues.                                                                   *)

LEMMA Appending ==
    ASSUME NEW S, NEW s \in Seq(S), NEW e \in S
    PROVE  /\ Append(s, e) \in Seq(S)
           /\ Len(Append(s, e)) = Len(s) + 1
           /\ \A i \in 1 .. Len(s) : Append(s, e)[i] = s[i]
           /\ Append(s, e)[Len(s) + 1] = e
  OBVIOUS

LEMMA Joining ==
    ASSUME NEW S, NEW s \in Seq(S), NEW t \in Seq(S)
    PROVE  /\ s \o t \in Seq(S)
           /\ Len(s \o t) = Len(s) + Len(t)
           /\ \A i \in 1 .. Len(s) : (s \o t)[i] = s[i]
           /\ \A i \in 1 .. Len(t) : (s \o t)[Len(s) + i] = t[i]
  OBVIOUS

LEMMA Taking ==
    ASSUME NEW S, NEW s \in Seq(S), s # <<>>
    PROVE  /\ Head(s) \in S /\ Head(s) = s[1] /\ Len(s) >= 1
           /\ Tail(s) \in Seq(S) /\ Len(Tail(s)) = Len(s) - 1
           /\ \A i \in 2 .. Len(s) : Tail(s)[i - 1] = s[i]
  OBVIOUS

\* What is queued stays queued when more comes, and is taken out at the head only.
LEMMA StaysQueued ==
    ASSUME NEW S, NEW s \in Seq(S), NEW t \in Seq(S)
    PROVE  /\ \A x : x \in Range(s) => x \in Range(s \o t)
           /\ \A x : x \in Range(t) => x \in Range(s \o t)
<1>1. ASSUME NEW x, x \in Range(s) PROVE x \in Range(s \o t)
  <2>1. PICK i \in 1 .. Len(s) : s[i] = x
    BY <1>1 DEF Range
  <2>2. i \in DOMAIN (s \o t) /\ (s \o t)[i] = x
    BY <2>1, Joining
  <2> QED BY <2>2 DEF Range
<1>2. ASSUME NEW x, x \in Range(t) PROVE x \in Range(s \o t)
  <2>1. PICK i \in 1 .. Len(t) : t[i] = x
    BY <1>2 DEF Range
  <2>2. Len(s) + i \in DOMAIN (s \o t) /\ (s \o t)[Len(s) + i] = x
    BY <2>1, Joining
  <2> QED BY <2>2 DEF Range
<1> QED BY <1>1, <1>2

LEMMA StaysAppended ==
    ASSUME NEW S, NEW s \in Seq(S), NEW e \in S
    PROVE  /\ \A x : x \in Range(s) => x \in Range(Append(s, e))
           /\ e \in Range(Append(s, e))
<1>1. ASSUME NEW x, x \in Range(s) PROVE x \in Range(Append(s, e))
  <2>1. PICK i \in 1 .. Len(s) : s[i] = x
    BY <1>1 DEF Range
  <2>2. i \in DOMAIN Append(s, e) /\ Append(s, e)[i] = x
    BY <2>1, Appending
  <2> QED BY <2>2 DEF Range
<1>2. Len(s) + 1 \in DOMAIN Append(s, e) /\ Append(s, e)[Len(s) + 1] = e
  BY Appending
<1> QED BY <1>1, <1>2 DEF Range

LEMMA StaysBehind ==
    ASSUME NEW S, NEW s \in Seq(S), s # <<>>, NEW x \in Range(s), x # Head(s)
    PROVE  x \in Range(Tail(s))
<1>1. PICK i \in 1 .. Len(s) : s[i] = x
  BY DEF Range
<1>2. i # 1
  BY <1>1, Taking
<1>3. i - 1 \in DOMAIN Tail(s) /\ Tail(s)[i - 1] = x
  BY <1>1, <1>2, Taking
<1> QED BY <1>3 DEF Range

-------------------------------------------------------------------------------
(* Types, and which tasks are where in their calls.                          *)

TaskShape ==
    /\ step = "connect" <=> task = "connect"
    /\ step \in {"ask", "response", "message"} => task \in Queries \cup Commands

LEMMA PostsAreTyped ==
    /\ Disconnected \in Posts /\ Refresh \in Posts
    /\ \A t \in Tasks \cup {"none"}, v \in {0, 1, None} : Done(t, v) \in Posts
  BY DEF Disconnected, Refresh, Done, Posts, Tasks

LEMMA FinishTyped ==
    ASSUME TypeOK, NEW news \in Seq(Posts), Finish(news)
    PROVE  /\ posts' \in Seq(Posts) /\ task' \in Tasks \cup {"none"}
           /\ step' \in {"idle", "connect", "ask", "response", "message"}
           /\ request' \in Requests \cup {NoRequest} /\ response' \in {0, 1, None}
<1>1. posts' \in Seq(Posts)
  BY Joining DEF Finish, TypeOK
<1> QED BY <1>1 DEF Finish

\* disconnect() and a plain end, of a task whose result is of the right type.
LEMMA EndTyped ==
    ASSUME TypeOK, NEW v \in {0, 1, None}, Return(v) \/ Disconnect
    PROVE  /\ posts' \in Seq(Posts) /\ task' \in Tasks \cup {"none"}
           /\ step' \in {"idle", "connect", "ask", "response", "message"}
           /\ request' \in Requests \cup {NoRequest} /\ response' \in {0, 1, None}
           /\ out' \in BOOLEAN
<1>1. CASE Return(v)
  <2>1. <<Done(task, v)>> \in Seq(Posts)
    BY PostsAreTyped DEF TypeOK
  <2> QED BY <1>1, <2>1, FinishTyped DEF Return, TypeOK
<1>2. CASE Disconnect
  <2>1. Done(task, None) \in Posts
    BY PostsAreTyped DEF TypeOK
  <2>2. <<Disconnected, Done(task, None)>> \in Seq(Posts)
    BY PostsAreTyped, <2>1
  <2> QED BY <1>2, <2>2, FinishTyped DEF Disconnect
<1> QED BY <1>1, <1>2

LEMMA NoResultTyped ==
    ASSUME NoResult
    PROVE  \E v \in {0, 1, None} : Return(v) \/ Disconnect
  BY DEF NoResult

\* Lines that are read, and lines that are answered.
LEMMA LinesTyped ==
    /\ \A r \in Requests : Response(r) \in Lines
    /\ led \in {0, 1} => \A r \in Requests : Message(r) \in Lines /\ Answer(r) \in Seq(Lines)
<1>1. \A r \in Requests : Response(r) \in Lines
  BY DEF Response, Lines, Requests
<1>2. ASSUME led \in {0, 1}, NEW r \in Requests PROVE Message(r) \in Lines /\ Answer(r) \in Seq(Lines)
  <2>1. Message(r) \in Lines
    BY <1>2 DEF Message, Lines
  <2> QED BY <1>1, <2>1 DEF Answer
<1> QED BY <1>1, <1>2

LEMMA CutTyped ==
    ASSUME TypeOK, Cut
    PROVE  /\ alive' = FALSE /\ toClock' = <<>> /\ losses' \in 0 .. MaxLosses
           /\ closed' \in BOOLEAN
           /\ toPhone' \in Seq(Lines) /\ Len(toPhone') <= Len(toPhone)
<1>1. PICK n \in 0 .. Len(toPhone) : toPhone' = SubSeq(toPhone, 1, n)
  BY DEF Cut, Truncate
<1>2. toPhone' \in Seq(Lines) /\ Len(toPhone') = n
  BY <1>1 DEF TypeOK
<1>3. losses' \in 0 .. MaxLosses
  BY MaxLossesIsNatural DEF Cut, TypeOK
<1> QED BY <1>1, <1>2, <1>3 DEF Cut, TypeOK

LEMMA BackgroundTyped ==
    ASSUME TypeOK, TaskShape, BackgroundRuns
    PROVE  TypeOK'
<1>1. CASE StartTask
  <2>1. task' \in Tasks /\ tasks' \in Seq(Tasks)
    BY <1>1, Taking DEF StartTask, TypeOK
  <2> QED BY <1>1, <2>1 DEF StartTask, TypeOK, clientVars, screenVars, connectionVars, serverVars
<1>2. CASE ConnectToServer
  <2>1. alive' = TRUE /\ closed' = FALSE /\ out' = TRUE /\ toClock' = <<>> /\ toPhone' = <<>>
    BY <1>2 DEF ConnectToServer, Open
  <2>2. UNCHANGED <<late, losses, nextId, request, response, taskVars, tasks, posts,
                    screenVars, serverVars>>
    BY <1>2 DEF ConnectToServer, Open
  <2>3. alive' \in BOOLEAN /\ closed' \in BOOLEAN /\ out' \in BOOLEAN
    BY <2>1, Zenon
  <2>4. toClock' \in Seq(Requests) /\ toPhone' \in Seq(Lines)
    BY <2>1
  <2> QED BY <2>2, <2>3, <2>4 DEF TypeOK, taskVars, screenVars, serverVars
<1>3. CASE Connected
  <2>1. Return(None)
    BY <1>3 DEF Connected
  <2> QED BY <1>3, <2>1, EndTyped DEF Connected, TypeOK, screenVars, connectionVars, serverVars
<1>4. CASE CannotAsk
  <2>1. PICK v \in {0, 1, None} : Return(v) \/ Disconnect
    BY <1>4, NoResultTyped DEF CannotAsk
  <2> QED BY <1>4, <2>1, EndTyped DEF CannotAsk, TypeOK, screenVars, connectionVars, serverVars
<1>5. CASE Ask
  <2>1. request' \in Requests
    BY <1>5 DEF Ask, TaskShape, Requests, TypeOK
  <2>2. toClock' \in Seq(Requests)
    BY <1>5, <2>1, Appending DEF Ask, Send, TypeOK
  <2> QED BY <1>5, <2>1, <2>2 DEF Ask, Send, TypeOK, screenVars
<1>6. CASE ReadResponse
  <2>1. Head(toPhone) \in Lines /\ toPhone' \in Seq(Lines)
    BY <1>6, Taking DEF ReadResponse, ReadLine, TypeOK
  <2>2. CASE task \in Queries
    <3>1. response' \in {0, 1, None}
      BY <1>6, <2>1, <2>2 DEF ReadResponse, Lines
    <3> QED BY <1>6, <2>1, <2>2, <3>1 DEF ReadResponse, ReadLine, TypeOK, screenVars, serverVars
  <2>3. CASE task \notin Queries
    <3>1. Return(None) \/ Disconnect
      BY <1>6, <2>3 DEF ReadResponse
    <3> QED
      BY <1>6, <2>1, <3>1, EndTyped DEF ReadResponse, ReadLine, TypeOK, screenVars, serverVars
  <2> QED BY <2>2, <2>3
<1>7. CASE ReadMessage
  <2>1. Head(toPhone) \in Lines /\ toPhone' \in Seq(Lines)
    BY <1>7, Taking DEF ReadMessage, ReadLine, TypeOK
  <2>2. Head(toPhone).led \in {0, 1, None}
    BY <2>1 DEF Lines
  <2>3. \E v \in {0, 1, None} : Return(v) \/ Disconnect
    BY <1>7, <2>2, NoResultTyped DEF ReadMessage
  <2> QED
    BY <1>7, <2>1, <2>3, EndTyped DEF ReadMessage, ReadLine, TypeOK, screenVars, serverVars
<1>8. CASE ReadFails
  <2>1. \E v \in {0, 1, None} : Return(v) \/ Disconnect
    BY <1>8, NoResultTyped DEF ReadFails
  <2> QED
    BY <1>8, <2>1, EndTyped DEF ReadFails, TypeOK, screenVars, connectionVars, serverVars
<1> QED
  BY <1>1, <1>2, <1>3, <1>4, <1>5, <1>6, <1>7, <1>8 DEF BackgroundRuns

LEMMA MainTyped ==
    ASSUME TypeOK, MainRuns
    PROVE  TypeOK'
<1> DEFINE post == Head(posts)
<1>1. post \in Posts /\ posts' \in Seq(Posts)
  BY Taking DEF MainRuns, TypeOK
<1>2. tasks' \in Seq(Tasks) /\ serverConnected' \in BOOLEAN /\ ledState' \in {0, 1}
  <2>1. CASE post.is = "disconnected"
    <3>1. Append(tasks, "connect") \in Seq(Tasks)
      BY Appending DEF Tasks, TypeOK
    <3> QED BY <2>1, <3>1 DEF MainRuns, connectingToServer, TypeOK
  <2>2. updateAll \in Seq(Tasks)
    BY DEF updateAll, Tasks, Queries
  <2>3. tasks \o updateAll \in Seq(Tasks)
    BY <2>2, Joining DEF TypeOK
  <2>4. CASE post.is = "refresh"
    BY <2>3, <2>4 DEF MainRuns, TypeOK, screenVars
  <2>5. CASE post.is \notin {"disconnected", "refresh"}
    <3>1. OnPostExecute(post.task, post.value)
      BY <2>5 DEF MainRuns
    <3>2. CASE post.task = "connect"
      BY <2>3, <3>1, <3>2 DEF OnPostExecute, Commands, TypeOK
    <3>3. CASE post.task = "getLEDState"
      BY <1>1, <3>1, <3>3 DEF OnPostExecute, Commands, UpdateLEDState, Posts, TypeOK
    <3>4. CASE post.task \in Commands
      <4>1. \A t \in Queries : Append(tasks, t) \in Seq(Tasks)
        BY Appending DEF Tasks, TypeOK
      <4>2. post.task \notin {"connect", "getLEDState"}
        BY <3>4 DEF Commands
      <4> QED BY <3>1, <3>4, <4>1, <4>2 DEF OnPostExecute, Queries, screenVars, TypeOK
    <3>5. CASE post.task \notin {"connect", "getLEDState"} \cup Commands
      BY <3>1, <3>5 DEF OnPostExecute, screenVars, TypeOK
    <3> QED BY <3>2, <3>3, <3>4, <3>5
  <2> QED BY <2>1, <2>4, <2>5
<1> QED
  BY <1>1, <1>2 DEF MainRuns, TypeOK, clientVars, taskVars, connectionVars, serverVars

LEMMA OthersTyped ==
    ASSUME TypeOK, RefreshThread \/ Click \/ Server \/ ServerCrashes \/ Network
    PROVE  TypeOK'
<1>1. CASE RefreshThread
  <2>1. posts' \in Seq(Posts)
    BY <1>1, Appending, PostsAreTyped DEF RefreshThread, TypeOK
  <2> QED
    BY <1>1, <2>1 DEF RefreshThread, TypeOK, clientVars, taskVars, screenVars, connectionVars,
                      serverVars
<1>2. CASE Click
  <2>1. tasks' \in Seq(Tasks)
    BY <1>2, Appending, ButtonsAreCommands DEF Click, Tasks, TypeOK
  <2> QED
    BY <1>2, <2>1 DEF Click, TypeOK, clientVars, taskVars, screenVars, connectionVars, serverVars
<1>3. ASSUME NEW r \in Requests PROVE r.state \in {0, 1}
  BY DEF Requests
<1>4. CASE Serve /\ UNCHANGED phoneVars
  <2>1. Head(toClock) \in Requests /\ toClock' \in Seq(Requests)
    BY <1>4, Taking DEF Serve, TypeOK
  <2>2. toPhone' \in Seq(Lines)
    BY <1>4, <2>1, LinesTyped, Joining DEF Serve, TypeOK
  <2>3. led' \in {0, 1}
    BY <1>3, <1>4, <2>1 DEF Serve, Execute, TypeOK
  <2> QED
    BY <1>4, <2>1, <2>2, <2>3
       DEF Serve, TypeOK, phoneVars, clientVars, taskVars, screenVars
<1>5. CASE ServeFails /\ UNCHANGED phoneVars
  <2>1. toClock' \in Seq(Requests)
    BY <1>5, Taking DEF ServeFails, TypeOK
  <2> QED
    BY <1>5, <2>1 DEF ServeFails, TypeOK, phoneVars, clientVars, taskVars, screenVars
<1>6. CASE ServeLate /\ UNCHANGED phoneVars
  <2>1. Head(late) \in Requests /\ late' \in Seq(Requests)
    BY <1>6, Taking DEF ServeLate, TypeOK
  <2>2. led' \in {0, 1}
    BY <1>3, <1>6, <2>1 DEF ServeLate, Execute, TypeOK
  <2> QED
    BY <1>6, <2>1, <2>2 DEF ServeLate, TypeOK, phoneVars, clientVars, taskVars, screenVars
<1>7. CASE Restart /\ UNCHANGED phoneVars
  BY <1>7 DEF Restart, TypeOK, connectionVars, phoneVars, clientVars, taskVars, screenVars
<1> DEFINE Shortened ==
             /\ alive' \in BOOLEAN /\ toClock' \in Seq(Requests) /\ losses' \in 0 .. MaxLosses
             /\ toPhone' \in Seq(Lines) /\ closed' \in BOOLEAN
<1>8. CASE ServerCrashes
  <2>1. Shortened
    BY <1>8, CutTyped DEF ServerCrashes, Crash
  <2>2. late' \in Seq(Requests)
    BY <1>8 DEF ServerCrashes, Crash
  <2>3. clockUp' \in BOOLEAN /\ UNCHANGED <<led, silent, executed, phoneVars>>
    BY <1>8 DEF ServerCrashes, Crash
  <2> QED
    BY <2>1, <2>2, <2>3 DEF TypeOK, phoneVars, clientVars, taskVars, screenVars
<1>9. CASE Network
  <2>1. Shortened
    BY <1>9, CutTyped DEF Network, Lose
  <2>2. late' \in Seq(Requests)
    <3>1. late \in Seq(Requests) /\ toClock \in Seq(Requests)
      BY DEF TypeOK
    <3>2. late \o toClock \in Seq(Requests)
      BY <3>1
    <3> QED BY <1>9, <3>1, <3>2 DEF Network, Lose
  <2>3. UNCHANGED <<serverVars, phoneVars>>
    BY <1>9 DEF Network
  <2> QED
    BY <2>1, <2>2, <2>3
       DEF TypeOK, serverVars, phoneVars, clientVars, taskVars, screenVars
<1> QED
  BY <1>1, <1>2, <1>4, <1>5, <1>6, <1>7, <1>8, <1>9 DEF Server, ServerRuns

\* However a call ends, the background thread is idle; only disconnect() closes.
LEMMA CallEnds ==
    ASSUME NEW v, Return(v) \/ Disconnect \/ NoResult
    PROVE  step' = "idle" /\ task' = "none" /\ (out' = out \/ out' = FALSE)
  BY DEF Return, Disconnect, NoResult, Finish

LEMMA ShapeKept ==
    ASSUME TypeOK, TaskShape, [Next]_vars
    PROVE  TaskShape'
<1>1. CASE StartTask
  <2>1. task' \in Tasks
    BY <1>1, Taking DEF StartTask, TypeOK
  <2> QED BY <1>1, <2>1 DEF StartTask, TaskShape, Tasks
<1>2. CASE ConnectToServer
  BY <1>2 DEF ConnectToServer, TaskShape, taskVars
<1>3. CASE Ask
  BY <1>3 DEF Ask, TaskShape
<1>4. CASE Connected \/ CannotAsk \/ ReadFails
  <2>1. step' = "idle" /\ task' = "none"
    BY <1>4, CallEnds DEF Connected, CannotAsk, ReadFails
  <2> QED BY <2>1 DEF TaskShape, Queries, Commands
<1>5. CASE ReadResponse
  <2>1. CASE task \in Queries
    BY <1>5, <2>1 DEF ReadResponse, TaskShape
  <2>2. CASE task \notin Queries
    <3>1. step' = "idle" /\ task' = "none"
      BY <1>5, <2>2, CallEnds DEF ReadResponse
    <3> QED BY <3>1 DEF TaskShape, Queries, Commands
  <2> QED BY <2>1, <2>2
<1>6. CASE ReadMessage
  <2>1. step' = "idle" /\ task' = "none"
    BY <1>6, CallEnds DEF ReadMessage
  <2> QED BY <2>1 DEF TaskShape, Queries, Commands
<1>7. CASE UNCHANGED taskVars
  BY <1>7 DEF TaskShape, taskVars
<1>8. MainRuns \/ RefreshThread \/ Click \/ UNCHANGED phoneVars => UNCHANGED taskVars
  BY DEF MainRuns, RefreshThread, Click, phoneVars
<1> QED
  BY <1>1, <1>2, <1>3, <1>4, <1>5, <1>6, <1>7, <1>8
     DEF Next, BackgroundRuns, Server, ServerCrashes, Network, vars

LEMMA TypesKept ==
    ASSUME TypeOK, TaskShape, [Next]_vars
    PROVE  TypeOK'
<1>1. CASE UNCHANGED vars
  BY <1>1 DEF TypeOK, vars, connectionVars, serverVars, phoneVars, clientVars, taskVars, screenVars
<1> QED
  BY <1>1, BackgroundTyped, MainTyped, OthersTyped DEF Next

\* Types hold from the beginning.
LEMMA TypesAtFirst ==
    ASSUME Init PROVE TypeOK /\ TaskShape
<1>1. <<"connect">> \in Seq(Tasks)
  BY DEF Tasks
<1>2. TaskShape
  BY DEF Init, PhoneInit, TaskShape
<1>3. losses \in 0 .. MaxLosses
  BY MaxLossesIsNatural DEF Init, ConnectionInit
<1>4. tasks \in Seq(Tasks) /\ posts \in Seq(Posts)
  BY <1>1 DEF Init, PhoneInit
<1>5. /\ alive \in BOOLEAN /\ clockUp \in BOOLEAN /\ silent \in BOOLEAN
      /\ closed \in BOOLEAN /\ out \in BOOLEAN /\ serverConnected \in BOOLEAN
  BY DEF Init, ConnectionInit, ServerInit, PhoneInit
<1>6. toClock \in Seq(Requests) /\ late \in Seq(Requests) /\ toPhone \in Seq(Lines)
  BY DEF Init, ConnectionInit
<1>7. /\ led \in {0, 1} /\ executed \in Nat /\ nextId \in {0, 1} /\ ledState \in {0, 1}
      /\ task \in Tasks \cup {"none"}
      /\ step \in {"idle", "connect", "ask", "response", "message"}
      /\ request \in Requests \cup {NoRequest} /\ response \in {0, 1, None}
  BY DEF Init, ServerInit, PhoneInit
<1> QED
  BY <1>2, <1>3, <1>4, <1>5, <1>6, <1>7 DEF TypeOK

(****************************************************************************)
(* Types: whatever is read, answered, queued and posted is what the reader   *)
(* expects, and a task that waits for the clock is one of the six requests.  *)
(****************************************************************************)
THEOREM ConversationTyped == Spec => [](TypeOK /\ TaskShape)
<1>1. Init => TypeOK /\ TaskShape
  BY TypesAtFirst
<1>2. TypeOK /\ TaskShape /\ [Next]_vars => (TypeOK /\ TaskShape)'
  BY TypesKept, ShapeKept
<1> QED
  BY <1>1, <1>2, PTL DEF Spec

-------------------------------------------------------------------------------
(* Calls.                                                                    *)

LEMMA OneInQueue ==
    ASSUME NEW a
    PROVE  Append(<<>>, a) = <<a>> /\ Tail(<<a>>) = <<>> /\ Head(<<a>>) = a
<1>1. Len(Append(<<>>, a)) = 1 /\ Append(<<>>, a)[1] = a
  OBVIOUS
<1>2. Len(Tail(<<a>>)) = 0
  OBVIOUS
<1> QED BY <1>1, <1>2

\* Where a call's request and reply are; a reply is not longer than its call reads.
CallInv ==
    /\ ~Asked /\ out => toClock = <<>> /\ toPhone = <<>>
    /\ Asked => out /\ request \in Requests /\ request.name = task
    /\ step = "response" =>
         \/ executed = 0 /\ toPhone = <<>> /\ toClock \in {<<>>, <<request>>}
         \/ /\ executed = 1 /\ toClock = <<>>
            /\ Len(toPhone) <= IF task \in Queries THEN 2 ELSE 1
    /\ step = "message" =>
         executed = 1 /\ toClock = <<>> /\ Len(toPhone) <= 1

LEMMA CallInvAsks ==
    ASSUME TypeOK, TaskShape, CallInv, Ask
    PROVE  CallInv'
<1>1. request' \in Requests /\ request'.name = task
  BY DEF Ask, Requests, TypeOK, TaskShape
<1>2. toPhone' = <<>> /\ toClock' \in {<<>>, <<request'>>}
  BY OneInQueue DEF Ask, Send, CallInv, Asked
<1> QED BY <1>1, <1>2 DEF Ask, CallInv, Asked

LEMMA CallInvReads ==
    ASSUME TypeOK, TaskShape, CallInv, ReadResponse \/ ReadMessage \/ ReadFails
    PROVE  CallInv'
<1>1. CASE ReadFails
  <2>1. step' = "idle" /\ UNCHANGED <<toClock, toPhone>> /\ toPhone = <<>>
    <3>1. step' = "idle"
      BY <1>1, CallEnds DEF ReadFails
    <3> QED BY <1>1, <3>1 DEF ReadFails, EndOfStream, connectionVars
  <2>2. out' = FALSE \/ step = "message"
    BY <1>1 DEF ReadFails, Disconnect
  <2> QED BY <2>1, <2>2 DEF CallInv, Asked
<1>2. CASE ReadResponse
  <2>1. executed = 1 /\ toClock = <<>> /\ Len(toPhone) <= IF task \in Queries THEN 2 ELSE 1
    BY <1>2 DEF ReadResponse, ReadLine, CallInv
  <2>2. toPhone' \in Seq(Lines) /\ Len(toPhone') = Len(toPhone) - 1
    BY <1>2, Taking DEF ReadResponse, ReadLine, TypeOK
  <2>3. UNCHANGED <<toClock, executed>>
    BY <1>2 DEF ReadResponse, ReadLine, serverVars
  <2>4. CASE task \in Queries
    BY <1>2, <2>1, <2>2, <2>3, <2>4 DEF ReadResponse, CallInv, Asked
  <2>5. CASE task \notin Queries
    <3>1. toPhone' = <<>>
      BY <2>1, <2>2, <2>5
    <3>2. step' = "idle"
      BY <1>2, <2>5, CallEnds DEF ReadResponse
    <3> QED BY <2>1, <2>3, <3>1, <3>2 DEF CallInv, Asked
  <2> QED BY <2>4, <2>5
<1>3. CASE ReadMessage
  <2>1. toClock = <<>> /\ Len(toPhone) <= 1 /\ toPhone # <<>>
    BY <1>3 DEF ReadMessage, ReadLine, CallInv
  <2>2. toPhone' \in Seq(Lines) /\ Len(toPhone') = Len(toPhone) - 1
    BY <1>3, Taking DEF ReadMessage, ReadLine, TypeOK
  <2>3. toPhone' = <<>>
    BY <2>1, <2>2
  <2>4. toClock' = <<>>
    BY <1>3, <2>1 DEF ReadMessage, ReadLine
  <2>5. step' = "idle"
    BY <1>3, CallEnds DEF ReadMessage
  <2> QED BY <2>3, <2>4, <2>5 DEF CallInv, Asked
<1> QED BY <1>1, <1>2, <1>3

LEMMA CallInvElsewhere ==
    ASSUME TypeOK, CallInv, StartTask \/ ConnectToServer \/ Connected \/ CannotAsk
    PROVE  CallInv'
<1>1. CASE StartTask
  BY <1>1 DEF StartTask, CallInv, Asked, clientVars, connectionVars, serverVars
<1>2. CASE ConnectToServer
  BY <1>2 DEF ConnectToServer, Open, CallInv, Asked, taskVars, serverVars
<1>3. CASE Connected \/ CannotAsk
  <2>1. step' = "idle" /\ (out' = out \/ out' = FALSE)
    BY <1>3, CallEnds DEF Connected, CannotAsk
  <2>2. UNCHANGED <<toClock, toPhone>> /\ ~Asked
    BY <1>3 DEF Connected, CannotAsk, connectionVars, Asked
  <2> QED BY <2>1, <2>2 DEF CallInv, Asked
<1> QED BY <1>1, <1>2, <1>3

LEMMA CallInvServed ==
    ASSUME TypeOK, CallInv, Server
    PROVE  CallInv'
<1>1. UNCHANGED <<out, step, task, request>> /\ (Asked' <=> Asked)
  BY DEF Server, phoneVars, clientVars, taskVars, Asked
<1>2. CASE Serve
  <2>1. toClock # <<>>
    BY <1>2 DEF Serve
  <2>2. ASSUME Asked
        PROVE  /\ step = "response" /\ request \in Requests /\ request.name = task
               /\ executed = 0 /\ toPhone = <<>> /\ toClock = <<request>>
    BY <2>1, <2>2 DEF CallInv, Asked
  <2>3. ASSUME Asked
        PROVE  /\ executed' = 1 /\ toClock' = <<>>
               /\ Len(toPhone') <= IF task \in Queries THEN 2 ELSE 1
    <3>1. Head(toClock) = request /\ Tail(toClock) = <<>>
      BY <2>2, <2>3, OneInQueue
    <3>2. executed' = 1
      BY <1>2, <2>2, <2>3 DEF Serve
    <3>3. toClock' = <<>>
      BY <1>2, <3>1 DEF Serve
    <3>4. toPhone' = <<>> \o Answer(request)
      BY <1>2, <2>2, <2>3, <3>1 DEF Serve
    <3>5. Answer(request) \in Seq(Lines)
      BY <2>2, <2>3, LinesTyped DEF TypeOK
    <3>6. Len(toPhone') = Len(Answer(request))
      BY <3>4, <3>5
    <3>7. Len(Answer(request)) = IF task \in Queries THEN 2 ELSE 1
      BY <2>2, <2>3 DEF Answer
    <3>8. Len(toPhone') <= IF task \in Queries THEN 2 ELSE 1
      BY <3>6, <3>7
    <3> QED BY <3>2, <3>3, <3>8
  <2> QED BY <1>1, <2>1, <2>2, <2>3 DEF CallInv, Asked
<1>3. CASE ServeFails
  <2>1. toClock # <<>> /\ UNCHANGED <<executed, toPhone>> /\ toClock' = Tail(toClock)
    BY <1>3 DEF ServeFails
  <2>2. ASSUME Asked PROVE step = "response" /\ toClock' = <<>> /\ toClock = <<request>>
    BY <2>1, <2>2, OneInQueue DEF CallInv, Asked
  <2> QED BY <1>1, <2>1, <2>2 DEF CallInv, Asked
<1>4. CASE ServeLate \/ Restart
  <2>1. UNCHANGED <<executed, toPhone, toClock>>
    BY <1>4 DEF ServeLate, Restart, connectionVars
  <2> QED BY <1>1, <2>1 DEF CallInv, Asked
<1> QED BY <1>2, <1>3, <1>4 DEF Server, ServerRuns

LEMMA CallInvLost ==
    ASSUME TypeOK, CallInv, ServerCrashes \/ Network
    PROVE  CallInv'
<1>1. UNCHANGED <<out, step, task, request>> /\ (Asked' <=> Asked)
  BY DEF ServerCrashes, Network, phoneVars, clientVars, taskVars, Asked
<1>2. UNCHANGED executed /\ Cut
  BY DEF ServerCrashes, Crash, Network, Lose, serverVars
<1>3. toClock' = <<>> /\ toPhone' \in Seq(Lines) /\ Len(toPhone') <= Len(toPhone)
  BY <1>2, CutTyped
<1>4. toPhone = <<>> => toPhone' = <<>>
  BY <1>3
<1>5. Len(toPhone) \in Nat /\ Len(toPhone') \in Nat
  BY <1>3 DEF TypeOK
<1> QED BY <1>1, <1>2, <1>3, <1>4, <1>5 DEF CallInv, Asked

LEMMA CallInvKept ==
    ASSUME TypeOK, TaskShape, CallInv, [Next]_vars
    PROVE  CallInv'
<1>1. CASE UNCHANGED <<clientVars, taskVars, connectionVars, serverVars>>
  BY <1>1 DEF CallInv, Asked, clientVars, taskVars, connectionVars, serverVars
<1>2. MainRuns \/ RefreshThread \/ Click \/ UNCHANGED vars
        => UNCHANGED <<clientVars, taskVars, connectionVars, serverVars>>
  BY DEF MainRuns, RefreshThread, Click, vars, phoneVars
<1> QED
  BY <1>1, <1>2, CallInvAsks, CallInvReads, CallInvElsewhere, CallInvServed, CallInvLost
     DEF Next, BackgroundRuns

CallAndTypes == TypeOK /\ TaskShape /\ CallInv

LEMMA CallsAtFirst ==
    Init => CallAndTypes
  BY TypesAtFirst DEF CallAndTypes, Init, ConnectionInit, PhoneInit, CallInv, Asked

LEMMA CallsKept ==
    CallAndTypes /\ [Next]_vars => CallAndTypes'
  BY TypesKept, ShapeKept, CallInvKept DEF CallAndTypes

(****************************************************************************)
(* No line and no request is left over when a call has ended on a working    *)
(* connection: what the next call reads was written for it, whatever was     *)
(* lost, refused or crashed before.                                          *)
(****************************************************************************)
THEOREM CallsStayInStep == Spec => []InStep
<1>1. CallAndTypes => InStep
  <2> SUFFICES ASSUME CallAndTypes, out, alive PROVE InStep
    BY DEF InStep
  <2>1. CASE ~Asked
    BY <2>1 DEF CallAndTypes, CallInv, InStep
  <2>2. CASE Asked
    <3>1. Len(toPhone) \in Nat
      BY DEF CallAndTypes, TypeOK
    <3>2. Len(toClock) + executed <= 1
      BY <2>2, OneInQueue DEF CallAndTypes, CallInv, Asked
    <3>3. Len(toPhone) <= 2
      BY <2>2, <3>1 DEF CallAndTypes, CallInv, Asked
    <3> QED BY <2>2, <3>2, <3>3 DEF InStep
  <2> QED BY <2>1, <2>2
<1> QED
  BY <1>1, CallsAtFirst, CallsKept, PTL DEF Spec

(****************************************************************************)
(* A call of TCPClient that ends without disconnect() was executed by the    *)
(* clock once, not never and not twice: even one that lost its message and   *)
(* returns null on a connection that it takes for a working one.             *)
(****************************************************************************)
THEOREM CallsExecutedOnce == Spec => AnsweredMeansExecuted
<1>1. CallAndTypes /\ [Next]_vars
        => [Asked /\ step' = "idle" /\ out' => executed = 1]_vars
  <2> SUFFICES ASSUME CallAndTypes, Next, Asked, step' = "idle", out' PROVE executed = 1
    OBVIOUS
  <2>1. step' # step
    BY DEF Asked
  <2>2. ~ (MainRuns \/ RefreshThread \/ Click \/ Server \/ ServerCrashes \/ Network)
    BY <2>1 DEF MainRuns, RefreshThread, Click, Server, ServerCrashes, Network, phoneVars, taskVars
  <2>3. ~ (StartTask \/ ConnectToServer \/ Connected \/ CannotAsk \/ Ask)
    BY DEF StartTask, ConnectToServer, Connected, CannotAsk, Ask, Asked
  <2>4. CASE ReadResponse \/ ReadMessage
    <3>1. toPhone # <<>>
      BY <2>4 DEF ReadResponse, ReadMessage, ReadLine
    <3> QED BY <3>1 DEF CallAndTypes, CallInv, Asked
  <2>5. CASE ReadFails
    <3>1. step = "message"
      BY <2>5 DEF ReadFails, Disconnect
    <3> QED BY <3>1 DEF CallAndTypes, CallInv
  <2> QED BY <2>2, <2>3, <2>4, <2>5 DEF Next, BackgroundRuns
<1> QED
  BY <1>1, CallsAtFirst, CallsKept, PTL DEF Spec, AnsweredMeansExecuted

-------------------------------------------------------------------------------
(* What a call reads, and what it waits for.                                 *)

(****************************************************************************)
(* The line a call reads next is always its own reply's, in the right order: *)
(* the comparison of the ids, which disconnects the phone, never finds a     *)
(* stranger's, although the ids say only which of two calls it was.          *)
(****************************************************************************)
OwnReply ==
    /\ step = "response" /\ toPhone # <<>> => Head(toPhone).id = request.id
    /\ step = "message" =>
          response = request.id /\ (toPhone # <<>> => Head(toPhone).led # None)

(****************************************************************************)
(* A call on a working connection has a request for the running clock to     *)
(* serve or a line to read, or it is the call that FrameHandler has left     *)
(* without a reply; its message never fails to follow its response.          *)
(****************************************************************************)
ReplyIsUnderWay ==
    /\ alive => clockUp
    /\ step = "response" /\ alive =>
          toClock # <<>> \/ toPhone # <<>> \/ (silent /\ executed = 0)
    /\ step = "message" /\ alive => toPhone # <<>>

\* What is left of the reply to the request, as far as it has not been cut off.
ReplyInv ==
    /\ alive => clockUp
    /\ step = "response" =>
          /\ toPhone # <<>> => toPhone[1].id = request.id
          /\ Len(toPhone) = 2 => toPhone[2].led # None
          /\ alive /\ executed = 1 => Len(toPhone) = IF task \in Queries THEN 2 ELSE 1
          /\ alive /\ executed = 0 => toClock # <<>> \/ silent
    /\ step = "message" =>
          /\ response = request.id
          /\ toPhone # <<>> => toPhone[1].led # None
          /\ alive => toPhone # <<>>

LEMMA ReplyInvServed ==
    ASSUME CallAndTypes, ReplyInv, Serve, UNCHANGED phoneVars
    PROVE  ReplyInv'
<1>1. UNCHANGED <<step, task, request, response, clockUp, alive>>
  BY DEF Serve, phoneVars, clientVars, taskVars
<1>2. toClock # <<>> /\ executed' = executed + 1 /\ toPhone' = toPhone \o Answer(Head(toClock))
  BY DEF Serve
<1>3. step # "message"
  BY <1>2 DEF CallAndTypes, CallInv
<1>4. CASE step = "response"
  <2>1. executed = 0 /\ toPhone = <<>> /\ toClock = <<request>>
    BY <1>2, <1>4 DEF CallAndTypes, CallInv
  <2>2. request \in Requests /\ request.name = task
    BY <1>4 DEF CallAndTypes, CallInv, Asked
  <2>3. Answer(request) \in Seq(Lines) /\ led \in {0, 1}
    BY <2>2, LinesTyped DEF CallAndTypes, TypeOK
  <2>4. toPhone' = Answer(request)
    BY <1>2, <2>1, <2>3, OneInQueue
  <2>5. Message(request).led # None
    BY <2>3 DEF Message, None
  <2>6. /\ Len(Answer(request)) = IF task \in Queries THEN 2 ELSE 1
        /\ Answer(request)[1].id = request.id
        /\ Len(Answer(request)) = 2 => Answer(request)[2].led # None
    BY <2>2, <2>5 DEF Answer, Response
  <2>7. executed' = 1
    BY <1>2, <2>1
  <2> QED BY <1>1, <1>4, <2>4, <2>6, <2>7 DEF ReplyInv
<1> QED BY <1>1, <1>3, <1>4 DEF ReplyInv

LEMMA ReplyInvLost ==
    ASSUME CallAndTypes, ReplyInv, Cut, UNCHANGED <<step, request, response>>
    PROVE  ReplyInv'
<1>1. PICK n \in 0 .. Len(toPhone) : toPhone' = SubSeq(toPhone, 1, n)
  BY DEF Cut, Truncate
<1>2. toPhone \in Seq(Lines) /\ alive' = FALSE
  BY DEF CallAndTypes, TypeOK, Cut
<1>3. /\ toPhone' \in Seq(Lines) /\ Len(toPhone') = n
      /\ \A i \in 1 .. n : toPhone'[i] = toPhone[i]
  BY <1>1, <1>2
<1>4. toPhone' # <<>> => toPhone # <<>> /\ toPhone'[1] = toPhone[1]
  BY <1>2, <1>3
<1>5. step = "response" /\ Len(toPhone') = 2 => Len(toPhone) = 2 /\ toPhone'[2] = toPhone[2]
  <2>1. step = "response" => Len(toPhone) <= 2
    BY <1>2 DEF CallAndTypes, CallInv
  <2> QED BY <1>2, <1>3, <2>1
<1> QED BY <1>2, <1>4, <1>5 DEF ReplyInv

LEMMA ReplyInvCalls ==
    ASSUME CallAndTypes, ReplyInv, BackgroundRuns
    PROVE  ReplyInv'
<1>1. CASE StartTask \/ ConnectToServer
  <2>1. alive' => clockUp'
    BY <1>1 DEF StartTask, ConnectToServer, ReplyInv, connectionVars, serverVars
  <2>2. step' \notin {"response", "message"}
    BY <1>1 DEF StartTask, ConnectToServer, taskVars
  <2> QED BY <2>1, <2>2 DEF ReplyInv
<1>2. CASE Connected \/ CannotAsk \/ ReadFails
  <2>1. UNCHANGED <<connectionVars, serverVars>>
    BY <1>2 DEF Connected, CannotAsk, ReadFails
  <2>2. step' = "idle" /\ task' = "none"
    BY <1>2, CallEnds DEF Connected, CannotAsk, ReadFails
  <2> QED BY <2>1, <2>2 DEF ReplyInv, connectionVars, serverVars
<1>3. CASE Ask
  <2>1. toPhone' = <<>> /\ toClock = <<>>
    BY <1>3 DEF Ask, Send, CallAndTypes, CallInv, Asked
  <2>2. /\ step' = "response" /\ executed' = 0 /\ UNCHANGED <<alive, clockUp>>
        /\ toClock' = IF alive THEN Append(toClock, request') ELSE toClock
    BY <1>3 DEF Ask, Send
  <2>3. alive' => toClock' # <<>>
    BY <2>1, <2>2, OneInQueue
  <2> QED BY <2>1, <2>2, <2>3 DEF ReplyInv
<1>4. CASE ReadResponse
  <2>1. /\ step = "response" /\ toPhone # <<>> /\ toPhone' = Tail(toPhone)
        /\ UNCHANGED <<alive, clockUp, executed>>
    BY <1>4 DEF ReadResponse, ReadLine, serverVars
  <2>2. CASE task \notin Queries
    <3>1. step' = "idle"
      BY <1>4, <2>2, CallEnds DEF ReadResponse
    <3> QED BY <2>1, <3>1 DEF ReplyInv
  <2>3. CASE task \in Queries
    <3>1. step' = "message" /\ response' = Head(toPhone).id /\ UNCHANGED request
      BY <1>4, <2>3 DEF ReadResponse
    <3>2. toPhone \in Seq(Lines) /\ executed = 1 /\ Len(toPhone) <= 2
      BY <2>1, <2>3 DEF CallAndTypes, TypeOK, CallInv
    <3>3. toPhone' \in Seq(Lines) /\ Len(toPhone') = Len(toPhone) - 1
      BY <2>1, <3>2, Taking
    <3>4. toPhone' # <<>> => Len(toPhone) = 2 /\ toPhone'[1] = toPhone[2]
      <4>1. toPhone' # <<>> => Len(toPhone) = 2
        BY <3>2, <3>3
      <4>2. \A i \in 2 .. Len(toPhone) : Tail(toPhone)[i - 1] = toPhone[i]
        BY <2>1, <3>2, Taking
      <4>3. Len(toPhone) = 2 => Tail(toPhone)[2 - 1] = toPhone[2]
        BY <4>2
      <4> QED BY <2>1, <4>1, <4>3
    <3>5. alive => toPhone' # <<>>
      <4>1. alive => Len(toPhone) = 2
        BY <2>1, <2>3, <3>2 DEF ReplyInv
      <4>2. Len(toPhone) = 2 => toPhone' # <<>>
        BY <3>2, <3>3
      <4> QED BY <4>1, <4>2
    <3>6. response' = request.id
      BY <2>1, <3>1, <3>2 DEF ReplyInv
    <3>7. toPhone' # <<>> => toPhone'[1].led # None
      BY <2>1, <3>4 DEF ReplyInv
    <3> QED BY <2>1, <3>1, <3>5, <3>6, <3>7 DEF ReplyInv
  <2> QED BY <2>2, <2>3
<1>5. CASE ReadMessage
  <2>1. step' = "idle" /\ UNCHANGED <<alive, clockUp>>
    BY <1>5, CallEnds DEF ReadMessage, ReadLine, serverVars
  <2> QED BY <2>1 DEF ReplyInv
<1> QED
  BY <1>1, <1>2, <1>3, <1>4, <1>5 DEF BackgroundRuns

LEMMA ReplyInvKept ==
    ASSUME CallAndTypes, ReplyInv, [Next]_vars
    PROVE  ReplyInv'
<1>1. CASE MainRuns \/ RefreshThread \/ Click \/ UNCHANGED vars
  BY <1>1 DEF MainRuns, RefreshThread, Click, vars, phoneVars, clientVars, taskVars,
              connectionVars, serverVars, ReplyInv
<1>2. CASE Server
  <2>1. UNCHANGED phoneVars
    BY <1>2 DEF Server
  <2>2. UNCHANGED <<step, task, request, response>>
    BY <2>1 DEF phoneVars, clientVars, taskVars
  <2>3. CASE ServeFails
    BY <2>2, <2>3 DEF ServeFails, ReplyInv
  <2>4. CASE ServeLate \/ Restart
    <3>1. UNCHANGED <<alive, toPhone, toClock, executed, silent>> /\ (clockUp => clockUp')
      BY <2>4 DEF ServeLate, Restart, connectionVars
    <3> QED BY <2>2, <3>1 DEF ReplyInv
  <2> QED BY <1>2, <2>1, <2>3, <2>4, ReplyInvServed DEF Server, ServerRuns
<1>3. CASE ServerCrashes \/ Network
  <2>1. Cut /\ UNCHANGED <<step, request, response>>
    BY <1>3 DEF ServerCrashes, Crash, Network, Lose, phoneVars, clientVars, taskVars
  <2> QED BY <2>1, ReplyInvLost
<1> QED
  BY <1>1, <1>2, <1>3, ReplyInvCalls DEF Next

LEMMA RepliesAlways == Spec => [](CallAndTypes /\ ReplyInv)
<1>1. Init => ReplyInv
  BY DEF Init, ConnectionInit, ServerInit, PhoneInit, ReplyInv
<1> QED BY <1>1, CallsAtFirst, CallsKept, ReplyInvKept, PTL DEF Spec

(****************************************************************************)
(* No call reads another call's reply, nor a response for a message, however *)
(* many connections were lost before and wherever their streams were cut.    *)
(****************************************************************************)
THEOREM RepliesAreOwn == Spec => []OwnReply
<1>1. CallAndTypes /\ ReplyInv => OwnReply
  BY DEF CallAndTypes, TypeOK, ReplyInv, OwnReply
<1> QED BY <1>1, RepliesAlways, PTL

(****************************************************************************)
(* While its connection works, the phone's background thread, which has no   *)
(* timeout, waits for what is on its way: only a request that FrameHandler   *)
(* left without a reply can keep it waiting.  Of a lost connection nothing   *)
(* is said: if no end of it ever reaches the phone, it waits for good.       *)
(****************************************************************************)
THEOREM CallsCanGoOn == Spec => []ReplyIsUnderWay
<1>1. CallAndTypes /\ ReplyInv => ReplyIsUnderWay
  <2> SUFFICES ASSUME CallAndTypes, ReplyInv, step = "response", alive
               PROVE  toClock # <<>> \/ toPhone # <<>> \/ (silent /\ executed = 0)
    BY DEF ReplyInv, ReplyIsUnderWay
  <2>1. CASE executed = 0
    BY <2>1 DEF ReplyInv
  <2>2. CASE executed = 1
    BY <2>2 DEF ReplyInv
  <2> QED BY <2>1, <2>2 DEF CallAndTypes, CallInv
<1> QED BY <1>1, RepliesAlways, PTL

-------------------------------------------------------------------------------
(* The news of a loss, and what becomes of it.                               *)

Tells(s, what, t) == \E i \in 1 .. Len(s) : s[i].is = what /\ s[i].task = t

\* The news of a connection that is lost again is followed by that of its loss.
Told(s) ==
    \A i \in 1 .. Len(s) : s[i].is = "done" /\ s[i].task = "connect" =>
        \E j \in i + 1 .. Len(s) : s[j].is = "disconnected" /\ s[j].task = "none"

AfterConnect == ~out => Told(posts)

LEMMA TellsMore ==
    ASSUME NEW s \in Seq(Posts), NEW t \in Seq(Posts), NEW w, NEW k
    PROVE  /\ Tells(s, w, k) => Tells(s \o t, w, k)
           /\ Tells(t, w, k) => Tells(s \o t, w, k)
<1>1. ASSUME NEW i \in 1 .. Len(s), s[i].is = w, s[i].task = k PROVE Tells(s \o t, w, k)
  <2>1. i \in 1 .. Len(s \o t) /\ (s \o t)[i] = s[i]
    BY Joining
  <2> QED BY <1>1, <2>1 DEF Tells
<1>2. ASSUME NEW i \in 1 .. Len(t), t[i].is = w, t[i].task = k PROVE Tells(s \o t, w, k)
  <2>1. Len(s) + i \in 1 .. Len(s \o t) /\ (s \o t)[Len(s) + i] = t[i]
    BY Joining
  <2> QED BY <1>2, <2>1 DEF Tells
<1> QED BY <1>1, <1>2 DEF Tells

LEMMA TellsBehind ==
    ASSUME NEW s \in Seq(Posts), s # <<>>, NEW w, NEW k, Tells(s, w, k),
           Head(s).is # w \/ Head(s).task # k
    PROVE  Tells(Tail(s), w, k)
<1>1. PICK i \in 1 .. Len(s) : s[i].is = w /\ s[i].task = k
  BY DEF Tells
<1>2. i # 1
  BY <1>1, Taking
<1>3. i - 1 \in 1 .. Len(Tail(s)) /\ Tail(s)[i - 1] = s[i]
  BY <1>1, <1>2, Taking
<1> QED BY <1>1, <1>3 DEF Tells

LEMMA ToldMore ==
    ASSUME NEW s \in Seq(Posts), NEW t \in Seq(Posts), Told(s),
           \A i \in 1 .. Len(t) : ~ (t[i].is = "done" /\ t[i].task = "connect")
    PROVE  Told(s \o t)
<1> DEFINE u == s \o t
<1>1. /\ u \in Seq(Posts) /\ Len(u) = Len(s) + Len(t)
      /\ \A i \in 1 .. Len(s) : u[i] = s[i]
      /\ \A i \in 1 .. Len(t) : u[Len(s) + i] = t[i]
  BY Joining
<1> HIDE DEF u
<1> SUFFICES ASSUME NEW i \in 1 .. Len(u), u[i].is = "done", u[i].task = "connect"
             PROVE  \E j \in i + 1 .. Len(u) : u[j].is = "disconnected" /\ u[j].task = "none"
  BY DEF Told, u
<1>2. CASE i <= Len(s)
  <2>1. i \in 1 .. Len(s) /\ u[i] = s[i]
    BY <1>1, <1>2
  <2>2. PICK j \in i + 1 .. Len(s) : s[j].is = "disconnected" /\ s[j].task = "none"
    BY <2>1 DEF Told
  <2>3. j \in 1 .. Len(s) /\ j \in i + 1 .. Len(u)
    BY <1>1, <2>1, <2>2
  <2>4. u[j] = s[j]
    BY <1>1, <2>3
  <2> QED BY <2>2, <2>3, <2>4
<1>3. CASE i > Len(s)
  <2>1. i - Len(s) \in 1 .. Len(t) /\ u[Len(s) + (i - Len(s))] = t[i - Len(s)]
    BY <1>1, <1>3
  <2>2. u[i] = t[i - Len(s)]
    BY <2>1, <1>1
  <2> QED BY <2>1, <2>2
<1> QED BY <1>1, <1>2, <1>3

LEMMA ToldBehind ==
    ASSUME NEW s \in Seq(Posts), s # <<>>, Told(s)
    PROVE  Told(Tail(s))
<1> DEFINE u == Tail(s)
<1>1. /\ u \in Seq(Posts) /\ Len(u) = Len(s) - 1 /\ \A i \in 2 .. Len(s) : u[i - 1] = s[i]
  BY Taking
<1> HIDE DEF u
<1> SUFFICES ASSUME NEW i \in 1 .. Len(u), u[i].is = "done", u[i].task = "connect"
             PROVE  \E j \in i + 1 .. Len(u) : u[j].is = "disconnected" /\ u[j].task = "none"
  BY DEF Told, u
<1>2. i + 1 \in 2 .. Len(s) /\ u[(i + 1) - 1] = s[i + 1]
  BY <1>1
<1>3. u[i] = s[i + 1] /\ i + 1 \in 1 .. Len(s)
  BY <1>2
<1>4. PICK j \in (i + 1) + 1 .. Len(s) : s[j].is = "disconnected" /\ s[j].task = "none"
  BY <1>3 DEF Told
<1>5. j - 1 \in i + 1 .. Len(u) /\ u[j - 1] = s[j]
  BY <1>1, <1>4
<1> QED BY <1>4, <1>5

\* disconnect() tells of the loss behind everything that has been posted.
LEMMA ToldAtOnce ==
    ASSUME NEW s \in Seq(Posts), NEW k \in Tasks, k # "connect",
           NEW t, t = <<Disconnected, Done(k, None)>>
    PROVE  Told(s \o t) /\ Tells(s \o t, "disconnected", "none") /\ t \in Seq(Posts)
<1> DEFINE u == s \o t
<1>1. /\ Disconnected \in Posts /\ Done(k, None) \in Posts
      /\ Disconnected.is = "disconnected" /\ Disconnected.task = "none"
      /\ Done(k, None).is = "done" /\ Done(k, None).task = k
  BY PostsAreTyped DEF Disconnected, Done
<1>2. t \in Seq(Posts) /\ Len(t) = 2 /\ t[1] = Disconnected /\ t[2] = Done(k, None)
  BY <1>1
<1>3. /\ u \in Seq(Posts) /\ Len(u) = Len(s) + 2
      /\ \A i \in 1 .. Len(s) : u[i] = s[i]
      /\ \A i \in 1 .. 2 : u[Len(s) + i] = t[i]
  BY <1>2, Joining
<1>4. u[Len(s) + 1] = Disconnected /\ u[Len(s) + 2] = Done(k, None)
  BY <1>2, <1>3
<1> HIDE DEF u
<1>5. ASSUME NEW i \in 1 .. Len(u), u[i].is = "done", u[i].task = "connect"
      PROVE  \E j \in i + 1 .. Len(u) : u[j].is = "disconnected" /\ u[j].task = "none"
  <2>1. i # Len(s) + 1 /\ i # Len(s) + 2
    BY <1>1, <1>4, <1>5
  <2>2. Len(s) + 1 \in i + 1 .. Len(u)
    BY <1>3, <2>1
  <2> QED BY <1>1, <1>4, <2>2
<1>6. Len(s) + 1 \in 1 .. Len(u)
  BY <1>3
<1>7. Told(u)
  BY <1>5 DEF Told
<1>8. Tells(u, "disconnected", "none")
  BY <1>1, <1>4, <1>6 DEF Tells
<1> QED BY <1>2, <1>7, <1>8 DEF u

\* What the phone knows of its connection.
Aware ==
    /\ LostIsRetried /\ ScreenTellsConnection
    /\ AfterConnect

\* A task's end, of any task but ConnectTask.
LEMMA AwareAtEnd ==
    ASSUME TypeOK, TaskShape, Aware, task \in Tasks, task # "connect",
           NEW v \in {0, 1, None}, Return(v) \/ Disconnect,
           UNCHANGED <<tasks, serverConnected>>
    PROVE  Aware'
<1>1. posts \in Seq(Posts)
  BY DEF TypeOK
<1>2. "connect" \in Range(tasks) <=> Connecting
  BY DEF Connecting
<1>3. Connecting => Connecting'
  BY <1>2 DEF Connecting
<1>4. CASE Disconnect
  <2> DEFINE t == <<Disconnected, Done(task, None)>>
  <2>1. out' = FALSE /\ posts' = posts \o t
    BY <1>4 DEF Disconnect, Finish
  <2>2. Told(posts \o t) /\ Tells(posts \o t, "disconnected", "none")
    BY <1>1, ToldAtOnce
  <2>3. Told(posts') /\ Tells(posts', "disconnected", "none")
    BY <2>1, <2>2
  <2> QED
    BY <2>1, <2>3 DEF Aware, AfterConnect, LostIsRetried, ScreenTellsConnection, News, Tells
<1>5. CASE Return(v)
  <2> DEFINE t == <<Done(task, v)>>
  <2>1. out' = out /\ posts' = posts \o t
    BY <1>5 DEF Return, Finish
  <2>2. t \in Seq(Posts) /\ \A i \in 1 .. Len(t) : t[i].task # "connect"
    <3>1. Done(task, v) \in Posts
      BY PostsAreTyped
    <3>2. Done(task, v).task = task
      BY DEF Done
    <3> QED BY <3>1, <3>2
  <2>3. \A w, k : Tells(posts, w, k) => Tells(posts \o t, w, k)
    BY <1>1, <2>2, TellsMore
  <2>4. Told(posts) => Told(posts \o t)
    BY <1>1, <2>2, ToldMore
  <2>5. /\ Told(posts) => Told(posts')
        /\ \A w, k : Tells(posts, w, k) => Tells(posts', w, k)
    BY <2>1, <2>3, <2>4
  <2>6. \A w, k : News(w, k) => News(w, k)'
    BY <2>5 DEF News, Tells
  <2> QED
    BY <1>3, <2>1, <2>5, <2>6 DEF Aware, AfterConnect, LostIsRetried, ScreenTellsConnection
<1> QED BY <1>4, <1>5

LEMMA AwareInBackground ==
    ASSUME TypeOK, TaskShape, Aware, BackgroundRuns
    PROVE  Aware'
<1>1. CASE StartTask
  <2>1. UNCHANGED <<out, posts, serverConnected>>
    BY <1>1 DEF StartTask, clientVars, screenVars
  <2>2. Connecting => Connecting'
    <3>1. ASSUME Connecting PROVE Connecting'
      <4>1. "connect" \in Range(tasks) /\ tasks # <<>> /\ task' = Head(tasks) /\ tasks' = Tail(tasks)
        BY <1>1, <3>1 DEF StartTask, Connecting, TaskShape
      <4>2. CASE Head(tasks) = "connect"
        BY <4>1, <4>2 DEF Connecting
      <4>3. CASE Head(tasks) # "connect"
        <5>1. "connect" \in Range(Tail(tasks))
          BY <4>1, <4>3, StaysBehind DEF TypeOK
        <5> QED BY <4>1, <5>1 DEF Connecting
      <4> QED BY <4>2, <4>3
    <3> QED BY <3>1
  <2> QED
    BY <2>1, <2>2 DEF Aware, AfterConnect, LostIsRetried, ScreenTellsConnection, News
<1>2. CASE ConnectToServer
  <2>1. out' = TRUE /\ task' = "connect"
    BY <1>2 DEF ConnectToServer, taskVars, TaskShape
  <2> QED
    BY <2>1 DEF Aware, AfterConnect, LostIsRetried, ScreenTellsConnection, Connecting
<1>3. CASE Connected
  <2> DEFINE t == <<Done("connect", None)>>
  <2>1. out /\ out' /\ posts' = posts \o t
    BY <1>3 DEF Connected, Return, Finish, TaskShape
  <2>2. Done("connect", None) \in Posts
    BY PostsAreTyped DEF Tasks
  <2>3. t \in Seq(Posts) /\ Len(t) = 1 /\ t[1].is = "done" /\ t[1].task = "connect"
    BY <2>2 DEF Done
  <2>4. Tells(t, "done", "connect")
    BY <2>3 DEF Tells
  <2>5. Tells(posts \o t, "done", "connect")
    BY <2>3, <2>4, TellsMore DEF TypeOK
  <2>6. Tells(posts', "done", "connect")
    BY <2>1, <2>5
  <2> QED
    BY <2>1, <2>6 DEF Aware, AfterConnect, LostIsRetried, ScreenTellsConnection, News, Tells
<1>4. CASE CannotAsk \/ ReadMessage \/ ReadFails
  <2>1. \E v \in {0, 1, None} : Return(v) \/ Disconnect
    <3>1. CASE CannotAsk
      BY <3>1, NoResultTyped DEF CannotAsk
    <3>2. CASE ReadFails
      BY <3>2, NoResultTyped DEF ReadFails
    <3>3. CASE ReadMessage
      <4>1. Head(toPhone) \in Lines
        BY <3>3, Taking DEF ReadMessage, ReadLine, TypeOK
      <4>2. Head(toPhone).led \in {0, 1, None}
        BY <4>1 DEF Lines
      <4> QED BY <3>3, <4>2, NoResultTyped DEF ReadMessage
    <3> QED BY <1>4, <3>1, <3>2, <3>3
  <2>2. task \in Tasks /\ task # "connect"
    BY <1>4 DEF CannotAsk, ReadMessage, ReadFails, TaskShape, Tasks
  <2>3. UNCHANGED <<tasks, serverConnected>>
    BY <1>4 DEF CannotAsk, ReadMessage, ReadFails, screenVars
  <2> QED BY <2>1, <2>2, <2>3, AwareAtEnd
<1>5. CASE ReadResponse
  <2>1. task \in Tasks /\ task # "connect" /\ UNCHANGED <<tasks, serverConnected>>
    BY <1>5 DEF ReadResponse, TaskShape, Tasks, screenVars
  <2>2. CASE task \in Queries
    <3>1. UNCHANGED <<task, posts, out, tasks, serverConnected>>
      BY <1>5, <2>1, <2>2 DEF ReadResponse
    <3> QED
      BY <3>1 DEF Aware, AfterConnect, LostIsRetried, ScreenTellsConnection, Connecting, News
  <2>3. CASE task \notin Queries
    BY <1>5, <2>1, <2>3, AwareAtEnd DEF ReadResponse
  <2> QED BY <2>2, <2>3
<1>6. CASE Ask
  <2>1. UNCHANGED <<out, task, tasks, posts, serverConnected>>
    BY <1>6 DEF Ask, screenVars
  <2> QED
    BY <2>1 DEF Aware, AfterConnect, LostIsRetried, ScreenTellsConnection, Connecting, News
<1> QED
  BY <1>1, <1>2, <1>3, <1>4, <1>5, <1>6 DEF BackgroundRuns

\* The main thread serves the oldest post; what it starts goes behind what is queued.
LEMMA AwareOnScreen ==
    ASSUME TypeOK, Aware, MainRuns
    PROVE  Aware'
<1> DEFINE post == Head(posts)
<1>1. /\ posts \in Seq(Posts) /\ posts # <<>> /\ posts' = Tail(posts)
      /\ UNCHANGED <<out, task>>
  BY DEF MainRuns, TypeOK, clientVars, taskVars
<1>2. post \in Posts /\ post = posts[1] /\ Len(posts) >= 1
  BY <1>1, Taking
<1>3. AfterConnect'
  BY <1>1, ToldBehind DEF Aware, AfterConnect
<1>4. \A w, k : News(w, k) /\ (post.is # w \/ post.task # k) => News(w, k)'
  <2>1. \A w, k : Tells(posts, w, k) /\ (post.is # w \/ post.task # k) => Tells(posts', w, k)
    BY <1>1, TellsBehind
  <2> QED BY <2>1 DEF News, Tells
<1>5. tasks \in Seq(Tasks) /\ updateAll \in Seq(Tasks)
  BY DEF TypeOK, updateAll, Tasks, Queries
<1>6. Connecting => Connecting'
  <2>1. ASSUME "connect" \in Range(tasks) PROVE "connect" \in Range(tasks')
    <3>1. \A k \in Tasks : "connect" \in Range(Append(tasks, k))
      BY <1>5, <2>1, StaysAppended
    <3>2. "connect" \in Range(tasks \o updateAll)
      BY <1>5, <2>1, StaysQueued
    <3>3. CASE post.is = "disconnected"
      BY <3>1, <3>3 DEF MainRuns, connectingToServer, Tasks
    <3>4. CASE post.is = "refresh"
      BY <3>2, <3>4 DEF MainRuns
    <3>5. CASE post.is \notin {"disconnected", "refresh"}
      <4>1. OnPostExecute(post.task, post.value)
        BY <3>5 DEF MainRuns
      <4>2. CASE post.task = "connect"
        BY <3>2, <4>1, <4>2 DEF OnPostExecute, Commands
      <4>3. CASE post.task = "getLEDState"
        BY <2>1, <4>1, <4>3 DEF OnPostExecute, Commands
      <4>4. CASE post.task \in Commands
        <5>1. post.task \notin {"connect", "getLEDState"}
          BY <4>4 DEF Commands
        <5> QED BY <3>1, <4>1, <4>4, <5>1 DEF OnPostExecute, Tasks, Queries
      <4>5. CASE post.task \notin {"connect", "getLEDState"} \cup Commands
        BY <2>1, <4>1, <4>5 DEF OnPostExecute
      <4> QED BY <4>2, <4>3, <4>4, <4>5
    <3> QED BY <3>3, <3>4, <3>5
  <2> QED BY <1>1, <2>1 DEF Connecting
<1>7. CASE post.is = "disconnected"
  <2>1. serverConnected' = FALSE /\ tasks' = Append(tasks, "connect")
    BY <1>7 DEF MainRuns, connectingToServer
  <2>2. "connect" \in Range(Append(tasks, "connect"))
    BY <1>5, StaysAppended DEF Tasks
  <2>3. Connecting'
    BY <2>1, <2>2 DEF Connecting
  <2> QED BY <1>3, <2>1, <2>3 DEF Aware, LostIsRetried, ScreenTellsConnection
<1>8. CASE post.is = "done" /\ post.task = "connect"
  <2>1. serverConnected' = TRUE
    <3>1. OnPostExecute(post.task, post.value)
      BY <1>8 DEF MainRuns
    <3> QED BY <1>8, <3>1 DEF OnPostExecute, Commands
  <2>2. ~out => News("disconnected", "none")'
    <3>1. ASSUME ~out PROVE News("disconnected", "none")'
      <4>1. PICK j \in 2 .. Len(posts) : posts[j].is = "disconnected" /\ posts[j].task = "none"
        BY <1>2, <1>8, <3>1 DEF Aware, AfterConnect, Told
      <4>2. News("disconnected", "none")
        BY <4>1 DEF News
      <4> QED BY <1>4, <1>8, <4>2
    <3> QED BY <3>1
  <2> QED BY <1>1, <1>3, <2>1, <2>2 DEF Aware, LostIsRetried, ScreenTellsConnection
<1>9. CASE post.is # "disconnected" /\ ~ (post.is = "done" /\ post.task = "connect")
  <2>1. UNCHANGED serverConnected
    <3>1. CASE post.is = "refresh"
      BY <3>1 DEF MainRuns, screenVars
    <3>2. CASE post.is # "refresh"
      <4>1. OnPostExecute(post.task, post.value) /\ post.task # "connect"
        BY <1>2, <1>9, <3>2 DEF MainRuns, Posts
      <4>2. CASE post.task = "getLEDState"
        BY <4>1, <4>2 DEF OnPostExecute, Commands
      <4>3. CASE post.task \in Commands
        <5>1. post.task \notin {"connect", "getLEDState"}
          BY <4>3 DEF Commands
        <5> QED BY <4>1, <4>3, <5>1 DEF OnPostExecute, screenVars
      <4>4. CASE post.task \notin {"getLEDState"} \cup Commands
        BY <4>1, <4>4 DEF OnPostExecute, screenVars
      <4> QED BY <4>2, <4>3, <4>4
    <3> QED BY <3>1, <3>2
  <2>2. News("disconnected", "none") => News("disconnected", "none")'
    BY <1>4, <1>9
  <2>3. News("done", "connect") => News("done", "connect")'
    BY <1>4, <1>9
  <2> QED
    BY <1>1, <1>3, <1>6, <2>1, <2>2, <2>3 DEF Aware, LostIsRetried, ScreenTellsConnection
<1> QED BY <1>7, <1>8, <1>9

LEMMA AwareElsewhere ==
    ASSUME TypeOK, Aware,
           RefreshThread \/ Click \/ Server \/ ServerCrashes \/ Network \/ UNCHANGED vars
    PROVE  Aware'
<1>1. CASE UNCHANGED <<out, task, tasks, posts, serverConnected>>
  BY <1>1 DEF Aware, AfterConnect, LostIsRetried, ScreenTellsConnection, Connecting, News
<1>2. CASE Server \/ ServerCrashes \/ Network \/ UNCHANGED vars
  BY <1>1, <1>2 DEF Server, ServerCrashes, Network, vars, phoneVars, clientVars, taskVars, screenVars
<1>3. CASE Click
  <2>1. PICK button \in Buttons : tasks' = Append(tasks, button)
    BY <1>3 DEF Click
  <2>2. "connect" \in Range(tasks) => "connect" \in Range(tasks')
    <3>1. tasks \in Seq(Tasks)
      BY DEF TypeOK
    <3>2. button \in Tasks
      BY ButtonsAreCommands DEF Tasks
    <3> QED BY <2>1, <3>1, <3>2, StaysAppended
  <2>3. UNCHANGED <<out, task, posts, serverConnected>>
    BY <1>3 DEF Click, clientVars, taskVars, screenVars
  <2>4. Connecting => Connecting'
    BY <2>2, <2>3 DEF Connecting
  <2> QED
    BY <2>3, <2>4 DEF Aware, AfterConnect, LostIsRetried, ScreenTellsConnection, News
<1>4. CASE RefreshThread
  <2> DEFINE t == <<Refresh>>
  <2>1. t \in Seq(Posts) /\ Len(t) = 1 /\ t[1].is = "refresh"
    BY PostsAreTyped DEF Refresh
  <2>2. posts' = posts \o t
    <3>1. posts' = Append(posts, Refresh) /\ posts \in Seq(Posts)
      BY <1>4 DEF RefreshThread, TypeOK
    <3>2. Append(posts, Refresh) = posts \o <<Refresh>>
      BY <3>1
    <3> QED BY <3>1, <3>2
  <2>3. \A w, k : Tells(posts, w, k) => Tells(posts', w, k)
    BY <2>1, <2>2, TellsMore DEF TypeOK
  <2>4. Told(posts) => Told(posts')
    <3>1. posts \in Seq(Posts) /\ \A i \in 1 .. Len(t) : t[i].is # "done"
      BY <2>1 DEF TypeOK
    <3> QED BY <2>1, <2>2, <3>1, ToldMore
  <2>5. UNCHANGED <<out, task, tasks, serverConnected>>
    BY <1>4 DEF RefreshThread, clientVars, taskVars, screenVars
  <2>6. \A w, k : News(w, k) => News(w, k)'
    BY <2>3 DEF News, Tells
  <2>7. Connecting' <=> Connecting
    BY <2>5 DEF Connecting
  <2> QED
    BY <2>4, <2>5, <2>6, <2>7 DEF Aware, AfterConnect, LostIsRetried, ScreenTellsConnection
<1> QED BY <1>2, <1>3, <1>4

LEMMA AwareAtFirst ==
    ASSUME Init PROVE Aware
<1>1. <<"connect">>[1] = "connect" /\ 1 \in DOMAIN <<"connect">>
  OBVIOUS
<1>2. "connect" \in Range(tasks)
  BY <1>1 DEF Init, PhoneInit, Range
<1>3. posts = <<>> /\ serverConnected = FALSE
  BY DEF Init, PhoneInit
<1>4. Told(posts)
  BY <1>3 DEF Told
<1> QED
  BY <1>2, <1>3, <1>4 DEF Aware, AfterConnect, LostIsRetried, ScreenTellsConnection, Connecting

LEMMA AwareAlways == Spec => []Aware
<1>1. Init => TypeOK /\ TaskShape /\ Aware
  BY TypesAtFirst, AwareAtFirst
<1>2. TypeOK /\ TaskShape /\ Aware /\ [Next]_vars => (TypeOK /\ TaskShape /\ Aware)'
  <2> SUFFICES ASSUME TypeOK, TaskShape, Aware, [Next]_vars PROVE Aware'
    BY TypesKept, ShapeKept
  <2> QED
    BY AwareInBackground, AwareOnScreen, AwareElsewhere DEF Next
<1> QED BY <1>1, <1>2, PTL DEF Spec

(****************************************************************************)
(* A phone that has given up its connection always has a ConnectTask to run, *)
(* or the news of the loss to serve, which starts one.                       *)
(****************************************************************************)
THEOREM LossIsRetried == Spec => []LostIsRetried
<1>1. Aware => LostIsRetried
  BY DEF Aware
<1> QED BY <1>1, AwareAlways, PTL

(****************************************************************************)
(* The controls are visible without a connection only until the news of its  *)
(* loss is served, and hidden with one only until the ConnectTask has ended. *)
(****************************************************************************)
THEOREM ScreenIsTrue == Spec => []ScreenTellsConnection
<1>1. Aware => ScreenTellsConnection
  BY DEF Aware
<1> QED BY <1>1, AwareAlways, PTL
==============================================================================
