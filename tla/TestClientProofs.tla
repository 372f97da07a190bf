---------------------------- MODULE TestClientProofs ----------------------------
(****************************************************************************)
(* For every size of the socket's buffer, number of faults and set of        *)
(* addresses: that the test client and its session stay in step, that nobody *)
(* waits for nothing, and what the phone knows of the clock's address.       *)
(****************************************************************************)
EXTENDS TestClient, TLAPS

\* What is left of a request on its way.
Asked == {<<>>} \cup {<<Whole(r)>> : r \in Requests} \cup {Halves(r) : r \in Requests}
                \cup {<<<<r, "rest">>>> : r \in Requests}

Quiet == toClock = <<>> /\ ~pending /\ toClient = <<>>

\* Waiting for the response: a request, or the reply to it, never both.
Waiting ==
    \/ toClock \in Asked /\ pending = FALSE /\ toClient = <<>>
    \/ toClock = <<>> /\ toClient = <<"response">>
    \/ toClock = <<>> /\ pending = FALSE
         /\ toClient \in {<<"responseOnly">>, <<"response", "message">>}

WaitingForMessage ==
    \/ toClock = <<>> /\ toClient = <<>>
    \/ toClock = <<>> /\ pending = FALSE /\ toClient = <<"message">>

StepInv ==
    /\ client \in {"off", "receive", "connect", "prompt", "response", "message"}
    /\ pending \in BOOLEAN
    /\ client \in {"off", "receive", "connect", "prompt"} => Quiet
    /\ client = "response" => Waiting
    /\ client = "message" => WaitingForMessage

\* Sequences of up to two elements.
LEMMA One ==
    ASSUME NEW a, NEW s \in Seq({a}), Len(s) = 1, s[1] = a PROVE s = <<a>>
  OBVIOUS

LEMMA Two ==
    ASSUME NEW a, NEW b, NEW s \in Seq({a, b}), Len(s) = 2, s[1] = a, s[2] = b
    PROVE  s = <<a, b>>
  OBVIOUS

LEMMA ShortSequences ==
    ASSUME NEW a, NEW b
    PROVE  /\ Append(<<>>, a) = <<a>> /\ Append(<<a>>, b) = <<a, b>>
           /\ SubSeq(<<a>>, 1, 0) = <<>> /\ SubSeq(<<a>>, 1, 1) = <<a>>
           /\ SubSeq(<<a>>, 2, 1) = <<>>
           /\ SubSeq(<<a, b>>, 1, 0) = <<>> /\ SubSeq(<<a, b>>, 1, 1) = <<a>>
           /\ SubSeq(<<a, b>>, 1, 2) = <<a, b>>
           /\ SubSeq(<<a, b>>, 2, 2) = <<b>> /\ SubSeq(<<a, b>>, 3, 2) = <<>>
<1>1. Append(<<>>, a) = <<a>> /\ SubSeq(<<a>>, 1, 0) = <<>> /\ SubSeq(<<a>>, 2, 1) = <<>>
      /\ SubSeq(<<a, b>>, 1, 0) = <<>> /\ SubSeq(<<a, b>>, 3, 2) = <<>>
  OBVIOUS
<1>2. Append(<<a>>, b) = <<a, b>>
  <2> DEFINE s == Append(<<a>>, b)
  <2>1. s \in Seq({a, b}) /\ Len(s) = 2 /\ s[1] = a /\ s[2] = b
    OBVIOUS
  <2> QED BY <2>1, Two
<1>3. SubSeq(<<a>>, 1, 1) = <<a>>
  <2> DEFINE s == SubSeq(<<a>>, 1, 1)
  <2>1. s \in Seq({a}) /\ Len(s) = 1 /\ s[1] = a
    OBVIOUS
  <2> QED BY <2>1, One
<1>4. SubSeq(<<a, b>>, 1, 1) = <<a>>
  <2> DEFINE s == SubSeq(<<a, b>>, 1, 1)
  <2>1. s \in Seq({a}) /\ Len(s) = 1 /\ s[1] = a
    OBVIOUS
  <2> QED BY <2>1, One
<1>5. SubSeq(<<a, b>>, 2, 2) = <<b>>
  <2> DEFINE s == SubSeq(<<a, b>>, 2, 2)
  <2>1. s \in Seq({b}) /\ Len(s) = 1 /\ s[1] = b
    OBVIOUS
  <2> QED BY <2>1, One
<1>6. SubSeq(<<a, b>>, 1, 2) = <<a, b>>
  <2> DEFINE s == SubSeq(<<a, b>>, 1, 2)
  <2>1. s \in Seq({a, b}) /\ Len(s) = 2 /\ s[1] = a /\ s[2] = b
    OBVIOUS
  <2> QED BY <2>1, Two
<1> QED
  BY <1>1, <1>2, <1>3, <1>4, <1>5, <1>6

LEMMA SendInStep ==
    ASSUME NEW r, toClient = <<>>, Send(r) PROVE toClient' = <<r>>
<1>1. Len(toClient) < Room
  BY RoomForOne
<1> QED
  BY <1>1 DEF Send

\* What one read takes away from a request, and what it leaves.
LEMMA ReadOfRequest ==
    ASSUME NEW s \in Asked, NEW n \in 1 .. Len(s)
    PROVE  /\ SubSeq(s, n + 1, Len(s)) \in Asked
           /\ Parsed(SubSeq(s, 1, n)) # "unreadable" => SubSeq(s, n + 1, Len(s)) = <<>>
<1>1. CASE \E a : s = <<a>>
  <2>1. PICK a : s = <<a>>
    BY <1>1
  <2>2. n = 1 /\ Len(s) = 1
    BY <2>1
  <2>3. SubSeq(s, n + 1, Len(s)) = <<>>
    BY <2>1, <2>2, ShortSequences
  <2> QED BY <2>3 DEF Asked
<1>2. CASE \E r \in Requests : s = Halves(r)
  <2> PICK r \in Requests : s = Halves(r)
    BY <1>2
  <2>1. PICK x, y : s = <<x, y>> /\ x = <<r, "first">> /\ y = <<r, "rest">>
    BY DEF Halves
  <2>2. n \in {1, 2} /\ Len(s) = 2
    BY <2>1
  <2>3. CASE n = 2
    <3>1. SubSeq(s, n + 1, Len(s)) = SubSeq(<<x, y>>, 3, 2)
      BY <2>1, <2>2, <2>3
    <3> QED BY <3>1, ShortSequences DEF Asked
  <2>4. CASE n = 1
    <3>1. SubSeq(s, n + 1, Len(s)) = SubSeq(<<x, y>>, 2, 2) /\ SubSeq(s, 1, n) = SubSeq(<<x, y>>, 1, 1)
      BY <2>1, <2>2, <2>4
    <3>2. SubSeq(s, n + 1, Len(s)) = <<y>> /\ SubSeq(s, 1, n) = <<x>>
      BY <3>1, ShortSequences
    <3>3. ASSUME NEW q PROVE <<x>> # <<Whole(q)>> /\ <<x>> # Halves(q)
      <4>1. x # Whole(q)
        BY <2>1 DEF Whole
      <4>2. Len(<<x>>) # Len(Halves(q))
        BY DEF Halves
      <4> QED BY <4>1, <4>2
    <3>4. Parsed(SubSeq(s, 1, n)) = "unreadable"
      BY <3>2, <3>3 DEF Parsed
    <3>5. <<y>> \in Asked
      BY <2>1 DEF Asked
    <3> QED BY <3>2, <3>4, <3>5
  <2> QED BY <2>2, <2>3, <2>4
<1>3. CASE s = <<>>
  BY <1>3
<1> QED
  BY <1>1, <1>2, <1>3 DEF Asked

LEMMA StepStart == Init => StepInv
  BY DEF Init, StepInv, Quiet

LEMMA StepStep == StepInv /\ [Next]_vars => StepInv'
<1> SUFFICES ASSUME StepInv, [Next]_vars PROVE StepInv'
  OBVIOUS
<1> USE DEF StepInv
<1>1. CASE Broadcast
  BY <1>1 DEF Broadcast, Quiet
<1>2. CASE WriteRequest
  <2>1. Quiet /\ client' = "response" /\ UNCHANGED <<pending, toClient>>
    BY <1>2 DEF WriteRequest
  <2>2. PICK r \in Requests :
           \E pieces \in {<<Whole(r)>>, Halves(r)} :
              toClock' = IF line = "open" THEN toClock \o pieces ELSE toClock
    BY <1>2 DEF WriteRequest
  <2>3. toClock' \in Asked
    <3>1. <<>> \o <<Whole(r)>> = <<Whole(r)>> /\ <<>> \o Halves(r) = Halves(r)
      BY DEF Halves
    <3> QED BY <2>1, <2>2, <3>1 DEF Quiet, Asked
  <2> QED BY <2>1, <2>3 DEF Quiet, Waiting
<1>3. CASE ReceiveFrom
  BY <1>3 DEF ReceiveFrom, Ends, Socket, Quiet
<1>4. CASE Connect
  BY <1>4 DEF Connect, Ends, Socket, Quiet
<1>5. CASE ReadSome
  <2>1. CASE Ends
    BY <2>1 DEF Ends, Socket, Quiet
  <2>2. CASE /\ Head(toClient) \in {"response", "responseOnly"}
             /\ client' = IF Head(toClient) = "response" THEN "message" ELSE "prompt"
             /\ toClient' = Tail(toClient)
             /\ UNCHANGED <<line, toClock, pending, unserved>>
    <3>1. Waiting /\ toClient # <<>>
      BY <1>5 DEF ReadSome
    <3>2. CASE toClient = <<"response">>
      BY <2>2, <3>1, <3>2 DEF Waiting, WaitingForMessage
    <3>3. CASE toClient = <<"responseOnly">>
      BY <2>2, <3>1, <3>3 DEF Waiting, Quiet
    <3>4. CASE toClient = <<"response", "message">>
      BY <2>2, <3>1, <3>4 DEF Waiting, WaitingForMessage
    <3> QED BY <3>1, <3>2, <3>3, <3>4 DEF Waiting
  <2> QED BY <1>5, <2>1, <2>2 DEF ReadSome
<1>6. CASE ReadMessage
  BY <1>6 DEF ReadMessage, WaitingForMessage, Quiet
<1>7. CASE ReadFails
  BY <1>7 DEF ReadFails, Ends, Socket, Quiet
<1>8. CASE Serve
  <2>1. PICK n \in 1 .. Len(toClock) :
          /\ toClock' = SubSeq(toClock, n + 1, Len(toClock))
          /\ \/ /\ Parsed(SubSeq(toClock, 1, n)) = "query"
                /\ Send("response") /\ pending' = TRUE /\ UNCHANGED unserved
             \/ /\ Parsed(SubSeq(toClock, 1, n)) = "command"
                /\ Send("responseOnly") /\ UNCHANGED <<pending, unserved>>
             \/ /\ Parsed(SubSeq(toClock, 1, n)) # "query"
                /\ unserved' = TRUE /\ UNCHANGED <<pending, toClient>>
    BY <1>8 DEF Serve
  <2>2. pending = FALSE /\ client' = client
    BY <1>8 DEF Serve
  <2>3. toClock # <<>>
    BY <2>1
  <2>4. client = "response" /\ toClock \in Asked /\ toClient = <<>>
    BY <2>3 DEF Quiet, Waiting, WaitingForMessage
  <2>5. /\ toClock' \in Asked
        /\ Parsed(SubSeq(toClock, 1, n)) # "unreadable" => toClock' = <<>>
    BY <2>1, <2>4, ReadOfRequest
  <2>6. CASE Parsed(SubSeq(toClock, 1, n)) = "query" /\ Send("response") /\ pending' = TRUE
    <3>1. toClient' = <<"response">>
      BY <2>4, <2>6, SendInStep
    <3> QED BY <2>2, <2>4, <2>5, <2>6, <3>1 DEF Waiting
  <2>7. CASE Parsed(SubSeq(toClock, 1, n)) = "command" /\ Send("responseOnly") /\ pending' = pending
    <3>1. toClient' = <<"responseOnly">>
      BY <2>4, <2>7, SendInStep
    <3> QED BY <2>2, <2>4, <2>5, <2>7, <3>1 DEF Waiting
  <2>8. CASE UNCHANGED <<pending, toClient>>
    BY <2>2, <2>4, <2>5, <2>8 DEF Waiting
  <2> QED BY <2>1, <2>6, <2>7, <2>8
<1>9. CASE SendMessage
  <2>1. /\ pending = TRUE /\ pending' = FALSE /\ UNCHANGED <<client, toClock>>
        /\ toClient' = Append(toClient, "message")
    BY <1>9 DEF SendMessage
  <2>2. CASE client = "response"
    <3>1. toClock = <<>> /\ toClient = <<"response">>
      BY <2>1, <2>2 DEF Waiting
    <3>2. toClient' = <<"response", "message">>
      BY <2>1, <3>1, ShortSequences
    <3> QED BY <2>1, <2>2, <3>1, <3>2 DEF Waiting
  <2>3. CASE client = "message"
    <3>1. toClock = <<>> /\ toClient = <<>>
      BY <2>1, <2>3 DEF WaitingForMessage
    <3>2. toClient' = <<"message">>
      BY <2>1, <3>1, ShortSequences
    <3> QED BY <2>1, <2>3, <3>1, <3>2 DEF WaitingForMessage
  <2> QED BY <2>1, <2>2, <2>3 DEF Quiet
<1>10. CASE ClockGoesDown
  <2>1. client' = client
    BY <1>10 DEF ClockGoesDown
  <2>2. CASE UNCHANGED <<toClock, pending, toClient>>
    BY <2>1, <2>2 DEF Quiet, Waiting, WaitingForMessage
  <2>3. CASE /\ toClock' = <<>> /\ pending' = FALSE
             /\ \E n \in 0 .. Len(toClient) : toClient' = SubSeq(toClient, 1, n)
    <3>1. PICK n \in 0 .. Len(toClient) : toClient' = SubSeq(toClient, 1, n)
      BY <2>3
    <3>2. CASE toClient = <<>>
      <4>1. toClient' = <<>>
        BY <3>1, <3>2
      <4> QED BY <2>1, <2>3, <3>2, <4>1 DEF Quiet, Waiting, WaitingForMessage, Asked
    <3>3. CASE client = "response" /\ toClient \in {<<"response">>, <<"responseOnly">>}
      <4>1. toClient' \in {<<>>, toClient}
        <5>1. n \in 0 .. 1
          BY <3>3
        <5> QED BY <3>1, <3>3, <5>1, ShortSequences
      <4> QED BY <2>1, <2>3, <3>3, <4>1 DEF Waiting, Asked
    <3>4. CASE client = "response" /\ toClient = <<"response", "message">>
      <4>1. toClient' \in {<<>>, <<"response">>, toClient}
        <5>1. n = 0 \/ n = 1 \/ n = 2
          BY <3>4
        <5>2. CASE n = 0
          BY <3>1, <3>4, <5>2, ShortSequences
        <5>3. CASE n = 1
          BY <3>1, <3>4, <5>3, ShortSequences
        <5>4. CASE n = 2
          BY <3>1, <3>4, <5>4, ShortSequences
        <5> QED BY <5>1, <5>2, <5>3, <5>4
      <4> QED BY <2>1, <2>3, <3>4, <4>1 DEF Waiting, Asked
    <3>5. CASE client = "message" /\ toClient = <<"message">>
      <4>1. toClient' \in {<<>>, toClient}
        <5>1. n = 0 \/ n = 1
          BY <3>5
        <5> QED BY <3>1, <3>5, <5>1, ShortSequences
      <4> QED BY <2>1, <2>3, <3>5, <4>1 DEF WaitingForMessage
    <3> QED BY <3>2, <3>3, <3>4, <3>5 DEF Quiet, Waiting, WaitingForMessage
  <2> QED BY <1>10, <2>2, <2>3 DEF ClockGoesDown, Cut
<1>11. CASE UNCHANGED clientVars
  BY <1>11 DEF clientVars, Quiet, Waiting, WaitingForMessage
<1> QED
  BY <1>1, <1>2, <1>3, <1>4, <1>5, <1>6, <1>7, <1>8, <1>9, <1>10, <1>11
  DEF Next, Client, Session, Elsewhere, vars

(****************************************************************************)
(* Whatever is lost, split or cut off: a client that prompts has nothing     *)
(* left of its last request.                                                 *)
(****************************************************************************)
THEOREM ClientInStep == Spec => []RepliesInStep
<1>1. StepInv => RepliesInStep
  BY DEF StepInv, Quiet, RepliesInStep
<1> QED
  BY StepStart, StepStep, <1>1, PTL DEF Spec

(****************************************************************************)
(* With room for one response in the clock's socket, none is ever sent from  *)
(* the string that Send leaves behind.                                       *)
(****************************************************************************)
THEOREM NeverGarbage == Spec => []SentWhole
<1>1. StepInv => SentWhole
  BY DEF StepInv, Quiet, Waiting, WaitingForMessage, SentWhole
<1> QED
  BY StepStart, StepStep, <1>1, PTL DEF Spec

-------------------------------------------------------------------------------
(* What a seeker or a waiting client waits for.                              *)

(****************************************************************************)
(* Nobody waits for nothing.  A seeker that listens has a datagram between   *)
(* its socket and the clock (or lost).  A client that waits for a reply has  *)
(* a connection, and as long as that is up and FrameHandler has not left the *)
(* request without an answer there is a part of the request to serve, a      *)
(* message to write or a piece of the reply to read.                         *)
(****************************************************************************)
SomethingIsUnderWay ==
    /\ phone = "receive" => mail["phone"].is # "nothing"
    /\ client = "receive" => mail["client"].is # "nothing"
    /\ client \in {"response", "message"} =>
          /\ line # "none"
          /\ line = "open" /\ ~unserved => toClock # <<>> \/ pending \/ toClient # <<>>

\* A response that announces a message is followed by it.
AnswerIsUnderWay ==
    /\ client = "response" =>
          \/ toClock # <<>>
          \/ toClient = <<"response">> /\ pending
          \/ toClient \in {<<"responseOnly">>, <<"response", "message">>}
    /\ client = "message" => pending \/ toClient # <<>>

MailInv ==
    /\ DOMAIN mail = Seekers
    /\ phone = "receive" => mail["phone"].is # "nothing"
    /\ client = "receive" => mail["client"].is # "nothing"

WaitInv ==
    /\ client \in {"prompt", "response", "message"} => line # "none"
    /\ line = "open" /\ ~unserved => AnswerIsUnderWay

\* One datagram comes in another's place.
LEMMA Posting ==
    ASSUME DOMAIN mail = Seekers, NEW a \in Seekers, NEW d, Post(a, d)
    PROVE  /\ DOMAIN mail' = Seekers
           /\ mail'[a] = d /\ \A b \in Seekers : b # a => mail'[b] = mail[b]
  BY DEF Post

LEMMA MailStep == MailInv /\ [Next]_vars => MailInv'
<1> SUFFICES ASSUME MailInv, [Next]_vars PROVE MailInv'
  OBVIOUS
<1> USE DEF MailInv
<1>1. /\ "phone" \in Seekers /\ "client" \in Seekers
      /\ Query.is = "query" /\ Lost.is = "lost" /\ Nothing.is = "nothing"
      /\ \A k, f : Datagram(k, f).is = k
  BY DEF Seekers, Query, Lost, Nothing, Datagram
<1>2. CASE Broadcast
  BY <1>1, <1>2, Posting DEF Broadcast
<1>3. CASE ReceiveFrom
  <2>1. /\ client = "receive" /\ client' # "receive" /\ UNCHANGED phone
        /\ Post("client", Nothing)
    BY <1>3 DEF ReceiveFrom, Ends
  <2> QED BY <1>1, <2>1, Posting
<1>4. CASE PhoneSteps /\ Elsewhere
  <2>1. UNCHANGED client
    BY <1>4 DEF Elsewhere, clientVars
  <2>2. CASE PhoneAsks
    BY <1>1, <2>1, <2>2, Posting DEF PhoneAsks
  <2>3. CASE PhoneReceives \/ PhoneTimesOut
    <3>1. phone' # "receive" /\ Post("phone", Nothing)
      BY <2>3 DEF PhoneReceives, PhoneTimesOut
    <3> QED BY <1>1, <2>1, <3>1, Posting
  <2>4. CASE PhoneConnects \/ PhoneDisconnects
    <3>1. phone' # "receive" /\ UNCHANGED mail
      BY <2>4 DEF PhoneConnects, PhoneDisconnects
    <3> QED BY <2>1, <3>1
  <2> QED BY <1>4, <2>2, <2>3, <2>4 DEF PhoneSteps
<1>5. CASE Network /\ Elsewhere
  <2>1. UNCHANGED <<client, phone>>
    BY <1>5 DEF Network, Elsewhere, clientVars, Answer, Unheard, Drop, ClockStarts
  <2>2. ASSUME NEW a \in Seekers, NEW d, Post(a, d), d.is # "nothing" PROVE MailInv'
    BY <1>1, <2>1, <2>2, Posting
  <2>3. CASE ClockStarts
    BY <2>1, <2>3 DEF ClockStarts
  <2>4. CASE \E a \in Seekers : Answer(a) \/ Unheard(a) \/ Drop(a)
    <3>1. PICK a \in Seekers : Answer(a) \/ Unheard(a) \/ Drop(a)
      BY <2>4
    <3>2. \E d \in {Datagram("answer", at), Datagram("junk", at), Lost} : Post(a, d)
      BY <3>1 DEF Answer, Unheard, Drop
    <3> QED BY <1>1, <2>2, <3>2
  <2> QED BY <1>5, <2>3, <2>4 DEF Network
<1>6. CASE WriteRequest \/ Connect \/ ReadSome \/ ReadMessage \/ ReadFails \/ Session \/ ClockGoesDown
  <2>1. UNCHANGED <<mail, phone>>
    BY <1>6 DEF WriteRequest, Connect, ReadSome, ReadMessage, ReadFails, Session, Serve, SendMessage,
                ClockGoesDown, ClockStops, discoveryVars
  <2>2. client' = "receive" => client = "receive"
    BY <1>6 DEF WriteRequest, Connect, ReadSome, ReadMessage, ReadFails, Session, Serve, SendMessage,
                ClockGoesDown, Ends
  <2> QED BY <2>1, <2>2
<1>7. CASE UNCHANGED vars
  BY <1>7 DEF vars, discoveryVars, clientVars
<1> QED
  BY <1>2, <1>3, <1>4, <1>5, <1>6, <1>7 DEF Next, Client

LEMMA WaitStep == StepInv /\ WaitInv /\ [Next]_vars => WaitInv'
<1> SUFFICES ASSUME StepInv, WaitInv, [Next]_vars PROVE WaitInv'
  OBVIOUS
<1> USE DEF WaitInv, AnswerIsUnderWay
<1>1. CASE Broadcast
  BY <1>1 DEF Broadcast
<1>2. CASE WriteRequest
  <2>1. Quiet /\ client = "prompt" /\ client' = "response" /\ UNCHANGED line
    BY <1>2 DEF WriteRequest, StepInv
  <2>2. line = "open" => toClock' # <<>>
    BY <1>2 DEF WriteRequest, Quiet, Halves
  <2> QED BY <2>1, <2>2
<1>3. CASE Ends
  BY <1>3 DEF Ends, Socket
<1>4. CASE ReceiveFrom \/ Connect \/ ReadFails
  BY <1>3, <1>4 DEF ReceiveFrom, Connect, ReadFails, Socket
<1>5. CASE ReadSome /\ ~Ends
  <2>1. /\ client = "response" /\ toClient # <<>>
        /\ Head(toClient) \in {"response", "responseOnly"}
        /\ client' = IF Head(toClient) = "response" THEN "message" ELSE "prompt"
        /\ toClient' = Tail(toClient)
        /\ UNCHANGED <<line, toClock, pending, unserved>>
    BY <1>5 DEF ReadSome
  <2>2. Waiting
    BY <2>1 DEF StepInv
  <2>3. CASE toClient = <<"response", "message">>
    <3>1. toClient' = <<"message">>
      BY <2>1, <2>3
    <3> QED BY <2>1, <3>1
  <2>4. CASE toClient = <<"responseOnly">>
    BY <2>1, <2>4
  <2>5. CASE toClient = <<"response">>
    <3>1. client' = "message" /\ UNCHANGED <<line, unserved, pending>>
      BY <2>1, <2>5
    <3>2. line = "open" /\ ~unserved => pending
      BY <2>1, <2>2, <2>5 DEF Waiting
    <3> QED BY <2>1, <3>1, <3>2
  <2> QED BY <2>1, <2>2, <2>3, <2>4, <2>5 DEF Waiting
<1>6. CASE ReadMessage
  BY <1>6 DEF ReadMessage
<1>7. CASE Serve
  <2>1. /\ line = "open" /\ ~pending /\ toClock # <<>> /\ UNCHANGED <<client, line>>
        /\ \/ Send("response") /\ pending' = TRUE /\ UNCHANGED unserved
           \/ Send("responseOnly") /\ UNCHANGED <<pending, unserved>>
           \/ unserved'
    BY <1>7 DEF Serve
  <2>2. client = "response" /\ toClient = <<>>
    BY <2>1 DEF StepInv, Quiet, Waiting, WaitingForMessage
  <2>3. CASE Send("response") /\ pending' = TRUE
    BY <2>1, <2>2, <2>3, SendInStep
  <2>4. CASE Send("responseOnly") /\ pending' = pending
    BY <2>1, <2>2, <2>4, SendInStep
  <2> QED BY <2>1, <2>3, <2>4
<1>8. CASE SendMessage
  <2>1. /\ pending /\ UNCHANGED <<client, line, toClock, unserved>>
        /\ toClient' = Append(toClient, "message")
    BY <1>8 DEF SendMessage
  <2>2. CASE client = "response"
    <3>1. toClient = <<"response">>
      BY <2>1, <2>2 DEF StepInv, Waiting
    <3> QED BY <2>1, <2>2, <3>1, ShortSequences
  <2>3. CASE client = "message"
    <3>1. toClient = <<>>
      BY <2>1, <2>3 DEF StepInv, WaitingForMessage
    <3> QED BY <2>1, <2>3, <3>1, ShortSequences
  <2> QED BY <2>1, <2>2, <2>3
<1>9. CASE ClockGoesDown
  BY <1>9 DEF ClockGoesDown, Cut, Ended
<1>10. CASE UNCHANGED clientVars
  BY <1>10 DEF clientVars
<1> QED
  BY <1>1, <1>2, <1>3, <1>4, <1>5, <1>6, <1>7, <1>8, <1>9, <1>10
  DEF Next, Client, Session, Elsewhere, vars

(****************************************************************************)
(* What keeps the client and the phone going, short of fairness: what they   *)
(* wait for is there, or has been lost on the way, left without an answer or *)
(* cut off with the clock's power.                                           *)
(****************************************************************************)
THEOREM NobodyWaitsForNothing == Spec => []SomethingIsUnderWay
<1>1. Init => MailInv /\ WaitInv
  BY DEF Init, DiscoveryInit, MailInv, WaitInv
<1>2. StepInv /\ MailInv /\ WaitInv => SomethingIsUnderWay
  BY DEF MailInv, WaitInv, AnswerIsUnderWay, SomethingIsUnderWay
<1> QED
  BY StepStart, StepStep, MailStep, WaitStep, <1>1, <1>2, PTL DEF Spec

-------------------------------------------------------------------------------
(* The address that the phone has learned.                                   *)

(****************************************************************************)
(* The phone has an address exactly when it does not look for one, whatever  *)
(* datagrams were lost, late or spoiled: serverAdr stays null as long as     *)
(* getServerAdr fails.  And what it takes for an open connection leads to    *)
(* the clock, where that is now.                                             *)
(****************************************************************************)
PhoneKnowsWhere ==
    /\ phone \in {"connect", "connected"} <=> serverAdr # Nowhere
    /\ wire = "open" => phone = "connected" /\ serverAdr = at

(****************************************************************************)
(* The address is never looked up again: disconnect() keeps it and           *)
(* connectToServer asks only for null, so a clock that comes back under      *)
(* another address is not found until the app is started again.              *)
(****************************************************************************)
NeverAsksAgain ==
    [][serverAdr # Nowhere => phone' \in {"connect", "connected"} /\ UNCHANGED serverAdr]_vars

AddressInv ==
    /\ at \in Addresses \cup {Nowhere} /\ DOMAIN mail = Seekers
    /\ \A a \in Seekers : mail[a].is = "answer" => mail[a].from # Nowhere
    /\ phone \in {"ask", "receive", "connect", "connected"}
    /\ PhoneKnowsWhere

LEMMA AddressStep == AddressInv /\ [Next]_vars => AddressInv'
<1> SUFFICES ASSUME AddressInv, [Next]_vars PROVE AddressInv'
  OBVIOUS
<1>1. /\ "phone" \in Seekers /\ "client" \in Seekers
      /\ \A k, f : Datagram(k, f).is = k /\ Datagram(k, f).from = f
      /\ Query.is = "query" /\ Lost.is = "lost" /\ Nothing.is = "nothing"
  BY DEF Seekers, Datagram, Query, Lost, Nothing
<1>2. ASSUME NEW a \in Seekers, NEW d, Post(a, d), d.is = "answer" => d.from # Nowhere
      PROVE  /\ DOMAIN mail' = Seekers
             /\ \A b \in Seekers : mail'[b].is = "answer" => mail'[b].from # Nowhere
  BY <1>2, Posting DEF AddressInv
<1>3. CASE PhoneSteps /\ Elsewhere
  <2>1. UNCHANGED at
    BY <1>3 DEF PhoneSteps, PhoneAsks, PhoneReceives, PhoneTimesOut, PhoneConnects, PhoneDisconnects
  <2>2. CASE PhoneAsks
    BY <1>1, <1>2, <2>1, <2>2 DEF PhoneAsks, AddressInv, PhoneKnowsWhere
  <2>3. CASE PhoneReceives
    <3>1. Post("phone", Nothing) /\ UNCHANGED wire
      BY <2>3 DEF PhoneReceives
    <3>2. \/ phone' = "connect" /\ serverAdr' # Nowhere
          \/ phone' = "ask" /\ serverAdr' = Nowhere
      BY <1>1, <2>3 DEF PhoneReceives, AddressInv
    <3>3. wire # "open"
      BY <2>3 DEF PhoneReceives, AddressInv, PhoneKnowsWhere
    <3> QED BY <1>1, <1>2, <2>1, <3>1, <3>2, <3>3 DEF AddressInv, PhoneKnowsWhere
  <2>4. CASE PhoneTimesOut
    BY <1>1, <1>2, <2>1, <2>4 DEF PhoneTimesOut, AddressInv, PhoneKnowsWhere
  <2>5. CASE PhoneConnects \/ PhoneDisconnects
    BY <2>1, <2>5 DEF PhoneConnects, PhoneDisconnects, AddressInv, PhoneKnowsWhere
  <2> QED BY <1>3, <2>2, <2>3, <2>4, <2>5 DEF PhoneSteps
<1>4. CASE Network /\ Elsewhere
  <2>1. CASE ClockStarts
    BY <2>1 DEF ClockStarts, AddressInv, PhoneKnowsWhere
  <2>2. CASE \E a \in Seekers : Answer(a) \/ Unheard(a) \/ Drop(a)
    <3>1. PICK a \in Seekers : Answer(a) \/ Unheard(a) \/ Drop(a)
      BY <2>2
    <3>2. UNCHANGED <<at, phone, serverAdr, wire>>
      BY <3>1 DEF Answer, Unheard, Drop
    <3>3. \E d \in {Datagram("answer", at), Datagram("junk", at), Lost} :
             Post(a, d) /\ (d.is = "answer" => d.from # Nowhere)
      BY <1>1, <3>1 DEF Answer, Unheard, Drop
    <3> QED BY <1>2, <3>2, <3>3 DEF AddressInv, PhoneKnowsWhere
  <2> QED BY <1>4, <2>1, <2>2 DEF Network
<1>5. CASE ClockGoesDown
  <2>1. at' = Nowhere /\ wire' \in Ended(wire) /\ UNCHANGED <<mail, phone, serverAdr>>
    BY <1>5 DEF ClockGoesDown, ClockStops
  <2>2. wire' # "open"
    BY <2>1 DEF Ended
  <2> QED BY <2>1, <2>2 DEF AddressInv, PhoneKnowsWhere
<1>6. CASE Broadcast \/ ReceiveFrom
  <2>1. UNCHANGED <<at, phone, serverAdr, wire>>
    BY <1>6 DEF Broadcast, ReceiveFrom
  <2>2. Post("client", Query) \/ Post("client", Nothing)
    BY <1>6 DEF Broadcast, ReceiveFrom
  <2> QED BY <1>1, <1>2, <2>1, <2>2 DEF AddressInv, PhoneKnowsWhere
<1>7. CASE WriteRequest \/ Connect \/ ReadSome \/ ReadMessage \/ ReadFails \/ Session \/ UNCHANGED vars
  BY <1>7 DEF WriteRequest, Connect, ReadSome, ReadMessage, ReadFails, Session, Serve, SendMessage,
              vars, discoveryVars, AddressInv, PhoneKnowsWhere
<1> QED
  BY <1>3, <1>4, <1>5, <1>6, <1>7 DEF Next, Client

LEMMA AddressAlways == Spec => []AddressInv
<1>1. Init => AddressInv
  BY NowhereIsNoAddress DEF Init, DiscoveryInit, Nothing, Datagram, AddressInv, PhoneKnowsWhere
<1> QED BY <1>1, AddressStep, PTL DEF Spec

(****************************************************************************)
(* null means that nothing is known, and an open connection is to the clock. *)
(****************************************************************************)
THEOREM AddressIsTrue == Spec => []PhoneKnowsWhere
<1>1. AddressInv => PhoneKnowsWhere
  BY DEF AddressInv
<1> QED BY <1>1, AddressAlways, PTL

(****************************************************************************)
(* A learned address is kept for good, and not asked for again: the phone    *)
(* reaches the clock again only where it found it first.                     *)
(****************************************************************************)
THEOREM AddressIsKept == Spec => NeverAsksAgain
<1>1. AddressInv /\ [Next]_vars =>
         [serverAdr # Nowhere => phone' \in {"connect", "connected"} /\ UNCHANGED serverAdr]_vars
  <2> SUFFICES ASSUME AddressInv, Next, serverAdr # Nowhere
               PROVE  phone' \in {"connect", "connected"} /\ UNCHANGED serverAdr
    OBVIOUS
  <2>1. phone \in {"connect", "connected"}
    BY DEF AddressInv, PhoneKnowsWhere
  <2>2. CASE PhoneSteps
    BY <2>1, <2>2 DEF PhoneSteps, PhoneAsks, PhoneReceives, PhoneTimesOut, PhoneConnects,
                      PhoneDisconnects
  <2>3. CASE ~PhoneSteps
    BY <2>1, <2>3 DEF Next, Broadcast, WriteRequest, Client, ReceiveFrom, Connect, ReadSome,
                      ReadMessage, ReadFails, Session, Serve, SendMessage, ClockGoesDown, ClockStops,
                      Network, Answer, Unheard, Drop, ClockStarts, discoveryVars
  <2> QED BY <2>2, <2>3
<1> QED
  BY <1>1, AddressAlways, PTL DEF Spec, NeverAsksAgain
=================================================================================
