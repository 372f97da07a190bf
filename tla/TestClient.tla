------------------------------ MODULE TestClient -------------------------------
(****************************************************************************)
(* The console client (clockTestClient), and the clock's session with it:    *)
(* what one read returns on either side is a part of a stream, the reply is  *)
(* sent as a response and a message, and the response is sent from a buffer  *)
(* that lives only until Send returns.                                       *)
(*                                                                          *)
(* A piece of the stream to the clock is a request, or the first part or the *)
(* rest of one; a piece of the stream to the client is a response or a       *)
(* message.  A request is known by what it asks for: "query" (result, time)  *)
(* is answered with a message, "command" (alarm, disable) without,           *)
(* "history" is a name that FrameHandler does not know.                      *)
(****************************************************************************)
EXTENDS Discovery

CONSTANT Room      \* pieces that the clock's socket takes at once

ASSUME RoomForOne == Room \in Nat \ {0}

VARIABLES
    client,      \* "off", "receive", "connect", "prompt", "response" or "message"
    host,        \* serverEp's address
    line,        \* the connection: "none", "open", "closed" or "dead"
    toClock,     \* pieces on their way to the session
    pending,     \* the session has a message to write
    toClient,    \* pieces on their way to the client
    unserved     \* history: FrameHandler has sent nothing for a request

clientVars == <<client, host, line, toClock, pending, toClient, unserved>>
vars == <<discoveryVars, clientVars>>

Init ==
    /\ DiscoveryInit
    /\ client = "off" /\ host = Nowhere
    /\ line = "none"
    /\ toClock = <<>> /\ pending = FALSE /\ toClient = <<>>
    /\ unserved = FALSE

Requests == {"query", "command", "history"}

Whole(r) == <<r, "whole">>
Halves(r) == <<<<r, "first">>, <<r, "rest">>>>

-------------------------------------------------------------------------------
(* The client.                                                               *)

\* No connection, or a new one.
Socket(state) ==
    /\ line' = state
    /\ toClock' = <<>> /\ pending' = FALSE /\ toClient' = <<>>
    /\ unserved' = FALSE

\* main() returns, with or without an exception.
Ends == client' = "off" /\ Socket("none")

\* It is started, and broadcasts from a new socket.
Broadcast ==
    /\ client = "off"
    /\ Post("client", Query)
    /\ client' = "receive"
    /\ UNCHANGED <<at, phone, serverAdr, wire, faults, stops>>
    /\ UNCHANGED <<host, line, toClock, pending, toClient, unserved>>

\* receive_from, without a timeout.
ReceiveFrom ==
    /\ client = "receive" /\ mail["client"].is \in {"answer", "junk"}
    /\ host' = mail["client"].from
    /\ Post("client", Nothing)
    /\ IF mail["client"].is = "answer"
       THEN client' = "connect" /\ UNCHANGED <<line, toClock, pending, toClient, unserved>>
       ELSE Ends
    /\ UNCHANGED <<at, phone, serverAdr, wire, faults, stops>>

Connect ==
    /\ client = "connect"
    /\ IF host = at THEN client' = "prompt" /\ Socket("open") ELSE Ends
    /\ UNCHANGED <<discoveryVars, host>>

\* A slip: the next prompt does not wait for the reply.
WriteAndPrompt ==
    /\ client = "prompt"
    /\ \E r \in Requests :
          toClock' = IF line = "open" THEN Append(toClock, Whole(r)) ELSE toClock
    /\ client' = "prompt"
    /\ UNCHANGED <<discoveryVars, host, line, pending, toClient, unserved>>

\* The user's command; the stream may be cut anywhere in the request.
WriteRequest ==
    /\ client = "prompt"
    /\ \E r \in Requests : \E pieces \in {<<Whole(r)>>, Halves(r)} :
          toClock' = IF line = "open" THEN toClock \o pieces ELSE toClock
    /\ client' = "response"
    /\ UNCHANGED <<discoveryVars, host, line, pending, toClient, unserved>>

\* A slip: a parser that stops at the end of the response.
ReadSomeLenient ==
    /\ client = "response" /\ toClient # <<>>
    /\ \E n \in 1 .. Len(toClient) : toClient' = SubSeq(toClient, n + 1, Len(toClient))
    /\ client' = IF Head(toClient) = "responseOnly" THEN "prompt" ELSE "message"
    /\ UNCHANGED <<discoveryVars, host, line, toClock, pending, unserved>>

(****************************************************************************)
(* One read_some is parsed as the response: anything between the first byte  *)
(* and all that has come.  Less or more than a response throws.              *)
(****************************************************************************)
ReadSome ==
    /\ client = "response" /\ toClient # <<>>
    /\ \/ /\ Head(toClient) \in {"response", "responseOnly"}
          /\ client' = IF Head(toClient) = "response" THEN "message" ELSE "prompt"
          /\ toClient' = Tail(toClient)
          /\ UNCHANGED <<line, toClock, pending, unserved>>
       \/ Ends
    /\ UNCHANGED <<discoveryVars, host>>

\* A slip: the message is not read.
ReadMessageLater ==
    /\ client = "message"
    /\ client' = "prompt"
    /\ UNCHANGED <<discoveryVars, host, line, toClock, pending, toClient, unserved>>

\* ba::read waits for the message's length.
ReadMessage ==
    /\ client = "message" /\ toClient # <<>>
    /\ client' = "prompt"
    /\ toClient' = Tail(toClient)
    /\ UNCHANGED <<discoveryVars, host, line, toClock, pending, unserved>>

\* End of file, or a reset connection.
ReadFails ==
    /\ client \in {"response", "message"} /\ toClient = <<>> /\ line = "closed"
    /\ Ends
    /\ UNCHANGED <<discoveryVars, host>>

-------------------------------------------------------------------------------
(* The session.                                                              *)

(****************************************************************************)
(* async_write takes the response at once when there is room.  When there    *)
(* is none it comes back to a string that is gone.                           *)
(****************************************************************************)
Send(response) ==
    toClient' = Append(toClient, IF Len(toClient) < Room THEN response ELSE "garbage")

\* Request::Request, of what one read has returned.
Parsed(pieces) ==
    IF \E r \in Requests : pieces = <<Whole(r)>> \/ pieces = Halves(r)
    THEN pieces[1][1]
    ELSE "unreadable"

\* Recive's read returns n pieces; FrameHandler answers, or catches and does not.
Serve ==
    /\ line = "open" /\ ~pending
    /\ \E n \in 1 .. Len(toClock) :
          LET request == Parsed(SubSeq(toClock, 1, n))
          IN  /\ toClock' = SubSeq(toClock, n + 1, Len(toClock))
              /\ \/ /\ request = "query"
                    /\ Send("response") /\ pending' = TRUE /\ UNCHANGED unserved
                 \/ /\ request = "command"
                    /\ Send("responseOnly") /\ UNCHANGED <<pending, unserved>>
                 \/ /\ request # "query"
                    /\ unserved' = TRUE /\ UNCHANGED <<pending, toClient>>
    /\ UNCHANGED <<discoveryVars, client, host, line>>

\* The completion handler's ba::write waits for room, and the io thread with it.
SendMessage ==
    /\ line = "open" /\ pending /\ Len(toClient) < Room
    /\ toClient' = Append(toClient, "message")
    /\ pending' = FALSE
    /\ UNCHANGED <<discoveryVars, client, host, line, toClock, unserved>>

-------------------------------------------------------------------------------
\* Part of what the clock has sent may be lost with the connection.
Cut ==
    IF line # "open"
    THEN UNCHANGED <<line, toClock, pending, toClient>>
    ELSE /\ line' \in Ended(line)
         /\ toClock' = <<>> /\ pending' = FALSE
         /\ \E n \in 0 .. Len(toClient) : toClient' = SubSeq(toClient, 1, n)

ClockGoesDown == ClockStops /\ Cut /\ UNCHANGED <<client, host, unserved>>

Elsewhere == UNCHANGED clientVars

Client == ReceiveFrom \/ Connect \/ ReadSome \/ ReadMessage \/ ReadFails

Session == Serve \/ SendMessage

Network ==
    \/ \E a \in Seekers : Answer(a) \/ Unheard(a) \/ Drop(a)
    \/ ClockStarts

Next ==
    \/ Broadcast \/ WriteRequest
    \/ Client \/ Session
    \/ ClockGoesDown
    \/ (Network \/ PhoneSteps) /\ Elsewhere

Spec == Init /\ [][Next]_vars

(****************************************************************************)
(* What runs is run, and datagrams arrive that are not lost; nobody has to   *)
(* start the client, type or restart the clock.                              *)
(****************************************************************************)
FairSpec == Spec /\ DiscoveryFairness /\ WF_vars(Client) /\ WF_vars(Session)

-------------------------------------------------------------------------------
(* Properties.                                                               *)

\* No reply is ever sent from a string that is gone: the client leaves nothing unread.
SentWhole == \A i \in DOMAIN toClient : toClient[i] # "garbage"

(****************************************************************************)
(* At the prompt nothing is left of the request before: no part of it at the *)
(* clock, no message still to be written and no piece of a reply unread.     *)
(****************************************************************************)
RepliesInStep == client = "prompt" => toClock = <<>> /\ ~pending /\ toClient = <<>>

(****************************************************************************)
(* The client waits for good in only three cases: its broadcast or the       *)
(* answer to it was lost, FrameHandler has sent nothing for its request, or  *)
(* the clock has lost its power.                                             *)
(****************************************************************************)
ClientGoesOn ==
    /\ client = "receive" ~> client # "receive" \/ mail["client"].is = "lost"
    /\ client \in {"response", "message"} ~>
          client \in {"prompt", "off"} \/ unserved \/ line = "dead"
===============================================================================
