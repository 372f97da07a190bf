------------------------------- MODULE Discovery -------------------------------
(****************************************************************************)
(* Finding the clock: whoever looks for it broadcasts a datagram, and        *)
(* Listener.cpp answers the sender.  The phone (TCPClient.connectToServer)   *)
(* asks again when nothing has come for a second, and keeps the address it   *)
(* has learned for good.  Datagrams may be lost or late; the clock may stop  *)
(* and start again, under the same address or another.                       *)
(*                                                                          *)
(* One datagram per seeker is kept, the one that matters to its present      *)
(* socket: an answer to a socket that was given up is never read, and the    *)
(* listener keeps no state between two queries.                              *)
(****************************************************************************)
EXTENDS Integers, Sequences

CONSTANTS
    Addresses,     \* addresses the clock may have
    Nowhere,       \* no address
    MaxFaults,     \* bound on datagrams that are lost, late or spoiled
    MaxStops       \* bound on how often the clock stops

ASSUME NowhereIsNoAddress == Nowhere \notin Addresses

Seekers == {"phone", "client"}

VARIABLES
    at,            \* the clock's address, Nowhere while it is down
    mail,          \* the datagram between each seeker's socket and the clock
    phone,         \* "ask", "receive", "connect" or "connected"
    serverAdr,     \* TCPClient.serverAdr, Nowhere for null
    wire,          \* its connection: "none", "open", "closed" or "dead"
    faults, stops  \* so far

discoveryVars == <<at, mail, phone, serverAdr, wire, faults, stops>>

Datagram(is, from) == [is |-> is, from |-> from]
Nothing == Datagram("nothing", Nowhere)
Query == Datagram("query", Nowhere)
Lost == Datagram("lost", Nowhere)

DiscoveryInit ==
    /\ at \in Addresses
    /\ mail = [a \in Seekers |-> Nothing]
    /\ phone = "ask"
    /\ serverAdr = Nowhere
    /\ wire = "none"
    /\ faults = 0 /\ stops = 0

Post(a, d) == mail' = [mail EXCEPT ![a] = d]

Fault == faults < MaxFaults /\ faults' = faults + 1

-------------------------------------------------------------------------------
(* The clock and the network.                                                *)

(****************************************************************************)
(* Recive, ValidateMsg and Response.  The answer is sent from a local        *)
(* string: a socket that cannot take it at once sends what is there later.   *)
(****************************************************************************)
Answer(a) ==
    /\ mail[a].is = "query" /\ at # Nowhere
    /\ \/ Post(a, Datagram("answer", at)) /\ UNCHANGED faults
       \/ Post(a, Datagram("junk", at)) /\ Fault
    /\ UNCHANGED <<at, phone, serverAdr, wire, stops>>

\* Nobody listens.
Unheard(a) ==
    /\ mail[a].is = "query" /\ at = Nowhere
    /\ Post(a, Lost)
    /\ UNCHANGED <<at, phone, serverAdr, wire, faults, stops>>

Drop(a) ==
    /\ mail[a].is \in {"query", "answer", "junk"}
    /\ Post(a, Lost) /\ Fault
    /\ UNCHANGED <<at, phone, serverAdr, wire, stops>>

(****************************************************************************)
(* The clock's end closes its connections; a power cut closes nothing, and   *)
(* who waits for a reply then is told nothing.                               *)
(****************************************************************************)
Ended(connection) == IF connection = "open" THEN {"closed", "dead"} ELSE {connection}

ClockStops ==
    /\ at # Nowhere /\ stops < MaxStops
    /\ at' = Nowhere /\ stops' = stops + 1
    /\ wire' \in Ended(wire)
    /\ UNCHANGED <<mail, phone, serverAdr, faults>>

ClockStarts ==
    /\ at = Nowhere
    /\ at' \in Addresses
    /\ UNCHANGED <<mail, phone, serverAdr, wire, faults, stops>>

-------------------------------------------------------------------------------
(* The phone.                                                                *)

\* A slip: no setSoTimeout.
WaitsForGood == FALSE

\* getServerAdr: a new socket, and the broadcast.
PhoneAsks ==
    /\ phone = "ask"
    /\ Post("phone", Query)
    /\ phone' = "receive"
    /\ UNCHANGED <<at, serverAdr, wire, faults, stops>>

\* The sender is the server; what does not parse throws, and null stays.
PhoneReceives ==
    /\ phone = "receive" /\ mail["phone"].is \in {"answer", "junk"}
    /\ IF mail["phone"].is = "answer"
       THEN serverAdr' = mail["phone"].from /\ phone' = "connect"
       ELSE serverAdr' = Nowhere /\ phone' = "ask"
    /\ Post("phone", Nothing)
    /\ UNCHANGED <<at, wire, faults, stops>>

\* After a second, whether the datagram is lost or only late.
PhoneTimesOut ==
    /\ phone = "receive" /\ mail["phone"].is \in {"lost", "query"}
    /\ IF mail["phone"].is = "lost" THEN UNCHANGED faults ELSE Fault
    /\ serverAdr' = Nowhere /\ phone' = "ask"
    /\ Post("phone", Nothing)
    /\ UNCHANGED <<at, wire, stops>>

\* connect() fails, and is called again, for as long as nothing is there.
PhoneConnects ==
    /\ phone = "connect" /\ serverAdr = at
    /\ phone' = "connected" /\ wire' = "open"
    /\ UNCHANGED <<at, mail, serverAdr, faults, stops>>

\* disconnect() keeps serverAdr, and connectToServer asks only for null.
PhoneDisconnects ==
    /\ phone = "connected" /\ wire = "closed"
    /\ phone' = IF serverAdr = Nowhere THEN "ask" ELSE "connect"
    /\ UNCHANGED <<at, mail, serverAdr, wire, faults, stops>>

PhoneSteps == PhoneAsks \/ PhoneReceives \/ PhoneTimesOut \/ PhoneConnects \/ PhoneDisconnects

DiscoveryFairness ==
    /\ \A a \in Seekers : WF_discoveryVars(Answer(a)) /\ WF_discoveryVars(Unheard(a))
    /\ WF_discoveryVars(PhoneSteps)

(****************************************************************************)
(* However many datagrams are lost and however often the clock is stopped    *)
(* and started: when it always has the same address and stays up in the end, *)
(* the phone is connected in the end and remains so, unless it waits for a   *)
(* reply that a power cut has cut off.                                       *)
(****************************************************************************)
PhoneFindsClock ==
    \A a \in Addresses :
        [](at \in {Nowhere, a}) /\ <>[](at = a) =>
            <>[](phone = "connected" /\ wire = "open") \/ <>[](wire = "dead")
===============================================================================
