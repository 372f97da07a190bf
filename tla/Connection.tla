------------------------------ MODULE Connection ------------------------------
(****************************************************************************)
(* The TCP connection between the phone and the clock, and what is left of   *)
(* one that is lost: bytes on their way to the phone may be gone, all or     *)
(* some of them, and a request that the clock has already received is still  *)
(* served although nobody will read the reply.                               *)
(*                                                                          *)
(* A request and a line of a reply are delivered whole: the phone flushes a  *)
(* request of a few dozen bytes with TCP_NODELAY.                            *)
(****************************************************************************)
EXTENDS Integers, Sequences

CONSTANT MaxLosses        \* bound on lost connections, the clock's crashes included

ASSUME MaxLossesIsNatural == MaxLosses \in Nat

VARIABLES
    alive,      \* the current connection works
    toClock,    \* requests on their way
    toPhone,    \* lines on their way
    closed,     \* the phone is told that its connection is lost, or will be
    late,       \* requests of lost connections that the clock has received
    losses      \* connections lost so far

connectionVars == <<alive, toClock, toPhone, closed, late, losses>>

ConnectionInit ==
    /\ alive = FALSE
    /\ toClock = <<>>
    /\ toPhone = <<>>
    /\ closed = FALSE
    /\ late = <<>>
    /\ losses = 0

\* A new socket; nothing that belongs to the old one is read again.
Open ==
    /\ alive' = TRUE
    /\ toClock' = <<>>
    /\ toPhone' = <<>>
    /\ closed' = FALSE
    /\ UNCHANGED <<late, losses>>

\* println into a socket that is lost says nothing; but its bytes are sent again
\* until they are refused or given up, and that ends the connection.
Send(request) ==
    /\ toClock' = IF alive THEN Append(toClock, request) ELSE toClock
    /\ closed' = (closed \/ ~alive)
    /\ UNCHANGED <<alive, toPhone, late, losses>>

ReadLine ==
    /\ toPhone # <<>>
    /\ toPhone' = Tail(toPhone)
    /\ UNCHANGED <<alive, toClock, closed, late, losses>>

\* Nothing more will come: readLine returns null or throws.  It has no timeout,
\* and no keepalive: until the phone is told it waits.
EndOfStream == ~alive /\ closed /\ toPhone = <<>>

Truncate == \E n \in 0 .. Len(toPhone) : toPhone' = SubSeq(toPhone, 1, n)

\* A clock without power, or out of reach, tells nobody: closed may stay FALSE.
Cut ==
    /\ losses < MaxLosses
    /\ losses' = losses + 1
    /\ alive' = FALSE
    /\ closed' \in IF alive THEN BOOLEAN ELSE {closed}
    /\ Truncate
    /\ toClock' = <<>>

\* The network drops the connection.
Lose == alive /\ Cut /\ late' \in {late, late \o toClock}
==============================================================================
