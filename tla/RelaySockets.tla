---------------------------- MODULE RelaySockets ----------------------------
(***************************************************************************)
(* The web sockets between the relay and its peers: the servers that       *)
(* register with it and the phones that ask for one.  External: the ws     *)
(* library, the browser's WebSocket and TCP, as the relay, the server and  *)
(* the client use them.                                                    *)
(*                                                                         *)
(* A connection has two ends.  What one end writes arrives in order; a     *)
(* close ends what its end wrote.  An end that closes gets its close event *)
(* later (the closing handshake, or its 30 s limit).  A silent link loses  *)
(* everything still in transit, and tells neither end; what was written to *)
(* it stays unacknowledged.                                                *)
(***************************************************************************)
EXTENDS Naturals, Sequences, FiniteSets

CONSTANTS
    ServerSockets,  \* connections a server makes to the relay
    PhoneSockets,   \* connections phones make to the relay
    NoSocket,       \* stands for "none"
    MaxFaults       \* how often the network, a deadline or the relay fails

Sockets == ServerSockets \cup PhoneSockets

ASSUME SocketsAssumption ==
    /\ ServerSockets \cap PhoneSockets = {}
    /\ NoSocket \notin Sockets
    /\ MaxFaults \in Nat

VARIABLES
    peer,    \* the end at the server or at the phone
    relay,   \* the end at the relay
    up,      \* what the relay has not read yet
    down,    \* what the peer has not read yet
    dead,    \* connections whose link is silent
    faults   \* failures so far

socketVars == <<peer, relay, up, down, dead, faults>>

PeerEnds == {"none", "opening", "open", "closing"}
RelayEnds == {"none", "open", "closing"}

Control == {"opened", "register", "registered", "rejected",
            "connect", "connected", "refused", "close"}
Message == [type : Control, from : {NoSocket}] \cup [type : {"frame"}, from : Sockets]

Says(t) == [type |-> t, from |-> NoSocket]
Frame(s) == [type |-> "frame", from |-> s]
Close == Says("close")

Elems(q) == {q[i] : i \in DOMAIN q}

SocketsTypeOK ==
    /\ peer \in [Sockets -> PeerEnds]
    /\ relay \in [Sockets -> RelayEnds]
    /\ up \in [Sockets -> Seq(Message)]
    /\ down \in [Sockets -> Seq(Message)]
    /\ dead \in SUBSET Sockets
    /\ faults \in 0..MaxFaults

SocketsInit ==
    /\ peer = [s \in Sockets |-> "none"]
    /\ relay = [s \in Sockets |-> "none"]
    /\ up = [s \in Sockets |-> <<>>]
    /\ down = [s \in Sockets |-> <<>>]
    /\ dead = {}
    /\ faults = 0

-----------------------------------------------------------------------------
(* Reading.                                                                 *)

RelayHears(s, m) ==
    s \notin dead /\ relay[s] # "none" /\ up[s] # <<>> /\ Head(up[s]) = m
PeerHears(s, m) ==
    s \notin dead /\ peer[s] # "none" /\ down[s] # <<>> /\ Head(down[s]) = m

-----------------------------------------------------------------------------
(* What one event at the relay does: read a message of the connections in   *)
(* got, lose its end of those in gone, write what says gives, close others. *)

\* What an end that goes has not read: only a writer on a silent link misses it.
Unread(messages, s, writer) ==
    IF s \in dead /\ writer[s] # "none" THEN messages ELSE <<>>

RelayDoes(got, gone, says, closes) ==
    LET shut == {s \in closes \ gone : relay[s] = "open"}
        fin  == {s \in gone : relay[s] = "open" /\ peer[s] # "none"}
        said(s) == IF s \in DOMAIN says /\ relay[s] = "open" THEN <<says[s]>> ELSE <<>>
    IN  /\ relay' = [s \in Sockets |-> CASE s \in gone -> "none"
                                         [] s \in shut -> "closing"
                                         [] OTHER -> relay[s]]
        /\ up' = [s \in Sockets |-> IF s \in gone THEN Unread(up[s], s, peer)
                                      ELSE IF s \in got THEN Tail(up[s]) ELSE up[s]]
        /\ down' = [s \in Sockets |-> IF peer[s] = "none" /\ s \notin dead \ gone THEN <<>>
                       ELSE down[s] \o said(s)
                              \o (IF s \in shut \cup fin THEN <<Close>> ELSE <<>>)]
        /\ dead' = dead \ {s \in gone : peer[s] = "none"}
        /\ UNCHANGED peer

\* The same at a peer, which may also ask for a new connection.
PeerDoes(got, gone, says, closes, new) ==
    LET shut == {s \in closes \ gone : peer[s] \in {"opening", "open"}}
        fin  == {s \in gone : peer[s] \in {"opening", "open"} /\ relay[s] # "none"}
        said(s) == IF s \in DOMAIN says /\ peer[s] \in {"opening", "open"}
                   THEN <<says[s]>> ELSE <<>>
        opens == {s \in got \ gone : peer[s] = "opening"}
    IN  /\ peer' = [s \in Sockets |-> IF s \in new THEN "opening"
                                      ELSE IF s \in gone THEN "none"
                                      ELSE IF s \in shut THEN "closing"
                                      ELSE IF s \in opens THEN "open" ELSE peer[s]]
        /\ down' = [s \in Sockets |-> IF s \in new THEN <<>>
                                      ELSE IF s \in gone THEN Unread(down[s], s, relay)
                                      ELSE IF s \in got THEN Tail(down[s]) ELSE down[s]]
        /\ up' = [s \in Sockets |-> IF relay[s] = "none" /\ s \notin dead \ gone THEN <<>>
                       ELSE up[s] \o said(s)
                              \o (IF s \in shut \cup fin THEN <<Close>> ELSE <<>>)]
        /\ dead' = dead \ {s \in gone : relay[s] = "none"}
        /\ UNCHANGED relay

To(s, m) == [t \in {s} |-> m]
Nothing == [t \in {} |-> Close]

\* A connection object that is in nobody's hands, for the next new WebSocket.
Free(s) == peer[s] = "none" /\ relay[s] = "none"
Fresh(S) == CHOOSE s \in S : Free(s)

-----------------------------------------------------------------------------
(* Failures.                                                                *)

Fault == faults < MaxFaults /\ faults' = faults + 1

\* A deadline on connection s passes: nothing came over a silent link, or
\* the answer was late.
Overdue(s) == IF s \in dead THEN UNCHANGED faults ELSE Fault

\* TCP gives an end up when what it wrote stays unacknowledged.
RelayGivesUp(s) == s \in dead /\ relay[s] = "open" /\ down[s] # <<>>
PeerGivesUp(s) == s \in dead /\ peer[s] = "open" /\ up[s] # <<>>

LinkDies(s) ==
    /\ s \notin dead /\ relay[s] # "none" /\ peer[s] # "none"
    /\ Fault
    /\ dead' = dead \cup {s}
    /\ UNCHANGED <<peer, relay, up, down>>
=============================================================================
