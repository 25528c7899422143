---------------------------- MODULE RelayServer -----------------------------
(***************************************************************************)
(* The relay: connections.ts (who waits, who is paired with whom) and the  *)
(* handlers of ws-handler.ts, for one user name on one channel.            *)
(***************************************************************************)
EXTENDS RelaySockets

VARIABLES
    owner,    \* installation that owns the user name in the registry
    waiting,  \* the waiting server connection, or NoSocket
    active,   \* activeServers: server connections that are reported online
    pairs,    \* server/client pairs
    lookup,   \* pairLookup: the pair of a connection, or NoPair
    silent,   \* pairs whose first-message timer is armed
    claimed,  \* connections whose handler state says paired
    pinged    \* waiting connections that are pinged

relayVars == <<owner, waiting, active, pairs, lookup, silent, claimed, pinged>>

Owners == {"nobody", "us", "other"}
Pair == [server : ServerSockets, client : PhoneSockets]
NoPair == [server |-> NoSocket, client |-> NoSocket]

RelayTypeOK ==
    /\ owner \in Owners
    /\ waiting \in ServerSockets \cup {NoSocket}
    /\ active \in SUBSET ServerSockets
    /\ pairs \in SUBSET Pair
    /\ lookup \in [Sockets -> Pair \cup {NoPair}]
    /\ silent \in SUBSET Pair
    /\ claimed \in SUBSET Sockets
    /\ pinged \in SUBSET ServerSockets

RelayInit ==
    /\ owner = "nobody"
    /\ waiting = NoSocket
    /\ active = {}
    /\ pairs = {}
    /\ lookup = [s \in Sockets |-> NoPair]
    /\ silent = {}
    /\ claimed = {}
    /\ pinged = {}

-----------------------------------------------------------------------------
(* ConnectionManager.                                                       *)

\* registerServer, once the registry agreed.
RegisterServer(s) ==
    /\ waiting' = s
    /\ active' = (active \ {waiting}) \cup {s}
    /\ UNCHANGED <<pairs, lookup, silent>>

\* connectClientEndpoint has no server to offer.
Offline == owner = "nobody" \/ waiting = NoSocket

\* Fault: the server stays available to the next client.
StillWaitingFault(p) ==
    LET pair == [server |-> waiting, client |-> p]
    IN  /\ waiting' = waiting
        /\ pairs' = pairs \cup {pair}
        /\ lookup' = [lookup EXCEPT ![waiting] = pair, ![p] = pair]
        /\ silent' = silent \cup {pair}
        /\ UNCHANGED active

\* Fault: no timer waits for the client's first frame.
NoTimerFault(p) ==
    LET pair == [server |-> waiting, client |-> p]
    IN  /\ waiting' = NoSocket
        /\ pairs' = pairs \cup {pair}
        /\ lookup' = [lookup EXCEPT ![waiting] = pair, ![p] = pair]
        /\ UNCHANGED <<silent, active>>

\* connectClientEndpoint, with a server waiting.
PairUp(p) ==
    LET pair == [server |-> waiting, client |-> p]
    IN  /\ waiting' = NoSocket
        /\ pairs' = pairs \cup {pair}
        /\ lookup' = [lookup EXCEPT ![waiting] = pair, ![p] = pair]
        /\ silent' = silent \cup {pair}
        /\ UNCHANGED active

\* Fault: the timer of a pair that is gone stays armed.
KeepTimerFault(pair) ==
    /\ pairs' = pairs \ {pair}
    /\ lookup' = [lookup EXCEPT ![pair.server] = NoPair, ![pair.client] = NoPair]
    /\ active' = active \ {pair.server}
    /\ UNCHANGED <<waiting, silent>>

\* The pair goes, whoever closed: what handleClose and
\* handleClientEndpointClose have in common.
Unpair(pair) ==
    /\ pairs' = pairs \ {pair}
    /\ lookup' = [lookup EXCEPT ![pair.server] = NoPair, ![pair.client] = NoPair]
    /\ silent' = silent \ {pair}
    /\ active' = active \ {pair.server}
    /\ UNCHANGED waiting

Ends(pair) == {pair.server, pair.client}

\* handleClose: a waiting server, an end of a pair, or neither.
ForgetWaiting(s) ==
    /\ waiting' = NoSocket
    /\ active' = active \ {s}
    /\ UNCHANGED <<pairs, lookup, silent>>

\* Fault: the waiting connection is looked up by name, not by identity.
CloseByNameFault(s) ==
    IF s \in ServerSockets /\ waiting # NoSocket /\ lookup[s] = NoPair THEN ForgetWaiting(waiting)
    ELSE IF lookup[s] # NoPair THEN Unpair(lookup[s])
    ELSE UNCHANGED <<waiting, active, pairs, lookup, silent>>

HandleClose(s) ==
    IF waiting = s THEN ForgetWaiting(s)
    ELSE IF lookup[s] # NoPair THEN Unpair(lookup[s])
    ELSE UNCHANGED <<waiting, active, pairs, lookup, silent>>

\* Fault: nobody tells the other end.
NobodyFault(s) == {}

\* The other end is closed with it: "Peer disconnected".
ClosedWith(s) == IF waiting # s /\ lookup[s] # NoPair THEN Ends(lookup[s]) \ {s} ELSE {}

-----------------------------------------------------------------------------
(* ws-handler.                                                              *)

\* The upgrade of a connection.
RelayAccepts(s) ==
    /\ peer[s] = "opening" /\ relay[s] = "none" /\ down[s] = <<>> /\ s \notin dead
    /\ relay' = [relay EXCEPT ![s] = "open"]
    /\ down' = [down EXCEPT ![s] = <<Says("opened")>>]
    /\ UNCHANGED <<peer, up, dead, faults, relayVars>>

\* onMessage: a server registers.
OnRegister(s) ==
    /\ RelayHears(s, Says("register"))
    /\ s \notin claimed
    /\ IF owner = "other"
       THEN /\ RelayDoes({s}, {}, To(s, Says("rejected")), {s})
            /\ UNCHANGED relayVars
       ELSE /\ RelayDoes({s}, {}, To(s, Says("registered")), {waiting} \cap Sockets)
            /\ owner' = "us"
            /\ RegisterServer(s)
            /\ pinged' = pinged \cup {s}
            /\ UNCHANGED claimed
    /\ UNCHANGED faults

\* onMessage: a phone asks for the server.
OnConnect(p) ==
    /\ RelayHears(p, Says("connect"))
    /\ p \notin claimed
    /\ IF Offline
       THEN /\ RelayDoes({p}, {}, To(p, Says("refused")), {p})
            /\ UNCHANGED relayVars
       ELSE /\ RelayDoes({p}, {}, To(p, Says("connected")), {})
            /\ PairUp(p)
            /\ claimed' = claimed \cup {p, waiting}
            /\ pinged' = pinged \ {waiting}
            /\ UNCHANGED owner
    /\ UNCHANGED faults

\* onMessage after pairing: forward.  The client's first frame stops the
\* timer of a silent pair; frames of an unpaired connection are dropped.
OnFrame(s) ==
    /\ \E f \in Sockets : RelayHears(s, Frame(f))
    /\ LET pair == lookup[s]
           to   == CHOOSE t \in Ends(pair) : t # s
           sent == s \in claimed /\ pair # NoPair
       IN  /\ RelayDoes({s}, {}, IF sent THEN To(to, Head(up[s])) ELSE Nothing, {})
           /\ silent' = IF sent /\ pair.client = s THEN silent \ {pair} ELSE silent
    /\ UNCHANGED <<owner, waiting, active, pairs, lookup, claimed, pinged, faults>>

\* onClose, after the peer closed, after the relay did, or when TCP gave up.
OnClose(s) ==
    /\ RelayDoes({}, {s}, Nothing, ClosedWith(s))
    /\ HandleClose(s)
    /\ claimed' = claimed \ {s}
    /\ pinged' = pinged \ {s}
    /\ UNCHANGED <<owner, faults>>

RelayCloses(s) == /\ \/ RelayHears(s, Close)
                     \/ relay[s] = "closing"
                     \/ RelayGivesUp(s)
                  /\ OnClose(s)

\* No pong to the ping of a waiting connection.
PongTimeout(s) ==
    /\ s \in pinged /\ s \notin claimed /\ relay[s] = "open"
    /\ Overdue(s)
    /\ RelayDoes({}, {}, Nothing, {s})
    /\ UNCHANGED relayVars

\* The limiter closes a connection that was never accepted as a server or a
\* client.
NeverAuthenticated(s) ==
    /\ relay[s] = "open"
    /\ s \notin claimed \cup pinged
    /\ Overdue(s)
    /\ RelayDoes({}, {}, Nothing, {s})
    /\ UNCHANGED relayVars

\* closeSilentPair
SilentPairTimeout(pair) ==
    /\ pair \in silent /\ pair \in pairs
    /\ RelayDoes({}, {}, Nothing, Ends(pair))
    /\ Unpair(pair)
    /\ UNCHANGED <<owner, claimed, pinged, faults>>

\* Another installation registers a free user name.
OtherRegisters ==
    /\ owner = "nobody"
    /\ owner' = "other"
    /\ UNCHANGED <<socketVars, waiting, active, pairs, lookup, silent, claimed, pinged>>

\* The relay dies and starts again: only the registry is kept, and names
\* that were not seen for long are reclaimed.
RelayRestarts ==
    /\ Fault
    /\ relay' = [s \in Sockets |-> "none"]
    /\ up' = [s \in Sockets |-> IF s \in dead /\ peer[s] # "none" THEN up[s] ELSE <<>>]
    /\ down' = [s \in Sockets |-> IF peer[s] = "none" THEN <<>>
                                  ELSE IF relay[s] = "none" THEN down[s]
                                  ELSE Append(down[s], Close)]
    /\ dead' = {s \in dead : peer[s] # "none"}
    /\ owner' \in {owner, "nobody"}
    /\ waiting' = NoSocket
    /\ active' = {}
    /\ pairs' = {}
    /\ lookup' = [s \in Sockets |-> NoPair]
    /\ silent' = {}
    /\ claimed' = {}
    /\ pinged' = {}
    /\ UNCHANGED peer

RelayStep ==
    \/ \E s \in Sockets : \/ RelayAccepts(s) \/ OnFrame(s) \/ RelayCloses(s)
                          \/ NeverAuthenticated(s)
    \/ \E s \in ServerSockets : OnRegister(s) \/ PongTimeout(s)
    \/ \E p \in PhoneSockets : OnConnect(p)
    \/ \E pair \in pairs : SilentPairTimeout(pair)
=============================================================================
