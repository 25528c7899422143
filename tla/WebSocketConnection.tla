------------------------- MODULE WebSocketConnection -------------------------
(***************************************************************************)
(* The sockets of the local stream (WebSocketConnection.ts) and the        *)
(* subscriptions they carry (RelayProtocol.ts).  These are the parts of    *)
(* the handlers that concern sockets; LocalStream adds the manager's.      *)
(***************************************************************************)
EXTENDS ConnectionManager, FiniteSets

CONSTANTS
    Slots,       \* subscriptions of the page's components
    MaxFaults    \* connections that fail

ASSUME StreamAssumption == MaxFaults \in Nat

VARIABLES
    sock,        \* the state of a connection object that has its handlers
    deadline,    \* connect promises not settled yet: their timer is armed
    ws,          \* the current socket, or NoSocket
    connecting,  \* connectionPromise, named by its socket, or NoSocket
    stage,       \* how far a subscription is
    on,          \* the socket it waits for or is carried by
    faults       \* failures so far

socketVars == <<sock, deadline, ws, connecting>>
subscriptionVars == <<stage, on>>

\* "half" is dead with its close event still to come: OPEN or CLOSING for
\* the browser, with nothing arriving any more.
SocketStates == {"none", "connecting", "open", "half", "closing"}
Stages == {"none", "pending", "sent", "open"}

ConnectionTypeOK ==
    /\ sock \in [Sockets -> SocketStates]
    /\ deadline \subseteq Sockets
    /\ ws \in Sockets \cup {NoSocket}
    /\ connecting \in Sockets \cup {NoSocket}
    /\ stage \in [Slots -> Stages]
    /\ on \in [Slots -> Sockets \cup {NoSocket}]
    /\ faults \in 0..MaxFaults

ConnectionInit ==
    /\ sock = [s \in Sockets |-> "none"]
    /\ deadline = {}
    /\ ws = NoSocket
    /\ connecting = NoSocket
    /\ stage = [i \in Slots |-> "none"]
    /\ on = [i \in Slots |-> NoSocket]
    /\ faults = 0

-----------------------------------------------------------------------------
(* Connections.                                                             *)

Free == {s \in Sockets : sock[s] = "none" /\ s \notin deadline}
CanConnect == Free # {}
New == CHOOSE s \in Free : TRUE

\* connect: a socket, its handlers and its ten seconds.
Connect ==
    /\ CanConnect
    /\ deadline' = deadline \cup {New}
    /\ connecting' = New

Settle(i, st, s) ==
    /\ stage' = [stage EXCEPT ![i] = st]
    /\ on' = [on EXCEPT ![i] = s]

\* notifySubscriptionsClosed, and the protocol's close
AllClosed ==
    /\ stage' = [i \in Slots |-> "none"]
    /\ on' = [i \in Slots |-> NoSocket]

WaitsFor(i, s) == stage[i] = "pending" /\ on[i] = s

\* readyState may be other than OPEN.
MayBeClosed == ws # NoSocket => sock[ws] = "half"

\* ensureConnected for a subscription: on the open socket, on the connect
\* under way, or on a new one.
EnsureConnected(i) ==
    \/ /\ ws # NoSocket
       /\ Settle(i, "sent", ws)
       /\ UNCHANGED socketVars
    \/ /\ MayBeClosed /\ connecting # NoSocket
       /\ Settle(i, "pending", connecting)
       /\ UNCHANGED socketVars
    \/ /\ MayBeClosed /\ connecting = NoSocket
       /\ Connect
       /\ sock' = [sock EXCEPT ![New] = "connecting"]
       /\ Settle(i, "pending", New)
       /\ UNCHANGED ws

\* onopen: the promise resolves, its creator clears connectionPromise,
\* whichever is there, and those who waited for it send their messages.
SocketOpens(s) ==
    /\ sock[s] = "connecting"
    /\ sock' = [sock EXCEPT ![s] = "open"]
    /\ deadline' = deadline \ {s}
    /\ ws' = s
    /\ connecting' = NoSocket
    /\ stage' = [i \in Slots |-> IF WaitsFor(i, s) THEN "sent" ELSE stage[i]]
    /\ UNCHANGED on

\* Fault: only the subscriptions the socket carries are told.
SocketClosesSilentlyFault(s) ==
    /\ sock' = [sock EXCEPT ![s] = "none"]
    /\ ws' = NoSocket
    /\ UNCHANGED <<deadline, connecting, stage, on>>

\* onclose: any socket with its handlers empties ws and ends every
\* subscription; its promise stays pending.
SocketCloses(s) ==
    /\ sock' = [sock EXCEPT ![s] = "none"]
    /\ ws' = NoSocket
    /\ AllClosed
    /\ UNCHANGED <<deadline, connecting>>

\* The timer of a socket that did not open rejects the promise.
SocketTimesOut(s) ==
    /\ s \in deadline
    /\ sock' = [sock EXCEPT ![s] = IF @ = "connecting" THEN "closing" ELSE @]
    /\ deadline' = deadline \ {s}
    /\ connecting' = NoSocket
    /\ stage' = [i \in Slots |-> IF WaitsFor(i, s) THEN "none" ELSE stage[i]]
    /\ on' = [i \in Slots |-> IF WaitsFor(i, s) THEN NoSocket ELSE on[i]]
    /\ UNCHANGED ws

\* reconnect: the current socket loses its handlers; one that still connects
\* keeps them, only its promise is forgotten.
SocketReconnects ==
    /\ Connect
    /\ sock' = [s \in Sockets |->
                  IF s = New THEN "connecting" ELSE IF s = ws THEN "none" ELSE sock[s]]
    /\ ws' = NoSocket
    /\ AllClosed

\* close, for good
SocketsDispose ==
    /\ sock' = [s \in Sockets |-> IF s = ws THEN "none" ELSE sock[s]]
    /\ ws' = NoSocket
    /\ AllClosed
    /\ UNCHANGED <<deadline, connecting>>

-----------------------------------------------------------------------------
(* The network.                                                             *)

Fault == faults < MaxFaults /\ faults' = faults + 1

Carried(i) == on[i] # NoSocket /\ sock[on[i]] = "open"

SocketBreaks(s) ==
    /\ Fault
    /\ sock[s] = "open"
    /\ sock' = [sock EXCEPT ![s] = "half"]
    /\ UNCHANGED <<deadline, ws, connecting, stage, on>>
=============================================================================
