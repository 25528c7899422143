---------------------------- MODULE RelayClient -----------------------------
(***************************************************************************)
(* A server's side of the relay: RelayClientService.ts, which keeps one    *)
(* connection waiting, and the connections it handed off to ws-relay.ts.   *)
(***************************************************************************)
EXTENDS RelaySockets

CONSTANTS
    Strict,       \* strictPeerHandoff: the peer route (TRUE), the app (FALSE)
    MaxSettings   \* how often the relay settings are changed

ASSUME ClientAssumption == Strict \in BOOLEAN /\ MaxSettings \in Nat

VARIABLES
    enabled,     \* the service wants a connection
    connecting,  \* connectingWs, or NoSocket
    waits,       \* waitingWs, or NoSocket
    retry,       \* the reconnect timer is armed
    deadline,    \* the registration timer is armed
    keepalive,   \* waitingWs is pinged
    handed,      \* connections handed off, not closed yet
    settings,    \* changes of the settings so far
    heard        \* history: whose frames were read on a connection

serviceVars == <<enabled, connecting, waits, retry, deadline, keepalive>>
clientVars == <<serviceVars, handed, settings, heard>>

ClientTypeOK ==
    /\ enabled \in BOOLEAN
    /\ connecting \in ServerSockets \cup {NoSocket}
    /\ waits \in ServerSockets \cup {NoSocket}
    /\ retry \in BOOLEAN
    /\ deadline \in BOOLEAN
    /\ keepalive \in BOOLEAN
    /\ handed \in SUBSET ServerSockets
    /\ settings \in 0..MaxSettings
    /\ heard \in [ServerSockets -> SUBSET Sockets]

ClientInit ==
    /\ enabled = FALSE
    /\ connecting = NoSocket
    /\ waits = NoSocket
    /\ retry = FALSE
    /\ deadline = FALSE
    /\ keepalive = FALSE
    /\ handed = {}
    /\ settings = 0
    /\ heard = [s \in ServerSockets |-> {}]

CanConnect == \E s \in ServerSockets : Free(s)
New == Fresh(ServerSockets)

-----------------------------------------------------------------------------
(* Settings.                                                                *)

Own == {connecting, waits} \ {NoSocket}

\* start: stop, then connect.
Start ==
    /\ settings < MaxSettings /\ CanConnect
    /\ settings' = settings + 1
    /\ enabled' = TRUE
    /\ PeerDoes({}, Own, Nothing, {}, {New})
    /\ connecting' = New
    /\ waits' = NoSocket
    /\ retry' = FALSE
    /\ deadline' = FALSE
    /\ keepalive' = FALSE
    /\ UNCHANGED <<handed, heard, faults>>

\* Fault: the reconnect timer outlives the service.
StopKeepsTimerFault ==
    /\ settings < MaxSettings /\ enabled
    /\ settings' = settings + 1
    /\ enabled' = FALSE
    /\ PeerDoes({}, Own, Nothing, {}, {})
    /\ connecting' = NoSocket
    /\ waits' = NoSocket
    /\ deadline' = FALSE
    /\ keepalive' = FALSE
    /\ UNCHANGED <<retry, handed, heard, faults>>

Stop ==
    /\ settings < MaxSettings /\ enabled
    /\ settings' = settings + 1
    /\ enabled' = FALSE
    /\ PeerDoes({}, Own, Nothing, {}, {})
    /\ connecting' = NoSocket
    /\ waits' = NoSocket
    /\ retry' = FALSE
    /\ deadline' = FALSE
    /\ keepalive' = FALSE
    /\ UNCHANGED <<handed, heard, faults>>

-----------------------------------------------------------------------------
(* The handlers of a connection.  They ignore a connection the service no   *)
(* longer owns, so that one it drops is gone for it at once; one it closes  *)
(* while connecting stays its own until the close event.                    *)

HearsFrame(s) == \E f \in Sockets : PeerHears(s, Frame(f))

\* handleOpen: register, with a deadline on a peer route.
OnOpen(s) ==
    /\ s = connecting /\ peer[s] = "opening"
    /\ PeerHears(s, Says("opened"))
    /\ PeerDoes({s}, {}, To(s, Says("register")), {}, {})
    /\ deadline' = Strict
    /\ UNCHANGED <<enabled, connecting, waits, retry, keepalive, handed, settings, heard, faults>>

\* server_registered
OnRegistered(s) ==
    /\ s = connecting
    /\ PeerHears(s, Says("registered"))
    /\ PeerDoes({s}, {}, Nothing, {}, {})
    /\ connecting' = NoSocket
    /\ waits' = s
    /\ deadline' = FALSE
    /\ keepalive' = TRUE
    /\ UNCHANGED <<enabled, retry, handed, settings, heard, faults>>

\* server_rejected: the user name belongs to another installation; final.
OnRejected(s) ==
    /\ s = connecting
    /\ PeerHears(s, Says("rejected"))
    /\ PeerDoes({s}, {}, Nothing, {s}, {})
    /\ deadline' = FALSE
    /\ enabled' = FALSE
    /\ UNCHANGED <<connecting, waits, retry, keepalive, handed, settings, heard, faults>>

\* The first frame of a phone claims the connection: it is handed off to
\* ws-relay, which answers, and a new one is opened at once.
OnClaim(s) ==
    /\ s \in IF Strict THEN {waits} ELSE {waits, connecting}
    /\ HearsFrame(s) /\ CanConnect
    /\ PeerDoes({s}, {}, To(s, Frame(s)), {}, {New})
    /\ handed' = handed \cup {s}
    /\ heard' = [heard EXCEPT ![s] = {Head(down[s]).from}]
    /\ connecting' = New
    /\ waits' = IF s = waits THEN NoSocket ELSE waits
    /\ keepalive' = FALSE
    /\ deadline' = FALSE
    /\ UNCHANGED <<enabled, retry, settings, faults>>

\* A peer route refuses the phone: the connection is terminated, and the next
\* one waits for the backoff.
OnRefusedClaim(s) ==
    /\ Strict /\ s = waits /\ HearsFrame(s)
    /\ PeerDoes({}, {s}, Nothing, {}, {})
    /\ waits' = NoSocket
    /\ retry' = enabled
    /\ keepalive' = FALSE
    /\ deadline' = FALSE
    /\ UNCHANGED <<enabled, connecting, handed, settings, heard, faults>>

\* Fault: the close of a connection that was handed off is taken for the
\* service's own.
AnyCloseReconnectsFault(s) ==
    /\ PeerDoes({}, {s}, Nothing, {}, {})
    /\ connecting' = IF s = connecting THEN NoSocket ELSE connecting
    /\ waits' = IF s = waits THEN NoSocket ELSE waits
    /\ deadline' = (deadline /\ s # connecting)
    /\ keepalive' = (keepalive /\ s # waits)
    /\ retry' = (retry \/ enabled)
    /\ handed' = handed \ {s}
    /\ heard' = [heard EXCEPT ![s] = {}]
    /\ UNCHANGED <<enabled, settings>>

\* handleClose: the service reconnects after the backoff.
OnServerClose(s) ==
    /\ PeerDoes({}, {s}, Nothing, {}, {})
    /\ connecting' = IF s = connecting THEN NoSocket ELSE connecting
    /\ waits' = IF s = waits THEN NoSocket ELSE waits
    /\ deadline' = (deadline /\ s # connecting)
    /\ keepalive' = (keepalive /\ s # waits)
    /\ retry' = (retry \/ (s \in Own /\ enabled))
    /\ handed' = handed \ {s}
    /\ heard' = [heard EXCEPT ![s] = {}]
    /\ UNCHANGED <<enabled, settings>>

\* ws-relay pings what was handed off, a peer channel has deadlines: neither
\* stays on a silent link.
ServerSocketCloses(s) ==
    /\ \/ PeerHears(s, Close)
       \/ peer[s] = "closing"
       \/ PeerGivesUp(s)
       \/ s \in handed \cap dead
    /\ OnServerClose(s)
    /\ UNCHANGED faults

\* The network is down, or the limiter refuses the upgrade.
ServerConnectFails(s) ==
    /\ peer[s] = "opening" /\ relay[s] = "none"
    /\ Fault
    /\ OnServerClose(s)

-----------------------------------------------------------------------------
(* Timers.                                                                  *)

Reconnect ==
    /\ retry /\ CanConnect
    /\ retry' = FALSE
    /\ connecting' = New
    /\ PeerDoes({}, {}, Nothing, {}, {New})
    /\ UNCHANGED <<enabled, waits, deadline, keepalive, handed, settings, heard, faults>>

\* handshakeTimeout and the registration timer, on a peer route only.
RegistrationTimeout ==
    /\ Strict /\ connecting # NoSocket
    /\ peer[connecting] = "opening" \/ (deadline /\ peer[connecting] = "open")
    /\ Overdue(connecting)
    /\ PeerDoes({}, {}, Nothing, {connecting}, {})
    /\ UNCHANGED clientVars

\* handleKeepaliveTimeout
KeepaliveTimeout ==
    /\ keepalive
    /\ Overdue(waits)
    /\ PeerDoes({}, {waits}, Nothing, {}, {})
    /\ waits' = NoSocket
    /\ keepalive' = FALSE
    /\ retry' = enabled
    /\ UNCHANGED <<enabled, connecting, deadline, handed, settings, heard>>

-----------------------------------------------------------------------------
(* A connection that was handed off (createAcceptRelayConnection).          *)

HandlerReads(s) ==
    /\ s \in handed /\ HearsFrame(s)
    /\ PeerDoes({s}, {}, To(s, Frame(s)), {}, {})
    /\ heard' = [heard EXCEPT ![s] = @ \cup {Head(down[s]).from}]
    /\ UNCHANGED <<serviceVars, handed, settings, faults>>

HandlerCloses(s) ==
    /\ s \in handed /\ peer[s] = "open"
    /\ PeerDoes({}, {s}, Nothing, {}, {})
    /\ handed' = handed \ {s}
    /\ heard' = [heard EXCEPT ![s] = {}]
    /\ UNCHANGED <<serviceVars, settings, faults>>

ServerHandles(s) ==
    \/ OnOpen(s) \/ OnRegistered(s) \/ OnRejected(s)
    \/ OnClaim(s) \/ OnRefusedClaim(s)
    \/ HandlerReads(s) \/ ServerSocketCloses(s)

ServerStep ==
    \/ Start \/ Stop \/ Reconnect \/ RegistrationTimeout \/ KeepaliveTimeout
    \/ \E s \in ServerSockets :
          ServerHandles(s) \/ ServerConnectFails(s) \/ HandlerCloses(s)
=============================================================================
