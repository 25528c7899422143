---------------------------- MODULE RemoteAccess ----------------------------
(***************************************************************************)
(* Remote access from end to end: phones (RelayClientSocket.ts), the relay *)
(* and a server behind it, over links that may fall silent.                *)
(***************************************************************************)
EXTENDS RelayServer, RelayClient

VARIABLES
    phone,  \* what a phone does on its connection
    said    \* history: whose frames a phone read on its connection

phoneVars == <<phone, said>>
vars == <<socketVars, relayVars, clientVars, phoneVars>>

PhoneStates == {"off", "opening", "asking", "connected", "talking", "served"}

TypeOK ==
    /\ SocketsTypeOK /\ RelayTypeOK /\ ClientTypeOK
    /\ phone \in [PhoneSockets -> PhoneStates]
    /\ said \in [PhoneSockets -> SUBSET Sockets]

Init ==
    /\ SocketsInit /\ RelayInit /\ ClientInit
    /\ phone = [p \in PhoneSockets |-> "off"]
    /\ said = [p \in PhoneSockets |-> {}]

-----------------------------------------------------------------------------
(* Phones.                                                                  *)

Becomes(p, state) == phone' = [phone EXCEPT ![p] = state]

PhoneOpens(p) ==
    /\ phone[p] = "off" /\ Free(p)
    /\ PeerDoes({}, {}, Nothing, {}, {p})
    /\ Becomes(p, "opening")
    /\ UNCHANGED <<said, faults>>

\* waitForRelayOpen is done: ask for the server.
PhoneAsks(p) ==
    /\ phone[p] = "opening" /\ PeerHears(p, Says("opened"))
    /\ PeerDoes({p}, {}, To(p, Says("connect")), {}, {})
    /\ Becomes(p, "asking")
    /\ UNCHANGED <<said, faults>>

\* waitForServerPair
PhoneIsConnected(p) ==
    /\ phone[p] = "asking" /\ PeerHears(p, Says("connected"))
    /\ PeerDoes({p}, {}, Nothing, {}, {})
    /\ Becomes(p, "connected")
    /\ UNCHANGED <<said, faults>>

PhoneIsRefused(p) ==
    /\ phone[p] = "asking" /\ PeerHears(p, Says("refused"))
    /\ PeerDoes({}, {p}, Nothing, {}, {})
    /\ Becomes(p, "off")
    /\ UNCHANGED <<said, faults>>

\* A request of the secure protocol, or none ever.
PhoneTalks(p) ==
    /\ phone[p] \in {"connected", "served"} /\ peer[p] = "open"
    /\ PeerDoes({}, {}, To(p, Frame(p)), {}, {})
    /\ Becomes(p, "talking")
    /\ UNCHANGED <<said, faults>>

PhoneReads(p) ==
    /\ phone[p] = "talking"
    /\ \E f \in Sockets : PeerHears(p, Frame(f))
    /\ PeerDoes({p}, {}, Nothing, {}, {})
    /\ said' = [said EXCEPT ![p] = @ \cup {Head(down[p]).from}]
    /\ Becomes(p, "served")
    /\ UNCHANGED faults

\* The user leaves, the caller aborts, or a deadline of the phone passes.
PhoneLeaves(p) ==
    /\ phone[p] # "off"
    /\ PeerDoes({}, {p}, Nothing, {}, {})
    /\ Becomes(p, "off")
    /\ said' = [said EXCEPT ![p] = {}]
    /\ UNCHANGED faults

PhoneTimesOut(p) == p \in dead /\ phone[p] # "connected" /\ PhoneLeaves(p)

PhoneSocketCloses(p) ==
    /\ PeerHears(p, Close) \/ PeerGivesUp(p)
    /\ PeerDoes({}, {p}, Nothing, {}, {})
    /\ Becomes(p, "off")
    /\ said' = [said EXCEPT ![p] = {}]
    /\ UNCHANGED faults

PhoneHandles(p) ==
    \/ PhoneAsks(p) \/ PhoneIsConnected(p) \/ PhoneIsRefused(p)
    \/ PhoneReads(p) \/ PhoneSocketCloses(p)

PhoneStep ==
    \E p \in PhoneSockets :
        PhoneHandles(p) \/ PhoneOpens(p) \/ PhoneTalks(p) \/ PhoneLeaves(p)

-----------------------------------------------------------------------------
Next ==
    \/ (RelayStep \/ OtherRegisters \/ RelayRestarts) /\ UNCHANGED <<clientVars, phoneVars>>
    \/ ServerStep /\ UNCHANGED <<relayVars, phoneVars>>
    \/ PhoneStep /\ UNCHANGED <<relayVars, clientVars>>
    \/ (\E s \in Sockets : LinkDies(s)) /\ UNCHANGED <<relayVars, clientVars, phoneVars>>

Spec == Init /\ [][Next]_vars

-----------------------------------------------------------------------------
(* Safety.                                                                  *)

Paired == {pair.server : pair \in pairs} \cup {pair.client : pair \in pairs}

\* The relay's tables agree: lookup holds exactly the ends of the pairs, each
\* connection is in one pair, the waiting one in none, timers belong to
\* pairs, and what is reported online is what waits or is paired.
PairingExact ==
    /\ \A s \in Sockets : \A pair \in pairs : s \in Ends(pair) <=> lookup[s] = pair
    /\ \A s \in Sockets : lookup[s] # NoPair => lookup[s] \in pairs
    /\ waiting \notin Paired
    /\ silent \subseteq pairs
    /\ active = {pair.server : pair \in pairs} \cup ({waiting} \ {NoSocket})

\* "Each phone gets a dedicated server connection": no connection ever
\* carries the frames of two phones, or of two server connections.
FramesStayInPair ==
    /\ \A s \in ServerSockets : \A f, g \in heard[s] : f = g
    /\ \A p \in PhoneSockets : \A f, g \in said[p] : f = g

\* While enabled, the service has exactly one of: a connection under way, one
\* that waits, a timer.  Two would leak a registration, none would end it.
OneRegistration ==
    /\ enabled => (retry \/ Own # {})
    /\ connecting = NoSocket \/ waits = NoSocket
    /\ retry => enabled /\ Own = {}
    /\ keepalive <=> waits # NoSocket

\* A registration the server trusts in is the one the relay has, or it is
\* taken: no late event of an older connection removes it.
WaitingIsRegistered ==
    \A s \in ServerSockets :
        s = waits /\ relay[s] = "open" => s = waiting \/ lookup[s] # NoPair

-----------------------------------------------------------------------------
(* Why they hold.                                                           *)

\* What the relay's handlers know of a connection matches the tables.
Bookkeeping ==
    /\ \A s \in Sockets : lookup[s] # NoPair => s \in claimed
    /\ waiting \notin claimed
    /\ waiting # NoSocket => relay[waiting] # "none"

\* Who holds a connection object, and in which state.
Ownership ==
    /\ connecting # NoSocket => peer[connecting] # "none"
    /\ waits # NoSocket => peer[waits] \in {"open", "closing"}
    /\ handed \cap Own = {}
    /\ \A s \in handed : peer[s] \in {"open", "closing"}
    /\ \A p \in PhoneSockets : phone[p] \in {"talking", "served"} => peer[p] = "open"

\* Whose frames were read on a connection, and whose are on their way.
ReadOn(s) == IF s \in ServerSockets THEN heard[s] ELSE said[s]
Carried(s) == {f \in Sockets : Frame(f) \in Elems(down[s])} \cup ReadOn(s)

FrameSources ==
    /\ \A s \in Sockets :
          /\ \A f \in Sockets : Frame(f) \in Elems(up[s]) => f = s
          /\ \A f, g \in Carried(s) : f = g
          /\ lookup[s] # NoPair => Carried(s) \subseteq Ends(lookup[s]) \ {s}
          /\ s \notin claimed /\ relay[s] # "none" => Carried(s) = {}
    /\ \A s \in ServerSockets \ handed : heard[s] = {}
    /\ \A p \in PhoneSockets : said[p] # {} => phone[p] \in {"talking", "served"}

\* A registration that the relay confirmed, read by the server or not, is still
\* the relay's, or it is taken, or the relay is closing its connection.
Confirmed(s) == s = waits \/ Says("registered") \in Elems(down[s])

RegistrationIsKnown ==
    \A s \in ServerSockets :
        Confirmed(s) /\ relay[s] = "open" => s = waiting \/ lookup[s] # NoPair

RemoteConsistent ==
    TypeOK /\ PairingExact /\ OneRegistration /\ Bookkeeping /\ Ownership /\ FrameSources

\* The tables, the owners, the frames and the registrations stay consistent
\* through every event of the relay, the server, the phones and the network.
RemoteInductive == RemoteConsistent /\ RegistrationIsKnown

-----------------------------------------------------------------------------
(* Liveness.                                                                *)

\* Every event of a connection is delivered, at each end, and an armed timer
\* fires unless what it waits for comes first: only a silent link makes sure
\* that it does not.
RelayHandles(s) ==
    \/ RelayAccepts(s) \/ OnFrame(s) \/ RelayCloses(s)
    \/ s \in ServerSockets /\ OnRegister(s)
    \/ s \in PhoneSockets /\ OnConnect(s)
    \/ s \in dead /\ NeverAuthenticated(s)
    \/ s \in dead \cap ServerSockets /\ PongTimeout(s)

ServerTimes ==
    \/ Reconnect
    \/ connecting \in dead /\ RegistrationTimeout
    \/ waits \in dead /\ KeepaliveTimeout

RelayAlone == UNCHANGED <<clientVars, phoneVars>>
ServerAlone == UNCHANGED <<relayVars, phoneVars>>
PhonesAlone == UNCHANGED <<relayVars, clientVars>>

Fairness ==
    /\ \A s \in Sockets : WF_vars(RelayAlone /\ RelayHandles(s))
    /\ WF_vars(RelayAlone /\ \E pair \in pairs : SilentPairTimeout(pair))
    /\ \A s \in ServerSockets : WF_vars(ServerAlone /\ ServerHandles(s))
    /\ WF_vars(ServerAlone /\ ServerTimes)
    /\ \A p \in PhoneSockets : WF_vars(PhonesAlone /\ (PhoneHandles(p) \/ PhoneTimesOut(p)))

FairSpec == Spec /\ Fairness

Reachable == /\ waiting \in Own \ dead
             /\ relay[waiting] = "open" /\ peer[waiting] = "open"

\* "Maintains a persistent waiting connection to the relay" (the header of
\* RelayClientService.ts), on the peer route: under strictPeerHandoff, whatever
\* fails, a server that keeps remote access enabled can be reached again.  The
\* app's own route keeps no such promise: it has no handshake and registration
\* deadlines, so a link that falls silent before the relay's answer leaves it
\* connecting for ever.
ServerReturns == Strict => []<>(enabled => Reachable)

\* A phone that has spoken is answered or loses its connection: it does not
\* wait on a server that is gone.  Only a silent link behind the relay, which
\* pings no paired connection, leaves the phone to its own deadline.
SpokenIsSettled ==
    \A p \in PhoneSockets :
        []<>(phone[p] = "talking" => lookup[p].server \in dead)
=============================================================================
