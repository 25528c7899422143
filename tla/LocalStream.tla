----------------------------- MODULE LocalStream -----------------------------
(***************************************************************************)
(* The stream of a page served by its own server: the transport            *)
(* (LocalhostSourceTransport.ts) with its connection manager, its sockets  *)
(* and subscriptions, in a browser tab that is hidden and shown again.     *)
(***************************************************************************)
EXTENDS WebSocketConnection

VARIABLES
    mgr,       \* streamManager
    visible,   \* the document is not hidden
    disposed

tabVars == <<visible, disposed>>
vars == <<socketVars, subscriptionVars, faults, mgr, tabVars>>

TypeOK ==
    /\ ConnectionTypeOK
    /\ mgr \in Manager
    /\ visible \in BOOLEAN
    /\ disposed \in BOOLEAN

Init ==
    /\ ConnectionInit
    /\ mgr = NewManager
    /\ visible \in BOOLEAN
    /\ disposed = FALSE

-----------------------------------------------------------------------------
(* The page.                                                                *)

Subscribe(i) ==
    /\ ~disposed /\ stage[i] = "none"
    /\ EnsureConnected(i)
    /\ UNCHANGED <<faults, mgr, visible, disposed>>

Unsubscribe(i) ==
    /\ stage[i] # "none"
    /\ Settle(i, "none", NoSocket)
    /\ UNCHANGED <<socketVars, faults, mgr, tabVars>>

\* beginCriticalOperation and its end: the first and the last of the uploads
\* that overlap.
UploadStarts ==
    /\ ~disposed /\ ~mgr.critical
    /\ mgr' = BeginCritical(mgr)
    /\ UNCHANGED <<socketVars, subscriptionVars, faults, tabVars>>

UploadEnds ==
    /\ mgr.critical
    /\ mgr' = EndCritical(mgr)
    /\ UNCHANGED <<socketVars, subscriptionVars, faults, tabVars>>

Dispose ==
    /\ ~disposed
    /\ disposed' = TRUE
    /\ mgr' = Stop(mgr)
    /\ SocketsDispose
    /\ UNCHANGED <<faults, visible>>

-----------------------------------------------------------------------------
(* Sockets.                                                                 *)

\* onopen; the first one starts the manager (startStreamManager).
Opens(s) ==
    /\ SocketOpens(s)
    /\ mgr' = IF disposed \/ mgr.started THEN MarkConnected(mgr) ELSE Start(mgr)
    /\ UNCHANGED <<faults, visible, disposed>>

\* onclose; the subscriptions report the same failure first, which changes
\* nothing more.
Closes(s, retryable) ==
    /\ SocketCloses(s)
    /\ mgr' = HandleFailure(mgr, retryable, visible)
    /\ UNCHANGED <<visible, disposed>>

\* The server is gone, refuses the connection, or refuses the user (4001).
ServerCloses(s) ==
    /\ Fault
    /\ \/ sock[s] \in {"open", "connecting"} /\ Closes(s, TRUE)
       \/ sock[s] = "open" /\ Closes(s, FALSE)

\* The browser is done with a socket that is dead.
BrowserCloses(s) ==
    /\ sock[s] \in {"half", "closing"}
    /\ Closes(s, TRUE)
    /\ UNCHANGED faults

\* The connect promise is rejected: for the attempt, or for those who asked.
TimesOut(s) ==
    /\ SocketTimesOut(s)
    /\ mgr' = IF mgr.attempt = s THEN AttemptFails(mgr, visible)
              ELSE IF \E i \in Slots : WaitsFor(i, s) THEN HandleFailure(mgr, TRUE, visible)
              ELSE mgr
    /\ UNCHANGED <<visible, disposed>>

ServerIsSlow(s) == sock[s] = "connecting" /\ Fault /\ TimesOut(s)

PromiseExpires(s) == sock[s] # "connecting" /\ TimesOut(s) /\ UNCHANGED faults

Breaks(s) == SocketBreaks(s) /\ UNCHANGED <<mgr, tabVars>>

-----------------------------------------------------------------------------
(* What the server says.                                                    *)

\* The "connected" event of a subscription.
SubscriptionOpens(i) ==
    /\ stage[i] = "sent" /\ Carried(i)
    /\ Settle(i, "open", on[i])
    /\ mgr' = MarkConnected(RecordEvent(mgr))
    /\ UNCHANGED <<socketVars, faults, tabVars>>

\* A response with an error status; one of 4xx is not worth a retry.
SubscriptionFails(i) ==
    /\ stage[i] = "sent" /\ Carried(i)
    /\ Settle(i, "none", NoSocket)
    /\ \E retryable \in BOOLEAN : mgr' = HandleFailure(mgr, retryable, visible)
    /\ UNCHANGED <<socketVars, faults, tabVars>>

Heartbeat(i) ==
    /\ stage[i] = "open" /\ Carried(i)
    /\ mgr' = RecordHeartbeat(mgr)
    /\ UNCHANGED <<socketVars, subscriptionVars, faults, tabVars>>

PongArrives ==
    /\ mgr.ping # NoSocket /\ sock[mgr.ping] = "open"
    /\ mgr' = [mgr EXCEPT !.ping = NoSocket]
    /\ UNCHANGED <<socketVars, subscriptionVars, faults, tabVars>>

-----------------------------------------------------------------------------
(* Timers.                                                                  *)

\* m is the manager at the call of _executeReconnect.
Execute(m) ==
    IF MayExecute(m)
    THEN SocketReconnects /\ mgr' = [m EXCEPT !.attempt = New]
    ELSE mgr' = m /\ UNCHANGED <<socketVars, subscriptionVars>>

BackoffFires ==
    /\ mgr.armed > 0
    /\ Execute(TimerFires(mgr))
    /\ UNCHANGED <<faults, tabVars>>

PongTimeout ==
    /\ mgr.ping # NoSocket
    /\ mgr' = ForceReconnect([mgr EXCEPT !.ping = NoSocket], visible)
    /\ UNCHANGED <<socketVars, subscriptionVars, faults, tabVars>>

\* 45 s pass without an event: not every subscription has a heartbeat, and a
\* new socket does not reset the clock.
GoesQuiet ==
    /\ mgr.started /\ ~mgr.quiet
    /\ mgr' = [mgr EXCEPT !.quiet = TRUE]
    /\ UNCHANGED <<socketVars, subscriptionVars, faults, tabVars>>

CheckStale ==
    /\ IsStale(mgr)
    /\ mgr' = ForceReconnect(mgr, visible)
    /\ UNCHANGED <<socketVars, subscriptionVars, faults, tabVars>>

CoolsDown ==
    /\ mgr.recent
    /\ mgr' = [mgr EXCEPT !.recent = FALSE]
    /\ UNCHANGED <<socketVars, subscriptionVars, faults, tabVars>>

-----------------------------------------------------------------------------
(* The tab.                                                                 *)

\* focus, online, a key: requestRecovery.
RecoverySignal ==
    /\ visible /\ MayRecover(mgr)
    /\ Execute(Recovering(mgr))
    /\ UNCHANGED <<faults, tabVars>>

Hides ==
    /\ visible
    /\ visible' = FALSE
    /\ mgr' = IF mgr.waiting THEN CancelBackoff(mgr) ELSE mgr
    /\ UNCHANGED <<socketVars, subscriptionVars, faults, disposed>>

\* _handleBecameVisible: probe, ping or nothing.  A connected manager has a
\* socket (ConnectedHasSocket); one that is dead may be CLOSING already, and
\* then the ping cannot be sent.
Shows ==
    /\ ~visible
    /\ visible' = TRUE
    /\ LET probing == ScheduleReconnect(mgr, TRUE)
       IN  IF mgr.waiting /\ MayRecover(probing) THEN Execute(Recovering(probing))
           ELSE /\ \/ mgr.waiting /\ mgr' = probing
                   \/ /\ ~mgr.waiting
                      /\ mgr' = IF MayPing(mgr) THEN [mgr EXCEPT !.ping = ws] ELSE mgr
                   \/ /\ ~mgr.waiting /\ MayPing(mgr) /\ sock[ws] = "half"
                      /\ mgr' = ForceReconnect([mgr EXCEPT !.ping = NoSocket], TRUE)
                /\ UNCHANGED <<socketVars, subscriptionVars>>
    /\ UNCHANGED <<faults, disposed>>

-----------------------------------------------------------------------------
PageStep ==
    \/ \E i \in Slots : Subscribe(i) \/ Unsubscribe(i)
    \/ UploadStarts \/ UploadEnds \/ Dispose \/ RecoverySignal \/ Hides \/ Shows

SocketStep ==
    \E s \in Sockets :
        \/ Opens(s) \/ ServerCloses(s) \/ BrowserCloses(s)
        \/ ServerIsSlow(s) \/ PromiseExpires(s) \/ Breaks(s)

ServerStep ==
    \/ \E i \in Slots : SubscriptionOpens(i) \/ SubscriptionFails(i) \/ Heartbeat(i)
    \/ PongArrives

TimerStep == BackoffFires \/ PongTimeout \/ GoesQuiet \/ CheckStale \/ CoolsDown

Next == PageStep \/ SocketStep \/ ServerStep \/ TimerStep

Spec == Init /\ [][Next]_vars

-----------------------------------------------------------------------------
(* Safety.                                                                  *)

\* A source that is reconnecting is driven by something: a backoff timer, an
\* attempt whose promise will settle, or, out of retries and hidden, the next
\* look at the page; and "hidden exhausted sources have no scheduled
\* reconnect probe".
ReconnectingIsDriven ==
    /\ mgr.started /\ mgr.state = "reconnecting" =>
          mgr.armed > 0 \/ mgr.attempt \in deadline \/ (mgr.waiting /\ ~visible)
    /\ mgr.waiting /\ ~visible => mgr.armed = 0

\* No subscription is left behind by the sockets that come and go: it waits
\* for a promise that will settle, or is on a socket that is not closed.
SubscriptionsAreCarried ==
    \A i \in Slots :
        /\ stage[i] = "pending" => on[i] \in deadline
        /\ stage[i] \in {"sent", "open"} => sock[on[i]] \in {"open", "half"}

-----------------------------------------------------------------------------
(* Why they hold.                                                           *)

\* One timer at most, held by its handle; beside an attempt only the probe of
\* a source out of retries.
TimersAreHeld ==
    /\ mgr.armed = (IF mgr.timer THEN 1 ELSE 0)
    /\ mgr.timer => mgr.started /\ mgr.state = "reconnecting"
    /\ mgr.timer /\ mgr.attempt # NoSocket => mgr.waiting

AttemptIsPending ==
    mgr.attempt # NoSocket =>
        mgr.started /\ mgr.state = "reconnecting" /\ mgr.attempt \in deadline

WaitingIsExhausted ==
    mgr.waiting => /\ mgr.started /\ mgr.state = "reconnecting"
                   /\ mgr.attempts = MaxAttempts

ConnectedHasSocket == mgr.state = "connected" => mgr.started /\ ws # NoSocket

SocketsAreTracked ==
    /\ ws # NoSocket => sock[ws] \in {"open", "half"}
    /\ connecting # NoSocket => connecting \in deadline
    /\ \A s \in Sockets : sock[s] = "connecting" => s \in deadline
    /\ \A s \in deadline : sock[s] \in {"none", "connecting"}
    /\ \A i \in Slots : /\ stage[i] # "none" => on[i] \in Sockets
                        /\ stage[i] \in {"sent", "open"} => ws # NoSocket
    /\ disposed => ~mgr.started /\ \A i \in Slots : stage[i] = "none"
    /\ ~disposed /\ ws # NoSocket => mgr.started

\* The manager, the sockets and the subscriptions stay consistent through
\* every event of the network, the page and the tab.
StreamInductive ==
    /\ TypeOK /\ ReconnectingIsDriven /\ SubscriptionsAreCarried
    /\ TimersAreHeld /\ AttemptIsPending /\ WaitingIsExhausted
    /\ ConnectedHasSocket /\ SocketsAreTracked

-----------------------------------------------------------------------------
(* Liveness.                                                                *)

\* The browser reports what became of a connection, timers fire, uploads end.
Fairness ==
    /\ \A s \in Sockets : WF_vars(Opens(s)) /\ WF_vars(PromiseExpires(s))
    /\ \A s \in Sockets : WF_vars(sock[s] = "closing" /\ BrowserCloses(s))
    /\ WF_vars(BackoffFires) /\ WF_vars(GoesQuiet) /\ WF_vars(CheckStale)
    /\ WF_vars(UploadEnds)

FairSpec == Spec /\ Fairness

\* The stream works, or nobody expects it to: it was never up, is disposed, or
\* a failure was terminal.  Before a heartbeat came, silence is not noticed.
Settled ==
    \/ ~mgr.started \/ mgr.state = "disconnected" \/ ~mgr.heartbeat
    \/ mgr.state = "connected" /\ sock[ws] = "open"

\* Once the network stops failing, a visible source recovers by itself, with
\* no demand of a subscription, out of retries or not, unless uploads without
\* a gap suppress the health check.
Recovers == <>[](visible /\ ~mgr.critical) => []<>Settled
=============================================================================
