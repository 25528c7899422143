-------------------------- MODULE ConnectionManager --------------------------
(***************************************************************************)
(* The client's connection manager (ConnectionManager.ts): one record, and *)
(* its methods as functions of it.  Every manager here drives its own      *)
(* reconnects (driveReconnect).                                            *)
(***************************************************************************)
EXTENDS Naturals

CONSTANTS
    Sockets,      \* connection objects
    NoSocket,
    MaxAttempts   \* the budget of rapid retries

ASSUME ManagerAssumption == NoSocket \notin Sockets /\ MaxAttempts \in Nat \ {0}

States == {"connected", "reconnecting", "disconnected"}

\* timer is the handle of the backoff timer, armed how many such timers will
\* really fire; attempt and ping name the socket they are about; quiet is
\* 45 s without an event, recent less than 5 s since a recovery signal.
Manager ==
    [state : States, started : BOOLEAN, attempts : 0..MaxAttempts, waiting : BOOLEAN,
     timer : BOOLEAN, armed : Nat, attempt : Sockets \cup {NoSocket},
     heartbeat : BOOLEAN, quiet : BOOLEAN, recent : BOOLEAN,
     ping : Sockets \cup {NoSocket}, critical : BOOLEAN]

NewManager ==
    [state |-> "disconnected", started |-> FALSE, attempts |-> 0, waiting |-> FALSE,
     timer |-> FALSE, armed |-> 0, attempt |-> NoSocket,
     heartbeat |-> FALSE, quiet |-> FALSE, recent |-> FALSE,
     ping |-> NoSocket, critical |-> FALSE]

-----------------------------------------------------------------------------
(* Timers.                                                                  *)

CancelBackoff(m) ==
    IF m.timer THEN [m EXCEPT !.timer = FALSE, !.armed = @ - 1] ELSE m

\* A handle that is overwritten leaves its timer armed.
Arm(m) == [m EXCEPT !.timer = TRUE, !.armed = @ + 1]

TimerFires(m) == [m EXCEPT !.timer = FALSE, !.armed = @ - 1]

\* Out of rapid retries, a visible source probes slowly, a hidden one not.
WaitForRecovery(m, visible) ==
    LET waits == [CancelBackoff(m) EXCEPT !.waiting = TRUE]
    IN  IF visible THEN Arm(waits) ELSE waits

ScheduleReconnect(m, visible) ==
    IF ~m.started THEN m
    ELSE IF m.attempts >= MaxAttempts THEN WaitForRecovery(m, visible)
    ELSE Arm([m EXCEPT !.attempts = @ + 1])

StartReconnecting(m, visible) ==
    ScheduleReconnect([m EXCEPT !.state = "reconnecting", !.ping = NoSocket], visible)

-----------------------------------------------------------------------------
(* What consumers report.                                                   *)

\* start, on a manager that was never started.
Start(m) ==
    [m EXCEPT !.started = TRUE, !.waiting = FALSE, !.recent = FALSE,
              !.state = "connected", !.quiet = FALSE]

Stop(m) ==
    [CancelBackoff(m) EXCEPT
        !.started = FALSE, !.waiting = FALSE, !.attempt = NoSocket, !.ping = NoSocket,
        !.heartbeat = FALSE, !.state = "disconnected"]

\* Fault: the backoff timer survives the recovery.
MarkConnectedKeepsTimerFault(m) ==
    IF ~m.started THEN m
    ELSE [m EXCEPT !.attempts = 0, !.waiting = FALSE,
                   !.attempt = NoSocket, !.state = "connected"]

MarkConnected(m) ==
    IF ~m.started THEN m
    ELSE [CancelBackoff(m) EXCEPT !.attempts = 0, !.waiting = FALSE,
                                  !.attempt = NoSocket, !.state = "connected"]

\* A failure that no retry can help: _emitReconnectFailed.
GiveUp(m) ==
    [CancelBackoff(m) EXCEPT !.state = "disconnected", !.waiting = FALSE,
                             !.attempt = NoSocket]

\* handleError and handleClose
HandleFailure(m, retryable, visible) ==
    IF m.state = "reconnecting" THEN m
    ELSE IF retryable THEN StartReconnecting(m, visible)
    ELSE GiveUp(m)

\* Fault: nothing is forced while the connection passes for healthy.
ForceWhenDownFault(m, visible) ==
    IF m.critical \/ ~m.started \/ m.state = "connected" THEN m
    ELSE StartReconnecting(
            [CancelBackoff(m) EXCEPT !.attempts = 0, !.waiting = FALSE,
                                     !.attempt = NoSocket], visible)

\* forceReconnect, for the reasons of a health check.
ForceReconnect(m, visible) ==
    IF m.critical \/ ~m.started THEN m
    ELSE StartReconnecting(
            [CancelBackoff(m) EXCEPT !.attempts = 0, !.waiting = FALSE,
                                     !.attempt = NoSocket], visible)

\* Fault: a failed attempt schedules no other.
AttemptFailsForGoodFault(m, visible) == [m EXCEPT !.attempt = NoSocket]

\* The reconnect function failed; a superseded attempt is not listened to.
AttemptFails(m, visible) == ScheduleReconnect([m EXCEPT !.attempt = NoSocket], visible)

RecordEvent(m) == [m EXCEPT !.quiet = FALSE]

RecordHeartbeat(m) == [m EXCEPT !.quiet = FALSE, !.heartbeat = TRUE]

BeginCritical(m) == [m EXCEPT !.critical = TRUE, !.ping = NoSocket]

EndCritical(m) == [m EXCEPT !.critical = FALSE]

-----------------------------------------------------------------------------
(* What the manager decides.                                                *)

IsStale(m) == m.state = "connected" /\ m.heartbeat /\ ~m.critical /\ m.quiet

\* _executeReconnect: one attempt at a time.
MayExecute(m) == m.started /\ m.attempt = NoSocket

MayRecover(m) ==
    MayExecute(m) /\ m.waiting /\ m.state = "reconnecting" /\ ~m.recent

Recovering(m) == CancelBackoff([m EXCEPT !.recent = TRUE])

MayPing(m) == m.state = "connected" /\ ~m.waiting /\ ~m.critical
=============================================================================
