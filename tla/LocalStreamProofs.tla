------------------------- MODULE LocalStreamProofs -------------------------
(***************************************************************************)
(* Proofs about the local stream, for any number of connection objects,    *)
(* subscriptions and failures and any budget of retries.  Part 1: what the *)
(* manager's methods keep of one record.  Part 2: what a handler does to   *)
(* the sockets and subscriptions.  Part 3: each event keeps the inductive  *)
(* invariant.  Part 4: theorems.                                           *)
(***************************************************************************)
EXTENDS LocalStream, TLAPS

-----------------------------------------------------------------------------
(* Part 1.                                                                  *)

Armed(m) == m.armed = (IF m.timer THEN 1 ELSE 0)

\* What the invariant says of the manager alone, v being the tab's visibility.
ManagerOK(m, v) ==
    /\ m \in Manager /\ Armed(m)
    /\ m.timer => m.started /\ m.state = "reconnecting"
    /\ m.timer /\ m.attempt # NoSocket => m.waiting
    /\ m.attempt # NoSocket => m.started /\ m.state = "reconnecting"
    /\ m.waiting => m.started /\ m.state = "reconnecting" /\ m.attempts = MaxAttempts
    /\ m.waiting /\ ~v => ~m.timer
    /\ m.started /\ m.state = "reconnecting" =>
          m.timer \/ m.attempt # NoSocket \/ (m.waiting /\ ~v)
    /\ m.state = "connected" => m.started

\* A manager about to schedule its next attempt.
MaySchedule(m) ==
    /\ m \in Manager /\ Armed(m) /\ m.state = "reconnecting"
    /\ m.timer => m.started
    /\ m.timer \/ m.attempt # NoSocket => m.waiting
    /\ m.waiting => m.started /\ m.attempts = MaxAttempts

\* Cancelling leaves no timer and changes nothing else.
LEMMA Cancelling ==
    ASSUME NEW m \in Manager, Armed(m)
    PROVE  /\ CancelBackoff(m) \in Manager
           /\ CancelBackoff(m) = [m EXCEPT !.timer = FALSE, !.armed = 0]
<1> DEFINE c == [m EXCEPT !.timer = FALSE, !.armed = 0]
<1>1. c \in Manager
    BY DEF Manager
<1>2. CASE m.timer
  <2>1. m.armed = 1 /\ 1 - 1 = 0
      BY <1>2 DEF Armed
  <2>2. CancelBackoff(m) = c
      BY <1>2, <2>1 DEF CancelBackoff, Manager
  <2> QED BY <1>1, <2>2
<1>3. CASE ~m.timer
  <2>1. m.timer = FALSE /\ m.armed = 0
      BY <1>3 DEF Armed, Manager
  <2>2. CancelBackoff(m) = c
      BY <1>3, <2>1 DEF CancelBackoff, Manager
  <2> QED BY <1>1, <2>2
<1> QED BY <1>2, <1>3

\* Arming where no timer is armed.
LEMMA Arming ==
    ASSUME NEW m \in Manager, m.armed = 0
    PROVE  Arm(m) = [m EXCEPT !.timer = TRUE, !.armed = 1]
BY DEF Arm, Manager

\* Scheduling gives a reconnecting source what drives it, and one timer.
LEMMA Scheduling ==
    ASSUME NEW m, NEW v \in BOOLEAN, MaySchedule(m)
    PROVE  /\ ManagerOK(ScheduleReconnect(m, v), v)
           /\ ScheduleReconnect(m, v).state = "reconnecting"
           /\ ScheduleReconnect(m, v).attempt = m.attempt
           /\ ScheduleReconnect(m, v).started = m.started
<1> USE ManagerAssumption
<1>0. /\ m \in Manager /\ m.state = "reconnecting"
      /\ m.timer \/ m.attempt # NoSocket => m.waiting
      /\ m.waiting => m.started /\ m.attempts = MaxAttempts
      /\ m.started \in BOOLEAN /\ m.attempts \in 0..MaxAttempts
      /\ ~m.timer => m.armed = 0
    BY DEF MaySchedule, Manager, Armed
<1>1. CASE ~m.started
    BY <1>0, <1>1 DEF ScheduleReconnect, ManagerOK, MaySchedule
<1>2. CASE m.started /\ m.attempts >= MaxAttempts
  <2> DEFINE w == [m EXCEPT !.timer = FALSE, !.armed = 0, !.waiting = TRUE]
             x == [w EXCEPT !.timer = TRUE, !.armed = 1]
  <2>1. w \in Manager /\ x \in Manager
      BY <1>0 DEF Manager
  <2>2. /\ w.armed = 0 /\ w.timer = FALSE /\ w.waiting = TRUE
        /\ w.state = m.state /\ w.started = m.started /\ w.attempts = m.attempts
        /\ w.attempt = m.attempt
      BY <1>0 DEF Manager
  <2>3. /\ x.armed = 1 /\ x.timer = TRUE /\ x.waiting = TRUE
        /\ x.state = m.state /\ x.started = m.started /\ x.attempts = m.attempts
        /\ x.attempt = m.attempt
      BY <1>0 DEF Manager
  <2>4. [CancelBackoff(m) EXCEPT !.waiting = TRUE] = w
      BY <1>0, Cancelling DEF MaySchedule, Manager
  <2>5. Arm(w) = x
      BY <2>1, <2>2 DEF Arm, Manager
  <2>6. ScheduleReconnect(m, v) = IF v THEN x ELSE w
      BY <1>2, <2>4, <2>5 DEF ScheduleReconnect, WaitForRecovery
  <2>7. m.attempts = MaxAttempts
      BY <1>0, <1>2
  <2> HIDE DEF w, x
  <2>8. CASE v
      BY <1>0, <1>2, <2>1, <2>3, <2>6, <2>7, <2>8 DEF ManagerOK, Armed
  <2>9. CASE ~v
      BY <1>0, <1>2, <2>1, <2>2, <2>6, <2>7, <2>9 DEF ManagerOK, Armed
  <2> QED BY <2>8, <2>9
<1>3. CASE m.started /\ ~(m.attempts >= MaxAttempts)
  <2> DEFINE r == [m EXCEPT !.attempts = @ + 1]
             x == [r EXCEPT !.timer = TRUE, !.armed = 1]
  <2>1. ~m.waiting /\ ~m.timer /\ m.attempt = NoSocket /\ m.armed = 0
      BY <1>0, <1>3
  <2>2. m.attempts + 1 \in 0..MaxAttempts
      BY <1>0, <1>3
  <2>3. r \in Manager /\ x \in Manager
      BY <1>0, <2>2 DEF Manager
  <2>4. /\ x.armed = 1 /\ x.timer = TRUE /\ x.waiting = m.waiting
        /\ x.state = m.state /\ x.started = m.started /\ x.attempt = m.attempt
      BY <1>0 DEF Manager
  <2>5. r.armed = 0
      BY <1>0, <2>1 DEF Manager
  <2>6. ScheduleReconnect(m, v) = Arm(r)
      BY <1>3 DEF ScheduleReconnect
  <2> HIDE DEF r
  <2>7. Arm(r) = x
      BY <2>3, <2>5, Arming
  <2> HIDE DEF x
  <2> QED BY <1>0, <1>3, <2>1, <2>3, <2>4, <2>6, <2>7 DEF ManagerOK, Armed
<1> QED BY <1>0, <1>1, <1>2, <1>3

\* What a method leaves to the others: m before, n after.
Keeps(m, n, v) ==
    /\ ManagerOK(n, v)
    /\ n.started = m.started
    /\ n.attempt \in {m.attempt, NoSocket}
    /\ n.state = "connected" => m.state = "connected"

\* A failure starts reconnecting unless it is under way already.
LEMMA Starting ==
    ASSUME NEW m, NEW v \in BOOLEAN, m \in Manager, ~m.timer, m.armed = 0,
           ~m.waiting, m.attempt = NoSocket
    PROVE  /\ Keeps(m, StartReconnecting(m, v), v)
           /\ StartReconnecting(m, v).state = "reconnecting"
           /\ StartReconnecting(m, v).attempt = NoSocket
<1> DEFINE r == [m EXCEPT !.state = "reconnecting", !.ping = NoSocket]
<1>1. r \in Manager
    BY DEF Manager, States
<1>2. /\ r.state = "reconnecting" /\ r.timer = m.timer /\ r.armed = m.armed
      /\ r.waiting = m.waiting /\ r.attempt = m.attempt /\ r.started = m.started
    BY DEF Manager
<1> HIDE DEF r
<1>3. MaySchedule(r)
    BY <1>1, <1>2 DEF MaySchedule, Armed
<1>4. StartReconnecting(m, v) = ScheduleReconnect(r, v)
    BY DEF StartReconnecting, r
<1> QED BY <1>2, <1>3, <1>4, Scheduling DEF Keeps

\* Cancelled, out of recovery and without an attempt, whatever the state.
LEMMA Clearing ==
    ASSUME NEW m \in Manager, Armed(m), NEW st \in States
    PROVE  LET c == [CancelBackoff(m) EXCEPT !.waiting = FALSE, !.attempt = NoSocket,
                                              !.state = st]
           IN  /\ c \in Manager /\ ~c.timer /\ c.armed = 0 /\ ~c.waiting
               /\ c.attempt = NoSocket /\ c.state = st /\ c.started = m.started
<1> DEFINE n == [m EXCEPT !.timer = FALSE, !.armed = 0]
<1>1. CancelBackoff(m) = n /\ n \in Manager
    BY Cancelling
<1>2. n.timer = FALSE /\ n.armed = 0 /\ n.started = m.started
    BY DEF Manager
<1> HIDE DEF n
<1> QED BY <1>1, <1>2 DEF Manager

LEMMA Failing ==
    ASSUME NEW m, NEW v \in BOOLEAN, NEW retryable \in BOOLEAN, ManagerOK(m, v)
    PROVE  /\ Keeps(m, HandleFailure(m, retryable, v), v)
           /\ HandleFailure(m, retryable, v).state # "connected"
<1>0. /\ m \in Manager /\ Armed(m)
      /\ m.state # "reconnecting" => ~m.timer /\ ~m.waiting /\ m.attempt = NoSocket
      /\ ~m.timer => m.armed = 0
    BY DEF ManagerOK, Armed
<1>1. CASE m.state = "reconnecting"
    BY <1>1 DEF HandleFailure, Keeps
<1>2. CASE m.state # "reconnecting" /\ retryable
    BY <1>0, <1>2, Starting DEF HandleFailure
<1>3. CASE m.state # "reconnecting" /\ ~retryable
  <2>1. "disconnected" \in States
      BY DEF States
  <2>2. GiveUp(m) = [CancelBackoff(m) EXCEPT !.waiting = FALSE, !.attempt = NoSocket,
                                             !.state = "disconnected"]
      BY <1>0, Cancelling DEF GiveUp, Manager
  <2>3. /\ GiveUp(m) \in Manager /\ ~GiveUp(m).timer /\ GiveUp(m).armed = 0
        /\ ~GiveUp(m).waiting /\ GiveUp(m).attempt = NoSocket
        /\ GiveUp(m).state = "disconnected" /\ GiveUp(m).started = m.started
      BY <1>0, <2>1, <2>2, Clearing
  <2> QED BY <1>3, <2>3 DEF HandleFailure, Keeps, ManagerOK, Armed
<1> QED BY <1>1, <1>2, <1>3

\* A health check starts over, or is suppressed.
LEMMA Forcing ==
    ASSUME NEW m, NEW v \in BOOLEAN, ManagerOK(m, v)
    PROVE  Keeps(m, ForceReconnect(m, v), v)
<1>1. CASE m.critical \/ ~m.started
    BY <1>1 DEF ForceReconnect, Keeps
<1>2. CASE ~(m.critical \/ ~m.started)
  <2> DEFINE n == [m EXCEPT !.timer = FALSE, !.armed = 0]
             c == [CancelBackoff(m) EXCEPT !.attempts = 0, !.waiting = FALSE,
                                           !.attempt = NoSocket]
  <2>1. m \in Manager /\ Armed(m) /\ 0 \in 0..MaxAttempts
      BY ManagerAssumption DEF ManagerOK
  <2>2. CancelBackoff(m) = n /\ n \in Manager /\ n.timer = FALSE /\ n.armed = 0
        /\ n.state = m.state /\ n.started = m.started
      BY <2>1, Cancelling DEF Manager
  <2> HIDE DEF n
  <2>3. /\ c \in Manager /\ ~c.timer /\ c.armed = 0 /\ ~c.waiting
        /\ c.attempt = NoSocket /\ c.state = m.state /\ c.started = m.started
      BY <2>1, <2>2 DEF Manager
  <2> HIDE DEF c
  <2>4. ForceReconnect(m, v) = StartReconnecting(c, v)
      BY <1>2 DEF ForceReconnect, c
  <2> QED BY <2>3, <2>4, Starting DEF Keeps
<1> QED BY <1>1, <1>2

LEMMA Connecting ==
    ASSUME NEW m, NEW v \in BOOLEAN, ManagerOK(m, v)
    PROVE  /\ ManagerOK(MarkConnected(m), v)
           /\ MarkConnected(m).started = m.started
           /\ MarkConnected(m).attempt = NoSocket
           /\ ~m.started => MarkConnected(m) = m
<1>0. /\ m \in Manager /\ Armed(m) /\ m.started \in BOOLEAN
      /\ 0 \in 0..MaxAttempts /\ "connected" \in States
      /\ m.attempt # NoSocket => m.started
    BY ManagerAssumption DEF ManagerOK, Manager, States
<1>1. CASE ~m.started
    BY <1>0, <1>1 DEF MarkConnected
<1>2. CASE m.started
  <2> DEFINE b == [CancelBackoff(m) EXCEPT !.waiting = FALSE, !.attempt = NoSocket,
                                           !.state = "connected"]
  <2>1. /\ b \in Manager /\ ~b.timer /\ b.armed = 0 /\ ~b.waiting
        /\ b.attempt = NoSocket /\ b.state = "connected" /\ b.started = m.started
      BY <1>0, Clearing
  <2>2. MarkConnected(m) = [b EXCEPT !.attempts = 0]
      BY <1>0, <1>2, Cancelling DEF MarkConnected, Manager
  <2> HIDE DEF b
  <2>3. LET c == MarkConnected(m)
        IN  /\ c \in Manager /\ ~c.timer /\ c.armed = 0 /\ ~c.waiting
            /\ c.attempt = NoSocket /\ c.state = "connected" /\ c.started = m.started
      BY <1>0, <2>1, <2>2 DEF Manager
  <2> QED BY <1>2, <2>3 DEF ManagerOK, Armed
<1> QED BY <1>0, <1>1, <1>2

LEMMA Beginning ==
    ASSUME NEW m, NEW v \in BOOLEAN, ManagerOK(m, v), ~m.started
    PROVE  ManagerOK(Start(m), v) /\ Start(m).started /\ Start(m).attempt = NoSocket
<1>1. /\ m \in Manager /\ ~m.timer /\ m.attempt = NoSocket /\ m.armed = 0
    BY DEF ManagerOK, Armed
<1>2. Start(m) \in Manager
    BY <1>1 DEF Start, Manager, States
<1>3. /\ Start(m).started /\ Start(m).state = "connected" /\ ~Start(m).waiting
      /\ Start(m).timer = m.timer /\ Start(m).armed = m.armed
      /\ Start(m).attempt = m.attempt
    BY <1>1 DEF Start, Manager
<1> QED BY <1>1, <1>2, <1>3 DEF ManagerOK, Armed

LEMMA Stopping ==
    ASSUME NEW m, NEW v \in BOOLEAN, ManagerOK(m, v)
    PROVE  /\ ManagerOK(Stop(m), v) /\ ~Stop(m).started
           /\ Stop(m).attempt = NoSocket /\ Stop(m).state = "disconnected"
<1> DEFINE n == [m EXCEPT !.timer = FALSE, !.armed = 0]
<1>1. m \in Manager /\ Armed(m)
    BY DEF ManagerOK
<1>2. CancelBackoff(m) = n /\ n \in Manager /\ n.timer = FALSE /\ n.armed = 0
    BY <1>1, Cancelling DEF Manager
<1> HIDE DEF n
<1>3. /\ Stop(m) \in Manager /\ ~Stop(m).timer /\ Stop(m).armed = 0
      /\ ~Stop(m).waiting /\ ~Stop(m).started
      /\ Stop(m).attempt = NoSocket /\ Stop(m).state = "disconnected"
    BY <1>2 DEF Stop, Manager, States
<1> QED BY <1>3 DEF ManagerOK, Armed

LEMMA AttemptFailing ==
    ASSUME NEW m, NEW v \in BOOLEAN, ManagerOK(m, v), m.attempt # NoSocket
    PROVE  Keeps(m, AttemptFails(m, v), v) /\ AttemptFails(m, v).attempt = NoSocket
<1> DEFINE n == [m EXCEPT !.attempt = NoSocket]
<1>1. /\ m \in Manager /\ Armed(m) /\ m.state = "reconnecting" /\ m.started
      /\ m.timer => m.waiting
      /\ m.waiting => m.attempts = MaxAttempts
    BY DEF ManagerOK
<1>2. n \in Manager
    BY <1>1 DEF Manager
<1>3. /\ n.attempt = NoSocket /\ n.state = m.state /\ n.started = m.started
      /\ n.timer = m.timer /\ n.armed = m.armed /\ n.waiting = m.waiting
      /\ n.attempts = m.attempts
    BY <1>1 DEF Manager
<1> HIDE DEF n
<1>4. MaySchedule(n)
    BY <1>1, <1>2, <1>3 DEF MaySchedule, Armed
<1>5. AttemptFails(m, v) = ScheduleReconnect(n, v)
    BY DEF AttemptFails, n
<1> QED BY <1>1, <1>3, <1>4, <1>5, Scheduling DEF Keeps

\* What the invariant does not speak of may change.
LEMMA Noting ==
    ASSUME NEW m, NEW n \in Manager, NEW v \in BOOLEAN, ManagerOK(m, v),
           n.state = m.state, n.started = m.started, n.attempts = m.attempts,
           n.waiting = m.waiting, n.timer = m.timer, n.armed = m.armed,
           n.attempt = m.attempt
    PROVE  Keeps(m, n, v)
BY DEF Keeps, ManagerOK, Armed

\* The changes of a kind that Noting is about.
LEMMA Notes ==
    ASSUME NEW m, NEW v \in BOOLEAN, ManagerOK(m, v), NEW s \in Sockets \cup {NoSocket}
    PROVE  /\ Keeps(m, RecordEvent(m), v) /\ Keeps(m, RecordHeartbeat(m), v)
           /\ Keeps(m, BeginCritical(m), v) /\ Keeps(m, EndCritical(m), v)
           /\ Keeps(m, [m EXCEPT !.ping = s], v)
           /\ Keeps(m, [m EXCEPT !.quiet = TRUE], v)
           /\ Keeps(m, [m EXCEPT !.recent = FALSE], v)
<1>0. m \in Manager
    BY DEF ManagerOK
<1>1. Keeps(m, RecordEvent(m), v)
  <2> DEFINE n == RecordEvent(m)
  <2>1. n \in Manager /\ n.state = m.state /\ n.started = m.started /\ n.attempts = m.attempts
        /\ n.waiting = m.waiting /\ n.timer = m.timer /\ n.armed = m.armed
        /\ n.attempt = m.attempt
      BY <1>0 DEF RecordEvent, Manager
  <2> QED BY <2>1, Noting
<1>2. Keeps(m, RecordHeartbeat(m), v)
  <2> DEFINE n == RecordHeartbeat(m)
  <2>1. n \in Manager /\ n.state = m.state /\ n.started = m.started /\ n.attempts = m.attempts
        /\ n.waiting = m.waiting /\ n.timer = m.timer /\ n.armed = m.armed
        /\ n.attempt = m.attempt
      BY <1>0 DEF RecordHeartbeat, Manager
  <2> QED BY <2>1, Noting
<1>3. Keeps(m, BeginCritical(m), v)
  <2> DEFINE n == BeginCritical(m)
  <2>1. n \in Manager /\ n.state = m.state /\ n.started = m.started /\ n.attempts = m.attempts
        /\ n.waiting = m.waiting /\ n.timer = m.timer /\ n.armed = m.armed
        /\ n.attempt = m.attempt
      BY <1>0 DEF BeginCritical, Manager
  <2> QED BY <2>1, Noting
<1>4. Keeps(m, EndCritical(m), v)
  <2> DEFINE n == EndCritical(m)
  <2>1. n \in Manager /\ n.state = m.state /\ n.started = m.started /\ n.attempts = m.attempts
        /\ n.waiting = m.waiting /\ n.timer = m.timer /\ n.armed = m.armed
        /\ n.attempt = m.attempt
      BY <1>0 DEF EndCritical, Manager
  <2> QED BY <2>1, Noting
<1>5. ASSUME NEW n \in {[m EXCEPT !.ping = s], [m EXCEPT !.quiet = TRUE],
                         [m EXCEPT !.recent = FALSE]}
      PROVE  Keeps(m, n, v)
  <2>1. n \in Manager /\ n.state = m.state /\ n.started = m.started /\ n.attempts = m.attempts
        /\ n.waiting = m.waiting /\ n.timer = m.timer /\ n.armed = m.armed
        /\ n.attempt = m.attempt
      BY <1>0, <1>5 DEF Manager
  <2> QED BY <2>1, Noting
<1> QED BY <1>1, <1>2, <1>3, <1>4, <1>5

\* A timer that fires, and an attempt it may start.
LEMMA Firing ==
    ASSUME NEW m, NEW v \in BOOLEAN, ManagerOK(m, v), m.armed > 0
    PROVE  LET t == TimerFires(m)
           IN  /\ t.started = m.started /\ t.attempt = m.attempt /\ t.state = "reconnecting"
               /\ ~MayExecute(t) => Keeps(m, t, v)
               /\ MayExecute(t) => \A s \in Sockets : ManagerOK([t EXCEPT !.attempt = s], v)
<1> DEFINE t == TimerFires(m)
<1>1. /\ m \in Manager /\ m.timer /\ m.armed = 1 /\ m.started /\ m.state = "reconnecting"
      /\ m.attempt # NoSocket => m.waiting
      /\ m.waiting => m.attempts = MaxAttempts
      /\ m.waiting => v
    BY DEF ManagerOK, Armed
<1> DEFINE n == [m EXCEPT !.timer = FALSE, !.armed = 0]
<1>2. /\ n \in Manager /\ n.timer = FALSE /\ n.armed = 0
      /\ n.started = m.started /\ n.state = m.state /\ n.attempt = m.attempt
      /\ n.waiting = m.waiting /\ n.attempts = m.attempts
    BY <1>1 DEF Manager
<1>t. t = n
  <2>1. m.armed - 1 = 0
      BY <1>1
  <2> QED BY <2>1 DEF TimerFires
<1> HIDE DEF n, t
<1>3. /\ t \in Manager /\ t.timer = FALSE /\ t.armed = 0
      /\ t.started = m.started /\ t.state = m.state /\ t.attempt = m.attempt
      /\ t.waiting = m.waiting /\ t.attempts = m.attempts
    BY <1>2, <1>t
<1>4. ASSUME ~MayExecute(t)
      PROVE  Keeps(m, t, v)
  <2>1. t.attempt # NoSocket
      BY <1>1, <1>3, <1>4 DEF MayExecute
  <2> QED BY <1>1, <1>3, <2>1 DEF Keeps, ManagerOK, Armed
<1>5. ASSUME MayExecute(t), NEW s \in Sockets
      PROVE  ManagerOK([t EXCEPT !.attempt = s], v)
  <2> DEFINE x == [t EXCEPT !.attempt = s]
  <2>1. /\ x \in Manager /\ x.timer = FALSE /\ x.armed = 0
        /\ x.started = m.started /\ x.state = m.state /\ x.attempt = s
        /\ x.waiting = m.waiting /\ x.attempts = m.attempts
      BY <1>3 DEF Manager
  <2>2. s # NoSocket
      BY ManagerAssumption
  <2> HIDE DEF x
  <2>3. ManagerOK(x, v)
      BY <1>1, <2>1, <2>2 DEF ManagerOK, Armed
  <2> QED BY <2>3 DEF x
<1> QED BY <1>1, <1>3, <1>4, <1>5 DEF t

\* A recovery signal, on a manager that may follow it.
LEMMA Signalling ==
    ASSUME NEW m, NEW v \in BOOLEAN, ManagerOK(m, v), MayRecover(m)
    PROVE  LET r == Recovering(m)
           IN  /\ r.started = m.started /\ r.attempt = NoSocket /\ MayExecute(r)
               /\ \A s \in Sockets : ManagerOK([r EXCEPT !.attempt = s], v)
               /\ r.state = "reconnecting"
<1> DEFINE q == [m EXCEPT !.recent = TRUE]
           n == [q EXCEPT !.timer = FALSE, !.armed = 0]
<1>1. /\ m \in Manager /\ Armed(m) /\ m.started /\ m.attempt = NoSocket
      /\ m.state = "reconnecting" /\ m.waiting /\ m.attempts = MaxAttempts
    BY DEF ManagerOK, MayRecover, MayExecute
<1>2. /\ q \in Manager /\ q.timer = m.timer /\ q.armed = m.armed /\ q.started = m.started
      /\ q.attempt = m.attempt /\ q.state = m.state /\ q.waiting = m.waiting
      /\ q.attempts = m.attempts
    BY <1>1 DEF Manager
<1>3. Recovering(m) = CancelBackoff(q)
    BY DEF Recovering
<1> HIDE DEF q
<1>4. Armed(q)
    BY <1>1, <1>2 DEF Armed
<1>5. Recovering(m) = n /\ n \in Manager
    BY <1>2, <1>3, <1>4, Cancelling
<1>6. /\ n.timer = FALSE /\ n.armed = 0 /\ n.started = m.started
      /\ n.attempt = m.attempt /\ n.state = m.state /\ n.waiting = m.waiting
      /\ n.attempts = m.attempts
    BY <1>2 DEF Manager
<1> HIDE DEF n
<1>7. ASSUME NEW s \in Sockets
      PROVE  ManagerOK([n EXCEPT !.attempt = s], v)
  <2> DEFINE x == [n EXCEPT !.attempt = s]
  <2>1. /\ x \in Manager /\ x.timer = FALSE /\ x.armed = 0
        /\ x.started = m.started /\ x.state = m.state /\ x.attempt = s
        /\ x.waiting = m.waiting /\ x.attempts = m.attempts
      BY <1>5, <1>6 DEF Manager
  <2>2. s # NoSocket
      BY ManagerAssumption
  <2> HIDE DEF x
  <2>3. ManagerOK(x, v)
      BY <1>1, <2>1, <2>2 DEF ManagerOK, Armed
  <2> QED BY <2>3 DEF x
<1> QED BY <1>1, <1>5, <1>6, <1>7 DEF MayExecute

\* The tab is hidden: a source out of retries loses its probe.
LEMMA Hiding ==
    ASSUME NEW m, ManagerOK(m, TRUE)
    PROVE  Keeps(m, IF m.waiting THEN CancelBackoff(m) ELSE m, FALSE)
<1>1. m \in Manager /\ Armed(m)
    BY DEF ManagerOK
<1>2. CASE ~m.waiting
    BY <1>1, <1>2 DEF Keeps, ManagerOK
<1>3. CASE m.waiting
  <2> DEFINE n == [m EXCEPT !.timer = FALSE, !.armed = 0]
  <2>1. CancelBackoff(m) = n /\ n \in Manager
      BY <1>1, Cancelling
  <2>2. /\ n.timer = FALSE /\ n.armed = 0 /\ n.started = m.started
        /\ n.attempt = m.attempt /\ n.state = m.state /\ n.waiting = m.waiting
        /\ n.attempts = m.attempts
      BY <1>1 DEF Manager
  <2> HIDE DEF n
  <2> QED BY <1>3, <2>1, <2>2 DEF Keeps, ManagerOK, Armed
<1> QED BY <1>2, <1>3

\* The tab is shown: such a source is given a probe.
LEMMA Showing ==
    ASSUME NEW m, ManagerOK(m, FALSE)
    PROVE  /\ ~m.waiting => ManagerOK(m, TRUE)
           /\ m.waiting => Keeps(m, ScheduleReconnect(m, TRUE), TRUE)
<1>1. ASSUME ~m.waiting
      PROVE  ManagerOK(m, TRUE)
    BY <1>1 DEF ManagerOK
<1>2. ASSUME m.waiting
      PROVE  Keeps(m, ScheduleReconnect(m, TRUE), TRUE)
  <2>1. MaySchedule(m) /\ m.state = "reconnecting"
      BY <1>2 DEF ManagerOK, MaySchedule
  <2> QED BY <2>1, Scheduling DEF Keeps
<1> QED BY <1>1, <1>2

-----------------------------------------------------------------------------
(* Part 2.                                                                  *)

\* What the invariant says of the sockets and the subscriptions alone.
ConnectionOK ==
    /\ ConnectionTypeOK /\ visible \in BOOLEAN /\ disposed \in BOOLEAN
    /\ SubscriptionsAreCarried
    /\ ws # NoSocket => sock[ws] \in {"open", "half"}
    /\ connecting # NoSocket => connecting \in deadline
    /\ \A s \in Sockets : sock[s] = "connecting" => s \in deadline
    /\ \A s \in deadline : sock[s] \in {"none", "connecting"}
    /\ \A i \in Slots : /\ stage[i] # "none" => on[i] \in Sockets
                        /\ stage[i] \in {"sent", "open"} => ws # NoSocket
    /\ disposed => \A i \in Slots : stage[i] = "none"

\* What it says of the manager and the sockets together.
Links ==
    /\ mgr.attempt # NoSocket => mgr.attempt \in deadline
    /\ mgr.state = "connected" => ws # NoSocket
    /\ disposed => ~mgr.started
    /\ ~disposed /\ ws # NoSocket => mgr.started

\* The invariant is these three.
LEMMA Apart ==
    ASSUME StreamInductive
    PROVE  ConnectionOK /\ ManagerOK(mgr, visible) /\ Links
<1>1. ConnectionOK
    BY DEF StreamInductive, TypeOK, SocketsAreTracked, ConnectionOK
<1>2. ManagerOK(mgr, visible)
  <2>1. mgr \in Manager /\ Armed(mgr) /\ mgr.timer \in BOOLEAN
      BY DEF StreamInductive, TypeOK, TimersAreHeld, Armed, Manager
  <2>2. /\ mgr.armed > 0 <=> mgr.timer
        /\ mgr.armed = 0 <=> ~mgr.timer
      BY <2>1 DEF Armed
  <2>3. NoSocket \notin deadline
      BY ManagerAssumption DEF StreamInductive, TypeOK, ConnectionTypeOK
  <2> QED BY <2>1, <2>2, <2>3
          DEF StreamInductive, TimersAreHeld, AttemptIsPending, WaitingIsExhausted,
              ConnectedHasSocket, ReconnectingIsDriven, ManagerOK
<1>3. Links
    BY DEF StreamInductive, AttemptIsPending, ConnectedHasSocket, SocketsAreTracked, Links
<1> QED BY <1>1, <1>2, <1>3

LEMMA Together ==
    ASSUME ConnectionOK, ManagerOK(mgr, visible), Links
    PROVE  StreamInductive
<1>1. TypeOK /\ SubscriptionsAreCarried /\ SocketsAreTracked
    BY DEF ConnectionOK, ManagerOK, Links, TypeOK, SocketsAreTracked
<1>2. TimersAreHeld /\ AttemptIsPending /\ WaitingIsExhausted /\ ConnectedHasSocket
    BY DEF ManagerOK, Armed, Links, TimersAreHeld, AttemptIsPending, WaitingIsExhausted,
           ConnectedHasSocket
<1>3. ReconnectingIsDriven
    BY DEF ManagerOK, Armed, Links, ReconnectingIsDriven
<1> QED BY <1>1, <1>2, <1>3 DEF StreamInductive

LEMMA TogetherNext ==
    ASSUME ConnectionOK', ManagerOK(mgr', visible'), Links'
    PROVE  StreamInductive'
<1>1. (TypeOK /\ SubscriptionsAreCarried /\ SocketsAreTracked)'
    BY DEF ConnectionOK, ManagerOK, Links, TypeOK, SocketsAreTracked
<1>2. (TimersAreHeld /\ AttemptIsPending /\ WaitingIsExhausted /\ ConnectedHasSocket)'
    BY DEF ManagerOK, Armed, Links, TimersAreHeld, AttemptIsPending, WaitingIsExhausted,
           ConnectedHasSocket
<1>3. ReconnectingIsDriven'
    BY DEF ManagerOK, Armed, Links, ReconnectingIsDriven
<1> QED BY <1>1, <1>2, <1>3 DEF StreamInductive

\* A manager that Keeps, over sockets where no promise is settled.
LEMMA Kept ==
    ASSUME StreamInductive, ConnectionOK', Keeps(mgr, mgr', visible'),
           mgr.attempt \in deadline => mgr.attempt \in deadline' \/ mgr'.attempt = NoSocket,
           ws' = ws, disposed' = disposed
    PROVE  StreamInductive'
<1>1. Links /\ ManagerOK(mgr', visible')
    BY Apart DEF Keeps
<1>2. Links'
    BY <1>1 DEF Links, Keeps
<1> QED BY <1>1, <1>2, TogetherNext

\* An event that concerns only the manager.
LEMMA Quietly ==
    ASSUME StreamInductive, Keeps(mgr, mgr', visible'), visible' \in BOOLEAN,
           UNCHANGED <<socketVars, subscriptionVars, faults, disposed>>
    PROVE  StreamInductive'
<1>1. ConnectionOK
    BY Apart
<1>2. ConnectionOK'
    BY <1>1 DEF ConnectionOK, ConnectionTypeOK, SubscriptionsAreCarried, socketVars,
                subscriptionVars
<1> QED BY <1>2, Kept DEF socketVars

LEMMA Same ==
    ASSUME NEW m, NEW v, ManagerOK(m, v)
    PROVE  Keeps(m, m, v)
BY DEF Keeps

LEMMA NewIsFree ==
    ASSUME CanConnect
    PROVE  New \in Sockets /\ sock[New] = "none" /\ New \notin deadline
BY DEF CanConnect, New, Free

\* reconnect leaves one new connection and no subscription.
LEMMA Reconnects ==
    ASSUME StreamInductive, SocketReconnects, ManagerOK(mgr', visible'),
           mgr'.attempt = New, mgr'.started = mgr.started, mgr'.state = "reconnecting",
           visible' \in BOOLEAN, UNCHANGED <<faults, disposed>>
    PROVE  StreamInductive'
<1>0. NoSocket \notin Sockets
    BY ManagerAssumption
<1>1. ConnectionOK /\ Links
    BY Apart
<1>2. /\ New \in Sockets /\ deadline' = deadline \cup {New} /\ connecting' = New
      /\ ws' = NoSocket
      /\ sock' = [s \in Sockets |->
                    IF s = New THEN "connecting" ELSE IF s = ws THEN "none" ELSE sock[s]]
      /\ stage' = [i \in Slots |-> "none"] /\ on' = [i \in Slots |-> NoSocket]
    BY NewIsFree DEF SocketReconnects, Connect, AllClosed
<1>3. ConnectionOK'
  <2>1. ConnectionTypeOK'
      BY <1>1, <1>2 DEF ConnectionOK, ConnectionTypeOK, SocketStates, Stages
  <2>2. \A s \in Sockets : sock'[s] = "connecting" => s \in deadline'
      BY <1>1, <1>2 DEF ConnectionOK
  <2>3. \A s \in deadline' : sock'[s] \in {"none", "connecting"}
      BY <1>1, <1>2 DEF ConnectionOK, ConnectionTypeOK
  <2>4. \A i \in Slots : stage'[i] = "none"
      BY <1>2
  <2> QED BY <1>1, <1>2, <2>1, <2>2, <2>3, <2>4 DEF ConnectionOK, SubscriptionsAreCarried
<1>4. Links'
    BY <1>1, <1>2 DEF Links
<1> QED BY <1>3, <1>4, TogetherNext

-----------------------------------------------------------------------------
(* Part 3.                                                                  *)

LEMMA Initially ==
    ASSUME Init
    PROVE  StreamInductive
<1> USE ManagerAssumption, StreamAssumption
<1>1. mgr = NewManager /\ NewManager \in Manager
    BY DEF Init, NewManager, Manager, States
<1>2. ManagerOK(mgr, visible)
    BY <1>1 DEF NewManager, ManagerOK, Armed
<1>3. ConnectionOK
  <2>1. /\ sock = [s \in Sockets |-> "none"] /\ deadline = {} /\ ws = NoSocket
        /\ connecting = NoSocket /\ faults = 0 /\ disposed = FALSE
        /\ stage = [i \in Slots |-> "none"] /\ on = [i \in Slots |-> NoSocket]
        /\ visible \in BOOLEAN
      BY DEF Init, ConnectionInit
  <2>2. ConnectionTypeOK
      BY <2>1 DEF ConnectionTypeOK, SocketStates, Stages
  <2>3. SubscriptionsAreCarried
      BY <2>1 DEF SubscriptionsAreCarried
  <2> QED BY <2>1, <2>2, <2>3 DEF ConnectionOK
<1>4. Links
    BY <1>1 DEF NewManager, Links, Init, ConnectionInit
<1> QED BY <1>2, <1>3, <1>4, Together

\* The handlers that concern only the manager.
LEMMA ManagerSteps ==
    ASSUME StreamInductive,
           UploadStarts \/ UploadEnds \/ PongArrives \/ GoesQuiet \/ CoolsDown
           \/ \E i \in Slots : Heartbeat(i)
    PROVE  StreamInductive'
<1>1. ManagerOK(mgr, visible) /\ visible \in BOOLEAN
    BY Apart DEF ConnectionOK
<1>2. Keeps(mgr, mgr', visible)
  <2>1. CASE UploadStarts
      BY <1>1, <2>1, Notes DEF UploadStarts
  <2>2. CASE UploadEnds
      BY <1>1, <2>2, Notes DEF UploadEnds
  <2>3. CASE PongArrives
      BY <1>1, <2>3, Notes DEF PongArrives
  <2>4. CASE GoesQuiet
      BY <1>1, <2>4, Notes DEF GoesQuiet
  <2>5. CASE CoolsDown
      BY <1>1, <2>5, Notes DEF CoolsDown
  <2>6. ASSUME NEW i \in Slots, Heartbeat(i)
        PROVE  Keeps(mgr, mgr', visible)
      BY <1>1, <2>6, Notes DEF Heartbeat
  <2> QED BY <2>1, <2>2, <2>3, <2>4, <2>5, <2>6
<1>3. UNCHANGED <<socketVars, subscriptionVars, faults, tabVars>>
    BY DEF UploadStarts, UploadEnds, PongArrives, GoesQuiet, CoolsDown, Heartbeat
<1> QED BY <1>1, <1>2, <1>3, Quietly DEF tabVars

LEMMA PongTimeoutStep ==
    ASSUME StreamInductive, PongTimeout
    PROVE  StreamInductive'
<1> DEFINE n == [mgr EXCEPT !.ping = NoSocket]
<1>1. ManagerOK(mgr, visible) /\ visible \in BOOLEAN
    BY Apart DEF ConnectionOK
<1>2. Keeps(mgr, n, visible)
    BY <1>1, Notes
<1>3. Keeps(n, ForceReconnect(n, visible), visible)
    BY <1>1, <1>2, Forcing DEF Keeps
<1>4. mgr' = ForceReconnect(n, visible)
      /\ UNCHANGED <<socketVars, subscriptionVars, faults, tabVars>>
    BY DEF PongTimeout
<1> HIDE DEF n
<1>5. Keeps(mgr, mgr', visible)
    BY <1>2, <1>3, <1>4 DEF Keeps
<1> QED BY <1>1, <1>4, <1>5, Quietly DEF tabVars

LEMMA CheckStaleStep ==
    ASSUME StreamInductive, CheckStale
    PROVE  StreamInductive'
<1>1. ManagerOK(mgr, visible) /\ visible \in BOOLEAN
    BY Apart DEF ConnectionOK
<1>2. Keeps(mgr, mgr', visible)
    BY <1>1, Forcing DEF CheckStale
<1>3. UNCHANGED <<socketVars, subscriptionVars, faults, tabVars>>
    BY DEF CheckStale
<1> QED BY <1>1, <1>2, <1>3, Quietly DEF tabVars

LEMMA HidesStep ==
    ASSUME StreamInductive, Hides
    PROVE  StreamInductive'
<1>1. ManagerOK(mgr, TRUE)
    BY Apart DEF Hides, ConnectionOK
<1>2. Keeps(mgr, mgr', FALSE)
    BY <1>1, Hiding DEF Hides
<1>3. visible' = FALSE /\ UNCHANGED <<socketVars, subscriptionVars, faults, disposed>>
    BY DEF Hides
<1> QED BY <1>2, <1>3, Quietly

LEMMA SubscribeStep ==
    ASSUME StreamInductive, NEW i \in Slots, Subscribe(i)
    PROVE  StreamInductive'
<1>0. NoSocket \notin Sockets /\ ConnectionOK /\ Links /\ ManagerOK(mgr, visible)
    BY ManagerAssumption, Apart
<1>1. /\ ~disposed /\ stage[i] = "none" /\ EnsureConnected(i)
      /\ UNCHANGED <<faults, mgr, visible, disposed>>
    BY DEF Subscribe
<1>2. CASE ws # NoSocket /\ Settle(i, "sent", ws) /\ UNCHANGED socketVars
  <2>1. ConnectionOK'
      BY <1>0, <1>1, <1>2 DEF ConnectionOK, ConnectionTypeOK, SubscriptionsAreCarried,
            Settle, Stages, socketVars
  <2> QED BY <1>0, <1>1, <1>2, <2>1, Kept, Same DEF socketVars
<1>3. CASE connecting # NoSocket /\ Settle(i, "pending", connecting)
           /\ UNCHANGED socketVars
  <2>1. ConnectionOK'
      BY <1>0, <1>1, <1>3 DEF ConnectionOK, ConnectionTypeOK, SubscriptionsAreCarried,
            Settle, Stages, socketVars
  <2> QED BY <1>0, <1>1, <1>3, <2>1, Kept, Same DEF socketVars
<1>4. CASE Connect /\ sock' = [sock EXCEPT ![New] = "connecting"]
           /\ Settle(i, "pending", New) /\ UNCHANGED ws
  <2>1. /\ New \in Sockets /\ sock[New] = "none"
        /\ deadline' = deadline \cup {New} /\ connecting' = New
      BY <1>4, NewIsFree DEF Connect
  <2>2. ConnectionTypeOK'
      BY <1>0, <1>1, <1>4, <2>1 DEF ConnectionOK, ConnectionTypeOK, Settle, Stages, SocketStates
  <2>3. SubscriptionsAreCarried'
      BY <1>0, <1>1, <1>4, <2>1 DEF ConnectionOK, ConnectionTypeOK, SubscriptionsAreCarried,
            Settle
  <2>4. ConnectionOK'
      BY <1>0, <1>1, <1>4, <2>1, <2>2, <2>3 DEF ConnectionOK, ConnectionTypeOK, Settle
  <2> QED BY <1>0, <1>1, <1>4, <2>1, <2>4, Kept, Same
<1> QED BY <1>1, <1>2, <1>3, <1>4 DEF EnsureConnected

LEMMA UnsubscribeStep ==
    ASSUME StreamInductive, NEW i \in Slots, Unsubscribe(i)
    PROVE  StreamInductive'
<1>0. NoSocket \notin Sockets /\ ConnectionOK /\ ManagerOK(mgr, visible)
    BY ManagerAssumption, Apart
<1>1. ConnectionOK' /\ mgr' = mgr /\ visible' = visible /\ deadline' = deadline
      /\ ws' = ws /\ disposed' = disposed
    BY <1>0 DEF Unsubscribe, ConnectionOK, ConnectionTypeOK, SubscriptionsAreCarried,
          Settle, Stages, socketVars, tabVars
<1> QED BY <1>0, <1>1, Kept, Same

LEMMA DisposeStep ==
    ASSUME StreamInductive, Dispose
    PROVE  StreamInductive'
<1>0. NoSocket \notin Sockets /\ ConnectionOK /\ Links /\ ManagerOK(mgr, visible)
    BY ManagerAssumption, Apart
<1>1. /\ mgr' = Stop(mgr) /\ disposed' = TRUE /\ ws' = NoSocket
      /\ sock' = [s \in Sockets |-> IF s = ws THEN "none" ELSE sock[s]]
      /\ stage' = [i \in Slots |-> "none"] /\ on' = [i \in Slots |-> NoSocket]
      /\ UNCHANGED <<deadline, connecting, faults, visible>>
    BY DEF Dispose, SocketsDispose, AllClosed
<1>2. /\ ManagerOK(mgr', visible') /\ ~mgr'.started /\ mgr'.attempt = NoSocket
      /\ mgr'.state = "disconnected"
    BY <1>0, <1>1, Stopping DEF ConnectionOK
<1>3. ConnectionOK'
    BY <1>0, <1>1 DEF ConnectionOK, ConnectionTypeOK, SubscriptionsAreCarried, SocketStates,
          Stages
<1>4. Links'
    BY <1>1, <1>2 DEF Links
<1> QED BY <1>2, <1>3, <1>4, TogetherNext

LEMMA OpensStep ==
    ASSUME StreamInductive, NEW s \in Sockets, Opens(s)
    PROVE  StreamInductive'
<1>0. NoSocket \notin Sockets /\ ConnectionOK /\ Links /\ ManagerOK(mgr, visible)
    BY ManagerAssumption, Apart
<1>1. /\ sock[s] = "connecting" /\ sock' = [sock EXCEPT ![s] = "open"]
      /\ deadline' = deadline \ {s} /\ ws' = s /\ connecting' = NoSocket
      /\ stage' = [i \in Slots |-> IF WaitsFor(i, s) THEN "sent" ELSE stage[i]]
      /\ mgr' = (IF disposed \/ mgr.started THEN MarkConnected(mgr) ELSE Start(mgr))
      /\ UNCHANGED <<on, faults, visible, disposed>>
    BY DEF Opens, SocketOpens
<1>2. ConnectionOK'
  <2>1. ConnectionTypeOK'
      BY <1>0, <1>1 DEF ConnectionOK, ConnectionTypeOK, SocketStates, Stages
  <2>2. SubscriptionsAreCarried'
      BY <1>0, <1>1 DEF ConnectionOK, ConnectionTypeOK, SubscriptionsAreCarried, WaitsFor
  <2>3. disposed' => \A i \in Slots : stage'[i] = "none"
      BY <1>0, <1>1 DEF ConnectionOK, WaitsFor
  <2>4. \A i \in Slots : stage'[i] # "none" => on'[i] \in Sockets
      BY <1>0, <1>1 DEF ConnectionOK, WaitsFor
  <2>5. /\ sock'[ws'] \in {"open", "half"}
        /\ \A t \in Sockets : sock'[t] = "connecting" => t \in deadline'
        /\ \A t \in deadline' : sock'[t] \in {"none", "connecting"}
      BY <1>0, <1>1 DEF ConnectionOK, ConnectionTypeOK
  <2> QED BY <1>0, <1>1, <2>1, <2>2, <2>3, <2>4, <2>5 DEF ConnectionOK
<1>3. /\ ManagerOK(mgr', visible') /\ mgr'.attempt = NoSocket
      /\ disposed => ~mgr'.started
      /\ ~disposed => mgr'.started
  <2>1. visible \in BOOLEAN /\ visible' = visible
      BY <1>0, <1>1 DEF ConnectionOK
  <2>2. CASE disposed \/ mgr.started
      BY <1>0, <1>1, <2>1, <2>2, Connecting DEF Links
  <2>3. CASE ~disposed /\ ~mgr.started
      BY <1>0, <1>1, <2>1, <2>3, Beginning
  <2> QED BY <2>2, <2>3
<1>4. Links'
    BY <1>0, <1>1, <1>3 DEF Links
<1> QED BY <1>2, <1>3, <1>4, TogetherNext

LEMMA ClosesStep ==
    ASSUME StreamInductive, NEW s \in Sockets, NEW retryable \in BOOLEAN,
           Closes(s, retryable), faults' \in 0..MaxFaults
    PROVE  StreamInductive'
<1>0. NoSocket \notin Sockets /\ ConnectionOK /\ Links /\ ManagerOK(mgr, visible)
    BY ManagerAssumption, Apart
<1>1. /\ sock' = [sock EXCEPT ![s] = "none"] /\ ws' = NoSocket
      /\ stage' = [i \in Slots |-> "none"] /\ on' = [i \in Slots |-> NoSocket]
      /\ UNCHANGED <<deadline, connecting>>
      /\ mgr' = HandleFailure(mgr, retryable, visible)
      /\ UNCHANGED <<visible, disposed>>
    BY DEF Closes, SocketCloses, AllClosed
<1>2. ConnectionOK'
  <2>1. ConnectionTypeOK'
      BY <1>0, <1>1 DEF ConnectionOK, ConnectionTypeOK, SocketStates, Stages
  <2>2. SubscriptionsAreCarried'
      BY <1>1 DEF SubscriptionsAreCarried
  <2> QED BY <1>0, <1>1, <2>1, <2>2 DEF ConnectionOK, ConnectionTypeOK
<1>3. Keeps(mgr, mgr', visible') /\ mgr'.state # "connected"
    BY <1>0, <1>1, Failing DEF ConnectionOK
<1>4. Links'
    BY <1>0, <1>1, <1>3 DEF Links, Keeps
<1> QED BY <1>2, <1>3, <1>4, TogetherNext DEF Keeps

LEMMA FaultTyped ==
    ASSUME StreamInductive, Fault
    PROVE  faults' \in 0..MaxFaults
BY StreamAssumption DEF StreamInductive, TypeOK, ConnectionTypeOK, Fault

LEMMA FaultsTyped ==
    ASSUME StreamInductive, UNCHANGED faults
    PROVE  faults' \in 0..MaxFaults
BY DEF StreamInductive, TypeOK, ConnectionTypeOK

LEMMA ClosingSteps ==
    ASSUME StreamInductive, NEW s \in Sockets, ServerCloses(s) \/ BrowserCloses(s)
    PROVE  StreamInductive'
<1>1. CASE ServerCloses(s)
    BY <1>1, FaultTyped, ClosesStep DEF ServerCloses
<1>2. CASE BrowserCloses(s)
    BY <1>2, FaultsTyped, ClosesStep DEF BrowserCloses
<1> QED BY <1>1, <1>2

LEMMA TimesOutStep ==
    ASSUME StreamInductive, NEW s \in Sockets, TimesOut(s), faults' \in 0..MaxFaults
    PROVE  StreamInductive'
<1>0. NoSocket \notin Sockets /\ ConnectionOK /\ Links /\ ManagerOK(mgr, visible)
    BY ManagerAssumption, Apart
<1>1. /\ s \in deadline
      /\ sock' = [sock EXCEPT ![s] = IF @ = "connecting" THEN "closing" ELSE @]
      /\ deadline' = deadline \ {s} /\ connecting' = NoSocket
      /\ stage' = [i \in Slots |-> IF WaitsFor(i, s) THEN "none" ELSE stage[i]]
      /\ on' = [i \in Slots |-> IF WaitsFor(i, s) THEN NoSocket ELSE on[i]]
      /\ UNCHANGED <<ws, visible, disposed>>
    BY DEF TimesOut, SocketTimesOut
<1>2. ConnectionOK'
  <2>1. ConnectionTypeOK'
      BY <1>0, <1>1 DEF ConnectionOK, ConnectionTypeOK, SocketStates, Stages
  <2>2. \A t \in Sockets : sock[t] \in {"open", "half"} => sock'[t] = sock[t]
      BY <1>0, <1>1 DEF ConnectionOK, ConnectionTypeOK
  <2>3. SubscriptionsAreCarried'
      BY <1>0, <1>1, <2>2 DEF ConnectionOK, ConnectionTypeOK, SubscriptionsAreCarried, WaitsFor
  <2>4. \A i \in Slots : /\ stage'[i] # "none" => on'[i] \in Sockets
                         /\ stage'[i] \in {"sent", "open"} => ws' # NoSocket
                         /\ stage[i] = "none" => stage'[i] = "none"
      BY <1>0, <1>1 DEF ConnectionOK, WaitsFor
  <2>5. /\ \A t \in Sockets : sock'[t] = "connecting" => t \in deadline'
        /\ \A t \in deadline' : sock'[t] \in {"none", "connecting"}
        /\ ws' # NoSocket => sock'[ws'] \in {"open", "half"}
      BY <1>0, <1>1, <2>2 DEF ConnectionOK, ConnectionTypeOK
  <2> QED BY <1>0, <1>1, <2>1, <2>3, <2>4, <2>5 DEF ConnectionOK
<1>3. Keeps(mgr, mgr', visible') /\ (mgr.attempt = s => mgr'.attempt = NoSocket)
  <2>1. /\ visible \in BOOLEAN /\ visible' = visible
        /\ mgr' = (IF mgr.attempt = s THEN AttemptFails(mgr, visible)
                   ELSE IF \E i \in Slots : WaitsFor(i, s) THEN HandleFailure(mgr, TRUE, visible)
                   ELSE mgr)
      BY <1>0, <1>1 DEF ConnectionOK, TimesOut
  <2>2. CASE mgr.attempt = s
      BY <1>0, <2>1, <2>2, AttemptFailing
  <2>3. CASE mgr.attempt # s
      BY <1>0, <2>1, <2>3, Failing, Same
  <2> QED BY <2>2, <2>3
<1> QED BY <1>1, <1>2, <1>3, Kept

LEMMA ExpiringSteps ==
    ASSUME StreamInductive, NEW s \in Sockets, ServerIsSlow(s) \/ PromiseExpires(s)
    PROVE  StreamInductive'
<1>1. CASE ServerIsSlow(s)
    BY <1>1, FaultTyped, TimesOutStep DEF ServerIsSlow
<1>2. CASE PromiseExpires(s)
    BY <1>2, FaultsTyped, TimesOutStep DEF PromiseExpires
<1> QED BY <1>1, <1>2

LEMMA BreaksStep ==
    ASSUME StreamInductive, NEW s \in Sockets, Breaks(s)
    PROVE  StreamInductive'
<1>0. NoSocket \notin Sockets /\ ConnectionOK /\ Links /\ ManagerOK(mgr, visible)
    BY ManagerAssumption, Apart
<1>1. /\ sock[s] = "open" /\ sock' = [sock EXCEPT ![s] = "half"]
      /\ UNCHANGED <<deadline, ws, connecting, stage, on, mgr, visible, disposed>>
      /\ faults' \in 0..MaxFaults
    BY FaultTyped DEF Breaks, SocketBreaks, tabVars
<1>2. ConnectionOK'
  <2>1. ConnectionTypeOK'
      BY <1>0, <1>1 DEF ConnectionOK, ConnectionTypeOK, SocketStates
  <2>2. SubscriptionsAreCarried'
      BY <1>0, <1>1 DEF ConnectionOK, ConnectionTypeOK, SubscriptionsAreCarried
  <2> QED BY <1>0, <1>1, <2>1, <2>2 DEF ConnectionOK, ConnectionTypeOK
<1> QED BY <1>0, <1>1, <1>2, Kept, Same

LEMMA SubscriptionOpensStep ==
    ASSUME StreamInductive, NEW i \in Slots, SubscriptionOpens(i)
    PROVE  StreamInductive'
<1>0. NoSocket \notin Sockets /\ ConnectionOK /\ Links /\ ManagerOK(mgr, visible)
    BY ManagerAssumption, Apart
<1>1. /\ stage[i] = "sent" /\ stage' = [stage EXCEPT ![i] = "open"]
      /\ on' = [on EXCEPT ![i] = on[i]]
      /\ mgr' = MarkConnected(RecordEvent(mgr))
      /\ UNCHANGED <<sock, deadline, ws, connecting, faults, visible, disposed>>
    BY DEF SubscriptionOpens, Settle, socketVars, tabVars
<1>2. ConnectionOK'
  <2>1. ConnectionTypeOK'
      BY <1>0, <1>1 DEF ConnectionOK, ConnectionTypeOK, Stages
  <2>2. SubscriptionsAreCarried'
      BY <1>0, <1>1 DEF ConnectionOK, ConnectionTypeOK, SubscriptionsAreCarried
  <2>3. \A j \in Slots : /\ stage'[j] # "none" => on'[j] \in Sockets
                         /\ stage'[j] \in {"sent", "open"} => ws' # NoSocket
      BY <1>0, <1>1 DEF ConnectionOK, ConnectionTypeOK
  <2> QED BY <1>0, <1>1, <2>1, <2>2, <2>3 DEF ConnectionOK
<1>3. /\ ManagerOK(mgr', visible') /\ mgr'.started = mgr.started
      /\ mgr'.attempt = NoSocket
  <2> DEFINE n == RecordEvent(mgr)
  <2>1. Keeps(mgr, n, visible) /\ visible \in BOOLEAN
      BY <1>0, Notes DEF ConnectionOK
  <2> HIDE DEF n
  <2> QED BY <1>1, <2>1, Connecting DEF Keeps, n
<1>4. ws' # NoSocket
    BY <1>0, <1>1 DEF ConnectionOK
<1>5. Links'
    BY <1>0, <1>1, <1>3, <1>4 DEF Links, ConnectionOK
<1> QED BY <1>2, <1>3, <1>5, TogetherNext

LEMMA SubscriptionFailsStep ==
    ASSUME StreamInductive, NEW i \in Slots, SubscriptionFails(i)
    PROVE  StreamInductive'
<1>0. NoSocket \notin Sockets /\ ConnectionOK /\ Links /\ ManagerOK(mgr, visible)
    BY ManagerAssumption, Apart
<1>1. /\ stage' = [stage EXCEPT ![i] = "none"] /\ on' = [on EXCEPT ![i] = NoSocket]
      /\ UNCHANGED <<sock, deadline, ws, connecting, faults, visible, disposed>>
    BY DEF SubscriptionFails, Settle, socketVars, tabVars
<1>2. ConnectionOK'
  <2>1. ConnectionTypeOK'
      BY <1>0, <1>1 DEF ConnectionOK, ConnectionTypeOK, Stages
  <2>2. SubscriptionsAreCarried'
      BY <1>0, <1>1 DEF ConnectionOK, ConnectionTypeOK, SubscriptionsAreCarried
  <2> QED BY <1>0, <1>1, <2>1, <2>2 DEF ConnectionOK, ConnectionTypeOK
<1>3. Keeps(mgr, mgr', visible')
  <2>1. PICK retryable \in BOOLEAN : mgr' = HandleFailure(mgr, retryable, visible)
      BY DEF SubscriptionFails
  <2> QED BY <1>0, <1>1, <2>1, Failing DEF ConnectionOK
<1> QED BY <1>1, <1>2, <1>3, Kept

LEMMA BackoffFiresStep ==
    ASSUME StreamInductive, BackoffFires
    PROVE  StreamInductive'
<1> DEFINE t == TimerFires(mgr)
<1>0. /\ NoSocket \notin Sockets /\ ConnectionOK /\ ManagerOK(mgr, visible)
      /\ visible \in BOOLEAN
    BY ManagerAssumption, Apart DEF ConnectionOK
<1>1. /\ mgr.armed > 0 /\ Execute(t)
      /\ UNCHANGED <<faults, visible, disposed>>
    BY DEF BackoffFires, tabVars
<1>2. /\ t.started = mgr.started /\ t.state = "reconnecting"
      /\ ~MayExecute(t) => Keeps(mgr, t, visible)
      /\ MayExecute(t) => \A s \in Sockets : ManagerOK([t EXCEPT !.attempt = s], visible)
    BY <1>0, <1>1, Firing
<1> HIDE DEF t
<1>3. CASE MayExecute(t)
  <2>1. SocketReconnects /\ mgr' = [t EXCEPT !.attempt = New]
      BY <1>1, <1>3 DEF Execute
  <2>2. New \in Sockets
      BY <2>1, NewIsFree DEF SocketReconnects, Connect
  <2>3. ManagerOK(mgr', visible')
      BY <1>1, <1>2, <1>3, <2>1, <2>2
  <2>4. mgr'.attempt = New /\ mgr'.started = mgr.started /\ mgr'.state = "reconnecting"
      BY <1>2, <2>1, <2>3 DEF ManagerOK, Manager
  <2> QED BY <1>0, <1>1, <2>1, <2>3, <2>4, Reconnects
<1>4. CASE ~MayExecute(t)
  <2>1. mgr' = t /\ UNCHANGED <<socketVars, subscriptionVars>>
      BY <1>1, <1>4 DEF Execute
  <2> QED BY <1>0, <1>1, <1>2, <1>4, <2>1, Quietly
<1> QED BY <1>3, <1>4

\* A recovery signal that reaches a manager which may follow it.
LEMMA RecoveringStep ==
    ASSUME StreamInductive, NEW m, ManagerOK(m, visible'), visible' \in BOOLEAN,
           MayRecover(m), m.started = mgr.started, Execute(Recovering(m)),
           UNCHANGED <<faults, disposed>>
    PROVE  StreamInductive'
<1> DEFINE r == Recovering(m)
<1>1. /\ r.started = m.started /\ MayExecute(r) /\ r.state = "reconnecting"
      /\ \A s \in Sockets : ManagerOK([r EXCEPT !.attempt = s], visible')
    BY Signalling
<1> HIDE DEF r
<1>2. SocketReconnects /\ mgr' = [r EXCEPT !.attempt = New]
    BY <1>1 DEF Execute, r
<1>3. New \in Sockets
    BY <1>2, NewIsFree DEF SocketReconnects, Connect
<1>4. ManagerOK(mgr', visible')
    BY <1>1, <1>2, <1>3
<1>5. mgr'.attempt = New /\ mgr'.started = mgr.started /\ mgr'.state = "reconnecting"
    BY <1>1, <1>2, <1>4 DEF ManagerOK, Manager
<1> QED BY <1>2, <1>4, <1>5, Reconnects

LEMMA RecoverySignalStep ==
    ASSUME StreamInductive, RecoverySignal
    PROVE  StreamInductive'
<1>1. /\ visible' = visible /\ MayRecover(mgr) /\ Execute(Recovering(mgr))
      /\ UNCHANGED <<faults, disposed>> /\ visible = TRUE
    BY Apart DEF RecoverySignal, tabVars, ConnectionOK
<1>2. ManagerOK(mgr, visible')
    BY <1>1, Apart
<1> QED BY <1>1, <1>2, RecoveringStep

LEMMA ShowsStep ==
    ASSUME StreamInductive, Shows
    PROVE  StreamInductive'
<1> DEFINE probing == ScheduleReconnect(mgr, TRUE)
<1>0. ConnectionOK /\ ManagerOK(mgr, FALSE)
    BY Apart DEF Shows, ConnectionOK
<1>1. visible' = TRUE /\ UNCHANGED <<faults, disposed>>
    BY DEF Shows
<1>2. mgr.waiting => Keeps(mgr, probing, TRUE)
    BY <1>0, Showing
<1>3. \/ mgr.waiting /\ MayRecover(probing) /\ Execute(Recovering(probing))
      \/ mgr.waiting /\ mgr' = probing /\ UNCHANGED <<socketVars, subscriptionVars>>
      \/ ~mgr.waiting /\ (mgr' = mgr \/ mgr' = [mgr EXCEPT !.ping = ws])
         /\ UNCHANGED <<socketVars, subscriptionVars>>
      \/ ~mgr.waiting /\ mgr' = ForceReconnect([mgr EXCEPT !.ping = NoSocket], TRUE)
         /\ UNCHANGED <<socketVars, subscriptionVars>>
    BY DEF Shows
<1> HIDE DEF probing
<1>4. CASE mgr.waiting /\ MayRecover(probing) /\ Execute(Recovering(probing))
    BY <1>1, <1>2, <1>4, RecoveringStep DEF Keeps
<1>5. CASE mgr.waiting /\ mgr' = probing /\ UNCHANGED <<socketVars, subscriptionVars>>
    BY <1>1, <1>2, <1>5, Quietly
<1>6. CASE ~mgr.waiting /\ (mgr' = mgr \/ mgr' = [mgr EXCEPT !.ping = ws])
           /\ UNCHANGED <<socketVars, subscriptionVars>>
  <2>1. ManagerOK(mgr, TRUE) /\ ws \in Sockets \cup {NoSocket}
      BY <1>0, <1>6, Showing DEF ConnectionOK, ConnectionTypeOK
  <2>2. Keeps(mgr, mgr', TRUE)
      BY <1>6, <2>1, Notes, Same
  <2> QED BY <1>1, <1>6, <2>2, Quietly
<1>7. CASE ~mgr.waiting /\ mgr' = ForceReconnect([mgr EXCEPT !.ping = NoSocket], TRUE)
           /\ UNCHANGED <<socketVars, subscriptionVars>>
  <2> DEFINE n == [mgr EXCEPT !.ping = NoSocket]
  <2>1. ManagerOK(mgr, TRUE)
      BY <1>0, <1>7, Showing
  <2>2. Keeps(mgr, n, TRUE)
      BY <2>1, Notes
  <2> HIDE DEF n
  <2>3. Keeps(n, ForceReconnect(n, TRUE), TRUE)
      BY <2>2, Forcing DEF Keeps
  <2>4. Keeps(mgr, mgr', TRUE)
      BY <1>7, <2>2, <2>3 DEF Keeps, n
  <2> QED BY <1>1, <1>7, <2>4, Quietly
<1> QED BY <1>3, <1>4, <1>5, <1>6, <1>7

\* Every event keeps the invariant.
LEMMA EventsKeep ==
    ASSUME StreamInductive, [Next]_vars
    PROVE  StreamInductive'
<1>1. CASE PageStep
    BY <1>1, SubscribeStep, UnsubscribeStep, ManagerSteps, DisposeStep, RecoverySignalStep,
       HidesStep, ShowsStep DEF PageStep
<1>2. CASE SocketStep
    BY <1>2, OpensStep, ClosingSteps, ExpiringSteps, BreaksStep DEF SocketStep
<1>3. CASE ServerStep
    BY <1>3, SubscriptionOpensStep, SubscriptionFailsStep, ManagerSteps DEF ServerStep
<1>4. CASE TimerStep
    BY <1>4, BackoffFiresStep, PongTimeoutStep, CheckStaleStep, ManagerSteps DEF TimerStep
<1>5. CASE UNCHANGED vars
  <2>1. /\ ManagerOK(mgr, visible) /\ mgr' = mgr /\ visible \in BOOLEAN /\ visible' = visible
        /\ UNCHANGED <<socketVars, subscriptionVars, faults, disposed>>
      BY <1>5, Apart DEF ConnectionOK, vars, tabVars
  <2> QED BY <2>1, Same, Quietly
<1> QED BY <1>1, <1>2, <1>3, <1>4, <1>5 DEF Next

-----------------------------------------------------------------------------
(* Part 4.                                                                  *)

\* The manager, the sockets and the subscriptions stay consistent, for any
\* number of connections and subscriptions, any budget of retries and any
\* number of failures: one backoff timer held by its handle, an attempt only
\* while its promise is pending, no connection without its socket.
THEOREM StreamStaysConsistent == Spec => []StreamInductive
<1>1. Init => StreamInductive
    BY Initially
<1>2. StreamInductive /\ [Next]_vars => StreamInductive'
    BY EventsKeep
<1> QED BY <1>1, <1>2, PTL DEF Spec

\* A reconnecting source never loses what drives it, whatever order closes,
\* timeouts, health checks and looks at the page come in; and one that is out
\* of retries schedules no probe while it is hidden.
THEOREM ReconnectingStaysDriven == Spec => []ReconnectingIsDriven
<1>1. StreamInductive => ReconnectingIsDriven
    BY DEF StreamInductive
<1> QED BY <1>1, StreamStaysConsistent, PTL

\* No subscription is left to a promise that will not settle or on a socket
\* that is closed, however connections are replaced under it.
THEOREM SubscriptionsStayCarried == Spec => []SubscriptionsAreCarried
<1>1. StreamInductive => SubscriptionsAreCarried
    BY DEF StreamInductive
<1> QED BY <1>1, StreamStaysConsistent, PTL
=============================================================================
