---------------------- MODULE SessionActivationProofs -----------------------
(***************************************************************************)
(* Proofs about the activation of a session, for any number of requests    *)
(* and processes.  Part 1: records and tables.  Part 2: steps that neither *)
(* begin nor end a launch.  Part 3: launches.  Part 4: each action keeps   *)
(* the inductive invariant.  Part 5: theorems.                             *)
(***************************************************************************)
EXTENDS SessionActivation, TLAPS

-----------------------------------------------------------------------------
(* Part 1.                                                                  *)

\* The tables lose what has ended and nothing else.
TablesSettle ==
    /\ life' \in [Processes -> Lives] /\ registered' \subseteq registered
    /\ owner' \in Processes \cup {NoProcess}
    /\ \A q \in Processes :
          \/ life'[q] = life[q] \/ life'[q] = "ended"
          \/ q \in registered /\ life[q] # "ended" /\ life'[q] \in {"reaping", "stuck"}
    /\ \A q \in registered : q \in registered' \/ life'[q] = "ended"
    /\ owner' = owner \/ owner' = NoProcess
    /\ owner' # NoProcess => owner' \in registered'
    /\ owner # NoProcess /\ owner' = NoProcess => owner \notin registered'

LEMMA TablesKept ==
    ASSUME SessionInductive, UNCHANGED processVars
    PROVE  TablesSettle
BY DEF SessionInductive, TypeOK, OwnerIsRegistered, TablesSettle, processVars

\* Unregistering a process whose provider has ended.
LEMMA Unregistering ==
    ASSUME SessionInductive, NEW p \in Processes, Unregister(p),
           \/ life' = life /\ life[p] = "ended"
           \/ life' = [life EXCEPT ![p] = "ended"]
    PROVE  TablesSettle
<1>1. /\ life \in [Processes -> Lives] /\ registered \subseteq Processes
      /\ owner \in Processes \cup {NoProcess}
      /\ owner # NoProcess => owner \in registered
      /\ NoProcess \notin Processes /\ "ended" \in Lives
    BY ActivationAssumption DEF SessionInductive, TypeOK, OwnerIsRegistered, Lives
<1>2. /\ life' \in [Processes -> Lives] /\ life'[p] = "ended"
      /\ \A q \in Processes : life'[q] = life[q] \/ life'[q] = "ended"
    BY <1>1
<1> QED BY <1>1, <1>2 DEF TablesSettle, Unregister

\* One call changes.
LEMMA WorkType ==
    ASSUME TypeOK, NEW c \in Calls, NEW w \in Work, work' = [work EXCEPT ![c] = w]
    PROVE  /\ work' \in [Calls -> Work]
           /\ work'[c] = w
           /\ \A d \in Calls : d # c => work'[d] = work[d]
BY DEF TypeOK

\* The record that At puts.
LEMMA Putting ==
    ASSUME TypeOK, NEW c \in Calls, NEW pc \in Pcs, NEW p \in Processes \cup {NoProcess}
    PROVE  \E w \in Work :
              /\ w.pc = pc /\ w.p = p /\ w.kind = work[c].kind /\ w.on = work[c].on
              /\ At(c, pc, p) = [work EXCEPT ![c] = w]
<1> DEFINE w == [work[c] EXCEPT !.pc = pc, !.p = p]
<1>1. work \in [Calls -> Work] /\ work[c] \in Work
    BY DEF TypeOK
<1>2. /\ w \in Work
      /\ w.pc = pc /\ w.p = p /\ w.kind = work[c].kind /\ w.on = work[c].on
    BY <1>1 DEF Work
<1>3. At(c, pc, p) = [work EXCEPT ![c] = w]
    BY <1>1 DEF At, Work
<1> QED BY <1>2, <1>3

LEMMA IdleType == Idle \in Work /\ Shape(Idle)
BY ActivationAssumption DEF Idle, Work, Kinds, Pcs, Continuations, Launches, Shape

\* The parts of the invariant that talk of the type of one call.
LEMMA CallType ==
    ASSUME TypeOK, NEW c \in Calls
    PROVE  /\ work[c] \in Work /\ work[c].pc \in Pcs /\ work[c].kind \in Kinds
           /\ work[c].p \in Processes \cup {NoProcess}
           /\ work[c].on \in Calls \cup {NoCall}
BY DEF TypeOK, Work

-----------------------------------------------------------------------------
(* Part 2.                                                                  *)

NoneFound == \A p \in registered : ~Found(p)

\* A call that neither begins nor ends a launch.
Calm(d) ==
    /\ work[d].pc \notin Launches /\ work'[d].pc \notin Launches
    /\ Shape(work'[d])
    /\ work'[d].pc = "waiting" => activation # NoCall /\ work'[d].on = activation
    /\ ~leaked /\ queueOnly /\ IsTransition(d)' /\ work'[d].pc = "aborting" =>
          \A p \in registered' : Found(p)' => p = work'[d].p
    /\ ~leaked /\ queueOnly /\ IsTransition(d)' /\ work'[d].pc = "aborted" => NoneFound'
    /\ ~leaked /\ promiseOnly /\ work'[d].pc = "gap" /\ activation = NoCall => NoneFound'

\* No second transition begins.
InTurn ==
    \/ \A d \in Calls : IsTransition(d)' => IsTransition(d)
    \/ \E c \in Calls :
          /\ \A d \in Calls : ~IsTransition(d)
          /\ \A d \in Calls : d # c => work'[d] = work[d]

LEMMA Turns ==
    ASSUME OneTransition, InTurn
    PROVE  OneTransition'
BY DEF OneTransition, InTurn, IsTransition

\* Whoever is found after the tables settled was found before.
LEMMA FoundBefore ==
    ASSUME SessionInductive, TablesSettle
    PROVE  /\ \A p \in registered' : p \in registered /\ (Found(p)' => Found(p))
           /\ NoneFound => NoneFound'
BY DEF SessionInductive, TypeOK, TablesSettle, Found, NoneFound

LEMMA CalmStep ==
    ASSUME SessionInductive, TablesSettle, InTurn,
           entry' \in BOOLEAN, UNCHANGED <<activation, causeVars, leaked>>,
           work' \in [Calls -> Work],
           \A d \in Calls : work'[d] = work[d] \/ Calm(d)
    PROVE  SessionInductive'
<1> USE ActivationAssumption
<1>0. /\ TypeOK /\ CallShape /\ LaunchesApart
      /\ OwnerIsRegistered /\ OneTransition
      /\ ActivationIsLaunch /\ NoOrphan
      /\ activation' = activation /\ queueOnly' = queueOnly
      /\ promiseOnly' = promiseOnly /\ leaked' = leaked
    BY DEF SessionInductive, causeVars
<1>1. TypeOK'
    BY <1>0 DEF TypeOK, TablesSettle
<1>2. CallShape'
    BY <1>0 DEF CallShape, Calm
<1>3. \A d \in Calls : work[d].pc \in Launches \/ work'[d].pc \in Launches => work'[d] = work[d]
    BY DEF Calm
<1>4. \A p \in registered' : p \in registered /\ (Found(p)' => Found(p))
    BY FoundBefore
<1>5. LaunchesApart'
  <2>1. ASSUME NEW c \in Calls, work'[c].pc \in {"launching", "unwinding"}
        PROVE  /\ work'[c].p \in Processes \ registered'
               /\ life'[work'[c].p] \in {"starting", "ended"}
               /\ \A d \in Calls : work'[d].pc \in {"launching", "unwinding"}
                                   /\ work'[d].p = work'[c].p => d = c
      BY <1>0, <1>3, <2>1 DEF LaunchesApart, Launches, TablesSettle
  <2>2. \A p \in registered' : life'[p] \notin {"starting", "lost"}
      BY <1>0, <1>4 DEF LaunchesApart, TablesSettle, TypeOK
  <2>3. ~leaked' => \A p \in Processes : life'[p] # "lost"
      BY <1>0 DEF LaunchesApart, TablesSettle
  <2> QED BY <2>1, <2>2, <2>3 DEF LaunchesApart
<1>6. OwnerIsRegistered'
    BY DEF OwnerIsRegistered, TablesSettle
<1>7. OneTransition'
    BY <1>0, Turns
<1>8. ActivationIsLaunch'
  <2>2. activation # NoCall => activation \in Calls
      BY <1>0 DEF TypeOK
  <2>3. ASSUME NEW c \in Calls, work'[c].pc = "waiting"
        PROVE  work'[c].on # NoCall /\ work'[c].on \in Calls /\ IsActivation(work'[c].on)
    <3>1. CASE work'[c] = work[c]
        BY <1>0, <2>3, <3>1, CallType DEF ActivationIsLaunch
    <3>2. CASE Calm(c)
        BY <1>0, <2>2, <2>3, <3>2 DEF ActivationIsLaunch, Calm
    <3> QED BY <3>1, <3>2
  <2>4. ASSUME NEW d \in Calls, IsActivation(d)
        PROVE  work'[d].kind \in {"resume", "reactivate"} /\ work'[d].pc \in Launches
      BY <1>3, <2>4 DEF IsActivation
  <2>5. activation # NoCall =>
           work'[activation].kind \in {"resume", "reactivate"} /\ work'[activation].pc \in Launches
      BY <1>0, <2>2, <2>4 DEF ActivationIsLaunch
  <2>6. \A c \in Calls : work'[c].pc = "waiting" =>
           /\ work'[c].on # NoCall
           /\ work'[work'[c].on].kind \in {"resume", "reactivate"}
           /\ work'[work'[c].on].pc \in Launches
      BY <2>3, <2>4
  <2> QED BY <1>0, <2>5, <2>6 DEF ActivationIsLaunch, IsActivation
<1>9. NoOrphan'
  <2>1. ASSUME NEW p \in Processes, life'[p] # "ended", life'[p] # "lost", p \notin registered'
        PROVE  HeldByLaunch(p)'
    <3>1. p \notin registered /\ life'[p] = life[p]
        BY <2>1 DEF TablesSettle
    <3>2. HeldByLaunch(p)
        BY <1>0, <2>1, <3>1 DEF NoOrphan, Running
    <3> QED BY <1>3, <3>2 DEF HeldByLaunch, Launches
  <2> QED BY <2>1 DEF NoOrphan, Running
<1>10. ASSUME ~leaked', queueOnly' \/ promiseOnly' PROVE Single'
  <2>1. Single
      BY <1>0, <1>10 DEF SessionInductive
  <2>2. \A p \in registered' : Found(p)' => p = owner'
      BY <1>0, <1>4, <2>1 DEF Single, TablesSettle, TypeOK
  <2>3. \A c, d \in Calls : work'[c].pc \in Launches /\ work'[d].pc \in Launches => c = d
      BY <1>3, <2>1 DEF Single
  <2>4. \A c \in Calls : work'[c].pc \in Launches => \A p \in registered' : ~Found(p)'
      BY <1>3, <1>4, <2>1 DEF Single
  <2> QED BY <2>2, <2>3, <2>4 DEF Single
<1>11. ASSUME ~leaked', queueOnly' PROVE UnderQueue'
  <2>1. UnderQueue
      BY <1>0, <1>11 DEF SessionInductive
  <2>2. ASSUME NEW c \in Calls, work'[c] = work[c]
        PROVE  /\ work'[c].pc \in Launches => IsTransition(c)'
               /\ IsTransition(c)' /\ work'[c].pc = "aborting" =>
                     \A p \in registered' : Found(p)' => p = work'[c].p
               /\ IsTransition(c)' /\ work'[c].pc = "aborted" => \A p \in registered' : ~Found(p)'
      BY <1>4, <2>1, <2>2 DEF UnderQueue, IsTransition
  <2>3. ASSUME NEW c \in Calls, Calm(c)
        PROVE  /\ work'[c].pc \in Launches => IsTransition(c)'
               /\ IsTransition(c)' /\ work'[c].pc = "aborting" =>
                     \A p \in registered' : Found(p)' => p = work'[c].p
               /\ IsTransition(c)' /\ work'[c].pc = "aborted" => \A p \in registered' : ~Found(p)'
      BY <1>0, <1>11, <2>3 DEF Calm, NoneFound
  <2> QED BY <2>2, <2>3 DEF UnderQueue
<1>12. ASSUME ~leaked', promiseOnly' PROVE UnderPromise'
  <2>1. UnderPromise
      BY <1>0, <1>12 DEF SessionInductive
  <2>2. ASSUME NEW c \in Calls
        PROVE  /\ work'[c].pc \in Launches => c = activation'
               /\ work'[c].pc = "gap" /\ activation' = NoCall => \A p \in registered' : ~Found(p)'
      BY <1>0, <1>3, <1>4, <1>12, <2>1 DEF UnderPromise, Calm, NoneFound
  <2> QED BY <2>2 DEF UnderPromise
<1> QED BY <1>1, <1>2, <1>5, <1>6, <1>7, <1>8, <1>9, <1>10, <1>11, <1>12 DEF SessionInductive

\* One call moves, no launch of its begins or ends.
LEMMA Moving ==
    ASSUME SessionInductive, TablesSettle,
           NEW c \in Calls, NEW w \in Work, work' = [work EXCEPT ![c] = w],
           entry' \in BOOLEAN, UNCHANGED <<activation, causeVars, leaked>>,
           Calm(c),
           IsTransition(c)' => IsTransition(c) \/ \A d \in Calls : ~IsTransition(d)
    PROVE  SessionInductive'
<1>1. TypeOK
    BY DEF SessionInductive
<1>2. /\ work' \in [Calls -> Work]
      /\ \A d \in Calls : d # c => work'[d] = work[d]
    BY <1>1, WorkType
<1>3. \A d \in Calls : d # c => (IsTransition(d)' => IsTransition(d))
    BY <1>2 DEF IsTransition
<1>4. InTurn
    BY <1>2, <1>3 DEF InTurn
<1>5. \A d \in Calls : work'[d] = work[d] \/ Calm(d)
    BY <1>2
<1> QED BY <1>2, <1>4, <1>5, CalmStep

\* A call ends that neither launches nor holds anything.
LEMMA Ending ==
    ASSUME SessionInductive, TablesSettle,
           NEW c \in Calls, work' = Ends(c), work[c].pc \notin Launches,
           entry' \in BOOLEAN, UNCHANGED <<activation, causeVars, leaked>>
    PROVE  SessionInductive'
<1>1. TypeOK /\ Idle \in Work /\ work' = [work EXCEPT ![c] = Idle]
    BY IdleType DEF SessionInductive, Ends
<1>2. work'[c] = Idle
    BY <1>1, WorkType
<1>3. ~IsTransition(c)'
    BY <1>2 DEF IsTransition, Idle
<1>4. Calm(c)
    BY <1>2, <1>3, IdleType DEF Calm, Idle, Launches
<1> QED BY <1>1, <1>3, <1>4, Moving

\* LaunchPoint, from any place of a resume.
LEMMA AtLaunchPoint ==
    ASSUME SessionInductive, TablesSettle,
           NEW c \in Calls, NEW next \in {"gap", "blind"}, LaunchPoint(c, next),
           work[c].kind = "resume", work[c].pc \notin Launches,
           UNCHANGED <<activation, causeVars, leaked>>,
           next = "gap" /\ ~leaked /\ promiseOnly /\ activation = NoCall => NoneFound'
    PROVE  SessionInductive'
<1> USE ActivationAssumption
<1>1. TypeOK /\ entry \in BOOLEAN /\ activation \in Calls \cup {NoCall} /\ work[c] \in Work
    BY CallType DEF SessionInductive, TypeOK
<1>2. entry' \in BOOLEAN
    BY <1>1 DEF LaunchPoint
<1>3. CASE work' = Ends(c)
    BY <1>2, <1>3, Ending
<1>4. CASE activation # NoCall /\ work' = WaitsFor(c, activation)
  <2> DEFINE w == [work[c] EXCEPT !.pc = "waiting", !.p = NoProcess, !.on = activation]
  <2>1. /\ w \in Work /\ w.pc = "waiting" /\ w.kind = "resume" /\ w.on = activation
      BY <1>1 DEF Work, Pcs
  <2>2. work' = [work EXCEPT ![c] = w]
      BY <1>1, <1>4 DEF WaitsFor, TypeOK
  <2> HIDE DEF w
  <2>3. work'[c] = w
      BY <1>1, <2>1, <2>2, WorkType
  <2>4. ~IsTransition(c)'
      BY <2>1, <2>3 DEF IsTransition
  <2>5. Calm(c)
      BY <1>4, <2>1, <2>3, <2>4 DEF Calm, Shape, Launches
  <2> QED BY <1>2, <2>1, <2>2, <2>4, <2>5, Moving
<1>5. CASE activation = NoCall /\ work' = At(c, next, NoProcess)
  <2>1. next \in Pcs
      BY DEF Pcs, Continuations
  <2>2. PICK w \in Work :
              /\ w.pc = next /\ w.p = NoProcess /\ w.kind = "resume"
              /\ work' = [work EXCEPT ![c] = w]
      BY <1>1, <1>5, <2>1, Putting
  <2>3. work'[c] = w
      BY <1>1, <2>2, WorkType
  <2>4. ~IsTransition(c)'
      BY <2>2, <2>3 DEF IsTransition
  <2>5. Calm(c)
      BY <1>5, <2>2, <2>3, <2>4 DEF Calm, Shape, Launches
  <2> QED BY <1>2, <2>2, <2>4, <2>5, Moving
<1> QED BY <1>3, <1>4, <1>5 DEF LaunchPoint

-----------------------------------------------------------------------------
(* Part 3.                                                                  *)

\* A launch begins.
LEMMA LaunchBegins ==
    ASSUME SessionInductive, TablesSettle,
           NEW c \in Calls, NEW w \in Work, work' = [work EXCEPT ![c] = w],
           work[c].pc \notin Launches, w.pc = "preparing",
           entry' \in BOOLEAN, leaked' = leaked,
           queueOnly' \in BOOLEAN, promiseOnly' \in BOOLEAN,
           queueOnly' => queueOnly, promiseOnly' => promiseOnly,
           activation' = activation \/ (activation' = c /\ w.kind \in {"resume", "reactivate"}),
           IsTransition(c)' => IsTransition(c) \/ \A d \in Calls : ~IsTransition(d),
           ~leaked /\ queueOnly' => IsTransition(c)',
           ~leaked /\ promiseOnly' => activation' = c,
           ~leaked /\ (queueOnly' \/ promiseOnly') =>
               NoneFound' /\ \A d \in Calls : work[d].pc \notin Launches
    PROVE  SessionInductive'
<1> USE ActivationAssumption
<1>0. /\ TypeOK /\ CallShape /\ LaunchesApart
      /\ OwnerIsRegistered /\ OneTransition
      /\ ActivationIsLaunch /\ NoOrphan
    BY DEF SessionInductive
<1>1. /\ work' \in [Calls -> Work] /\ work'[c] = w
      /\ \A d \in Calls : d # c => work'[d] = work[d]
    BY <1>0, WorkType
<1>2. TypeOK'
    BY <1>0, <1>1 DEF TypeOK, TablesSettle
<1>3. CallShape'
    BY <1>0, <1>1 DEF CallShape, Shape
<1>4. \A p \in registered' : p \in registered /\ (Found(p)' => Found(p))
    BY FoundBefore
<1>5. \A d \in Calls : work[d].pc \in Launches => work'[d] = work[d]
    BY <1>1
<1>6. \A d \in Calls : work'[d].pc \in {"launching", "unwinding"} => work'[d] = work[d]
    BY <1>1
<1>7. LaunchesApart'
  <2>1. ASSUME NEW d \in Calls, work'[d].pc \in {"launching", "unwinding"}
        PROVE  /\ work'[d].p \in Processes \ registered'
               /\ life'[work'[d].p] \in {"starting", "ended"}
               /\ \A e \in Calls : work'[e].pc \in {"launching", "unwinding"}
                                   /\ work'[e].p = work'[d].p => e = d
      BY <1>0, <1>6, <2>1 DEF LaunchesApart, TablesSettle
  <2>2. \A p \in registered' : life'[p] \notin {"starting", "lost"}
      BY <1>0, <1>4 DEF LaunchesApart, TablesSettle, TypeOK
  <2>3. ~leaked' => \A p \in Processes : life'[p] # "lost"
      BY <1>0 DEF LaunchesApart, TablesSettle
  <2> QED BY <2>1, <2>2, <2>3 DEF LaunchesApart
<1>8. OwnerIsRegistered'
    BY DEF OwnerIsRegistered, TablesSettle
<1>9. OneTransition'
  <2>1. \A d \in Calls : d # c => (IsTransition(d)' => IsTransition(d))
      BY <1>1 DEF IsTransition
  <2>2. InTurn
      BY <1>1, <2>1 DEF InTurn
  <2> QED BY <1>0, <2>2, Turns
<1>10. ActivationIsLaunch'
  <2>1. ASSUME NEW d \in Calls, IsActivation(d)
        PROVE  work'[d].kind \in {"resume", "reactivate"} /\ work'[d].pc \in Launches
      BY <1>5, <2>1 DEF IsActivation
  <2>2. activation' # NoCall =>
           work'[activation'].kind \in {"resume", "reactivate"} /\ work'[activation'].pc \in Launches
      BY <1>0, <1>1, <2>1 DEF ActivationIsLaunch, Launches, TypeOK
  <2>3. \A d \in Calls : work'[d].pc = "waiting" => work'[d] = work[d]
      BY <1>1
  <2>4. \A d \in Calls : work'[d].pc = "waiting" =>
           /\ work'[d].on # NoCall
           /\ work'[work'[d].on].kind \in {"resume", "reactivate"}
           /\ work'[work'[d].on].pc \in Launches
      BY <1>0, <2>1, <2>3, CallType DEF ActivationIsLaunch
  <2> QED BY <2>2, <2>4 DEF ActivationIsLaunch, IsActivation
<1>11. NoOrphan'
  <2>1. ASSUME NEW p \in Processes, life'[p] # "ended", life'[p] # "lost", p \notin registered'
        PROVE  HeldByLaunch(p)'
    <3>1. p \notin registered /\ life'[p] = life[p]
        BY <2>1 DEF TablesSettle
    <3>2. HeldByLaunch(p)
        BY <1>0, <2>1, <3>1 DEF NoOrphan, Running
    <3> QED BY <1>5, <3>2 DEF HeldByLaunch, Launches
  <2> QED BY <2>1 DEF NoOrphan, Running
<1>12. ASSUME ~leaked', queueOnly' \/ promiseOnly'
       PROVE  Single'
  <2>1. Single
      BY <1>0, <1>12 DEF SessionInductive
  <2>2. NoneFound' /\ \A d \in Calls : work[d].pc \notin Launches
      BY <1>12
  <2>3. \A d \in Calls : work'[d].pc \in Launches => d = c
      BY <1>1, <2>2
  <2> QED BY <2>2, <2>3 DEF Single, NoneFound
<1>13. ASSUME ~leaked', queueOnly' PROVE UnderQueue'
  <2>1. UnderQueue
      BY <1>0, <1>13 DEF SessionInductive
  <2>2. NoneFound' /\ IsTransition(c)'
      BY <1>13
  <2>3. \A d \in Calls : work'[d].pc \in Launches => IsTransition(d)'
      BY <1>1, <1>13, <2>1, <2>2 DEF UnderQueue, IsTransition
  <2> QED BY <2>2, <2>3 DEF UnderQueue, NoneFound
<1>14. ASSUME ~leaked', promiseOnly' PROVE UnderPromise'
  <2>1. NoneFound' /\ activation' = c /\ \A d \in Calls : work[d].pc \notin Launches
      BY <1>14
  <2>2. \A d \in Calls : work'[d].pc \in Launches => d = c
      BY <1>1, <2>1
  <2> QED BY <2>1, <2>2 DEF UnderPromise, NoneFound
<1> QED BY <1>2, <1>3, <1>7, <1>8, <1>9, <1>10, <1>11, <1>12, <1>13, <1>14 DEF SessionInductive

\* A launch gets its process, or starts to tear it down.
LEMMA LaunchGoesOn ==
    ASSUME SessionInductive,
           NEW c \in Calls, NEW pc \in {"launching", "unwinding"}, NEW p \in Processes,
           work' = At(c, pc, p), work[c].pc \in Launches,
           p \notin registered, life' \in [Processes -> Lives],
           life'[p] \in {"starting", "ended"},
           \A q \in Processes : q # p => life'[q] = life[q],
           life[p] # "lost",
           \A d \in Calls : d # c => work[d].p # p \/ work[d].pc \notin {"launching", "unwinding"},
           work[c].pc = "preparing" \/ work[c].p = p,
           UNCHANGED <<registered, owner, activation, entry, causeVars, leaked>>
    PROVE  SessionInductive'
<1> USE ActivationAssumption
<1>0. /\ TypeOK /\ CallShape /\ LaunchesApart
      /\ OwnerIsRegistered /\ OneTransition
      /\ ActivationIsLaunch /\ NoOrphan
      /\ activation' = activation /\ queueOnly' = queueOnly
      /\ promiseOnly' = promiseOnly /\ leaked' = leaked
      /\ registered' = registered /\ owner' = owner /\ entry' = entry
    BY DEF SessionInductive, causeVars
<1>1. PICK w \in Work :
              /\ w.pc = pc /\ w.p = p /\ w.kind = work[c].kind /\ w.on = work[c].on
              /\ work' = [work EXCEPT ![c] = w]
  <2>1. TypeOK /\ pc \in Pcs
      BY <1>0 DEF Pcs, Launches
  <2> QED BY <2>1, Putting
<1>2. /\ work' \in [Calls -> Work] /\ work'[c] = w
      /\ \A d \in Calls : d # c => work'[d] = work[d]
    BY <1>0, <1>1, WorkType
<1>3. \A d \in Calls :
         /\ work'[d].kind = work[d].kind
         /\ work'[d].pc \in Launches <=> work[d].pc \in Launches
         /\ work'[d].pc \notin Launches => work'[d] = work[d]
    BY <1>1, <1>2 DEF Launches
<1>4. TypeOK'
    BY <1>0, <1>2 DEF TypeOK
<1>5. CallShape'
    BY <1>0, <1>1, <1>2 DEF CallShape, Shape
<1>6. \A q \in registered : Found(q)' <=> Found(q)
    BY <1>0 DEF Found, TypeOK
<1>7. LaunchesApart'
  <2>1. ASSUME NEW d \in Calls, work'[d].pc \in {"launching", "unwinding"}
        PROVE  /\ work'[d].p \in Processes \ registered
               /\ life'[work'[d].p] \in {"starting", "ended"}
      BY <1>0, <1>1, <1>2, <2>1 DEF LaunchesApart
  <2>2. ASSUME NEW d \in Calls, NEW e \in Calls,
               work'[d].pc \in {"launching", "unwinding"}, work'[e].pc \in {"launching", "unwinding"},
               work'[d].p = work'[e].p
        PROVE  e = d
      BY <1>0, <1>1, <1>2, <2>2 DEF LaunchesApart
  <2>3. \A q \in registered : life'[q] \notin {"starting", "lost"}
      BY <1>0 DEF LaunchesApart, TypeOK
  <2>4. ~leaked => \A q \in Processes : life'[q] # "lost"
      BY <1>0 DEF LaunchesApart
  <2> QED BY <1>0, <2>1, <2>2, <2>3, <2>4 DEF LaunchesApart
<1>8. OwnerIsRegistered'
    BY <1>0 DEF OwnerIsRegistered
<1>9. OneTransition'
    BY <1>0, <1>2, <1>3 DEF OneTransition, IsTransition, Launches
<1>10. ActivationIsLaunch'
  <2>1. \A d \in Calls : work'[d].pc = "waiting" => work'[d] = work[d]
      BY <1>3 DEF Launches
  <2>2. activation # NoCall =>
           work'[activation].kind \in {"resume", "reactivate"} /\ work'[activation].pc \in Launches
      BY <1>0, <1>3 DEF ActivationIsLaunch, IsActivation, TypeOK
  <2>3. \A d \in Calls : work'[d].pc = "waiting" =>
           /\ work'[d].on # NoCall
           /\ work'[work'[d].on].kind \in {"resume", "reactivate"}
           /\ work'[work'[d].on].pc \in Launches
      BY <1>0, <1>3, <2>1, CallType DEF ActivationIsLaunch, IsActivation
  <2> QED BY <1>0, <2>2, <2>3 DEF ActivationIsLaunch, IsActivation
<1>11. NoOrphan'
  <2>1. ASSUME NEW q \in Processes, life'[q] # "ended", life'[q] # "lost", q \notin registered
        PROVE  HeldByLaunch(q)'
    <3>1. CASE q = p
        BY <1>1, <1>2, <3>1 DEF HeldByLaunch
    <3>2. CASE q # p
      <4>1. PICK d \in Calls : work[d].pc \in {"launching", "unwinding"} /\ work[d].p = q
          BY <1>0, <2>1, <3>2 DEF NoOrphan, Running, HeldByLaunch
      <4>2. d # c
          BY <3>2, <4>1
      <4> QED BY <1>2, <4>1, <4>2 DEF HeldByLaunch
    <3> QED BY <3>1, <3>2
  <2> QED BY <1>0, <2>1 DEF NoOrphan, Running
<1>12. ASSUME ~leaked', queueOnly' \/ promiseOnly' PROVE Single'
    BY <1>0, <1>3, <1>6, <1>12 DEF SessionInductive, Single
<1>13. ASSUME ~leaked', queueOnly' PROVE UnderQueue'
  <2>1. UnderQueue
      BY <1>0, <1>13 DEF SessionInductive
  <2>2. \A d \in Calls : work'[d].pc \in Launches => IsTransition(d)'
      BY <1>3, <2>1 DEF UnderQueue, IsTransition, Launches
  <2>3. \A d \in Calls : work'[d].pc \in {"aborting", "aborted"} =>
           work'[d] = work[d] /\ (IsTransition(d)' => IsTransition(d))
      BY <1>3 DEF IsTransition, Launches
  <2> QED BY <1>0, <1>6, <2>1, <2>2, <2>3 DEF UnderQueue
<1>14. ASSUME ~leaked', promiseOnly' PROVE UnderPromise'
  <2>1. \A d \in Calls : work'[d].pc = "gap" => work[d].pc = "gap"
      BY <1>3 DEF Launches
  <2> QED BY <1>0, <1>3, <1>6, <1>14, <2>1 DEF SessionInductive, UnderPromise
<1> QED BY <1>4, <1>5, <1>7, <1>8, <1>9, <1>10, <1>11, <1>12, <1>13, <1>14 DEF SessionInductive

\* What the end of a launch leaves of the calls.
LEMMA AfterLaunch ==
    ASSUME SessionInductive, Quiet,
           NEW c \in Calls, NEW p \in Processes \cup {NoProcess},
           LaunchEnds(c, p), work[c].pc \in Launches
    PROVE  /\ work' \in [Calls -> Work] /\ activation' \in Calls \cup {NoCall}
           /\ work'[c] = Idle
           /\ \A d \in Calls : d # c /\ work[d].pc # "waiting" => work'[d] = work[d]
           /\ \A d \in Calls : work'[d].pc \in Launches => d # c /\ work'[d] = work[d]
           /\ \A d \in Calls : work'[d].pc \notin {"gap", "blind", "aborted"}
           /\ \A d \in Calls : work'[d].pc = "aborting" => work'[d] = work[d]
           /\ \A d \in Calls : IsTransition(d)' => IsTransition(d)
           /\ activation' = (IF activation = c THEN NoCall ELSE activation)
           /\ CallShape' /\ OneTransition' /\ ActivationIsLaunch'
<1> USE ActivationAssumption
<1>0. /\ TypeOK /\ CallShape /\ OneTransition /\ ActivationIsLaunch
    BY DEF SessionInductive
<1>1. activation' = (IF activation = c THEN NoCall ELSE activation)
      /\ activation' \in Calls \cup {NoCall}
    BY <1>0 DEF LaunchEnds, TypeOK
<1>2. work'[c] = Idle
    BY DEF LaunchEnds
<1>3. ASSUME NEW d \in Calls, d # c, ~(work[d].pc = "waiting" /\ work[d].on = c)
      PROVE  work'[d] = work[d]
    BY <1>3 DEF LaunchEnds
<1>4. ASSUME NEW d \in Calls, work[d].pc = "waiting", work[d].on = c
      PROVE  /\ work'[d] \in Work /\ work'[d].pc = "woken" /\ work'[d].kind = work[d].kind
             /\ d # c
  <2>1. d # c
      BY <1>4 DEF Launches
  <2>2. work'[d] = [work[d] EXCEPT !.pc = "woken", !.p = p, !.on = NoCall]
      BY <1>4, <2>1 DEF LaunchEnds
  <2>3. work[d] \in Work
      BY <1>0, CallType
  <2> QED BY <2>1, <2>2, <2>3 DEF Work, Pcs, Continuations
<1>5. work' \in [Calls -> Work]
  <2>1. \A d \in Calls : work'[d] \in Work
      BY <1>0, <1>2, <1>3, <1>4, CallType, IdleType
  <2>2. work' = [d \in Calls |-> work'[d]]
      BY DEF LaunchEnds
  <2> QED BY <2>1, <2>2
<1>6. \A d \in Calls : d # c /\ work[d].pc # "waiting" => work'[d] = work[d]
    BY <1>3
<1>7. /\ work'[c].pc = "off" /\ work'[c].kind = "none"
    BY <1>2 DEF Idle
<1>8. \A d \in Calls :
         \/ d # c /\ work'[d] = work[d]
         \/ work'[d].pc = "off" /\ work'[d].kind = "none"
         \/ work'[d].pc = "woken" /\ work[d].pc = "waiting" /\ work'[d].kind = work[d].kind
    BY <1>3, <1>4, <1>7
<1>9. \A d \in Calls : work'[d].pc \in Launches => d # c /\ work'[d] = work[d]
    BY <1>8 DEF Launches
<1>10. \A d \in Calls : work'[d].pc \notin {"gap", "blind", "aborted"}
    BY <1>8 DEF Quiet, Continuations
<1>11. \A d \in Calls : work'[d].pc = "aborting" => work'[d] = work[d]
    BY <1>8
<1>12. \A d \in Calls : IsTransition(d)' => IsTransition(d)
    BY <1>8 DEF IsTransition
<1>13. OneTransition'
    BY <1>0, <1>12 DEF OneTransition
<1>14. CallShape'
    BY <1>0, <1>8 DEF CallShape, Shape
<1>15. ActivationIsLaunch'
  <2>1. ASSUME NEW d \in Calls, d # c, IsActivation(d)
        PROVE  work'[d].kind \in {"resume", "reactivate"} /\ work'[d].pc \in Launches
      BY <1>6, <2>1 DEF IsActivation, Launches
  <2>2. activation' # NoCall =>
           work'[activation'].kind \in {"resume", "reactivate"} /\ work'[activation'].pc \in Launches
      BY <1>0, <1>1, <2>1 DEF ActivationIsLaunch, TypeOK
  <2>3. ASSUME NEW d \in Calls, work'[d].pc = "waiting"
        PROVE  work'[d] = work[d] /\ work[d].on # c
      BY <1>3, <1>4, <1>7, <2>3
  <2>4. ASSUME NEW d \in Calls, work'[d].pc = "waiting"
        PROVE  /\ work'[d].on # NoCall
               /\ work'[work'[d].on].kind \in {"resume", "reactivate"}
               /\ work'[work'[d].on].pc \in Launches
    <3>1. work[d].on \in Calls /\ IsActivation(work[d].on) /\ work[d].on # NoCall
        BY <1>0, <2>3, <2>4, CallType DEF ActivationIsLaunch
    <3> QED BY <2>1, <2>3, <2>4, <3>1
  <2> QED BY <2>2, <2>4 DEF ActivationIsLaunch, IsActivation
<1> QED BY <1>1, <1>2, <1>5, <1>6, <1>9, <1>10, <1>11, <1>12, <1>13, <1>14, <1>15

\* A launch ends without a process to register: it has none, or its process is
\* torn down, or that fails.
LEMMA LaunchOver ==
    ASSUME SessionInductive, Quiet,
           NEW c \in Calls, LaunchEnds(c, NoProcess), work[c].pc \in Launches,
           life' \in [Processes -> Lives],
           \A q \in Processes :
              \/ life'[q] = life[q]
              \/ q = work[c].p /\ q \notin registered /\ life'[q] \in {"ended", "lost"},
           work[c].pc = "preparing" => life' = life,
           work[c].pc # "preparing" => life'[work[c].p] \in {"ended", "lost"},
           leaked' \in BOOLEAN, leaked => leaked',
           \A q \in Processes : life'[q] = "lost" => life[q] = "lost" \/ leaked',
           UNCHANGED <<registered, owner, entry, causeVars>>
    PROVE  SessionInductive'
<1> USE ActivationAssumption
<1>0. /\ TypeOK /\ CallShape /\ LaunchesApart
      /\ OwnerIsRegistered /\ OneTransition
      /\ ActivationIsLaunch /\ NoOrphan
      /\ queueOnly' = queueOnly /\ promiseOnly' = promiseOnly
      /\ registered' = registered /\ owner' = owner /\ entry' = entry
    BY DEF SessionInductive, causeVars
<1>1. /\ work' \in [Calls -> Work] /\ activation' \in Calls \cup {NoCall}
      /\ work'[c] = Idle
      /\ \A d \in Calls : d # c /\ work[d].pc # "waiting" => work'[d] = work[d]
      /\ \A d \in Calls : work'[d].pc \in Launches => d # c /\ work'[d] = work[d]
      /\ \A d \in Calls : work'[d].pc \notin {"gap", "blind", "aborted"}
      /\ \A d \in Calls : work'[d].pc = "aborting" => work'[d] = work[d]
      /\ \A d \in Calls : IsTransition(d)' => IsTransition(d)
      /\ CallShape' /\ OneTransition' /\ ActivationIsLaunch'
    BY AfterLaunch
<1>2. TypeOK'
    BY <1>0, <1>1 DEF TypeOK
<1>3. \A q \in registered : life'[q] = life[q] /\ (Found(q)' <=> Found(q))
    BY <1>0 DEF Found, TypeOK
<1>4. LaunchesApart'
  <2>1. ASSUME NEW d \in Calls, work'[d].pc \in {"launching", "unwinding"}
        PROVE  /\ d # c /\ work'[d] = work[d]
               /\ work'[d].p \in Processes \ registered
               /\ life'[work'[d].p] \in {"starting", "ended"}
               /\ \A e \in Calls : work'[e].pc \in {"launching", "unwinding"}
                                   /\ work'[e].p = work'[d].p => e = d
    <3>1. d # c /\ work'[d] = work[d]
        BY <1>1, <2>1 DEF Launches
    <3>2. /\ work[d].p \in Processes \ registered /\ life[work[d].p] \in {"starting", "ended"}
        BY <1>0, <2>1, <3>1 DEF LaunchesApart
    <3>3. ASSUME NEW e \in Calls, work'[e].pc \in {"launching", "unwinding"},
                 work'[e].p = work'[d].p
          PROVE  e = d
        BY <1>0, <1>1, <2>1, <3>1, <3>3 DEF LaunchesApart, Launches
    <3>4. work[c].p # work[d].p \/ work[c].pc = "preparing"
        BY <1>0, <2>1, <3>1 DEF LaunchesApart, Launches
    <3>5. life'[work[d].p] \in {"starting", "ended"}
        BY <3>2, <3>4
    <3> QED BY <1>0, <3>1, <3>2, <3>3, <3>5
  <2>2. \A q \in registered : life'[q] \notin {"starting", "lost"}
      BY <1>0, <1>3 DEF LaunchesApart
  <2>3. ~leaked' => \A q \in Processes : life'[q] # "lost"
      BY <1>0 DEF LaunchesApart
  <2> QED BY <1>0, <2>1, <2>2, <2>3 DEF LaunchesApart
<1>5. OwnerIsRegistered'
    BY <1>0 DEF OwnerIsRegistered
<1>6. NoOrphan'
  <2>1. ASSUME NEW q \in Processes, life'[q] # "ended", life'[q] # "lost", q \notin registered
        PROVE  HeldByLaunch(q)'
    <3>1. life'[q] = life[q]
        BY <2>1
    <3>2. PICK d \in Calls : work[d].pc \in {"launching", "unwinding"} /\ work[d].p = q
        BY <1>0, <2>1, <3>1 DEF NoOrphan, Running, HeldByLaunch
    <3>3. d # c
        BY <2>1, <3>2
    <3> QED BY <1>1, <3>2, <3>3 DEF HeldByLaunch
  <2> QED BY <1>0, <2>1 DEF NoOrphan, Running
<1>7. ASSUME ~leaked', queueOnly' \/ promiseOnly' PROVE Single'
    BY <1>0, <1>1, <1>3, <1>7 DEF SessionInductive, Single
<1>8. ASSUME ~leaked', queueOnly' PROVE UnderQueue'
  <2>1. UnderQueue
      BY <1>0, <1>8 DEF SessionInductive
  <2>2. \A d \in Calls : work'[d].pc \in Launches => IsTransition(d)'
      BY <1>1, <2>1 DEF UnderQueue, IsTransition
  <2> QED BY <1>0, <1>1, <1>3, <2>1, <2>2 DEF UnderQueue
<1>9. ASSUME ~leaked', promiseOnly' PROVE UnderPromise'
  <2>1. UnderPromise
      BY <1>0, <1>9 DEF SessionInductive
  <2>2. \A d \in Calls : work'[d].pc \notin Launches
      BY <1>1, <2>1 DEF UnderPromise
  <2> QED BY <1>1, <2>2 DEF UnderPromise
<1> QED BY <1>1, <1>2, <1>4, <1>5, <1>6, <1>7, <1>8, <1>9 DEF SessionInductive

\* A launch ends with a process, whatever became of its provider meanwhile.
LEMMA Registering ==
    ASSUME SessionInductive, NEW c \in Calls, Registers(c)
    PROVE  SessionInductive'
<1> USE ActivationAssumption
<1> DEFINE p == work[c].p
<1>0. /\ TypeOK /\ CallShape /\ LaunchesApart
      /\ OwnerIsRegistered /\ OneTransition
      /\ ActivationIsLaunch /\ NoOrphan
      /\ queueOnly' = queueOnly /\ promiseOnly' = promiseOnly /\ leaked' = leaked
      /\ entry' = entry
    BY DEF SessionInductive, Registers, causeVars
<1>1. /\ p \in Processes \ registered /\ life[p] \in {"starting", "ended"}
      /\ work[c].pc = "launching" /\ work[c].pc \in Launches
      /\ registered' = registered \cup {p} /\ owner' = p
      /\ Quiet /\ LaunchEnds(c, p)
      /\ life' = [life EXCEPT ![p] = IF @ = "starting" THEN "live" ELSE @]
    BY <1>0 DEF Registers, LaunchesApart, Launches
<1>2. /\ work' \in [Calls -> Work] /\ activation' \in Calls \cup {NoCall}
      /\ work'[c] = Idle
      /\ \A d \in Calls : d # c /\ work[d].pc # "waiting" => work'[d] = work[d]
      /\ \A d \in Calls : work'[d].pc \in Launches => d # c /\ work'[d] = work[d]
      /\ \A d \in Calls : work'[d].pc \notin {"gap", "blind", "aborted"}
      /\ \A d \in Calls : work'[d].pc = "aborting" => work'[d] = work[d]
      /\ \A d \in Calls : IsTransition(d)' => IsTransition(d)
      /\ CallShape' /\ OneTransition' /\ ActivationIsLaunch'
  <2>1. p \in Processes \cup {NoProcess}
      BY <1>1
  <2> HIDE DEF p
  <2> QED BY <1>1, <2>1, AfterLaunch
<1>3. /\ life' \in [Processes -> Lives]
      /\ life'[p] \in {"live", "ended"}
      /\ \A q \in Processes : q # p => life'[q] = life[q]
  <2>1. life \in [Processes -> Lives]
      BY <1>0 DEF TypeOK
  <2> QED BY <1>1, <2>1 DEF Lives
<1> HIDE DEF p
<1>4. TypeOK'
    BY <1>0, <1>1, <1>2, <1>3 DEF TypeOK
<1>5. \A q \in registered : q \in Processes /\ q # p /\ life'[q] = life[q] /\ (Found(q)' <=> Found(q))
    BY <1>0, <1>1, <1>3 DEF Found, TypeOK
<1>6. LaunchesApart'
  <2>1. ASSUME NEW d \in Calls, work'[d].pc \in {"launching", "unwinding"}
        PROVE  /\ work'[d].p \in Processes \ registered'
               /\ life'[work'[d].p] \in {"starting", "ended"}
               /\ \A e \in Calls : work'[e].pc \in {"launching", "unwinding"}
                                   /\ work'[e].p = work'[d].p => e = d
    <3>1. d # c /\ work'[d] = work[d]
        BY <1>2, <2>1 DEF Launches
    <3>2. /\ work[d].p \in Processes \ registered /\ life[work[d].p] \in {"starting", "ended"}
        BY <1>0, <2>1, <3>1 DEF LaunchesApart
    <3>3. ASSUME NEW e \in Calls, work'[e].pc \in {"launching", "unwinding"},
                 work'[e].p = work'[d].p
          PROVE  e = d
        BY <1>0, <1>2, <2>1, <3>1, <3>3 DEF LaunchesApart, Launches
    <3>4. p # work[d].p
        BY <1>0, <1>1, <2>1, <3>1 DEF LaunchesApart, p
    <3> QED BY <1>1, <1>3, <3>1, <3>2, <3>3, <3>4
  <2>2. \A q \in registered' : life'[q] \notin {"starting", "lost"}
      BY <1>0, <1>1, <1>3, <1>5 DEF LaunchesApart
  <2>3. ~leaked' => \A q \in Processes : life'[q] # "lost"
      BY <1>0, <1>3 DEF LaunchesApart
  <2> QED BY <2>1, <2>2, <2>3 DEF LaunchesApart
<1>7. OwnerIsRegistered'
    BY <1>1 DEF OwnerIsRegistered
<1>8. NoOrphan'
  <2>1. ASSUME NEW q \in Processes, life'[q] # "ended", life'[q] # "lost", q \notin registered'
        PROVE  HeldByLaunch(q)'
    <3>1. q # p /\ q \notin registered /\ life'[q] = life[q]
        BY <1>1, <1>3, <2>1
    <3>2. PICK d \in Calls : work[d].pc \in {"launching", "unwinding"} /\ work[d].p = q
        BY <1>0, <2>1, <3>1 DEF NoOrphan, Running, HeldByLaunch
    <3>3. d # c
        BY <3>1, <3>2 DEF p
    <3> QED BY <1>2, <3>2, <3>3 DEF HeldByLaunch
  <2> QED BY <2>1 DEF NoOrphan, Running
<1>9. ASSUME ~leaked', queueOnly' \/ promiseOnly' PROVE Single' /\ \A q \in registered : ~Found(q)
  <2>1. Single
      BY <1>0, <1>9 DEF SessionInductive
  <2>2. /\ \A q \in registered : ~Found(q)
        /\ \A d \in Calls : work[d].pc \in Launches => d = c
      BY <1>1, <2>1 DEF Single
  <2>3. \A q \in registered' : Found(q)' => q = owner'
      BY <1>1, <1>5, <2>2
  <2>4. \A d \in Calls : work'[d].pc \notin Launches
      BY <1>2, <2>2
  <2> QED BY <2>2, <2>3, <2>4 DEF Single
<1>10. ASSUME ~leaked', queueOnly' PROVE UnderQueue'
  <2>1. UnderQueue /\ Single
      BY <1>0, <1>10 DEF SessionInductive
  <2>2. IsTransition(c)
      BY <1>1, <2>1 DEF UnderQueue
  <2>3. \A d \in Calls : work'[d].pc \notin Launches
      BY <1>1, <1>2, <2>1 DEF Single
  <2>4. ASSUME NEW d \in Calls, IsTransition(d)', work'[d].pc = "aborting"
        PROVE  FALSE
    <3>1. IsTransition(d) /\ work[d].pc = "aborting"
        BY <1>2, <2>4
    <3>2. d = c
        BY <1>0, <2>2, <3>1 DEF OneTransition
    <3> QED BY <1>1, <3>1, <3>2
  <2> QED BY <1>2, <2>3, <2>4 DEF UnderQueue
<1>11. ASSUME ~leaked', promiseOnly' PROVE UnderPromise'
  <2>1. UnderPromise
      BY <1>0, <1>11 DEF SessionInductive
  <2>2. \A d \in Calls : work'[d].pc \notin Launches
      BY <1>1, <1>2, <2>1 DEF UnderPromise
  <2> QED BY <1>2, <2>2 DEF UnderPromise
<1> QED BY <1>2, <1>4, <1>6, <1>7, <1>8, <1>9, <1>10, <1>11 DEF SessionInductive

-----------------------------------------------------------------------------
(* Part 4.                                                                  *)

\* What every action starts from.
LEMMA Facts ==
    ASSUME SessionInductive
    PROVE  /\ TypeOK /\ CallShape /\ LaunchesApart
           /\ OwnerIsRegistered /\ OneTransition
           /\ ActivationIsLaunch /\ NoOrphan
           /\ work \in [Calls -> Work] /\ life \in [Processes -> Lives]
           /\ registered \subseteq Processes /\ owner \in Processes \cup {NoProcess}
           /\ activation \in Calls \cup {NoCall} /\ entry \in BOOLEAN
           /\ ~leaked /\ (queueOnly \/ promiseOnly) => Single
           /\ ~leaked /\ queueOnly => UnderQueue
           /\ ~leaked /\ promiseOnly => UnderPromise
BY DEF SessionInductive, TypeOK

\* A resume that looks for a process starts by a look or by waiting.
LEMMA LooksOrWaits ==
    ASSUME SessionInductive, NEW c \in Calls, UNCHANGED <<processVars, activation, entry, causeVars, leaked>>,
           work[c].pc \notin Launches,
           work' = [work EXCEPT ![c] =
               IF activation # NoCall
               THEN [kind |-> "resume", pc |-> "waiting", p |-> NoProcess, on |-> activation]
               ELSE [kind |-> "resume", pc |-> "woken", p |-> NoProcess, on |-> NoCall]]
    PROVE  SessionInductive'
<1> DEFINE w == IF activation # NoCall
               THEN [kind |-> "resume", pc |-> "waiting", p |-> NoProcess, on |-> activation]
               ELSE [kind |-> "resume", pc |-> "woken", p |-> NoProcess, on |-> NoCall]
<1>1. TablesSettle /\ entry' \in BOOLEAN /\ activation' = activation
    BY Facts, TablesKept
<1>2. /\ w \in Work /\ w.kind = "resume" /\ w.pc \in {"waiting", "woken"}
      /\ w.pc = "waiting" => activation # NoCall /\ w.on = activation
    BY Facts, ActivationAssumption DEF Work, Kinds, Pcs, Continuations
<1>3. work' = [work EXCEPT ![c] = w]
    OBVIOUS
<1> HIDE DEF w
<1>4. work'[c] = w
    BY <1>2, <1>3, Facts, WorkType
<1>5. ~IsTransition(c)'
    BY <1>2, <1>4 DEF IsTransition
<1>6. Calm(c)
    BY <1>2, <1>4, <1>5 DEF Calm, Shape, Launches
<1> QED BY <1>1, <1>2, <1>3, <1>5, <1>6, Moving

\* A request that arrives, or a call that is handed a process: kind, pc and p.
LEMMA Turning ==
    ASSUME SessionInductive, NEW c \in Calls, NEW w \in Work,
           UNCHANGED <<processVars, activation, entry, causeVars, leaked>>,
           work' = [work EXCEPT ![c] = w],
           work[c].pc \notin Launches, w.pc \notin Launches \cup {"waiting", "gap", "aborted"},
           Shape(w),
           w.kind \notin {"reactivate", "reconfigure"} \/ w.pc = "queued"
             \/ IsTransition(c) \/ \A d \in Calls : ~IsTransition(d),
           w.kind \in {"reactivate", "reconfigure"} /\ w.pc = "aborting" /\ ~leaked /\ queueOnly =>
               \A q \in registered : Found(q) => q = w.p
    PROVE  SessionInductive'
<1>1. TablesSettle /\ entry' \in BOOLEAN
    BY Facts, TablesKept
<1>2. work'[c] = w
    BY Facts, WorkType
<1>3. \A q \in registered' : q \in registered /\ (Found(q)' => Found(q))
    BY <1>1, FoundBefore
<1>4. IsTransition(c)' => IsTransition(c) \/ \A d \in Calls : ~IsTransition(d)
    BY <1>2 DEF IsTransition
<1>5. Calm(c)
    BY <1>2, <1>3 DEF Calm, IsTransition
<1> QED BY <1>1, <1>4, <1>5, Moving

LEMMA ResumeArriving ==
    ASSUME SessionInductive, NEW c \in Calls, ResumeArrives(c)
    PROVE  SessionInductive'
<1>1. work[c].pc \notin Launches
    BY DEF ResumeArrives, Idle, Launches
<1> QED BY <1>1, LooksOrWaits DEF ResumeArrives

LEMMA MessageGoesOn ==
    ASSUME SessionInductive, NEW c \in Calls, MessageAborted(c)
    PROVE  SessionInductive'
<1>1. work[c].pc \notin Launches
    BY DEF MessageAborted, Launches
<1> QED BY <1>1, LooksOrWaits DEF MessageAborted

\* The processes that can be found when the owner is gone or has ended.
LEMMA NobodyThere ==
    ASSUME SessionInductive, ~leaked, queueOnly \/ promiseOnly,
           owner = NoProcess \/ life[owner] = "ended"
    PROVE  NoneFound
<1>1. Single
    BY Facts
<1>2. \A p \in registered : Found(p) => p = owner
    BY <1>1 DEF Single
<1> QED BY <1>2, Facts, ActivationAssumption DEF NoneFound, Found

LEMMA ResumeLooking ==
    ASSUME SessionInductive, NEW c \in Calls, ResumeChecks(c)
    PROVE  SessionInductive'
<1>1. /\ work[c].kind = "resume" /\ work[c].pc = "woken" /\ work[c].pc \notin Launches
      /\ UNCHANGED <<activation, causeVars, leaked>>
    BY DEF ResumeChecks, Launches
<1>2. CASE owner = NoProcess /\ LaunchPoint(c, "gap") /\ UNCHANGED processVars
  <2>1. TablesSettle
      BY <1>2, TablesKept
  <2>2. ~leaked /\ promiseOnly => NoneFound'
      BY <1>2, <2>1, NobodyThere, FoundBefore
  <2> QED BY <1>1, <1>2, <2>1, <2>2, AtLaunchPoint
<1>3. CASE /\ owner # NoProcess /\ life[owner] = "ended"
           /\ Unregister(owner) /\ LaunchPoint(c, "gap") /\ UNCHANGED life
  <2>1. TablesSettle
      BY <1>3, Unregistering, Facts
  <2>2. ~leaked /\ promiseOnly => NoneFound'
      BY <1>3, <2>1, NobodyThere, FoundBefore
  <2> QED BY <1>1, <1>3, <2>1, <2>2, AtLaunchPoint
<1>4. CASE work' = Ends(c) /\ UNCHANGED <<processVars, entry>>
  <2>1. TablesSettle /\ entry' \in BOOLEAN
      BY <1>4, TablesKept, Facts
  <2> QED BY <1>1, <1>4, <2>1, Ending
<1>5. ASSUME owner # NoProcess, NEW pc \in {"changing", "queueing", "aborting"},
             work' = At(c, pc, owner), UNCHANGED <<processVars, entry>>
      PROVE  SessionInductive'
  <2>1. pc \in Pcs /\ owner \in Processes \cup {NoProcess} /\ TypeOK
      BY Facts DEF Pcs
  <2>2. PICK w \in Work : /\ w.pc = pc /\ w.p = owner /\ w.kind = "resume"
                          /\ work' = [work EXCEPT ![c] = w]
      BY <1>1, <1>5, <2>1, Putting
  <2>3. Shape(w) /\ w.pc \notin Launches \cup {"waiting", "gap", "aborted"}
      BY <1>5, <2>2 DEF Shape, Launches
  <2> QED BY <1>1, <1>5, <2>2, <2>3, Turning
<1> QED BY <1>2, <1>3, <1>4, <1>5 DEF ResumeChecks

LEMMA ResumeGoesOn ==
    ASSUME SessionInductive, NEW c \in Calls,
           ResumeChanged(c) \/ ResumeQueued(c) \/ ResumeAborted(c)
    PROVE  SessionInductive'
<1>1. /\ work[c].kind = "resume" /\ work[c].pc \in {"changing", "queueing", "aborted"}
      /\ work[c].pc \notin Launches
      /\ UNCHANGED <<activation, causeVars, leaked>> /\ UNCHANGED processVars
    BY Facts DEF ResumeChanged, ResumeQueued, ResumeAborted, CallShape, Shape, Launches
<1>2. TablesSettle
    BY <1>1, TablesKept
<1>3. CASE LaunchPoint(c, "blind")
    BY <1>1, <1>2, <1>3, AtLaunchPoint
<1>4. CASE work' = Ends(c) /\ UNCHANGED entry
    BY <1>1, <1>2, <1>4, Ending, Facts
<1>5. CASE work[c].pc = "changing" /\ work' = At(c, "queueing", work[c].p) /\ UNCHANGED entry
  <2>1. "queueing" \in Pcs /\ work[c].p \in Processes \cup {NoProcess} /\ TypeOK
      BY Facts, CallType DEF Pcs
  <2>2. PICK w \in Work : /\ w.pc = "queueing" /\ w.p = work[c].p /\ w.kind = "resume"
                          /\ work' = [work EXCEPT ![c] = w]
      BY <1>1, <1>5, <2>1, Putting
  <2>3. Shape(w) /\ w.pc \notin Launches \cup {"waiting", "gap", "aborted"}
      BY <1>5, <2>2, Facts DEF CallShape, Shape, Launches
  <2> QED BY <1>1, <1>5, <2>2, <2>3, Turning
<1> QED BY <1>3, <1>4, <1>5 DEF ResumeChanged, ResumeQueued, ResumeAborted

LEMMA ResumeLaunching ==
    ASSUME SessionInductive, NEW c \in Calls, ResumeStarts(c)
    PROVE  SessionInductive'
<1> DEFINE cause == IF work[c].pc = "gap" /\ activation = NoCall THEN "resume" ELSE "blind"
<1>1. /\ work[c].pc \in {"gap", "blind"} /\ work[c].kind = "resume" /\ work[c].pc \notin Launches
      /\ activation' = c /\ UNCHANGED <<processVars, entry, leaked>>
      /\ work' = At(c, "preparing", NoProcess) /\ LaunchedBy(cause)
    BY Facts DEF ResumeStarts, Prepares, CallShape, Shape, Launches
<1>2. TablesSettle
    BY <1>1, TablesKept
<1>3. "preparing" \in Pcs /\ TypeOK /\ queueOnly \in BOOLEAN /\ promiseOnly \in BOOLEAN
    BY Facts DEF Pcs, Launches, TypeOK
<1>4. PICK w \in Work : /\ w.pc = "preparing" /\ w.kind = "resume"
                        /\ work' = [work EXCEPT ![c] = w]
    BY <1>1, <1>3, Putting
<1>5. /\ queueOnly' = FALSE
      /\ promiseOnly' \in BOOLEAN
      /\ promiseOnly' => promiseOnly /\ work[c].pc = "gap" /\ activation = NoCall
    BY <1>1, <1>3 DEF LaunchedBy
<1>6. work'[c] = w
    BY <1>3, <1>4, WorkType
<1>7. ~IsTransition(c)'
    BY <1>4, <1>6 DEF IsTransition
<1>8. ASSUME ~leaked, promiseOnly'
      PROVE  NoneFound' /\ \A d \in Calls : work[d].pc \notin Launches
  <2>1. UnderPromise /\ activation = NoCall /\ work[c].pc = "gap"
      BY <1>5, <1>8, Facts
  <2>2. NoneFound /\ \A d \in Calls : work[d].pc \notin Launches
      BY <2>1, ActivationAssumption DEF UnderPromise, NoneFound
  <2> QED BY <1>2, <2>2, FoundBefore
<1> QED BY <1>1, <1>2, <1>3, <1>4, <1>5, <1>7, <1>8, Facts, LaunchBegins

LEMMA Requesting ==
    ASSUME SessionInductive, NEW c \in Calls,
           MessageRestarts(c) \/ ReactivateArrives(c) \/ ReconfigureArrives(c) \/ Stop(c)
    PROVE  SessionInductive'
<1>1. /\ work[c] = Idle /\ work[c].pc \notin Launches /\ TypeOK
      /\ UNCHANGED <<processVars, activation, entry, causeVars, leaked>>
    BY Facts DEF MessageRestarts, ReactivateArrives, ReconfigureArrives, Stop, Idle, Launches
<1>2. ASSUME NEW kind \in Kinds, NEW pc \in {"queued", "aborting"},
             NEW p \in Processes \cup {NoProcess},
             work' = [work EXCEPT ![c].kind = kind, ![c].pc = pc, ![c].p = p],
             pc = "queued" => kind \in {"reactivate", "reconfigure"},
             pc = "aborting" => kind \in {"message", "stop"},
             kind \in {"message", "reconfigure", "stop"} => p # NoProcess
      PROVE  SessionInductive'
  <2> DEFINE w == [Idle EXCEPT !.kind = kind, !.pc = pc, !.p = p]
  <2>1. /\ w \in Work /\ w.kind = kind /\ w.pc = pc /\ w.p = p
      BY IdleType DEF Work, Idle, Pcs
  <2>2. work' = [work EXCEPT ![c] = w]
      BY <1>1, <1>2, Facts DEF Idle, Work
  <2> HIDE DEF w
  <2>3. Shape(w)
      BY <1>2, <2>1 DEF Shape
  <2>4. w.pc \notin Launches \cup {"waiting", "gap", "aborted"}
      BY <1>2, <2>1 DEF Launches
  <2>5. w.kind \notin {"reactivate", "reconfigure"} \/ w.pc = "queued"
      BY <1>2, <2>1
  <2>6. ~(w.kind \in {"reactivate", "reconfigure"} /\ w.pc = "aborting")
      BY <1>2, <2>1
  <2> QED BY <1>1, <2>1, <2>2, <2>3, <2>4, <2>5, <2>6, Turning
<1>3. CASE MessageRestarts(c)
    BY <1>2, <1>3, Facts DEF MessageRestarts, Kinds
<1>4. CASE ReactivateArrives(c)
  <2>1. work' = [work EXCEPT ![c].kind = "reactivate", ![c].pc = "queued", ![c].p = NoProcess]
      BY <1>1, <1>4, Facts DEF ReactivateArrives, Idle, Work
  <2> QED BY <1>2, <2>1 DEF Kinds
<1>5. CASE ReconfigureArrives(c)
  <2>1. PICK p \in registered :
           work' = [work EXCEPT ![c].kind = "reconfigure", ![c].pc = "queued", ![c].p = p]
      BY <1>5 DEF ReconfigureArrives
  <2>2. p \in Processes /\ p # NoProcess
      BY Facts, ActivationAssumption
  <2> QED BY <1>2, <2>1, <2>2 DEF Kinds
<1>6. CASE Stop(c)
  <2>1. PICK p \in registered :
           work' = [work EXCEPT ![c].kind = "stop", ![c].pc = "aborting", ![c].p = p]
      BY <1>6 DEF Stop
  <2>2. p \in Processes /\ p # NoProcess
      BY Facts, ActivationAssumption
  <2> QED BY <1>2, <2>1, <2>2 DEF Kinds
<1> QED BY <1>3, <1>4, <1>5, <1>6

\* A transition reconciles p.
LEMMA Reconciling ==
    ASSUME SessionInductive, NEW c \in Calls, NEW p \in Processes, Reconcile(c, p),
           UNCHANGED <<processVars, activation, entry, causeVars, leaked>>,
           work[c].kind \in {"reactivate", "reconfigure"}, work[c].pc \in {"queued", "woken"},
           IsTransition(c) \/ \A d \in Calls : ~IsTransition(d)
    PROVE  SessionInductive'
<1>1. work[c].pc \notin Launches /\ TablesSettle /\ entry' \in BOOLEAN /\ TypeOK
    BY TablesKept, Facts DEF Launches
<1>2. CASE work' = Ends(c)
    BY <1>1, <1>2, Ending
<1>3. ASSUME life[p] = "live", NEW pc \in {"changing", "aborting"}, work' = At(c, pc, p)
      PROVE  SessionInductive'
  <2>1. pc \in Pcs /\ p # NoProcess
      BY ActivationAssumption DEF Pcs
  <2>2. PICK w \in Work : /\ w.pc = pc /\ w.p = p /\ w.kind = work[c].kind
                          /\ work' = [work EXCEPT ![c] = w]
      BY <1>1, <1>3, <2>1, Putting
  <2>3. Shape(w) /\ w.pc \notin Launches \cup {"waiting", "gap", "aborted"}
      BY <2>1, <2>2 DEF Shape, Launches
  <2>4. p \in registered
      BY <1>3, Facts DEF NoOrphan, Running, HeldByLaunch, LaunchesApart
  <2>5. ASSUME ~leaked, queueOnly, NEW q \in registered, Found(q)
        PROVE  q = p
      BY <1>3, <2>4, <2>5, Facts DEF Single, Found
  <2> QED BY <1>1, <2>2, <2>3, <2>5, Turning
<1> QED BY <1>2, <1>3 DEF Reconcile

LEMMA Reconfiguring ==
    ASSUME SessionInductive, NEW c \in Calls, BeginReconfigure(c)
    PROVE  SessionInductive'
<1>1. /\ work[c].pc = "queued" /\ work[c].kind = "reconfigure" /\ work[c].pc \notin Launches
      /\ \A d \in Calls : ~IsTransition(d)
      /\ UNCHANGED <<processVars, activation, entry, causeVars, leaked>>
    BY DEF BeginReconfigure, Turn, Launches
<1>2. CASE work[c].p \in registered
  <2>1. Reconcile(c, work[c].p) /\ work[c].p \in Processes
      BY <1>2, Facts DEF BeginReconfigure
  <2> QED BY <1>1, <2>1, Reconciling
<1>3. CASE work[c].p \notin registered
    BY <1>1, <1>3, TablesKept, Facts, Ending DEF BeginReconfigure
<1> QED BY <1>2, <1>3

LEMMA Joining ==
    ASSUME SessionInductive, NEW c \in Calls, ReactivateJoins(c)
    PROVE  SessionInductive'
<1>1. /\ work[c].pc = "woken" /\ work[c].kind = "reactivate" /\ work[c].pc \notin Launches
      /\ IsTransition(c) /\ work[c].p \in Processes \cup {NoProcess}
      /\ UNCHANGED <<processVars, activation, entry, causeVars, leaked>>
    BY Facts, CallType DEF ReactivateJoins, Launches, IsTransition
<1>2. CASE work[c].p = NoProcess
    BY <1>1, <1>2, TablesKept, Facts, Ending DEF ReactivateJoins
<1>3. CASE work[c].p # NoProcess
    BY <1>1, <1>3, Reconciling DEF ReactivateJoins
<1> QED BY <1>2, <1>3

\* The end of a transition or of a stop.
LEMMA CallEnding ==
    ASSUME SessionInductive, NEW c \in Calls, TransitionChanged(c) \/ StopAborted(c)
    PROVE  SessionInductive'
<1>1. /\ work' = Ends(c) /\ work[c].pc \notin Launches
      /\ UNCHANGED <<processVars, activation, entry, causeVars, leaked>>
    BY DEF TransitionChanged, StopAborted, Launches
<1> QED BY <1>1, TablesKept, Facts, Ending

\* A reactivation finds no process to use: it joins the activation under way or
\* begins a launch.
LEMMA ColdStart ==
    ASSUME SessionInductive, TablesSettle, NEW c \in Calls, Cold(c),
           work[c].kind = "reactivate", work[c].pc = "queued",
           \A d \in Calls : ~IsTransition(d),
           UNCHANGED <<entry, leaked>>,
           ~leaked /\ (queueOnly \/ promiseOnly) => NoneFound'
    PROVE  SessionInductive'
<1> USE ActivationAssumption
<1>1. /\ TypeOK /\ work[c] \in Work /\ work[c].pc \notin Launches /\ entry' \in BOOLEAN
      /\ work \in [Calls -> Work] /\ activation \in Calls \cup {NoCall}
      /\ queueOnly \in BOOLEAN /\ promiseOnly \in BOOLEAN /\ leaked' = leaked
    BY Facts, CallType DEF Launches, TypeOK
<1>2. CASE activation # NoCall
  <2>1. work' = WaitsFor(c, activation) /\ UNCHANGED <<activation, causeVars>>
      BY <1>2 DEF Cold
  <2> DEFINE w == [work[c] EXCEPT !.pc = "waiting", !.p = NoProcess, !.on = activation]
  <2>2. /\ w \in Work /\ w.pc = "waiting" /\ w.kind = "reactivate" /\ w.on = activation
      BY <1>1 DEF Work, Pcs
  <2>3. work' = [work EXCEPT ![c] = w]
      BY <1>1, <2>1 DEF WaitsFor
  <2> HIDE DEF w
  <2>4. work'[c] = w
      BY <1>1, <2>2, <2>3, WorkType
  <2>5. Calm(c)
      BY <1>1, <1>2, <2>2, <2>4 DEF Calm, Shape, Launches
  <2> QED BY <1>1, <2>1, <2>2, <2>3, <2>5, Moving
<1>3. CASE activation = NoCall
  <2>1. activation' = c /\ work' = At(c, "preparing", NoProcess) /\ LaunchedBy("reactivate")
      BY <1>3 DEF Cold, Prepares
  <2>2. "preparing" \in Pcs
      BY DEF Pcs, Launches
  <2>3. PICK w \in Work : /\ w.pc = "preparing" /\ w.kind = "reactivate"
                          /\ work' = [work EXCEPT ![c] = w]
      BY <1>1, <2>1, <2>2, Putting
  <2>4. queueOnly' = queueOnly /\ promiseOnly' = promiseOnly
      BY <1>1, <2>1 DEF LaunchedBy
  <2>5. work'[c] = w
      BY <1>1, <2>3, WorkType
  <2>6. IsTransition(c)'
      BY <2>3, <2>5 DEF IsTransition
  <2>7. ASSUME ~leaked, queueOnly \/ promiseOnly
        PROVE  \A d \in Calls : work[d].pc \notin Launches
    <3>1. CASE queueOnly
        BY <2>7, <3>1, Facts DEF UnderQueue
    <3>2. CASE promiseOnly
        BY <1>3, <2>7, <3>2, Facts DEF UnderPromise
    <3> QED BY <2>7, <3>1, <3>2
  <2> QED BY <1>1, <2>1, <2>3, <2>4, <2>6, <2>7, LaunchBegins
<1> QED BY <1>2, <1>3

LEMMA Reactivating ==
    ASSUME SessionInductive, NEW c \in Calls, BeginReactivate(c)
    PROVE  SessionInductive'
<1>1. /\ work[c].pc = "queued" /\ work[c].kind = "reactivate"
      /\ \A d \in Calls : ~IsTransition(d)
      /\ UNCHANGED <<entry, leaked>>
    BY DEF BeginReactivate, Turn
<1>2. CASE owner = NoProcess /\ Cold(c) /\ UNCHANGED processVars
  <2>1. TablesSettle
      BY <1>2, TablesKept
  <2>2. ~leaked /\ (queueOnly \/ promiseOnly) => NoneFound'
      BY <1>2, <2>1, NobodyThere, FoundBefore
  <2> QED BY <1>1, <1>2, <2>1, <2>2, ColdStart
<1>3. CASE /\ owner # NoProcess /\ life[owner] = "ended"
           /\ Unregister(owner) /\ Cold(c) /\ UNCHANGED life
  <2>1. TablesSettle
      BY <1>3, Unregistering, Facts
  <2>2. ~leaked /\ (queueOnly \/ promiseOnly) => NoneFound'
      BY <1>3, <2>1, NobodyThere, FoundBefore
  <2> QED BY <1>1, <1>3, <2>1, <2>2, ColdStart
<1>4. CASE /\ owner # NoProcess /\ Reconcile(c, owner)
           /\ UNCHANGED <<processVars, activation, causeVars>>
  <2>1. owner \in Processes
      BY <1>4, Facts
  <2> QED BY <1>1, <1>4, <2>1, Reconciling
<1> QED BY <1>2, <1>3, <1>4 DEF BeginReactivate

\* A restart launches inside the configuration queue.
LEMMA Restarting ==
    ASSUME SessionInductive, NEW c \in Calls, RestartAborted(c)
    PROVE  SessionInductive'
<1> USE ActivationAssumption
<1>1. /\ work[c].pc = "aborted" /\ work[c].pc \notin Launches
      /\ work[c].kind \in {"reactivate", "reconfigure"} /\ IsTransition(c)
      /\ work' = At(c, "preparing", NoProcess) /\ LaunchedBy("restart")
      /\ UNCHANGED <<processVars, activation, entry, leaked>>
    BY DEF RestartAborted, Prepares, Launches, IsTransition
<1>2. TablesSettle
    BY <1>1, TablesKept
<1>3. /\ "preparing" \in Pcs /\ TypeOK /\ entry' \in BOOLEAN
      /\ queueOnly \in BOOLEAN /\ promiseOnly \in BOOLEAN
    BY <1>1, Facts DEF Pcs, Launches, TypeOK
<1>4. PICK w \in Work : /\ w.pc = "preparing" /\ w.kind = work[c].kind
                        /\ work' = [work EXCEPT ![c] = w]
    BY <1>1, <1>3, Putting
<1>5. queueOnly' = queueOnly /\ promiseOnly' = FALSE
    BY <1>1, <1>3 DEF LaunchedBy
<1>6. work'[c] = w
    BY <1>3, <1>4, WorkType
<1>7. IsTransition(c)'
    BY <1>1, <1>4, <1>6 DEF IsTransition
<1>8. ASSUME ~leaked, queueOnly
      PROVE  NoneFound' /\ \A d \in Calls : work[d].pc \notin Launches
  <2>1. UnderQueue /\ OneTransition
      BY <1>8, Facts
  <2>2. NoneFound
      BY <1>1, <2>1 DEF UnderQueue, NoneFound
  <2>3. ASSUME NEW d \in Calls, work[d].pc \in Launches
        PROVE  FALSE
    <3>1. IsTransition(d)
        BY <2>1, <2>3 DEF UnderQueue
    <3>2. d = c
        BY <1>1, <2>1, <3>1 DEF OneTransition
    <3> QED BY <1>1, <2>3, <3>2
  <2> QED BY <1>2, <2>2, <2>3, FoundBefore
<1> QED BY <1>1, <1>2, <1>3, <1>4, <1>5, <1>7, <1>8, LaunchBegins

LEMMA Promoting ==
    ASSUME SessionInductive, NEW c \in Calls, Promotes(c)
    PROVE  SessionInductive'
<1>1. /\ work[c] = Idle /\ work[c].pc \notin Launches /\ entry' = FALSE
      /\ work' = [work EXCEPT ![c].kind = "promotion", ![c].pc = "preparing"]
      /\ LaunchedBy("promotion")
      /\ UNCHANGED <<processVars, activation, leaked>>
    BY DEF Promotes, Idle, Launches
<1>2. TablesSettle /\ TypeOK /\ work \in [Calls -> Work]
    BY <1>1, TablesKept, Facts
<1>3. queueOnly' = FALSE /\ promiseOnly' = FALSE
    BY <1>1 DEF LaunchedBy
<1> DEFINE w == [Idle EXCEPT !.kind = "promotion", !.pc = "preparing"]
<1>4. w \in Work /\ w.kind = "promotion" /\ w.pc = "preparing"
    BY IdleType DEF Work, Idle, Kinds, Pcs, Launches
<1>5. work' = [work EXCEPT ![c] = w]
    BY <1>1, <1>2 DEF Idle, Work
<1> HIDE DEF w
<1>6. work'[c] = w
    BY <1>2, <1>4, <1>5, WorkType
<1>7. ~IsTransition(c)'
    BY <1>4, <1>6 DEF IsTransition
<1> QED BY <1>1, <1>2, <1>3, <1>4, <1>5, <1>7, LaunchBegins

\* A process that is torn down is registered.
LEMMA ReapingRegistered ==
    ASSUME SessionInductive, NEW p \in Processes, life[p] \in {"live", "reaping", "stuck"}
    PROVE  p \in registered
BY Facts DEF NoOrphan, Running, HeldByLaunch, LaunchesApart

LEMMA Aborted ==
    ASSUME SessionInductive, NEW p \in Processes, AbortEnds(p)
    PROVE  SessionInductive'
<1>1. /\ life' = [life EXCEPT ![p] = "ended"] /\ Unregister(p)
      /\ work' = [c \in Calls |-> IF Aborts(c, p) THEN [work[c] EXCEPT !.pc = "aborted"]
                                  ELSE work[c]]
      /\ UNCHANGED <<activation, entry, causeVars, leaked>>
    BY DEF AbortEnds, Completes
<1>2. TablesSettle
    BY <1>1, Unregistering
<1>3. /\ TypeOK /\ CallShape /\ entry' \in BOOLEAN /\ life'[p] = "ended"
      /\ life \in [Processes -> Lives] /\ registered \subseteq Processes
    BY <1>1, Facts
<1>4. ASSUME NEW d \in Calls, Aborts(d, p)
      PROVE  /\ work'[d] \in Work /\ work'[d].pc = "aborted" /\ work'[d].kind = work[d].kind
             /\ work'[d].p = p /\ work[d].pc = "aborting" /\ work[d].p = p
    BY <1>1, <1>3, <1>4, CallType DEF Aborts, Work, Pcs, Continuations
<1>5. ASSUME NEW d \in Calls, ~Aborts(d, p)
      PROVE  work'[d] = work[d]
    BY <1>1, <1>5
<1>6. work' \in [Calls -> Work]
  <2>1. \A d \in Calls : work'[d] \in Work
      BY <1>3, <1>4, <1>5, CallType
  <2> QED BY <1>1, <2>1
<1>7. \A d \in Calls : IsTransition(d)' => IsTransition(d)
    BY <1>4, <1>5 DEF IsTransition
<1>8. ASSUME NEW d \in Calls, Aborts(d, p)
      PROVE  Calm(d)
  <2>1. Shape(work'[d])
      BY <1>3, <1>4, <1>8 DEF CallShape, Shape
  <2>2. ASSUME ~leaked, queueOnly, IsTransition(d)'
        PROVE  NoneFound'
    <3>1. \A q \in registered : Found(q) => q = p
        BY <1>4, <1>7, <1>8, <2>2, Facts DEF UnderQueue
    <3>2. \A q \in registered' : q \in registered /\ (Found(q)' => Found(q))
        BY <1>2, FoundBefore
    <3> QED BY <1>3, <3>1, <3>2 DEF NoneFound, Found
  <2> QED BY <1>4, <1>8, <2>1, <2>2 DEF Calm, Launches
<1>9. \A d \in Calls : work'[d] = work[d] \/ Calm(d)
    BY <1>5, <1>8
<1> QED BY <1>1, <1>2, <1>3, <1>6, <1>7, <1>9, CalmStep DEF InTurn

LEMMA AbortFailing ==
    ASSUME SessionInductive, NEW p \in Processes, AbortFails(p)
    PROVE  SessionInductive'
<1>1. /\ life[p] # "ended"
      /\ life' = [life EXCEPT ![p] = IF @ = "reaping" THEN "stuck" ELSE @]
      /\ work' = [c \in Calls |-> IF Aborts(c, p) THEN Idle ELSE work[c]]
      /\ UNCHANGED <<registered, owner, activation, entry, causeVars, leaked>>
    BY DEF AbortFails
<1>2. /\ TypeOK /\ OwnerIsRegistered /\ entry' \in BOOLEAN
      /\ life \in [Processes -> Lives] /\ registered \subseteq Processes
      /\ owner \in Processes \cup {NoProcess}
    BY <1>1, Facts
<1>3. life[p] = "reaping" => p \in registered
    BY ReapingRegistered
<1>4. TablesSettle
    BY <1>1, <1>2, <1>3 DEF TablesSettle, OwnerIsRegistered, Lives
<1>5. \A d \in Calls : work'[d] = work[d] \/ (work'[d] = Idle /\ work[d].pc = "aborting")
    BY <1>1 DEF Aborts
<1>6. work' \in [Calls -> Work]
  <2>1. \A d \in Calls : work'[d] \in Work
      BY <1>2, <1>5, CallType, IdleType
  <2> QED BY <1>1, <2>1
<1>7. \A d \in Calls : IsTransition(d)' => IsTransition(d)
    BY <1>5 DEF IsTransition, Idle
<1>8. ASSUME NEW d \in Calls, work'[d] = Idle, work[d].pc = "aborting"
      PROVE  Calm(d)
    BY <1>8, IdleType DEF Calm, Launches, Idle, IsTransition
<1>9. \A d \in Calls : work'[d] = work[d] \/ Calm(d)
    BY <1>5, <1>8
<1> QED BY <1>1, <1>2, <1>4, <1>6, <1>7, <1>9, CalmStep DEF InTurn

\* Steps of a process alone.
LEMMA Alone ==
    ASSUME SessionInductive, TablesSettle, entry' \in BOOLEAN,
           UNCHANGED <<activation, work, causeVars, leaked>>
    PROVE  SessionInductive'
<1>1. work' \in [Calls -> Work] /\ \A d \in Calls : work'[d] = work[d]
    BY Facts
<1>2. InTurn
    BY <1>1 DEF InTurn, IsTransition
<1> QED BY <1>1, <1>2, CalmStep

LEMMA TearingDown ==
    ASSUME SessionInductive, NEW p \in Processes, TeardownBegins(p)
    PROVE  SessionInductive'
<1>1. /\ p \in registered /\ life[p] = "live" /\ life' = [life EXCEPT ![p] = "reaping"]
      /\ UNCHANGED <<registered, owner, activation, entry, work, causeVars, leaked>>
    BY DEF TeardownBegins
<1>2. /\ OwnerIsRegistered /\ entry' \in BOOLEAN
      /\ life \in [Processes -> Lives] /\ owner \in Processes \cup {NoProcess}
    BY <1>1, Facts
<1>3. TablesSettle
    BY <1>1, <1>2 DEF TablesSettle, OwnerIsRegistered, Lives
<1> QED BY <1>1, <1>2, <1>3, Alone

LEMMA Dying ==
    ASSUME SessionInductive, NEW p \in Processes, Dies(p)
    PROVE  SessionInductive'
<1>1. TablesSettle
    BY Unregistering DEF Dies, Completes
<1> QED BY <1>1, Facts, Alone DEF Dies

LEMMA Cancelling ==
    ASSUME SessionInductive, Cancels
    PROVE  SessionInductive'
<1>1. TablesSettle /\ entry' \in BOOLEAN
    BY TablesKept DEF Cancels
<1> QED BY <1>1, Alone DEF Cancels

LEMMA Starting ==
    ASSUME SessionInductive, NEW c \in Calls, ProviderStarts(c)
    PROVE  SessionInductive'
<1>1. PICK p \in Processes :
         /\ Spare(p) /\ life' = [life EXCEPT ![p] = "starting"] /\ work' = At(c, "launching", p)
    BY DEF ProviderStarts
<1>2. /\ work[c].pc = "preparing" /\ work[c].pc \in Launches
      /\ UNCHANGED <<registered, owner, activation, entry, causeVars, leaked>>
    BY DEF ProviderStarts, Launches
<1>3. /\ life' \in [Processes -> Lives] /\ life'[p] = "starting"
      /\ \A q \in Processes : q # p => life'[q] = life[q]
    BY <1>1, Facts DEF Lives
<1>4. p \notin registered /\ life[p] = "ended" /\ \A d \in Calls : work[d].p # p
    BY <1>1 DEF Spare
<1> QED BY <1>1, <1>2, <1>3, <1>4, LaunchGoesOn

LEMMA Breaking ==
    ASSUME SessionInductive, NEW c \in Calls, LaunchBreaks(c)
    PROVE  SessionInductive'
<1>1. /\ work[c].pc = "launching" /\ work[c].pc \in Launches
      /\ work' = At(c, "unwinding", work[c].p)
      /\ UNCHANGED <<processVars, activation, entry, causeVars, leaked>>
    BY DEF LaunchBreaks, Launches
<1>2. /\ work[c].p \in Processes \ registered /\ life[work[c].p] \in {"starting", "ended"}
      /\ \A d \in Calls : d # c => work[d].p # work[c].p \/ work[d].pc \notin {"launching", "unwinding"}
      /\ life \in [Processes -> Lives]
    BY <1>1, Facts DEF LaunchesApart
<1>3. UNCHANGED <<life, registered, owner, activation, entry, causeVars, leaked>>
    BY <1>1 DEF processVars
<1> QED BY <1>1, <1>2, <1>3, LaunchGoesOn

LEMMA Failing ==
    ASSUME SessionInductive, NEW c \in Calls,
           LaunchFails(c) \/ Unwound(c) \/ UnwindFails(c)
    PROVE  SessionInductive'
<1>1. /\ Quiet /\ LaunchEnds(c, NoProcess) /\ work[c].pc \in Launches
      /\ UNCHANGED <<registered, owner, entry, causeVars>>
      /\ life \in [Processes -> Lives] /\ leaked \in BOOLEAN
    BY Facts DEF LaunchFails, Unwound, UnwindFails, processVars, Launches, TypeOK
<1>2. CASE LaunchFails(c)
  <2>1. work[c].pc = "preparing" /\ life' = life /\ leaked' = leaked
      BY <1>2 DEF LaunchFails, processVars
  <2>2. /\ \A q \in Processes : life'[q] = life[q]
        /\ \A q \in Processes : life'[q] = "lost" => life[q] = "lost"
      BY <2>1
  <2> QED BY <1>1, <2>1, <2>2, LaunchOver
<1>3. ASSUME work[c].pc = "unwinding", NEW end \in {"ended", "lost"},
             life' = [life EXCEPT ![work[c].p] = end],
             end = "lost" => leaked', leaked' \in BOOLEAN, leaked => leaked'
      PROVE  SessionInductive'
  <2>1. work[c].p \in Processes \ registered
      BY <1>3, Facts DEF LaunchesApart
  <2>2. /\ life' \in [Processes -> Lives] /\ life'[work[c].p] = end
        /\ \A q \in Processes : q # work[c].p => life'[q] = life[q]
      BY <1>1, <1>3, <2>1 DEF Lives
  <2>3. /\ \A q \in Processes :
              \/ life'[q] = life[q]
              \/ q = work[c].p /\ q \notin registered /\ life'[q] \in {"ended", "lost"}
        /\ \A q \in Processes : life'[q] = "lost" => life[q] = "lost" \/ leaked'
      BY <1>3, <2>1, <2>2
  <2> QED BY <1>1, <1>3, <2>2, <2>3, LaunchOver
<1>4. CASE Unwound(c)
    BY <1>1, <1>3, <1>4 DEF Unwound
<1>5. CASE UnwindFails(c)
    BY <1>1, <1>3, <1>5 DEF UnwindFails
<1> QED BY <1>2, <1>4, <1>5

-----------------------------------------------------------------------------
(* Part 5.                                                                  *)

LEMMA InitInductive == Init => SessionInductive
<1> SUFFICES ASSUME Init PROVE SessionInductive
    OBVIOUS
<1> USE ActivationAssumption
<1>1. /\ life = [p \in Processes |-> "ended"] /\ registered = {} /\ owner = NoProcess
      /\ activation = NoCall /\ entry = FALSE /\ leaked = FALSE
      /\ queueOnly = TRUE /\ promiseOnly = TRUE
      /\ \A c \in Calls : work[c] = Idle /\ work \in [Calls -> Work]
      /\ Idle.pc = "off" /\ Idle.kind = "none"
    BY IdleType DEF Init, Idle
<1>2. TypeOK
  <2>1. work \in [Calls -> Work]
      BY IdleType DEF Init
  <2> QED BY <1>1, <2>1 DEF TypeOK, Lives
<1>3. CallShape
    BY <1>1, IdleType DEF CallShape
<1>4. LaunchesApart /\ OwnerIsRegistered /\ NoOrphan
    BY <1>1 DEF LaunchesApart, OwnerIsRegistered, NoOrphan, Running
<1>5. OneTransition /\ ActivationIsLaunch
    BY <1>1 DEF OneTransition, IsTransition, ActivationIsLaunch
<1>6. Single /\ UnderQueue /\ UnderPromise
    BY <1>1 DEF Single, UnderQueue, UnderPromise, Launches
<1> QED BY <1>2, <1>3, <1>4, <1>5, <1>6 DEF SessionInductive

LEMMA StepInductive == SessionInductive /\ [Next]_vars => SessionInductive'
<1> SUFFICES ASSUME SessionInductive, [Next]_vars PROVE SessionInductive'
    OBVIOUS
<1>1. CASE UNCHANGED vars
  <2>1. /\ UNCHANGED <<processVars, activation, entry, work, causeVars, leaked>>
        /\ entry' \in BOOLEAN
      BY <1>1, Facts DEF vars
  <2>2. TablesSettle
      BY <2>1, TablesKept
  <2> QED BY <2>1, <2>2, Alone
<1>2. ASSUME NEW c \in Calls, CallStep(c)
      PROVE  SessionInductive'
    BY <1>2, ResumeLooking, ResumeLaunching, ResumeGoesOn, MessageGoesOn, Reconfiguring,
       Reactivating, Joining, CallEnding, Restarting, Starting, Failing, Registering,
       Breaking DEF CallStep
<1>3. ASSUME NEW c \in Calls, Request(c)
      PROVE  SessionInductive'
    BY <1>3, ResumeArriving, Requesting, Promoting DEF Request
<1>4. ASSUME NEW p \in Processes,
             AbortEnds(p) \/ AbortFails(p) \/ TeardownBegins(p) \/ Dies(p)
      PROVE  SessionInductive'
    BY <1>4, Aborted, AbortFailing, TearingDown, Dying
<1> QED BY <1>1, <1>2, <1>3, <1>4, Cancelling DEF Next

\* What the invariant says of the providers that run.
LEMMA InductiveOneProvider == SessionInductive => OneProvider
<1> SUFFICES ASSUME SessionInductive, queueOnly \/ promiseOnly, ~leaked,
                    NEW p \in Running, NEW q \in Running
             PROVE  p = q
    BY DEF OneProvider, AtMostOne
<1>1. Single /\ NoOrphan /\ LaunchesApart
    BY Facts
<1>2. ASSUME NEW r \in Running
      PROVE  (r \in registered /\ Found(r)) \/ HeldByLaunch(r)
    BY <1>1, <1>2 DEF NoOrphan, LaunchesApart, Running, Found
<1>3. CASE p \in registered /\ Found(p)
  <2>1. \A c \in Calls : work[c].pc \notin Launches
      BY <1>1, <1>3 DEF Single
  <2>2. q \in registered /\ Found(q)
      BY <1>2, <2>1 DEF HeldByLaunch, Launches
  <2> QED BY <1>1, <1>3, <2>2 DEF Single
<1>4. CASE HeldByLaunch(p)
  <2>1. PICK c \in Calls : work[c].pc \in {"launching", "unwinding"} /\ work[c].p = p
      BY <1>4 DEF HeldByLaunch
  <2>2. HeldByLaunch(q)
      BY <1>1, <1>2, <2>1 DEF Single, Launches
  <2>3. PICK d \in Calls : work[d].pc \in {"launching", "unwinding"} /\ work[d].p = q
      BY <2>2 DEF HeldByLaunch
  <2>4. c = d
      BY <1>1, <2>1, <2>3 DEF Single, Launches
  <2> QED BY <2>1, <2>3, <2>4
<1> QED BY <1>2, <1>3, <1>4

\* The inductive invariant of the session: who launches, who waits for whom,
\* what the tables of the supervisor hold (resumeSession, the coordinator's
\* queue, abort and registerProcess together).
THEOREM SessionInvariant == Spec => []SessionInductive
<1>1. Init => SessionInductive
    BY InitInductive
<1>2. SessionInductive /\ [Next]_vars => SessionInductive'
    BY StepInductive
<1> QED BY <1>1, <1>2, PTL DEF Spec

\* A session never has two providers as long as every launch came from the
\* configuration queue, or every launch looked at the owner and then took the
\* activation (reactivate, restartProcessWithConfiguration, resumeSession).
THEOREM SessionOneProvider == Spec => []OneProvider
BY SessionInvariant, InductiveOneProvider, PTL

\* waitForActivation never waits for a launch that is over.
THEOREM SessionActivationIsLaunch == Spec => []ActivationIsLaunch
<1>1. SessionInductive => ActivationIsLaunch
    BY DEF SessionInductive
<1> QED BY <1>1, SessionInvariant, PTL

\* No provider runs untracked, but the leftover of a launch whose teardown
\* failed (unregisterProcess, registerProcess, abort).
THEOREM SessionNoOrphan == Spec => []NoOrphan
<1>1. SessionInductive => NoOrphan
    BY DEF SessionInductive
<1> QED BY <1>1, SessionInvariant, PTL

=============================================================================
