------------------------- MODULE SessionActivation --------------------------
(***************************************************************************)
(* Who may start a provider for one session: resumeSession, reactivate,    *)
(* reconfigureProcess, queueMessageToSession, Stop and the worker queue    *)
(* (Supervisor.ts), over the activation promise and the configuration      *)
(* queue of SessionActivationCoordinator.ts.  The session is not a hosted  *)
(* one: those refuse restarts.                                             *)
(*                                                                         *)
(* A call is suspended at an await:                                        *)
(*   queued     for its turn in the configuration queue                    *)
(*   waiting    for the activation started by the call "on"                *)
(*   changing   p is applying a setting                                    *)
(*   queueing   p is being handed a message                                *)
(*   aborting   p is being torn down                                       *)
(*   preparing  capacity, settings and adapter of a launch                 *)
(*   launching  p's provider has started, its settings are being saved     *)
(*   unwinding  the launch failed, p is being torn down                    *)
(* or it is a continuation that runs before any other event:               *)
(*   woken      about to look for the session's process                    *)
(*   aborted    the teardown it waited for is verified                     *)
(*   gap        in a waitForActivation that has nothing to wait for        *)
(*   blind      the same, and its look was taken before an earlier await   *)
(***************************************************************************)
EXTENDS Naturals

CONSTANTS
    Calls,       \* bound: requests at once
    Processes,   \* bound: Process objects at once
    NoCall,
    NoProcess,
    AtCapacity   \* what isAtCapacity may answer

ASSUME ActivationAssumption ==
    /\ NoCall \notin Calls /\ NoProcess \notin Processes
    /\ AtCapacity \subseteq BOOLEAN

VARIABLES
    life,        \* what became of the provider of a Process
    registered,  \* Supervisor.processes
    owner,       \* Supervisor.sessionToProcess, for the session
    activation,  \* state.activation, named by the call that started it
    entry,       \* the worker queue has a resume of the session
    work,        \* what a call is doing
    queueOnly,   \* history: every launch so far came from the configuration queue
    promiseOnly, \* history: every launch so far looked, then took the activation
    leaked       \* history: a failed launch left its provider behind

processVars == <<life, registered, owner>>
causeVars == <<queueOnly, promiseOnly>>
vars == <<processVars, activation, entry, work, causeVars, leaked>>

\* reaping: terminateAndWait is under way; stuck: registered, and its teardown
\* stays unverified; lost: never registered, and its provider may still run.
Lives == {"ended", "starting", "live", "reaping", "stuck", "lost"}
Kinds == {"none", "resume", "message", "reactivate", "reconfigure", "stop", "promotion"}
Continuations == {"woken", "aborted", "gap", "blind"}
Launches == {"preparing", "launching", "unwinding"}
Pcs == Continuations \cup Launches \cup
       {"off", "queued", "waiting", "changing", "queueing", "aborting"}

Work == [kind : Kinds, pc : Pcs, p : Processes \cup {NoProcess},
         on : Calls \cup {NoCall}]
Idle == [kind |-> "none", pc |-> "off", p |-> NoProcess, on |-> NoCall]

TypeOK ==
    /\ life \in [Processes -> Lives]
    /\ registered \subseteq Processes
    /\ owner \in Processes \cup {NoProcess}
    /\ activation \in Calls \cup {NoCall}
    /\ entry \in BOOLEAN
    /\ work \in [Calls -> Work]
    /\ queueOnly \in BOOLEAN /\ promiseOnly \in BOOLEAN
    /\ leaked \in BOOLEAN

Init ==
    /\ life = [p \in Processes |-> "ended"]
    /\ registered = {} /\ owner = NoProcess
    /\ activation = NoCall
    /\ entry = FALSE
    /\ work = [c \in Calls |-> Idle]
    /\ queueOnly = TRUE /\ promiseOnly = TRUE
    /\ leaked = FALSE

Running == {p \in Processes : life[p] # "ended"}
\* hasUnverifiedProviderOwnership
Unverified(p) == life[p] \in {"reaping", "stuck"}
Quiet == \A c \in Calls : work[c].pc \notin Continuations

At(c, pc, p) == [work EXCEPT ![c].pc = pc, ![c].p = p]
Ends(c) == [work EXCEPT ![c] = Idle]

-----------------------------------------------------------------------------
(* Processes.                                                               *)

\* unregisterProcess
Unregister(p) ==
    /\ registered' = registered \ {p}
    /\ owner' = IF owner = p THEN NoProcess ELSE owner

\* The end of p's provider is known: complete, then unregistered.
Completes(p) == life' = [life EXCEPT ![p] = "ended"] /\ Unregister(p)

-----------------------------------------------------------------------------
(* The coordinator: startActivation, waitForActivation.                     *)

\* Fault: a resume that waits for a launch is not told that it failed.
LaunchTellsFault(c, p) ==
    /\ activation' = IF activation = c THEN NoCall ELSE activation
    /\ work' = [d \in Calls |->
                   IF d = c THEN Idle
                   ELSE IF work[d].pc = "waiting" /\ work[d].on = c
                        /\ (p # NoProcess \/ work[d].kind # "resume")
                   THEN [work[d] EXCEPT !.pc = "woken", !.p = p, !.on = NoCall]
                   ELSE work[d]]

\* c's launch is over, with p or with NoProcess: the activation is released if
\* it is still c's, and whoever waits for c's goes on.
LaunchEnds(c, p) ==
    /\ activation' = IF activation = c THEN NoCall ELSE activation
    /\ work' = [d \in Calls |->
                   IF d = c THEN Idle
                   ELSE IF work[d].pc = "waiting" /\ work[d].on = c
                   THEN [work[d] EXCEPT !.pc = "woken", !.p = p, !.on = NoCall]
                   ELSE work[d]]

WaitsFor(c, d) == [work EXCEPT ![c].pc = "waiting", ![c].p = NoProcess, ![c].on = d]

\* Histories: what makes c launch a provider.
LaunchedBy(cause) ==
    /\ queueOnly' = (queueOnly /\ cause \in {"reactivate", "restart"})
    /\ promiseOnly' = (promiseOnly /\ cause \in {"reactivate", "resume"})

Prepares(c, cause) ==
    /\ work' = At(c, "preparing", NoProcess)
    /\ LaunchedBy(cause)

-----------------------------------------------------------------------------
(* resumeSession.                                                           *)

\* No process to use: the worker queue, the activation under way, or a launch
\* (through next, "gap" or "blind").
LaunchPoint(c, next) ==
    \/ entry /\ work' = Ends(c) /\ UNCHANGED entry
    \/ /\ ~entry /\ TRUE \in AtCapacity
       /\ entry' \in BOOLEAN              \* or the worker queue is full
       /\ work' = Ends(c)
    \/ /\ ~entry /\ FALSE \in AtCapacity
       /\ work' = IF activation # NoCall THEN WaitsFor(c, activation)
                  ELSE At(c, next, NoProcess)
       /\ UNCHANGED entry

ResumeArrives(c) ==
    /\ Quiet /\ work[c] = Idle
    /\ work' = [work EXCEPT ![c] =
           IF activation # NoCall
           THEN [kind |-> "resume", pc |-> "waiting", p |-> NoProcess, on |-> activation]
           ELSE [kind |-> "resume", pc |-> "woken", p |-> NoProcess, on |-> NoCall]]
    /\ UNCHANGED <<processVars, activation, entry, causeVars, leaked>>

\* Look for the session's process.
ResumeChecks(c) ==
    /\ work[c].kind = "resume" /\ work[c].pc = "woken"
    /\ \/ /\ owner = NoProcess
          /\ LaunchPoint(c, "gap")
          /\ UNCHANGED processVars
       \/ /\ owner # NoProcess /\ life[owner] = "ended"
          /\ Unregister(owner)
          /\ LaunchPoint(c, "gap")
          /\ UNCHANGED life
       \/ /\ owner # NoProcess /\ Unverified(owner)
          /\ work' = Ends(c)
          /\ UNCHANGED <<processVars, entry>>
       \/ /\ owner # NoProcess /\ life[owner] = "live"
          /\ \E pc \in {"changing", "queueing", "aborting"} : work' = At(c, pc, owner)
          /\ UNCHANGED <<processVars, entry>>
    /\ UNCHANGED <<activation, causeVars, leaked>>

\* Fault: the launch is not recorded as the activation.
ResumeUnrecordedFault(c) ==
    /\ work[c].pc \in {"gap", "blind"}
    /\ \A d \in Calls : work[d].pc \notin {"woken", "aborted"}
    /\ Prepares(c, IF work[c].pc = "gap" /\ activation = NoCall THEN "resume" ELSE "blind")
    /\ UNCHANGED <<processVars, activation, entry, leaked>>

\* Nothing is looked at again after the gap.  Gaps end in their order, after
\* all the calls that the same event woke.
ResumeStarts(c) ==
    /\ work[c].pc \in {"gap", "blind"}
    /\ \A d \in Calls : work[d].pc \notin {"woken", "aborted"}
    /\ activation' = c
    /\ Prepares(c, IF work[c].pc = "gap" /\ activation = NoCall THEN "resume" ELSE "blind")
    /\ UNCHANGED <<processVars, entry, leaked>>

\* The setting was applied, or p is terminated.  Its teardown may be unverified:
\* it is passed over without the check of the first look.
ResumeChanged(c) ==
    /\ Quiet /\ work[c].kind = "resume" /\ work[c].pc = "changing"
    /\ \/ /\ life[work[c].p] \in {"live", "reaping"}
          /\ work' = At(c, "queueing", work[c].p)
          /\ UNCHANGED entry
       \/ life[work[c].p] # "live" /\ LaunchPoint(c, "blind")
    /\ UNCHANGED <<processVars, activation, causeVars, leaked>>

\* The message was accepted or refused; p may be gone.
ResumeQueued(c) ==
    /\ Quiet /\ work[c].pc = "queueing"
    /\ \/ work' = Ends(c) /\ UNCHANGED entry
       \/ life[work[c].p] = "ended" /\ LaunchPoint(c, "blind")
    /\ UNCHANGED <<processVars, activation, causeVars, leaked>>

ResumeAborted(c) ==
    /\ work[c].kind = "resume" /\ work[c].pc = "aborted"
    /\ LaunchPoint(c, "blind")
    /\ UNCHANGED <<processVars, activation, causeVars, leaked>>

-----------------------------------------------------------------------------
(* queueMessageToSession, when the message changes a launch setting: the    *)
(* process is torn down and the message goes through resumeSession.         *)

MessageRestarts(c) ==
    /\ Quiet /\ work[c] = Idle
    /\ owner # NoProcess /\ life[owner] \in {"live", "reaping"}
    /\ work' = [work EXCEPT ![c].kind = "message", ![c].pc = "aborting", ![c].p = owner]
    /\ UNCHANGED <<processVars, activation, entry, causeVars, leaked>>

MessageAborted(c) ==
    /\ work[c].kind = "message" /\ work[c].pc = "aborted"
    /\ work' = [work EXCEPT ![c] =
           IF activation # NoCall
           THEN [kind |-> "resume", pc |-> "waiting", p |-> NoProcess, on |-> activation]
           ELSE [kind |-> "resume", pc |-> "woken", p |-> NoProcess, on |-> NoCall]]
    /\ UNCHANGED <<processVars, activation, entry, causeVars, leaked>>

-----------------------------------------------------------------------------
(* The configuration queue.  Its transitions run one at a time.             *)

IsTransition(c) ==
    work[c].kind \in {"reactivate", "reconfigure"} /\ work[c].pc # "queued"

ReactivateArrives(c) ==
    /\ Quiet /\ work[c] = Idle
    /\ work' = [work EXCEPT ![c].kind = "reactivate", ![c].pc = "queued"]
    /\ UNCHANGED <<processVars, activation, entry, causeVars, leaked>>

ReconfigureArrives(c) ==
    /\ Quiet /\ work[c] = Idle
    /\ \E p \in registered :
          /\ life[p] = "live"
          /\ work' = [work EXCEPT ![c].kind = "reconfigure", ![c].pc = "queued", ![c].p = p]
    /\ UNCHANGED <<processVars, activation, entry, causeVars, leaked>>

\* reconcileProcess: nothing to change, a setting p can apply, or a restart.
Reconcile(c, p) ==
    \/ work' = Ends(c)
    \/ life[p] = "live" /\ \E pc \in {"changing", "aborting"} : work' = At(c, pc, p)

\* Fault: transitions are not serialized.
TurnAnytimeFault(c) == Quiet /\ work[c].pc = "queued"

\* It is c's turn in the configuration queue.
Turn(c) ==
    /\ Quiet /\ work[c].pc = "queued"
    /\ \A d \in Calls : ~IsTransition(d)

BeginReconfigure(c) ==
    /\ Turn(c) /\ work[c].kind = "reconfigure"
    /\ IF work[c].p \in registered THEN Reconcile(c, work[c].p) ELSE work' = Ends(c)
    /\ UNCHANGED <<processVars, activation, entry, causeVars, leaked>>

\* Cold: join the activation under way or start one.
Cold(c) ==
    IF activation # NoCall
    THEN work' = WaitsFor(c, activation) /\ UNCHANGED <<activation, causeVars>>
    ELSE activation' = c /\ Prepares(c, "reactivate")

BeginReactivate(c) ==
    /\ Turn(c) /\ work[c].kind = "reactivate"
    /\ \/ /\ owner = NoProcess
          /\ Cold(c)
          /\ UNCHANGED processVars
       \/ /\ owner # NoProcess /\ life[owner] = "ended"
          /\ Unregister(owner)
          /\ Cold(c)
          /\ UNCHANGED life
       \/ /\ owner # NoProcess /\ life[owner] # "ended"
          /\ Reconcile(c, owner)
          /\ UNCHANGED <<processVars, activation, causeVars>>
    /\ UNCHANGED <<entry, leaked>>

\* The activation it joined is over; its process is reconciled.
ReactivateJoins(c) ==
    /\ work[c].kind = "reactivate" /\ work[c].pc = "woken"
    /\ IF work[c].p = NoProcess THEN work' = Ends(c) ELSE Reconcile(c, work[c].p)
    /\ UNCHANGED <<processVars, activation, entry, causeVars, leaked>>

TransitionChanged(c) ==
    /\ Quiet /\ work[c].kind \in {"reactivate", "reconfigure"} /\ work[c].pc = "changing"
    /\ work' = Ends(c)
    /\ UNCHANGED <<processVars, activation, entry, causeVars, leaked>>

\* restartProcessWithConfiguration launches inside the configuration queue,
\* under no activation.
RestartAborted(c) ==
    /\ work[c].kind \in {"reactivate", "reconfigure"} /\ work[c].pc = "aborted"
    /\ Prepares(c, "restart")
    /\ UNCHANGED <<processVars, activation, entry, leaked>>

-----------------------------------------------------------------------------
(* Teardown.                                                                *)

Stop(c) ==
    /\ Quiet /\ work[c] = Idle
    /\ \E p \in registered :
          /\ work' = [work EXCEPT ![c].kind = "stop", ![c].pc = "aborting", ![c].p = p]
    /\ UNCHANGED <<processVars, activation, entry, causeVars, leaked>>

StopAborted(c) ==
    /\ work[c].kind = "stop" /\ work[c].pc = "aborted"
    /\ work' = Ends(c)
    /\ UNCHANGED <<processVars, activation, entry, causeVars, leaked>>

Aborts(c, p) == work[c].pc = "aborting" /\ work[c].p = p

\* abort: all who wait for it share it (abortInFlight).
AbortEnds(p) ==
    /\ Quiet
    /\ life[p] = "reaping" \/ \E c \in Calls : Aborts(c, p)
    /\ Completes(p)
    /\ work' = [c \in Calls |-> IF Aborts(c, p) THEN [work[c] EXCEPT !.pc = "aborted"]
                                ELSE work[c]]
    /\ UNCHANGED <<activation, entry, causeVars, leaked>>

\* The provider still runs at the deadline.
AbortFails(p) ==
    /\ Quiet /\ life[p] # "ended"
    /\ life[p] = "reaping" \/ \E c \in Calls : Aborts(c, p)
    /\ life' = [life EXCEPT ![p] = IF @ = "reaping" THEN "stuck" ELSE @]
    /\ work' = [c \in Calls |-> IF Aborts(c, p) THEN Idle ELSE work[c]]
    /\ UNCHANGED <<registered, owner, activation, entry, causeVars, leaked>>

\* terminateAndWait: idle for too long, an interrupt that did not take, an error
\* of the provider that says nothing of its end.
TeardownBegins(p) ==
    /\ Quiet /\ p \in registered /\ life[p] = "live"
    /\ \A c \in Calls : ~Aborts(c, p)
    /\ life' = [life EXCEPT ![p] = "reaping"]
    /\ UNCHANGED <<registered, owner, activation, entry, work, causeVars, leaked>>

\* The provider ends by itself.
Dies(p) ==
    /\ Quiet /\ life[p] \in {"starting", "live", "lost"}
    /\ Completes(p)
    /\ UNCHANGED <<activation, entry, work, causeVars, leaked>>

-----------------------------------------------------------------------------
(* Launches.                                                                *)

\* processQueue, when there is room: neither the activation nor the owner is
\* looked at.
Promotes(c) ==
    /\ Quiet /\ entry /\ work[c] = Idle
    /\ entry' = FALSE
    /\ work' = [work EXCEPT ![c].kind = "promotion", ![c].pc = "preparing"]
    /\ LaunchedBy("promotion")
    /\ UNCHANGED <<processVars, activation, leaked>>

\* cancelQueuedRequest
Cancels ==
    /\ Quiet /\ entry
    /\ entry' = FALSE
    /\ UNCHANGED <<processVars, activation, work, causeVars, leaked>>

Spare(p) == life[p] = "ended" /\ p \notin registered /\ \A c \in Calls : work[c].p # p

ProviderStarts(c) ==
    /\ Quiet /\ work[c].pc = "preparing"
    /\ \E p \in Processes :
          /\ Spare(p)
          /\ life' = [life EXCEPT ![p] = "starting"]
          /\ work' = At(c, "launching", p)
    /\ UNCHANGED <<registered, owner, activation, entry, causeVars, leaked>>

LaunchFails(c) ==
    /\ Quiet /\ work[c].pc = "preparing"
    /\ LaunchEnds(c, NoProcess)
    /\ UNCHANGED <<processVars, entry, causeVars, leaked>>

\* registerProcess, whatever became of the provider meanwhile.
Registers(c) ==
    /\ Quiet /\ work[c].pc = "launching"
    /\ LET p == work[c].p IN
       /\ life' = [life EXCEPT ![p] = IF @ = "starting" THEN "live" ELSE @]
       /\ registered' = registered \cup {p}
       /\ owner' = p
       /\ LaunchEnds(c, p)
    /\ UNCHANGED <<entry, causeVars, leaked>>

LaunchBreaks(c) ==
    /\ Quiet /\ work[c].pc = "launching"
    /\ work' = At(c, "unwinding", work[c].p)
    /\ UNCHANGED <<processVars, activation, entry, causeVars, leaked>>

Unwound(c) ==
    /\ Quiet /\ work[c].pc = "unwinding"
    /\ life' = [life EXCEPT ![work[c].p] = "ended"]
    /\ LaunchEnds(c, NoProcess)
    /\ UNCHANGED <<registered, owner, entry, causeVars, leaked>>

\* This process was never registered: nothing keeps track of it any more.
UnwindFails(c) ==
    /\ Quiet /\ work[c].pc = "unwinding" /\ life[work[c].p] = "starting"
    /\ life' = [life EXCEPT ![work[c].p] = "lost"]
    /\ leaked' = TRUE
    /\ LaunchEnds(c, NoProcess)
    /\ UNCHANGED <<registered, owner, entry, causeVars>>

-----------------------------------------------------------------------------
\* A call goes on, by itself or when what it awaits has come.
CallStep(c) ==
    \/ ResumeChecks(c) \/ ResumeStarts(c) \/ ResumeChanged(c) \/ ResumeQueued(c)
    \/ ResumeAborted(c) \/ MessageAborted(c)
    \/ BeginReconfigure(c) \/ BeginReactivate(c) \/ ReactivateJoins(c)
    \/ TransitionChanged(c) \/ RestartAborted(c) \/ StopAborted(c)
    \/ ProviderStarts(c) \/ LaunchFails(c) \/ Registers(c) \/ LaunchBreaks(c)
    \/ Unwound(c) \/ UnwindFails(c)

Request(c) ==
    \/ ResumeArrives(c) \/ MessageRestarts(c) \/ ReactivateArrives(c)
    \/ ReconfigureArrives(c) \/ Stop(c) \/ Promotes(c)

Next ==
    \/ \E c \in Calls : CallStep(c) \/ Request(c)
    \/ Cancels
    \/ \E p \in Processes :
          AbortEnds(p) \/ AbortFails(p) \/ TeardownBegins(p) \/ Dies(p)

Spec == Init /\ [][Next]_vars

-----------------------------------------------------------------------------
(* Safety.                                                                  *)

\* A call that owes its waiters the end of an activation, and a process that
\* the session may still find.
IsActivation(d) == work[d].kind \in {"resume", "reactivate"} /\ work[d].pc \in Launches
Found(p) == p \in registered /\ life[p] # "ended"

\* waitForActivation never waits for a launch that is over, and the coordinator
\* never keeps one recorded, though a later activation overwrites an earlier one
\* and launches fail: else no resume of the session would ever go on.
ActivationIsLaunch ==
    /\ activation # NoCall => IsActivation(activation)
    /\ \A c \in Calls :
          work[c].pc = "waiting" => work[c].on # NoCall /\ IsActivation(work[c].on)

\* No provider runs that nobody tracks: it is registered, in the hands of the
\* call that launches it, or the leftover of a failed launch whose teardown
\* failed too.
HeldByLaunch(p) == \E c \in Calls : work[c].pc \in {"launching", "unwinding"} /\ work[c].p = p
NoOrphan ==
    \A p \in Running : life[p] = "lost" \/ p \in registered \/ HeldByLaunch(p)

\* A session never has two providers: not as long as only the configuration
\* queue launches them (cold reactivations and restarts, run one at a time), and
\* not as long as every launch looked at the owner and then took the activation
\* (resumes and cold reactivations).  It covers teardowns that fail and providers
\* that die at any await.
AtMostOne == \A p, q \in Running : p = q
OneProvider == (queueOnly \/ promiseOnly) /\ ~leaked => AtMostOne

\* Process.hasUnverifiedProviderOwnership: "A prior provider may still be running,
\* so no replacement may claim this session."  It does not hold: a process whose
\* teardown began during an await of resumeSession is passed over.
UnverifiedKeepsSession ==
    [][\A p \in registered : Unverified(p) /\ owner = p => owner' \in {p, NoProcess}]_vars

-----------------------------------------------------------------------------
(* The inductive invariant.                                                 *)

\* Which request is suspended where.
Shape(w) ==
    /\ w.pc \in {"gap", "blind", "queueing"} => w.kind = "resume"
    /\ w.pc = "queued" => w.kind \in {"reactivate", "reconfigure"}
    /\ w.pc \in {"waiting", "woken"} => w.kind \in {"resume", "reactivate"}
    /\ w.pc \in {"changing", "queueing", "aborting", "aborted"} => w.p # NoProcess
    /\ w.kind = "reconfigure" /\ w.pc = "queued" => w.p # NoProcess

CallShape == \A c \in Calls : Shape(work[c])

\* A launch has its process for itself, and nobody else finds it.
LaunchesApart ==
    /\ \A c \in Calls :
          work[c].pc \in {"launching", "unwinding"} =>
              /\ work[c].p \in Processes \ registered
              /\ life[work[c].p] \in {"starting", "ended"}
              /\ \A d \in Calls :
                    work[d].pc \in {"launching", "unwinding"} /\ work[d].p = work[c].p => d = c
    /\ \A p \in registered : life[p] \notin {"starting", "lost"}
    /\ ~leaked => \A p \in Processes : life[p] # "lost"

OwnerIsRegistered == owner # NoProcess => owner \in registered

OneTransition == \A c, d \in Calls : IsTransition(c) /\ IsTransition(d) => c = d

\* One launch or one process to find, as long as either rule was followed.
Single ==
    /\ \A p \in registered : Found(p) => p = owner
    /\ \A c, d \in Calls : work[c].pc \in Launches /\ work[d].pc \in Launches => c = d
    /\ \A c \in Calls : work[c].pc \in Launches => \A p \in registered : ~Found(p)

\* Only transitions launch; one that tears p down leaves no other process.
UnderQueue ==
    \A c \in Calls :
        /\ work[c].pc \in Launches => IsTransition(c)
        /\ IsTransition(c) /\ work[c].pc = "aborting" =>
              \A p \in registered : Found(p) => p = work[c].p
        /\ IsTransition(c) /\ work[c].pc = "aborted" => \A p \in registered : ~Found(p)

\* Every launch holds the activation; a resume about to take it found nobody.
UnderPromise ==
    \A c \in Calls :
        /\ work[c].pc \in Launches => c = activation
        /\ work[c].pc = "gap" /\ activation = NoCall => \A p \in registered : ~Found(p)

\* What every await leaves behind: requests, launches, registered processes and
\* the activation agree, and while one rule was followed there is one provider.
SessionInductive ==
    /\ TypeOK /\ CallShape /\ LaunchesApart
    /\ OwnerIsRegistered /\ OneTransition
    /\ ActivationIsLaunch /\ NoOrphan
    /\ ~leaked =>
          /\ queueOnly \/ promiseOnly => Single
          /\ queueOnly => UnderQueue
          /\ promiseOnly => UnderPromise

-----------------------------------------------------------------------------
(* Liveness.                                                                *)

\* Every await settles: launches start or fail, aborts have a deadline, a turn in
\* the configuration queue comes.
Fairness ==
    /\ \A c \in Calls : SF_vars(CallStep(c))
    /\ \A p \in Processes : SF_vars(AbortEnds(p) \/ AbortFails(p))

FairSpec == Spec /\ Fairness

\* No request is left waiting: for its turn, for a launch of another request, or
\* for a teardown.
WaitsEnd ==
    \A c \in Calls : []<>(work[c].pc \notin {"queued", "waiting", "aborting"})
=============================================================================
