-------------------------- MODULE SessionDispatch --------------------------
(***************************************************************************)
(* Dispatch of durable session creations: what Supervisor.ts               *)
(* (packages/server/src/supervisor) does between the admission of a        *)
(* request and the confirmation that a provider took its first message,    *)
(* over the store of SessionCreationStore.                                 *)
(*                                                                         *)
(* run is what one call of startSession, startSavedSession, copySession or *)
(* the worker queue's drain is doing; every pc is a place where the call   *)
(* awaits, and the step that leaves it is the synchronous code up to the   *)
(* next await.  A run's record is itself a fence (c, a, g).                *)
(*   submitting  preparing the request, before store.admit                 *)
(*   accepted    awaiting onAccepted or a preemption                       *)
(*   preflight   authority, provider status, sandbox, namespace            *)
(*   launching   dispatch recorded; router, instructions, authority        *)
(*   starting    the provider's start was called                           *)
(*   settling    the Process exists; awaiting its native id and persistence*)
(*   aborting    the start failed; its process is being torn down          *)
(*   copying     the native transcript is being copied                     *)
(*   copied      the copy exists; its router binding is being inherited    *)
(* owner is the native side of a creation: the provider process, or the    *)
(* finished copy, and what this server's Process object knows of it.       *)
(***************************************************************************)
EXTENDS SessionCreationStore, FiniteSets, Sequences, SequencesExt

CONSTANTS
    Runs,         \* bound: calls in progress at once
    NoCreation,
    Hosted,       \* creations whose provider lives in the runtime host
    MaxWorkers,   \* maxWorkers; 0 is unlimited
    MaxStarts,    \* the limit of 16 on pendingCreationStarts
    QueueLimit,   \* maxQueueSize; 0 is unlimited
    PidReuse      \* whether a recorded pid may belong to a live process again

ASSUME DispatchAssumption ==
    /\ NoCreation \notin Creations
    /\ Hosted \subseteq Creations
    /\ MaxWorkers \in Nat /\ MaxStarts \in Nat \ {0} /\ QueueLimit \in Nat
    /\ PidReuse \in BOOLEAN

VARIABLES
    up,       \* whether a server runs
    pid,      \* process.pid of the last one
    run,      \* the calls in progress
    queue,    \* WorkerQueue: the fences waiting for a worker
    owner,    \* the native side of each creation
    onDisk,   \* native sessions that exist
    launches  \* history: native effects begun for each creation

serverVars == <<up, pid, run, queue, owner, onDisk, launches>>
vars == <<storeVars, serverVars>>

Pcs == {"off", "submitting", "accepted", "preflight", "launching", "starting",
        "settling", "aborting", "copying", "copied"}
\* Inside runCreationAttempt, counted by pendingCreationStarts.
Executing == Pcs \ {"off", "submitting", "accepted"}

RunRec == [pc : Pcs, direct : BOOLEAN, c : Creations \cup {NoCreation},
           a : 0..MaxAttempts, g : Generations]
Fence == [c : Creations, a : AttemptNos, g : Generations]
OwnerRec == [life : {"none", "live", "gone"}, a : 0..MaxAttempts,
             g : Generations, native : Natives \cup {NoNative},
             input : {"none", "offered", "taken"}, watched : BOOLEAN,
             named : BOOLEAN, registered : BOOLEAN]

Off == [pc |-> "off", direct |-> FALSE, c |-> NoCreation, a |-> 0, g |-> 0]
NoOwner == [life |-> "none", a |-> 0, g |-> 0, native |-> NoNative,
            input |-> "none", watched |-> FALSE, named |-> FALSE,
            registered |-> FALSE]

TypeOK ==
    /\ StoreTypeOK
    /\ up \in BOOLEAN
    /\ pid \in Pids
    /\ run \in [Runs -> RunRec]
    /\ queue \in Seq(Fence)
    /\ owner \in [Creations -> OwnerRec]
    /\ onDisk \subseteq Natives
    /\ launches \in [Creations -> Nat]

Init ==
    /\ StoreInit
    /\ up = TRUE
    /\ pid = 1
    /\ run = [d \in Runs |-> Off]
    /\ queue = <<>>
    /\ owner = [c \in Creations |-> NoOwner]
    /\ onDisk = {}
    /\ launches = [c \in Creations |-> 0]

-----------------------------------------------------------------------------
Message(c) == Intent[c] = "input"
OwnerFence(c) == [c |-> c, a |-> owner[c].a, g |-> owner[c].g]

Registered == {c \in Creations : owner[c].registered}
Starting == {d \in Runs : run[d].pc \in Executing}

\* Seeded fault: starts in progress are not counted.
StartsUncountedFault == MaxWorkers > 0 /\ Cardinality(Registered) >= MaxWorkers
\* isAtCreationCapacity
AtCapacity ==
    \/ Cardinality(Starting) >= MaxStarts
    \/ MaxWorkers > 0
       /\ Cardinality(Registered) + Cardinality(Starting) >= MaxWorkers
QueueFull == QueueLimit > 0 /\ Len(queue) >= QueueLimit

\* savedStarts: another direct start of the same attempt is in progress.
Coalesced(f) == \E e \in Runs : /\ run[e].pc \in Executing /\ run[e].direct
                                /\ run[e].c = f.c /\ run[e].a = f.a
\* findByCreationAttempt
InQueue(f) == \E k \in DOMAIN queue : queue[k].c = f.c /\ queue[k].a = f.a

Become(d, pc) == run' = [run EXCEPT ![d].pc = pc]
End(d) == run' = [run EXCEPT ![d] = Off]

\* Seeded fault: a failed provider start is taken for a safe refusal.
RefuseStartedFault(f) ==
    IF IsCurrent(f) /\ Att(f).state \in {"saved", "queued", "dispatching"}
    THEN FailBeforeEffects(f) ELSE RecordOwnerLoss(f)
\* The catch of runCreationAttempt and of startSession: intent that had no
\* effect is refused, an effect without proof of its outcome is uncertain.
RecordFailure(f) ==
    IF CanFailBeforeEffects(f) THEN FailBeforeEffects(f) ELSE RecordOwnerLoss(f)

-----------------------------------------------------------------------------
(* Admission.  Every caller first looks its request key up, so a row that   *)
(* exists is met in Admit only when another call made it meanwhile.         *)

Submit(d, c) ==
    /\ up
    /\ run[d] = Off
    /\ Intent[c] # "copy"
    /\ current[c] = 0
    /\ run' = [run EXCEPT ![d] = [pc |-> "submitting", direct |-> FALSE, c |-> c,
                                  a |-> 0, g |-> 0]]
    /\ UNCHANGED <<storeVars, up, pid, queue, owner, onDisk, launches>>

\* store.admit inserts the row or reads the one it finds.
Admit(d) ==
    LET c == run[d].c
    IN  /\ run[d].pc = "submitting"
        /\ IF current[c] = 0 THEN Insert(c, pid, "saved")
                             ELSE UNCHANGED <<current, attempt>>
        /\ run' = [run EXCEPT ![d] =
                     [pc |-> "accepted", direct |-> FALSE, c |-> c,
                      a |-> IF current[c] = 0 THEN 1 ELSE current[c],
                      g |-> FenceOf(c).g]]
        /\ UNCHANGED <<claim, native, adopted, answered,
                       up, pid, queue, owner, onDisk, launches>>

\* Seeded fault: a failed acceptance leaves the row saved.
AcceptanceForgetsFault(d) ==
    /\ run[d].pc = "accepted"
    /\ End(d)
    /\ UNCHANGED <<storeVars, up, pid, queue, owner, onDisk, launches>>
\* onAccepted, the authority check or a preemption throws.
AcceptanceFails(d) ==
    /\ run[d].pc = "accepted"
    /\ IF CanFailBeforeEffects(run[d]) THEN FailBeforeEffects(run[d])
                                       ELSE UNCHANGED attempt
    /\ End(d)
    /\ UNCHANGED <<current, claim, native, adopted, answered,
                   up, pid, queue, owner, onDisk, launches>>

\* startSavedSession finds nothing to start: it joins a direct start in
\* progress, the attempt is not waiting for dispatch, or it is queued already.
NothingToStart(f) == Coalesced(f) \/ ~CanFailBeforeEffects(f) \/ InQueue(f)

JoinsAnother(d) ==
    /\ run[d].pc = "accepted"
    /\ NothingToStart(run[d])
    /\ End(d)
    /\ UNCHANGED <<storeVars, up, pid, queue, owner, onDisk, launches>>

\* startSavedSessionOnce, up to its first await.
StartSaved(d) ==
    LET f == [c |-> run[d].c, a |-> run[d].a, g |-> run[d].g]
    IN  /\ run[d].pc = "accepted"
        /\ ~NothingToStart(f)
        /\ IF ~AtCapacity
           THEN /\ run' = [run EXCEPT ![d] = [pc |-> "preflight", direct |-> TRUE,
                                              c |-> f.c, a |-> f.a, g |-> f.g]]
                /\ UNCHANGED <<attempt, queue>>
           ELSE /\ End(d)
                /\ IF QueueFull
                   THEN FailBeforeEffects(f) /\ UNCHANGED queue
                   ELSE /\ Update(f, "queued", "not-admitted", f.g)
                        /\ queue' = Append(queue, f)
        /\ UNCHANGED <<current, claim, native, adopted, answered,
                       up, pid, owner, onDisk, launches>>

\* The Project Queue's retry of a failed creation: store.retry inserts the
\* next attempt and startSavedSession runs in the same synchronous step.
Retry(d, c, key) ==
    LET f == [c |-> c, a |-> current[c] + 1, g |-> 0]
    IN  /\ up
        /\ run[d] = Off
        /\ Message(c)
        /\ CanRetry(c, key)
        /\ answered' = [answered EXCEPT ![c][key] = current[c]]
        /\ Insert(c, pid, IF ~AtCapacity THEN "saved"
                          ELSE IF QueueFull THEN "failed" ELSE "queued")
        /\ IF AtCapacity
           THEN /\ queue' = IF QueueFull THEN queue ELSE Append(queue, f)
                /\ UNCHANGED run
           ELSE /\ run' = [run EXCEPT ![d] = [pc |-> "preflight", direct |-> TRUE,
                                              c |-> f.c, a |-> f.a, g |-> f.g]]
                /\ UNCHANGED queue
        /\ UNCHANGED <<claim, native, adopted, up, pid, owner, onDisk, launches>>

\* copySession admits its request and enters runCreationAttempt at once.
SubmitCopy(d, c) ==
    /\ up
    /\ run[d] = Off
    /\ Intent[c] = "copy"
    /\ current[c] = 0
    /\ Insert(c, pid, "saved")
    /\ run' = [run EXCEPT ![d] = [pc |-> "preflight", direct |-> TRUE,
                                  c |-> c, a |-> 1, g |-> 0]]
    /\ UNCHANGED <<claim, native, adopted, answered,
                   up, pid, queue, owner, onDisk, launches>>

-----------------------------------------------------------------------------
(* The worker queue.                                                        *)

\* processQueue dispatches the head without asking savedStarts; a stale head
\* is dropped by the assertCurrent of runCreationAttempt.
Promote(d) ==
    /\ run[d] = Off
    /\ queue # <<>>
    /\ ~AtCapacity
    /\ queue' = Tail(queue)
    /\ LET f == Head(queue)
       IN  run' = IF IsCurrent(f)
                  THEN [run EXCEPT ![d] = [pc |-> "preflight", direct |-> FALSE,
                                           c |-> f.c, a |-> f.a, g |-> f.g]]
                  ELSE run
    /\ UNCHANGED <<storeVars, up, pid, owner, onDisk, launches>>

Cancel(k) ==
    /\ k \in DOMAIN queue
    /\ IF CanFailBeforeEffects(queue[k]) THEN FailBeforeEffects(queue[k])
                                         ELSE UNCHANGED attempt
    /\ queue' = RemoveAt(queue, k)
    /\ UNCHANGED <<current, claim, native, adopted, answered,
                   up, pid, run, owner, onDisk, launches>>

-----------------------------------------------------------------------------
(* runCreationAttempt.                                                      *)

\* Anything thrown before a provider was started, or while a copy is made.
RunFails(d) ==
    /\ run[d].pc \in {"preflight", "launching", "copying", "copied"}
    /\ RecordFailure(run[d])
    /\ End(d)
    /\ UNCHANGED <<current, claim, native, adopted, answered,
                   up, pid, queue, owner, onDisk, launches>>

\* Persisted before the launch; the new generation owns its callbacks.
Dispatch(d) ==
    /\ run[d].pc = "preflight"
    /\ CanBeginDispatch(run[d])
    /\ BeginDispatch(run[d])
    /\ run' = [run EXCEPT
                 ![d].pc = IF Intent[run[d].c] = "copy" THEN "copying" ELSE "launching",
                 ![d].g = @ + 1]
    /\ UNCHANGED <<current, native, adopted, answered,
                   up, pid, queue, owner, onDisk, launches>>

\* The account router refuses before any provider was started.
RouterRefuses(d) ==
    /\ run[d].pc = "launching"
    /\ CanFailBeforeProvider(run[d])
    /\ FailBeforeProvider(run[d])
    /\ End(d)
    /\ UNCHANGED <<current, native, adopted, answered,
                   up, pid, queue, owner, onDisk, launches>>

\* assertInputAdmission
MayTakeInput(f) == IsCurrent(f) /\ Att(f).state \in {"dispatching", "bound"}

LaunchProvider(d) ==
    /\ run[d].pc = "launching"
    /\ IF Message(run[d].c) THEN MayTakeInput(run[d]) ELSE IsCurrent(run[d])
    /\ owner' = [owner EXCEPT ![run[d].c] =
                   [NoOwner EXCEPT !.life = "live", !.a = run[d].a, !.g = run[d].g]]
    /\ launches' = [launches EXCEPT ![run[d].c] = @ + 1]
    /\ Become(d, "starting")
    /\ UNCHANGED <<storeVars, up, pid, queue, onDisk>>

\* activeProvider.startSession rejects.  A hosted provider may be there.
StartFails(d) ==
    /\ run[d].pc = "starting"
    /\ owner' = [owner EXCEPT
                   ![run[d].c].life = IF run[d].c \in Hosted THEN @ ELSE "gone"]
    /\ RecordFailure(run[d])
    /\ End(d)
    /\ UNCHANGED <<current, claim, native, adopted, answered,
                   up, pid, queue, onDisk, launches>>

\* The Process is built and its first message queued, or refused by
\* inputRejectionError.
Attach(d) ==
    LET c == run[d].c
        refused == Message(c) /\ ~MayTakeInput(run[d])
    IN  /\ run[d].pc = "starting"
        /\ owner[c].life = "live"
        /\ Become(d, IF refused THEN "aborting" ELSE "settling")
        /\ owner' = [owner EXCEPT
                       ![c].watched = TRUE,
                       ![c].registered = refused,
                       ![c].input = IF Message(c) /\ ~refused THEN "offered" ELSE @]
        /\ UNCHANGED <<storeVars, up, pid, queue, onDisk, launches>>

\* registerProcess; a prepared session does not wait for its native id.
Settle(d) ==
    LET c == run[d].c
    IN  /\ run[d].pc = "settling"
        /\ owner[c].watched
        /\ Message(c) => owner[c].named
        /\ owner' = [owner EXCEPT ![c].registered = TRUE]
        /\ End(d)
        /\ UNCHANGED <<storeVars, up, pid, queue, onDisk, launches>>

\* The native id did not come in time, or a boundary could not be persisted:
\* the process is registered until its teardown is verified.
SettleFails(d) ==
    LET c == run[d].c
    IN  /\ run[d].pc = "settling"
        /\ owner' = [owner EXCEPT ![c].registered = (owner[c].life = "live")]
        /\ Become(d, "aborting")
        /\ UNCHANGED <<storeVars, up, pid, queue, onDisk, launches>>

\* terminateAndWait returned, or gave up verifying.
AbortEnds(d) ==
    /\ run[d].pc = "aborting"
    /\ RecordFailure(run[d])
    /\ End(d)
    /\ UNCHANGED <<current, claim, native, adopted, answered,
                   up, pid, queue, owner, onDisk, launches>>

\* The native copy is written.
MakeCopy(d, n) ==
    /\ run[d].pc = "copying"
    /\ IsCurrent(run[d])
    /\ n \notin onDisk /\ NativeScope[n] = DispatchScope[run[d].c]
    /\ onDisk' = onDisk \cup {n}
    /\ owner' = [owner EXCEPT ![run[d].c] =
                   [NoOwner EXCEPT !.life = "gone", !.a = run[d].a, !.g = run[d].g,
                                   !.native = n]]
    /\ launches' = [launches EXCEPT ![run[d].c] = @ + 1]
    /\ Become(d, "copied")
    /\ UNCHANGED <<storeVars, up, pid, queue>>

BindCopy(d) ==
    LET n == owner[run[d].c].native
    IN  /\ run[d].pc = "copied"
        /\ CanBindNative(run[d], n)
        /\ BindNative(run[d], n)
        /\ End(d)
        /\ UNCHANGED <<current, adopted, answered,
                       up, pid, queue, owner, onDisk, launches>>

-----------------------------------------------------------------------------
(* The provider, and what its Process reports.                              *)

\* The provider creates its native session.
OwnerNames(c, n) ==
    /\ owner[c].life = "live" /\ owner[c].native = NoNative
    /\ n \notin onDisk /\ NativeScope[n] = DispatchScope[c]
    /\ owner' = [owner EXCEPT ![c].native = n]
    /\ onDisk' = onDisk \cup {n}
    /\ UNCHANGED <<storeVars, up, pid, run, queue, launches>>

OwnerTakesInput(c) ==
    /\ owner[c].life = "live" /\ owner[c].native # NoNative
    /\ owner[c].input = "offered"
    /\ owner' = [owner EXCEPT ![c].input = "taken"]
    /\ UNCHANGED <<storeVars, up, pid, run, queue, onDisk, launches>>

\* Process.bindNativeId on the first message that names the session.  When
\* the store refuses, the process is terminated (StreamEnds).
ReportNative(c) ==
    /\ owner[c].watched /\ ~owner[c].named /\ owner[c].native # NoNative
    /\ CanBindNative(OwnerFence(c), owner[c].native)
    /\ BindNative(OwnerFence(c), owner[c].native)
    /\ owner' = [owner EXCEPT ![c].named = TRUE]
    /\ UNCHANGED <<current, adopted, answered,
                   up, pid, run, queue, onDisk, launches>>

\* observeProviderInput, on the echo of the first message.
ReportInput(c) ==
    /\ owner[c].watched /\ owner[c].named /\ owner[c].input = "taken"
    /\ Att(OwnerFence(c)).delivery # "consumed"
    /\ CanConfirmOwnedInput(OwnerFence(c), owner[c].native)
    /\ ConfirmOwnedInput(OwnerFence(c), owner[c].native)
    /\ UNCHANGED <<current, adopted, answered,
                   up, pid, run, queue, owner, onDisk, launches>>

\* onNativeInputConsumed: admission, binding and consumption in one callback.
ReportBoth(c) ==
    /\ owner[c].watched /\ owner[c].input = "taken"
    /\ MayTakeInput(OwnerFence(c))
    /\ Att(OwnerFence(c)).delivery # "consumed"
    /\ CanConfirmOwnedInput(OwnerFence(c), owner[c].native)
    /\ ConfirmOwnedInput(OwnerFence(c), owner[c].native)
    /\ UNCHANGED <<current, adopted, answered,
                   up, pid, run, queue, owner, onDisk, launches>>

\* Seeded fault: the presence of the worker is taken for consumption.
PresenceIsProofFault(c) ==
    LET f == OwnerFence(c)
        n == owner[c].native
    IN  /\ up
        /\ c \in Hosted
        /\ owner[c].life = "live" /\ n # NoNative
        /\ CanConfirmOwnedInput(f, n)
        /\ ConfirmOwnedInput(f, n)
        /\ UNCHANGED <<current, adopted, answered,
                       up, pid, run, queue, owner, onDisk, launches>>
\* Evidence of a hosted worker, from its connection or listed after a restart
\* (observe, reconcileHostedCreation).  The evidence names the attempt and
\* generation it was launched with.
HostEvidence(c) ==
    LET f == OwnerFence(c)
        n == owner[c].native
    IN  /\ up
        /\ c \in Hosted
        /\ owner[c].life = "live" /\ n # NoNative
        /\ IF owner[c].input = "taken"
           THEN /\ CanConfirmOwnedInput(f, n)
                /\ ConfirmOwnedInput(f, n)
           ELSE /\ MayTakeInput(f)
                /\ CanBindNative(f, n)
                /\ BindNative(f, n)
        /\ UNCHANGED <<current, adopted, answered,
                       up, pid, run, queue, owner, onDisk, launches>>

\* The provider's stream ends (ownerExited); the process may outlive it.
StreamEnds(c, gone) ==
    /\ owner[c].watched
    /\ RecordOwnerLoss(OwnerFence(c))
    /\ owner' = [owner EXCEPT ![c].watched = FALSE,
                              ![c].life = IF gone THEN "gone" ELSE @,
                              ![c].registered = @ /\ ~gone]
    /\ UNCHANGED <<current, claim, native, adopted, answered,
                   up, pid, run, queue, onDisk, launches>>

OwnerEnds(c) ==
    /\ owner[c].life = "live" /\ ~owner[c].watched
    /\ owner' = [owner EXCEPT ![c].life = "gone", ![c].registered = FALSE]
    /\ UNCHANGED <<storeVars, up, pid, run, queue, onDisk, launches>>

-----------------------------------------------------------------------------
(* Native files made elsewhere, and discovery.                              *)

ExternalNative(n) ==
    /\ n \notin onDisk
    /\ onDisk' = onDisk \cup {n}
    /\ UNCHANGED <<storeVars, up, pid, run, queue, owner, launches>>

Discover(n) ==
    /\ up
    /\ n \in onDisk
    /\ CanAdopt(n)
    /\ Adopt(n)
    /\ UNCHANGED <<current, attempt, claim, native, answered, serverVars>>

-----------------------------------------------------------------------------
(* The server process.                                                      *)

\* Its calls and its queue are lost.  Its providers live on unwatched: a hosted
\* one may be met again, a local one ends (OwnerEnds), soon or late.
Crash ==
    /\ up
    /\ pid < MaxLives
    /\ up' = FALSE
    /\ run' = [d \in Runs |-> Off]
    /\ queue' = <<>>
    /\ owner' = [c \in Creations |->
                   [owner[c] EXCEPT !.watched = FALSE, !.registered = FALSE]]
    /\ UNCHANGED <<storeVars, pid, onDisk, launches>>

\* The pids that answer to kill(pid, 0): the server's own, and those reused.
Alive(p) == IF PidReuse THEN {{p} \cup S : S \in SUBSET (1..pid)} ELSE {{p}}

Restart ==
    /\ ~up
    /\ up' = TRUE
    /\ \E p \in IF PidReuse THEN 1..(pid + 1) ELSE {pid + 1} :
          /\ pid' = p
          /\ \E alive \in Alive(p) : RecoverOwnerLoss(alive)
    /\ UNCHANGED <<current, claim, native, adopted, answered,
                   run, queue, owner, onDisk, launches>>

\* A second server started by mistake runs the recovery before it fails to
\* bind its port.
CompetingStartup ==
    /\ up
    /\ \E alive \in Alive(pid) : RecoverOwnerLoss(alive)
    /\ UNCHANGED <<current, claim, native, adopted, answered, serverVars>>

-----------------------------------------------------------------------------
RunStep(d) ==
    \/ Admit(d) \/ AcceptanceFails(d) \/ JoinsAnother(d) \/ StartSaved(d)
    \/ RunFails(d) \/ Dispatch(d) \/ RouterRefuses(d) \/ LaunchProvider(d)
    \/ StartFails(d) \/ Attach(d) \/ Settle(d) \/ SettleFails(d) \/ AbortEnds(d)
    \/ (\E n \in Natives : MakeCopy(d, n)) \/ BindCopy(d)

OwnerStep(c) ==
    \/ \E n \in Natives : OwnerNames(c, n)
    \/ OwnerTakesInput(c) \/ ReportNative(c) \/ ReportInput(c) \/ ReportBoth(c)
    \/ HostEvidence(c)
    \/ \E gone \in BOOLEAN : StreamEnds(c, gone)
    \/ OwnerEnds(c)

Next ==
    \/ \E d \in Runs :
          \/ RunStep(d) \/ Promote(d)
          \/ \E c \in Creations :
                \/ Submit(d, c) \/ SubmitCopy(d, c)
                \/ \E key \in RetryKeys : Retry(d, c, key)
    \/ \E k \in DOMAIN queue : Cancel(k)
    \/ \E c \in Creations : OwnerStep(c)
    \/ \E n \in Natives : ExternalNative(n) \/ Discover(n)
    \/ Crash \/ Restart \/ CompetingStartup

Spec == Init /\ [][Next]_vars
=============================================================================
