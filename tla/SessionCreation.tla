-------------------------- MODULE SessionCreation --------------------------
(***************************************************************************)
(* What durable session creation promises: properties of SessionDispatch,  *)
(* the fairness its liveness needs, and its refinement of CreationLedger.  *)
(***************************************************************************)
EXTENDS SessionDispatch

-----------------------------------------------------------------------------
(* Effects happen once.                                                     *)

\* "Never replay": over all its attempts, retries, queue promotions, restarts
\* and concurrent callers, a creation starts at most one provider or writes at
\* most one copy, and an attempt that may still be dispatched, or retried, has
\* had no effect at all (beginDispatch, failBeforeEffects, retry).
NeverReplayed ==
    \A c \in Creations :
        /\ launches[c] <= 1
        /\ StateOf(c) \in {"saved", "queued", "failed"} => launches[c] = 0

\* A delivery is recorded as consumed only if the provider took the message,
\* whichever of the three ways reported it, and for the attempt that sent it.
EvidenceIsTrue ==
    \A c \in Creations, a \in AttemptNos :
        attempt[c][a].delivery = "consumed" =>
            owner[c].input = "taken" /\ owner[c].a = a /\ native[c] = owner[c].native

\* Only an attempt refused before any effect is ever superseded, and nothing
\* that arrives late for it (a slow preflight, a cancellation, a startup
\* recovery) makes it anything else (retry, assertCurrent).
Superseded(c, a) == a < current[c]
OnlyRefusedAreRetried ==
    \A c \in Creations, a \in AttemptNos :
        Superseded(c, a) => /\ attempt[c][a].state = "failed"
                            /\ attempt[c][a].delivery = "not-admitted"

\* Proof of consumption survives everything: owner loss, restarts and late
\* bindings never turn a consumed message back into an open question.
ConsumedIsFinal ==
    [][\A c \in Creations, a \in AttemptNos :
          attempt[c][a].delivery = "consumed" =>
              attempt'[c][a].delivery = "consumed"]_vars

-----------------------------------------------------------------------------
(* Native identity.                                                         *)

\* A native session one of our launches or copies made is never published as
\* a stranger's, even in the window between its file appearing and its id
\* being reported, after a lost result, or across a restart; and no two
\* sessions are bound to one native (native_session_allocations, adopt).
NativeBelongsToItsSession ==
    \A c \in Creations :
        /\ owner[c].native # NoNative => owner[c].native \notin adopted
        /\ native[c] # NoNative =>
              /\ native[c] = owner[c].native
              /\ \A d \in Creations \ {c} : native[d] # native[c]

\* The allocation of a creation is held exactly while a launch of it may have
\* made a native session that is not bound yet: never before, or discovery
\* would wait for nothing, and never less, or it would adopt our session.
AllocationCoversDoubt ==
    \A c \in Creations :
        claim[c].a # 0 <=> StateOf(c) \in Effective /\ native[c] = NoNative

-----------------------------------------------------------------------------
(* Somebody is responsible.                                                 *)

Serves(d, c) == run[d].pc \notin {"off", "submitting"} /\ run[d].c = c
                /\ run[d].a = current[c]

\* Work that waits in the database for this server is in the hands of one of
\* its calls, of its worker queue or of a process it watches; nothing is saved
\* and forgotten (startSavedSessionOnce, processQueue, runCreationAttempt).
SomeoneAnswers ==
    \A c \in Creations :
        LET r == attempt[c][current[c]]
            mine == current[c] # 0 /\ up /\ r.pid = pid
            held == \E d \in Runs : Serves(d, c)
        IN  mine =>
              /\ r.state \in Pending => held \/ InQueue(FenceOf(c))
              /\ r.state = "dispatching" => held \/ owner[c].watched
              /\ r.state = "bound" /\ r.delivery # "consumed" /\ Message(c)
                    => held \/ owner[c].watched

\* While this server is still starting a creation and its provider is there,
\* nobody calls the outcome uncertain: not a competing startup, not a stale
\* call, not the failure of another one (recoverOwnerLoss, ownerExited).
OwnedIsNotUncertain ==
    \A d \in Runs :
        LET c == run[d].c
            owned == \/ run[d].pc \in {"launching", "starting"}
                     \/ run[d].pc = "settling" /\ owner[c].watched
        IN  owned => StateOf(c) # "uncertain"

\* A copy occupies no worker and is not counted.
Occupied == Registered \cup
              {run[d].c : d \in {e \in Starting : Intent[run[e].c] # "copy"}}

\* Unfinished starts and registered processes together never exceed the
\* worker limit, in spite of the awaits between the check of the capacity and
\* the registration (isAtCreationCapacity, pendingCreationStarts).
WorkersBounded == MaxWorkers > 0 => Cardinality(Occupied) <= MaxWorkers

-----------------------------------------------------------------------------
(* Refinement.                                                              *)

PhaseOf(c) ==
    IF current[c] = 0 THEN "none"
    ELSE IF DeliveryOf(c) = "consumed" \/ (~Message(c) /\ StateOf(c) = "bound")
         THEN "settled"
    ELSE IF StateOf(c) = "failed" THEN "refused"
    ELSE IF StateOf(c) = "uncertain" THEN "doubtful"
    ELSE IF launches[c] = 0 THEN "open" ELSE "offered"

Ledger == INSTANCE CreationLedger
            WITH Cards <- Creations,
                 phase <- [c \in Creations |-> PhaseOf(c)],
                 offers <- launches

\* Durable creation implements the ledger: at most one offer, refused only
\* when nothing was offered, in doubt for ever unless proof arrives.
ImplementsLedger == Ledger!LedgerSpec

-----------------------------------------------------------------------------
(* Why it holds: the inductive invariant behind the proofs.                 *)

BeforeEffect == {"launching", "copying"}
AfterEffect == {"starting", "settling", "aborting", "copied"}
Dispatched == BeforeEffect \cup AfterEffect

\* What the current attempts say, and which server made them.
Now == [c \in Creations |-> StateOf(c)]
Home == [c \in Creations |->
           IF current[c] = 0 THEN 0 ELSE attempt[c][current[c]].pid]

\* A call past its dispatch owns the current attempt, which nothing but an
\* effect's outcome can change any more.
RunsHoldTheirFence ==
    \A d \in Runs :
        /\ run[d].pc # "off" => run[d].c \in Creations
        /\ run[d].pc \notin {"off", "submitting"} =>
              run[d].a \in 1..current[run[d].c]
        /\ run[d].pc = "preflight" => run[d].g = 0
        /\ run[d].pc \in Dispatched =>
              /\ run[d].a = current[run[d].c] /\ run[d].g = 1
              /\ Now[run[d].c] \in Effective
        /\ run[d].pc \in BeforeEffect =>
              launches[run[d].c] = 0 /\ Now[run[d].c] = "dispatching"
        /\ run[d].pc \in AfterEffect => launches[run[d].c] = 1

\* At most one call is past the dispatch of a creation.
OneDispatcher ==
    \A d, e \in Runs :
        /\ run[d].pc \in Dispatched /\ run[e].pc \in Dispatched
        /\ run[d].c = run[e].c
        => d = e

\* What a row says of its delivery and generation follows from its state.
RowConsistent(state, delivery, gen) ==
    /\ state \in Pending => gen = 0
    /\ state \in Effective => gen = 1
    /\ state \in Pending \cup {"failed", "dispatching"} =>
          delivery = "not-admitted"
    /\ state = "uncertain" => delivery = "uncertain"
    /\ delivery = "consumed" => state = "bound"
RowsAreConsistent ==
    \A c \in Creations, a \in AttemptNos :
        LET r == attempt[c][a]
        IN  /\ RowConsistent(r.state, r.delivery, r.gen)
            /\ a = current[c] => r.state # "absent"

\* Calls and queue entries die with the server that made them, so they only
\* ever work on attempts of the running one.
WorkIsThisServers ==
    /\ ~up => pid < MaxLives /\ queue = <<>> /\ \A d \in Runs : run[d].pc = "off"
    /\ \A d \in Runs :
          run[d].pc # "off" /\ current[run[d].c] # 0 => Home[run[d].c] = pid
    /\ \A k \in DOMAIN queue :
          queue[k].a <= current[queue[k].c] /\ queue[k].g = 0
          /\ Home[queue[k].c] = pid

\* Nothing native exists before the one launch.
OwnersAreLaunched ==
    \A c \in Creations :
        /\ launches[c] \in {0, 1}
        /\ launches[c] = 0 => owner[c] = NoOwner
        /\ launches[c] = 1 => Now[c] \in Effective

CreationConsistent ==
    /\ TypeOK
    /\ RunsHoldTheirFence
    /\ OneDispatcher
    /\ OnlyRefusedAreRetried
    /\ RowsAreConsistent
    /\ WorkIsThisServers
    /\ OwnersAreLaunched

\* A native session is made by the one launch of its creation, and nothing else
\* is bound to it; a message is taken by a provider that made one.
NativesAreOurs ==
    /\ adopted \subseteq onDisk
    /\ \A c \in Creations :
          /\ owner[c].native # NoNative =>
                /\ owner[c].native \in onDisk \ adopted
                /\ NativeScope[owner[c].native] = DispatchScope[c]
                /\ \A d \in Creations \ {c} : owner[d].native # owner[c].native
          /\ native[c] # NoNative => native[c] = owner[c].native
          /\ owner[c].input = "taken" => owner[c].native # NoNative
    /\ \A d \in Runs :
          /\ run[d].pc = "starting" => owner[run[d].c].input = "none"
          /\ run[d].pc = "copied" => owner[run[d].c].native # NoNative

NativesConsistent == NativesAreOurs /\ AllocationCoversDoubt /\ EvidenceIsTrue

\* An owner carries the fence it was launched with, which stays current;
\* attempts are of this server or an earlier one; nobody watches a provider
\* before its Process exists; copies are made by copies' calls.
OwnersCarryTheirFence ==
    /\ \A c \in Creations :
          /\ launches[c] = 1 => owner[c].a = current[c] /\ owner[c].g = 1
          /\ Home[c] <= pid \/ PidReuse
    /\ \A d \in Runs :
          /\ run[d].pc = "starting" => ~owner[run[d].c].watched
          /\ run[d].pc \in {"copying", "copied"} => Intent[run[d].c] = "copy"
          /\ run[d].pc \in {"launching", "starting", "settling", "aborting"} =>
                Intent[run[d].c] # "copy"

\* Whoever is answerable for an attempt of this server, by how far it is: a
\* call or the queue while it waits, its dispatcher or its watched provider
\* until it is settled.
Mine(c) == up /\ Home[c] = pid
Unsettled(c) == \/ StateOf(c) = "dispatching"
                \/ StateOf(c) = "bound" /\ DeliveryOf(c) # "consumed" /\ Message(c)
Carried(c) == \E d \in Runs : run[d].pc \in Dispatched /\ run[d].c = c
Answered(c) ==
    /\ StateOf(c) \in Pending => (\E d \in Runs : Serves(d, c)) \/ InQueue(FenceOf(c))
    /\ Unsettled(c) => Carried(c) \/ owner[c].watched
Answerable == \A c \in Creations : Mine(c) => Answered(c)

\* A call accepted for an attempt that waits was given the fence it waits with.
AcceptedInTime ==
    \A d \in Runs :
        /\ run[d].pc = "accepted" /\ run[d].a = current[run[d].c]
        /\ Now[run[d].c] \in Pending
        => run[d].g = 0

\* Both are counted over finitely many.
WorkersCounted ==
    /\ IsFiniteSet(Starting) /\ IsFiniteSet(Occupied)
    /\ WorkersBounded

WorkConsistent ==
    /\ OwnersCarryTheirFence
    /\ AcceptedInTime
    /\ PidReuse \/ Answerable
    /\ OwnedIsNotUncertain
    /\ WorkersCounted

CreationInductive == CreationConsistent /\ NativesConsistent /\ WorkConsistent

-----------------------------------------------------------------------------
(* Liveness.                                                                *)

\* Every await of a call settles: provider starts, native ids (60 s), teardown
\* deadlines.  A freed worker drains the queue (processQueue runs whenever one
\* is), an ended provider is noticed, and the server is restarted.
Fairness ==
    /\ \A d \in Runs : WF_vars(RunStep(d)) /\ SF_vars(Promote(d))
    /\ \A c \in Creations : WF_vars(StreamEnds(c, TRUE)) /\ WF_vars(OwnerEnds(c))
    /\ WF_vars(Restart)
FairSpec == Spec /\ Fairness

\* An admitted creation never hangs: it is dispatched or refused, and a
\* dispatched message is bound, consumed, refused or known to be in doubt,
\* across any crash (recoverOwnerLoss), when pids are not reused.
CreationsSettle ==
    \A c \in Creations :
        (StateOf(c) \in Pending \/ (StateOf(c) = "dispatching" /\ Message(c)))
            ~> ~(StateOf(c) \in Pending \/ (StateOf(c) = "dispatching" /\ Message(c)))
=============================================================================
