----------------------- MODULE SessionCreationStore -----------------------
(***************************************************************************)
(* The durable record of new sessions,                                     *)
(* packages/server/src/sessions/SessionCreationStore.ts, with the identity *)
(* table it shares its transactions with (SessionIdentityStore.ts).        *)
(*                                                                         *)
(* A creation is admitted once under its request key and then owns one     *)
(* current attempt.  Every operation is one synchronous SQLite transaction *)
(* that is given a fence <<creation, attempt, generation>>, first checks   *)
(* that the fence is current (assertCurrent) and throws, changing nothing, *)
(* when a precondition fails.  So an operation is a pair here: CanX(f), the *)
(* condition under which it does not throw, and X(f), what it writes.       *)
(* Attempts are numbered in the order they are made; 0 means none.          *)
(***************************************************************************)
EXTENDS Naturals

CONSTANTS
    Creations,      \* request keys; the payload a key was admitted with never changes
    Intent,         \* what each asks for: a first message, a prepared session, a copy
    Natives,        \* native session ids a provider may allocate
    Scopes,         \* native namespaces: a provider family and its storage
    NativeScope,    \* where each native session is stored
    DispatchScope,  \* the namespace each creation is launched in
    NoNative,
    RetryKeys,      \* client-chosen ids of retry requests
    MaxAttempts,    \* MAX_ATTEMPTS
    MaxLives        \* bound: controllers (server processes) started

ASSUME StoreAssumption ==
    /\ Intent \in [Creations -> {"input", "prepare", "copy"}]
    /\ NativeScope \in [Natives -> Scopes]
    /\ DispatchScope \in [Creations -> Scopes]
    /\ NoNative \notin Natives
    /\ MaxAttempts \in Nat \ {0}
    /\ MaxLives \in Nat \ {0}

VARIABLES
    current,  \* session_creations.current_attempt; 0 before admission
    attempt,  \* session_creation_attempts
    claim,    \* native_session_allocations: the attempt that holds it, or 0
    native,   \* session_identities.native_id of each created session
    adopted,  \* natives published as sessions of their own by discovery
    answered  \* session_creation_retries: the failed attempt each key named

storeVars == <<current, attempt, claim, native, adopted, answered>>

States == {"absent", "saved", "queued", "dispatching", "bound", "uncertain",
           "failed"}
Deliveries == {"not-admitted", "uncertain", "consumed"}
Pids == 1..MaxLives
AttemptNos == 1..MaxAttempts
Generations == 0..1

\* controllerPid is the server process that made the attempt.
AttemptRec == [state : States, delivery : Deliveries, gen : Generations,
               pid : 0..MaxLives]
Absent == [state |-> "absent", delivery |-> "not-admitted", gen |-> 0,
           pid |-> 0]
Fresh(state, pid) == [state |-> state, delivery |-> "not-admitted", gen |-> 0,
                      pid |-> pid]

StoreTypeOK ==
    /\ current \in [Creations -> 0..MaxAttempts]
    /\ attempt \in [Creations -> [AttemptNos -> AttemptRec]]
    /\ claim \in [Creations -> [a : 0..MaxAttempts, g : Generations]]
    /\ native \in [Creations -> Natives \cup {NoNative}]
    /\ adopted \subseteq Natives
    /\ answered \in [Creations -> [RetryKeys -> 0..MaxAttempts]]

NoClaim == [a |-> 0, g |-> 0]

StoreInit ==
    /\ current = [c \in Creations |-> 0]
    /\ attempt = [c \in Creations |-> [a \in AttemptNos |-> Absent]]
    /\ claim = [c \in Creations |-> NoClaim]
    /\ native = [c \in Creations |-> NoNative]
    /\ adopted = {}
    /\ answered = [c \in Creations |-> [k \in RetryKeys |-> 0]]

-----------------------------------------------------------------------------
(* Reading.                                                                 *)

Att(f) == attempt[f.c][f.a]
Pending == {"saved", "queued"}
Effective == {"dispatching", "bound", "uncertain"}

IsCurrent(f) == f.a # 0 /\ current[f.c] = f.a /\ Att(f).gen = f.g

\* The fence a reader of the row gets.
FenceOf(c) == [c |-> c, a |-> current[c],
               g |-> IF current[c] = 0 THEN 0 ELSE attempt[c][current[c]].gen]
StateOf(c) == IF current[c] = 0 THEN "absent" ELSE attempt[c][current[c]].state
DeliveryOf(c) == IF current[c] = 0 THEN "not-admitted"
                 ELSE attempt[c][current[c]].delivery

Holds(f) == claim[f.c] = [a |-> f.a, g |-> f.g]

\* Discovery of unknown natives in a namespace waits for its allocations.
NamespacePending(s) == \E c \in Creations : claim[c].a # 0 /\ DispatchScope[c] = s

\* lookupNative
Known(n) == n \in adopted \/ \E c \in Creations : native[c] = n

-----------------------------------------------------------------------------
(* Writing.                                                                 *)

Update(f, state, delivery, gen) ==
    attempt' = [attempt EXCEPT ![f.c][f.a] =
                  [state |-> state, delivery |-> delivery, gen |-> gen,
                   pid |-> Att(f).pid]]

Insert(c, pid, state) ==
    /\ current' = [current EXCEPT ![c] = @ + 1]
    /\ attempt' = [attempt EXCEPT ![c][current[c] + 1] = Fresh(state, pid)]

CanFailBeforeEffects(f) == IsCurrent(f) /\ Att(f).state \in Pending
FailBeforeEffects(f) == Update(f, "failed", "not-admitted", f.g)

\* The claim row is keyed by the creation, so a second one is refused too.
CanBeginDispatch(f) ==
    IsCurrent(f) /\ Att(f).state \in Pending /\ claim[f.c].a = 0
\* Seeded fault: the generation is not advanced.
SameGenerationFault(f) ==
    /\ claim' = [claim EXCEPT ![f.c] = [a |-> f.a, g |-> f.g + 1]]
    /\ Update(f, "dispatching", "not-admitted", f.g)
BeginDispatch(f) ==
    /\ claim' = [claim EXCEPT ![f.c] = [a |-> f.a, g |-> f.g + 1]]
    /\ Update(f, "dispatching", "not-admitted", f.g + 1)

CanFailBeforeProvider(f) ==
    /\ IsCurrent(f)
    /\ Att(f).state = "dispatching"
    /\ Att(f).delivery = "not-admitted"
    /\ Holds(f)
\* Seeded fault: the allocation is not released.
KeepAllocationFault(f) ==
    /\ UNCHANGED claim
    /\ Update(f, "failed", "not-admitted", f.g)
FailBeforeProvider(f) ==
    /\ claim' = [claim EXCEPT ![f.c] = NoClaim]
    /\ Update(f, "failed", "not-admitted", f.g)

\* applyNativeBinding: a claim must be this fence's; without one the session
\* must have been bound before, and a binding never changes.
CanApplyNativeBinding(f, n) ==
    /\ IF claim[f.c].a # 0
       THEN Holds(f) /\ DispatchScope[f.c] = NativeScope[n]
       ELSE \/ Att(f).state = "bound"
            \/ Att(f).state = "uncertain" /\ native[f.c] # NoNative
    /\ IF native[f.c] # NoNative THEN native[f.c] = n ELSE ~Known(n)
ApplyNativeBinding(f, n) ==
    /\ native' = [native EXCEPT ![f.c] = n]
    /\ claim' = [claim EXCEPT ![f.c] = IF Holds(f) THEN NoClaim ELSE @]

CanBindNative(f, n) ==
    /\ IsCurrent(f)
    /\ Att(f).state \in Effective
    /\ CanApplyNativeBinding(f, n)
\* Seeded fault: a binding alone settles an uncertain attempt.
BindingSettlesFault(f, n) ==
    /\ ApplyNativeBinding(f, n)
    /\ Update(f, "bound", Att(f).delivery, f.g)
BindNative(f, n) ==
    /\ ApplyNativeBinding(f, n)
    /\ Update(f, IF Att(f).state = "uncertain" THEN "uncertain" ELSE "bound",
              Att(f).delivery, f.g)

\* Positive proof only: an uncertain attempt whose input its owner shows to
\* have been consumed is bound again.
CanConfirmOwnedInput(f, n) == CanBindNative(f, n)
ConfirmOwnedInput(f, n) ==
    /\ ApplyNativeBinding(f, n)
    /\ Update(f, "bound", "consumed", f.g)

\* Seeded fault: an owner's loss is recorded over proof of consumption.
ForgetProofFault(f) ==
    /\ IsCurrent(f)
    /\ Att(f).state \in {"dispatching", "bound"}
    /\ ~(Intent[f.c] # "input" /\ Att(f).state = "bound")
\* markUncertain, and the condition under which every caller calls it: the
\* owner is lost and neither consumption nor a bound input-free session
\* settles the attempt.
OwnerLossMatters(f) ==
    /\ IsCurrent(f)
    /\ Att(f).state \in {"dispatching", "bound"}
    /\ Att(f).delivery # "consumed"
    /\ ~(Intent[f.c] # "input" /\ Att(f).state = "bound")
MarkUncertain(f) == Update(f, "uncertain", "uncertain", f.g)
RecordOwnerLoss(f) ==
    IF OwnerLossMatters(f) THEN MarkUncertain(f) ELSE UNCHANGED attempt

\* Seeded faults: an uncertain attempt is retried; the bound is one off.
RetryUncertainFault(c, key) ==
    /\ answered[c][key] = 0
    /\ StateOf(c) \in {"failed", "uncertain"}
    /\ current[c] < MaxAttempts
CanRetry(c, key) ==
    /\ answered[c][key] = 0
    /\ StateOf(c) = "failed"
    /\ DeliveryOf(c) = "not-admitted"
    /\ current[c] < MaxAttempts

-----------------------------------------------------------------------------
(* Startup.  alive is the set of recorded pids process.kill(pid, 0) does    *)
(* not report absent.                                                       *)

\* Seeded faults: live controllers are not spared; only dispatched attempts
\* are recovered.
SpareNobodyFault(c, a, alive) ==
    LET r == attempt[c][a]
    IN  IF a = current[c] /\ r.state = "dispatching"
        THEN [r EXCEPT !.state = "uncertain", !.delivery = "uncertain"] ELSE r
ForgetQueuedFault(c, a, alive) ==
    LET r == attempt[c][a]
    IN  IF a = current[c] /\ r.pid \notin alive /\ r.state = "dispatching"
        THEN [r EXCEPT !.state = "uncertain", !.delivery = "uncertain"] ELSE r
Recovered(c, a, alive) ==
    LET r == attempt[c][a]
        settled == \/ r.delivery = "consumed"
                   \/ Intent[c] # "input" /\ r.state = "bound"
    IN  IF a # current[c] \/ r.pid \in alive THEN r
        ELSE IF r.state \in Pending THEN [r EXCEPT !.state = "failed"]
        ELSE IF r.state \in {"dispatching", "bound"} /\ ~settled
             THEN [r EXCEPT !.state = "uncertain", !.delivery = "uncertain"]
        ELSE r
RecoverOwnerLoss(alive) ==
    attempt' = [c \in Creations |->
                  [a \in AttemptNos |-> Recovered(c, a, alive)]]

\* adoptDiscovered: a native file nobody knows becomes a session of its own,
\* unless its namespace has an unresolved allocation.
\* Seeded fault: discovery ignores unresolved allocations.
AdoptPendingFault(n) == ~Known(n)
CanAdopt(n) == ~Known(n) /\ ~NamespacePending(NativeScope[n])
Adopt(n) == adopted' = adopted \cup {n}
=============================================================================
