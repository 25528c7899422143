------------------------ MODULE ProjectQueueService ------------------------
(***************************************************************************)
(* The Project Queue's durable store,                                      *)
(* packages/server/src/services/ProjectQueueService.ts.                    *)
(*                                                                         *)
(* Every mutation runs alone (withMutation chains them on one promise): it *)
(* first changes the state in memory, then awaits save(), which replaces   *)
(* project-queues.json by an atomic rename, and only then emits its event  *)
(* and returns to its caller.  The state in memory is visible to readers   *)
(* while the save is pending, so a mutation is two steps here: the action  *)
(* that opens it sets mem and pend, and SaveDone or SaveFailed closes it.  *)
(*                                                                         *)
(* A queue state is a record                                               *)
(*   order  : for each project, the ids of its items, head first           *)
(*   rec    : for each id, the item ("absent" when it is not queued)       *)
(*   paused : dispatchState, "no" when it is running                       *)
(* mem is the service's `state`, disk what the file holds.                 *)
(***************************************************************************)
EXTENDS Naturals, Sequences, SequencesExt

CONSTANTS
    Projects,            \* projects that have a queue
    Items,               \* item ids; randomUUID never repeats one
    ProjectOf,           \* the project each id is created in
    None,                \* no item / no command
    MaxStartupFailures,  \* MAX_AUTOMATIC_STARTUP_FAILURES
    MaxRetries           \* bound: user retries of one item

ASSUME ServiceAssumption ==
    /\ ProjectOf \in [Items -> Projects]
    /\ None \notin Items
    /\ MaxStartupFailures \in Nat \ {0}
    /\ MaxRetries \in Nat

VARIABLES
    mem,       \* ProjectQueueService.state
    disk,      \* the contents of project-queues.json
    pend,      \* the mutation whose save is pending
    creation   \* what the SessionCreationStore holds under each item's key

serviceVars == <<mem, disk, pend, creation>>

Statuses == {"absent", "queued", "dispatching", "failed"}
Targets == {"existing", "new"}
Pauses == {"no", "manual", "restart"}

ItemRec == [status : Statuses, fails : 0..MaxStartupFailures,
            target : Targets, assoc : BOOLEAN, retryId : 0..MaxRetries]

Absent == [status |-> "absent", fails |-> 0, target |-> "new",
           assoc |-> FALSE, retryId |-> 0]

QueueState == [order : [Projects -> Seq(Items)], rec : [Items -> ItemRec],
               paused : Pauses]

EmptyState == [order |-> [p \in Projects |-> <<>>],
               rec |-> [i \in Items |-> Absent], paused |-> "no"]

(* Creation of a new session, as far as the queue can tell it: none, open  *)
(* (admitted, not settled), failed (failed and not-admitted), uncertain,   *)
(* consumed (the provider confirmed the initial input).  spent is the last *)
(* creationRetryId the store accepted.                                     *)
Creations == {"none", "open", "failed", "uncertain", "consumed"}
CreationRec == [state : Creations, spent : 0..MaxRetries]

Ops == {"none", "create", "update", "delete", "retry", "reorder", "pause",
        "resume", "claim", "release", "startupFail", "complete", "fail",
        "associate"}

\* by says who awaits the mutation; undo is what a failed save restores.
Mutation(op, i, by, resumed, undo) ==
    [op |-> op, item |-> i, by |-> by, resumed |-> resumed, undo |-> undo]
NoMutation == Mutation("none", None, "user", FALSE, EmptyState)

Pendings == [op : Ops, item : Items \cup {None},
             by : {"user", "promote", "run"}, resumed : BOOLEAN,
             undo : QueueState]

ServiceTypeOK ==
    /\ mem \in QueueState
    /\ disk \in QueueState
    /\ pend \in Pendings
    /\ creation \in [Items -> CreationRec]

ServiceInit ==
    /\ mem = EmptyState
    /\ disk = EmptyState
    /\ pend = NoMutation
    /\ creation = [i \in Items |-> [state |-> "none", spent |-> 0]]

-----------------------------------------------------------------------------
(* Readers and helpers.                                                     *)

Status(i) == mem.rec[i].status
Present(m) == {i \in Items : m.rec[i].status # "absent"}
QueueOf(p) == mem.order[p]
HeadQueued(p) == QueueOf(p) # <<>> /\ Status(QueueOf(p)[1]) = "queued"
Paused == mem.paused # "no"

\* hasDispatchableItem
Dispatchable(p) == ~Paused /\ HeadQueued(p)

\* findProjectItemIndex followed by splice(index, 1)
Index(s, i) == CHOOSE k \in DOMAIN s : s[k] = i
Without(s, i) == RemoveAt(s, Index(s, i))

\* reconcileCreationAssociations: recover the association from the key.
Reconciled(m) ==
    [m EXCEPT !.rec = [i \in Items |->
        IF m.rec[i].status # "absent" /\ creation[i].state # "none"
        THEN [m.rec[i] EXCEPT !.assoc = TRUE]
        ELSE m.rec[i]]]

ClearPauseIfEmpty(m) ==
    IF Present(m) = {} THEN [m EXCEPT !.paused = "no"] ELSE m

\* Seeded fault: the last item leaves a hidden pause behind.
KeepPauseFault(m, i) ==
    [m EXCEPT !.order[ProjectOf[i]] = Without(@, i), !.rec[i] = Absent]

Drop(m, i) ==
    ClearPauseIfEmpty([m EXCEPT !.order[ProjectOf[i]] = Without(@, i),
                                !.rec[i] = Absent])

\* recordRetryableStartupFailure moves the item to the head of its project.
ToHead(m, i) == [m EXCEPT !.order[ProjectOf[i]] = <<i>> \o Without(@, i)]

\* Seeded fault: as above, for moveItemToTop.
InsertOnlyFault(m, i) ==
    [m EXCEPT !.order[ProjectOf[i]] = <<i>> \o @, !.rec[i].fails = 0]

\* moveItemToTop inserts before the first item that is not dispatching.
Movable(m, s) == {k \in DOMAIN s : m.rec[s[k]].status # "dispatching"}
ToTop(m, i) ==
    LET rest == Without(m.order[ProjectOf[i]], i)
        free == Movable(m, rest)
        at   == IF free = {} THEN Len(rest) + 1
                ELSE CHOOSE k \in free : \A l \in free : k <= l
    IN  [m EXCEPT !.order[ProjectOf[i]] = InsertAt(rest, at, i)]

-----------------------------------------------------------------------------
(* Opening a mutation: its turn has come, and it changes the memory.        *)

Unlocked == pend.op = "none"

Open(m, op, i, by, resumed, undo) ==
    /\ mem' = m
    /\ pend' = Mutation(op, i, by, resumed, undo)
    /\ UNCHANGED <<disk, creation>>

\* The item actions of the user resume a paused queue before they act.
ItemAction(m, op, i) ==
    Open([m EXCEPT !.paused = "no"], op, i, "user", Paused,
         IF op = "update" THEN Reconciled(mem) ELSE EmptyState)

DoCreate(i, target) ==
    /\ Unlocked
    /\ Open([mem EXCEPT !.order[ProjectOf[i]] = Append(@, i),
                        !.rec[i] = [Absent EXCEPT !.status = "queued",
                                                  !.target = target]],
            "create", i, "user", FALSE, mem)

\* Seeded fault: an admitted item can be edited.
UpdateAdmittedFault(i, target) ==
    /\ Unlocked
    /\ Status(i) \in {"queued", "failed"}
    /\ ItemAction([Reconciled(mem) EXCEPT !.rec[i].status = "queued",
                                          !.rec[i].fails = 0,
                                          !.rec[i].target = target],
                  "update", i)

\* updateItem refuses an item being dispatched or already admitted.
DoUpdate(i, target) ==
    /\ Unlocked
    /\ Status(i) \in {"queued", "failed"}
    /\ ~Reconciled(mem).rec[i].assoc
    /\ ItemAction([Reconciled(mem) EXCEPT !.rec[i].status = "queued",
                                          !.rec[i].fails = 0,
                                          !.rec[i].target = target],
                  "update", i)

\* Seeded fault: an item being dispatched can be deleted.
DeleteDispatchingFault(i) ==
    /\ Unlocked
    /\ Status(i) # "absent"
    /\ ItemAction(Drop(Reconciled(mem), i), "delete", i)

DoDelete(i) ==
    /\ Unlocked
    /\ Status(i) \in {"queued", "failed"}
    /\ ItemAction(Drop(Reconciled(mem), i), "delete", i)

DoRetry(i, id) ==
    /\ Unlocked
    /\ Status(i) \in {"queued", "failed"}
    /\ ItemAction([Reconciled(mem) EXCEPT !.rec[i].status = "queued",
                                          !.rec[i].fails = 0,
                                          !.rec[i].retryId = id],
                  "retry", i)

\* Already on top: only a resume is saved, and announced to every project.
DoMoveToTop(i) ==
    /\ Unlocked
    /\ Status(i) \in {"queued", "failed"}
    /\ LET moved == ToTop(Reconciled(mem), i)
       IN  \/ /\ moved.order # mem.order
              /\ ItemAction(moved, "reorder", i)
           \/ /\ moved.order = mem.order
              /\ Paused
              /\ ItemAction(Reconciled(mem), "resume", i)

DoPause(reason) ==
    /\ Unlocked
    /\ Present(mem) # {}
    /\ Open([mem EXCEPT !.paused = reason], "pause", None, "user", FALSE,
            EmptyState)

DoResume(by) ==
    /\ Unlocked
    /\ Open([mem EXCEPT !.paused = "no"], "resume", None, by, FALSE, EmptyState)

\* claimDispatchableItem: the item asked for, or the head of the project.
Claimable(p, i) ==
    LET c == IF i # None THEN i
             ELSE IF QueueOf(p) # <<>> THEN QueueOf(p)[1] ELSE None
    IN  IF ~Paused /\ c # None /\ Status(c) = "queued" THEN c ELSE None

OpenForRun(m, op, i) == Open(m, op, i, "run", FALSE, EmptyState)
Marked(i, status) == [Reconciled(mem) EXCEPT !.rec[i].status = status]

\* The run's mutations look the item up first and leave a queue without it
\* alone; ClaimHeld shows that a claimed item is there and dispatching.
DoClaim(i) == Unlocked /\ OpenForRun(Marked(i, "dispatching"), "claim", i)
DoRelease(i) == Unlocked /\ OpenForRun(Marked(i, "queued"), "release", i)
DoFail(i) == Unlocked /\ OpenForRun(Marked(i, "failed"), "fail", i)
DoComplete(i) == Unlocked /\ OpenForRun(Drop(Reconciled(mem), i), "complete", i)

DoStartupFailure(i) ==
    LET fails == mem.rec[i].fails + 1
        m     == Marked(i, IF fails >= MaxStartupFailures THEN "failed"
                           ELSE "queued")
    IN  /\ Unlocked
        /\ OpenForRun(ToHead([m EXCEPT !.rec[i].fails = fails], i),
                      "startupFail", i)

DoAssociate(i) ==
    Unlocked /\ OpenForRun([mem EXCEPT !.rec[i].assoc = TRUE], "associate", i)

-----------------------------------------------------------------------------
(* Closing a mutation.                                                      *)

\* Seeded fault: a creation is acknowledged before it is saved.
UnsavedCreateFault ==
    /\ ~Unlocked
    /\ disk' = IF pend.op = "create" THEN disk ELSE mem
    /\ pend' = NoMutation
    /\ UNCHANGED mem

SaveDone ==
    /\ ~Unlocked
    /\ disk' = mem
    /\ pend' = NoMutation
    /\ UNCHANGED mem

\* Seeded fault: only the list a creation was appended to is restored.
HalfRollbackFault ==
    /\ ~Unlocked
    /\ mem' = IF pend.op = "create" THEN [mem EXCEPT !.rec = pend.undo.rec] ELSE mem
    /\ pend' = NoMutation
    /\ UNCHANGED disk

\* createItem and updateItem restore what they changed; the others do not.
SaveFailed ==
    /\ ~Unlocked
    /\ mem' = IF pend.op \in {"create", "update"} THEN pend.undo ELSE mem
    /\ pend' = NoMutation
    /\ UNCHANGED disk

\* Seeded fault: the backlog is not held after a restart.
UnpausedRestartFault(d) ==
    [d EXCEPT !.rec = [i \in Items |->
        IF d.rec[i].status = "dispatching"
        THEN [d.rec[i] EXCEPT !.status = "queued"] ELSE d.rec[i]]]

(* initialize, after the process died: an item that was being dispatched   *)
(* is queued again, and a queue that is not empty starts paused.           *)
Reloaded(d) ==
    [d EXCEPT
        !.rec = [i \in Items |->
            IF d.rec[i].status = "dispatching"
            THEN [d.rec[i] EXCEPT !.status = "queued"] ELSE d.rec[i]],
        !.paused = IF Present(d) = {} THEN "no"
                   ELSE IF d.paused = "no" THEN "restart" ELSE d.paused]

\* The file a crash leaves: the rename of a pending save happened or not.
CrashImages == IF Unlocked THEN {disk} ELSE {disk, mem}

\* The repaired state is saved back; a failure of that save is caught with
\* the failures to read the file, and the service starts with no items.
Initialize(image, saved) ==
    LET loaded == Reconciled(Reloaded(image))
    IN  /\ mem' = IF saved \/ Reloaded(image) = image THEN loaded ELSE EmptyState
        /\ disk' = IF saved THEN Reloaded(image) ELSE image
        /\ pend' = NoMutation
=============================================================================
