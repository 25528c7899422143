--------------------------- MODULE ProjectQueue ---------------------------
(***************************************************************************)
(* What the Project Queue promises: properties of the specification in     *)
(* ProjectQueueScheduler, and the fairness its liveness needs.             *)
(***************************************************************************)
EXTENDS ProjectQueueScheduler

-----------------------------------------------------------------------------
(* The store.                                                               *)

WellFormed(m) ==
    /\ \A p \in Projects : \A k \in DOMAIN m.order[p] :
          LET i == m.order[p][k]
          IN  /\ ProjectOf[i] = p
              /\ m.rec[i].status # "absent"
              /\ \A l \in DOMAIN m.order[p] : m.order[p][l] = i => l = k
    /\ \A i \in Present(m) : \E k \in DOMAIN m.order[ProjectOf[i]] :
          m.order[ProjectOf[i]][k] = i

\* Splices, head insertions, rollbacks and restarts never lose an item from
\* its project's order, list it twice or leave a removed one behind, in
\* memory or in the file (ProjectQueueService.ts:1030-1352).
QueueWellFormed == WellFormed(mem) /\ WellFormed(disk)

\* "Empty Project Queue state is always normal/running": no removal and no
\* rollback leaves a hidden pause behind (clearDispatchPauseIfEmpty).
EmptyQueueRuns ==
    /\ mem.paused # "no" => Present(mem) # {}
    /\ disk.paused # "no" => Present(disk) # {}

\* An item is in the file by the time its creation is acknowledged and stays
\* there while it is queued, and a removed one can only come back after a
\* restart if a save failed: memory and file differ by one pending mutation.
FileFollowsMemory ==
    /\ Present(mem) \ Present(disk) \subseteq
         IF pend.op = "create" THEN {pend.item} ELSE {}
    /\ saveFailures = 0 =>
         Present(disk) \ Present(mem) \subseteq
           IF pend.op \in {"delete", "complete"} THEN {pend.item} ELSE {}

\* A saved session is never replaced: an item whose key was admitted still
\* asks for a new session, whatever was edited before the association was
\* written, and an association always names an admitted creation
\* (reconcileCreationAssociations, updateItem).
AdmittedItemKeepsItsSession ==
    \A i \in Items :
        /\ Status(i) # "absent" /\ creation[i].state # "none"
              => mem.rec[i].target = "new"
        /\ mem.rec[i].assoc \/ disk.rec[i].assoc => creation[i].state # "none"

-----------------------------------------------------------------------------
(* Claims.                                                                  *)

ClaimPcs == {"claimed", "recheck", "release", "admit", "assoc", "associated",
             "refused", "launch", "complete", "startupFail"}
HoldsClaim(p) == \/ run[p].pc \in ClaimPcs
                 \/ run[p].pc = "saving" /\ pend.op \in {"claim", "associate"}

\* From its claim until its run gives it up, an item is queued in its own
\* project and marked dispatching: no edit, deletion, retry, reorder or other
\* run takes it away meanwhile (ProjectQueueScheduler.ts:894-921).
ClaimHeld ==
    \A p \in Projects : HoldsClaim(p) =>
        /\ run[p].item # None
        /\ ProjectOf[run[p].item] = p
        /\ Status(run[p].item) = "dispatching"

\* Nothing stays marked dispatching without a run that will settle it,
\* unless a save failed: such an item can be neither edited nor deleted.
DispatchingIsOwned ==
    saveFailures = 0 =>
        \A i \in Items : Status(i) = "dispatching" =>
            InFlight(ProjectOf[i]) /\ run[ProjectOf[i]].item = i

\* A message that reached its session is not given to it again, unless the
\* process died before the completion was saved or the launch failed after the
\* delivery and was made again: once more for each (Supervisor.ts:3151-3161,
\* ProjectQueueScheduler.ts:936-961).
RedeliveriesExplained == \A i \in Items : sent[i] <= 1 + crashes + late[i]

\* "A server restart with persisted Project Queue backlog starts
\* paused-after-restart": until the user acts on the queue, no item found at
\* the restart is claimed, whatever timers and events arrive.
BacklogWaitsForUser ==
    backlog # {} => /\ Paused
                    /\ \A p \in Projects : run[p].item \notin backlog

DispatchPcs == {"launch", "admit", "assoc"}
StartsDispatch(p) == run[p].pc \notin DispatchPcs /\ run'[p].pc \in DispatchPcs
                        /\ run[p].pc \in {"claimed", "recheck"}

\* A user who is starting a session in the project wins over a promotion that
\* is under way, up to the moment it is handed to the supervisor
\* (reserveUserSessionStart and the second idle check).
UserStartWins ==
    [][\A p \in Projects :
        StartsDispatch(p) /\ ~run[p].force => resv[p] = 0 /\ ~Paused]_vars

\* An item is promoted unforced only after the readiness command of the
\* current settings succeeded in its project since it was set: no snapshot of
\* an earlier command, of an aborted check or of a wiped key stands in for it
\* (ProjectQueueScheduler.ts:557-568, 828-916).
ReadinessProved ==
    [][\A p \in Projects :
        StartsDispatch(p) /\ ~run[p].force /\ command # None => p \in proved]_vars

-----------------------------------------------------------------------------
(* Liveness.                                                                *)

\* The promises a run awaits settle, withMutation serves its callers in
\* turn, and an armed timer fires.
Fairness ==
    /\ \A p \in Projects : SF_vars(RunStep(p)) /\ WF_vars(TimerFires(p))
    /\ WF_vars(SaveSucceeds)
    /\ WF_vars(PromoteResumed)

FairSpec == Spec /\ Fairness

\* inFlight is always given back: whatever fails, the project can promote again.
RunsSettle == \A p \in Projects : InFlight(p) ~> ~InFlight(p)

Undisturbed(p) == /\ p \notin turn /\ p \notin ext /\ resv[p] = 0
                  /\ Dispatchable(p) /\ ~AutomationHeld(QueueOf(p)[1])

\* "Blocked automatic attempts must stay live" (topics/project-queue.md:158):
\* when an automatic attempt was stopped and nothing stands in the way of the
\* project any more, another attempt is made (finally block,
\* scheduleBlockedProjectRetry), until the scheduler is disposed.  The code
\* does not keep that sentence in three cases, which clear blocked and are
\* excepted here: a Start now drops the timer and finds nothing to promote
\* (StartNow), a mutation that failed without being rolled back is announced
\* to nobody (Failure), and a move to the top of a project with nothing to
\* promote arms no timer (UserFrame).
BlockedAttemptReturns ==
    \A p \in Projects :
        p \in blocked ~> p \notin blocked \/ ~Undisturbed(p) \/ InFlight(p) \/ disposed

\* An item action that finds the queue paused resumes it everywhere: once its
\* save has returned, every other project with something to promote has a
\* timer or a run (emitItemActionChange).
ResumeReachesOthers ==
    [][pend.resumed /\ SaveSucceeds =>
          \A p \in Projects \ {ProjectOf[pend.item]} :
              Dispatchable(p) /\ ~disposed => p \in timer' \/ InFlight(p)]_vars

\* "The durable Project Queue backlog survives the restart".
BacklogSurvivesRestart ==
    [][crashes' # crashes => Present(disk) \subseteq Present(mem')
                               \/ Present(mem) \subseteq Present(mem')]_vars
-----------------------------------------------------------------------------
(* What makes them inductive.                                               *)

\* s lists the set S, each element once.
Listing(s, S) ==
    /\ s \in Seq(Items)
    /\ \A k \in 1..Len(s) : s[k] \in S
    /\ \A j \in S : \E k \in 1..Len(s) : s[k] = j
    /\ \A k, l \in 1..Len(s) : s[k] = s[l] => k = l

Here(m, p) == {i \in Items : ProjectOf[i] = p /\ m.rec[i].status # "absent"}

\* Startup failures that reached the cap settled the item.
Counted(m) == \A i \in Items : m.rec[i].status # "failed" =>
                                  m.rec[i].fails < MaxStartupFailures

\* A consistent queue: each project's order lists the items it holds, and an
\* empty queue is running.
StateOK(m) ==
    /\ m \in QueueState
    /\ Counted(m)
    /\ \A p \in Projects : Listing(m.order[p], Here(m, p))
    /\ m.paused # "no" => \E i \in Items : m.rec[i].status # "absent"

SameStatus(m, n, i) == \A j \in Items : j # i => n.rec[j].status = m.rec[j].status

\* What a failed save would restore is consistent as well, and differs from
\* the memory only at the item the mutation is about.
UndoOK ==
    pend.op \in {"create", "update"} =>
        /\ StateOK(pend.undo)
        /\ pend.item \in Items
        /\ mem.rec[pend.item].status = "queued"
        /\ pend.undo.rec[pend.item].status # "dispatching"
        /\ SameStatus(mem, pend.undo, pend.item)

StoreInv == ServiceTypeOK /\ StateOK(mem) /\ StateOK(disk) /\ UndoOK

\* Only ids that were created are queued; the ids of createItem are fresh.
CreatedOK == Present(mem) \cup Present(disk) \subseteq created

\* A mutation of a run is awaited by the run of its item's project, and by
\* no other; only a pause and a resume are about no item.
PendingOK ==
    /\ pend.op \notin {"none", "pause", "resume"} => pend.item \in Items
    /\ pend.by = "run" =>
         /\ pend.op \notin {"none", "pause", "resume", "create", "update"}
         /\ run[ProjectOf[pend.item]].pc = "saving"
    /\ \A p \in Projects : run[p].pc = "saving" =>
         pend.by = "run" /\ pend.item = run[p].item

UnclaimedPcs == {"off", "idle", "ready", "claim"}

\* A run is about items of its project: the one asked for, the one claimed.
RunsOK ==
    /\ promo.on => promo.project \in Projects
    /\ \A p \in Projects :
         /\ run[p].want # None => ProjectOf[run[p].want] = p
         /\ run[p].pc \notin UnclaimedPcs =>
              run[p].item \in Items /\ ProjectOf[run[p].item] = p

\* The inductive invariant: whatever user, run, failing save or crash comes
\* next, the store stays consistent and each claim stays with its run.
Consistent == StoreInv /\ CreatedOK /\ PendingOK /\ RunsOK /\ ClaimHeld
Inductive == TypeOK /\ Consistent

-----------------------------------------------------------------------------
(* Why the promises are kept.                                               *)

Undoable == pend.op \in {"create", "update"}

\* A failed save of a creation or an edit undoes that change and nothing else.
UndoExact ==
    Undoable =>
        /\ \A j \in Items \ {pend.item} : pend.undo.rec[j] = mem.rec[j]
        /\ pend.op = "create" => /\ pend.undo.rec[pend.item].status = "absent"
                                 /\ pend.undo.paused = mem.paused

\* An admitted item asks for a new session, and only admitted ones are
\* associated: in memory, in the file a restart would read, and in what a
\* failed save would restore.
SessionKept(m) ==
    \A i \in Items :
        /\ m.rec[i].status # "absent" /\ creation[i].state # "none"
              => m.rec[i].target = "new"
        /\ m.rec[i].assoc => creation[i].state # "none"

SessionsKept ==
    /\ SessionKept(mem) /\ SessionKept(disk)
    /\ Undoable => SessionKept(pend.undo)

\* The file has the target the memory has, except during an edit.
SameTarget(m, n, i) ==
    m.rec[i].status # "absent" /\ n.rec[i].status # "absent"
        => m.rec[i].target = n.rec[i].target

TargetsFollow ==
    \A i \in Items :
        /\ ~(pend.op = "update" /\ pend.item = i) => SameTarget(mem, disk, i)
        /\ Undoable => SameTarget(pend.undo, disk, i)

\* What a run decided at its dispatch stays true until it acts on it, and
\* only items that were created are admitted.
AdmissionsFit ==
    /\ \A p \in Projects :
          /\ run[p].pc = "admit" => mem.rec[run[p].item].target = "new"
          /\ run[p].pc = "assoc" => creation[run[p].item].state # "none"
    /\ \A i \in Items \ created : creation[i].state = "none"

\* The run of an item that is being dispatched still claims it, or is about to
\* fail it.
ClaimsOwned ==
    saveFailures = 0 =>
        \A i \in Items : Status(i) = "dispatching" =>
            LET p == ProjectOf[i]
            IN  run[p].item = i /\ (HoldsClaim(p) \/ run[p].pc = "fail")

\* An item whose last delivery was acknowledged since the last crash has left
\* the memory, or its run is about to remove it.
Completing(i) == run[ProjectOf[i]].pc = "complete" /\ run[ProjectOf[i]].item = i
DeliveriesCounted ==
    \A i \in Items :
        /\ sent[i] <= 1 + crashes + late[i]
        /\ i \notin created => sent[i] = 0
        /\ i \in Present(mem) /\ ~Completing(i) => sent[i] <= crashes + late[i]

\* Nothing runs before the user has acted on a backlog, and an edit is such
\* an action.
BacklogHeld ==
    backlog # {} => /\ Paused /\ pend.op # "update"
                    /\ \A p \in Projects : run[p] = NoRun

\* A snapshot under a key is of the current command, and a run that passed its
\* readiness check and finds such a snapshot passed it for that command.
ReadinessKnown ==
    \A p \in Projects :
        /\ snap[p].key \in {None, command}
        /\ run[p].pc \notin {"off", "idle", "ready"} /\ ~run[p].force
           /\ snap[p].key # None => p \in proved

\* A pause resumes nothing.
ResumesAnnounced == pend.resumed => pend.op # "pause"

StorePromises ==
    FileFollowsMemory /\ UndoExact /\ SessionsKept /\ TargetsFollow /\ AdmissionsFit
RunPromises ==
    /\ ClaimsOwned
    /\ DeliveriesCounted
    /\ BacklogHeld
    /\ ReadinessKnown
    /\ ResumesAnnounced

\* Everything the queue relies on: the consistent store, and what memory, file,
\* creations and runs know of each other.
QueueInductive == Inductive /\ StorePromises /\ RunPromises
=============================================================================
