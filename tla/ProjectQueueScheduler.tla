----------------------- MODULE ProjectQueueScheduler -----------------------
(***************************************************************************)
(* Promotion of Project Queue items,                                       *)
(* packages/server/src/services/ProjectQueueScheduler.ts, together with    *)
(* the store it drives (ProjectQueueService), the users who edit the       *)
(* queue, the work that keeps a project busy, crashes and failing saves.   *)
(*                                                                         *)
(* Each project has at most one timer and one run (inFlight).  A run is    *)
(* the async function runProjectNow: its program counter names the await   *)
(* it is suspended at, and every action below is the synchronous code      *)
(* between two awaits.  Delays are abstracted: an armed timer may fire at  *)
(* any time.                                                               *)
(***************************************************************************)
EXTENDS ProjectQueueService, FiniteSets

CONSTANTS
    Commands,        \* readiness commands the settings may name
    Promotable,      \* bound: what Start now may ask for (ids or None)
    Forcible,        \* bound: values of its force option
    Pausable,        \* bound: reasons a pause may be asked for
    Targetable,      \* bound: targets the users choose from
    Disturbances,    \* bound: what happens around the queue
    MaxReservations, \* bound: user session starts in progress per project
    MaxCrashes,      \* bound: process deaths
    MaxSaveFailures, \* bound: failing writes of project-queues.json
    MaxLateFailures  \* bound: launches of one item that fail after delivering

ASSUME SchedulerAssumption ==
    /\ None \notin Commands
    /\ Promotable \subseteq Items \cup {None}
    /\ Forcible \subseteq BOOLEAN
    /\ Pausable \subseteq {"manual", "restart"}
    /\ Targetable \subseteq Targets
    /\ Disturbances \subseteq
         {"turn", "external", "hold", "activity", "creation", "dispose"}
    /\ MaxReservations \in Nat
    /\ MaxCrashes \in Nat
    /\ MaxSaveFailures \in Nat
    /\ MaxLateFailures \in Nat

VARIABLES
    timer,     \* projects whose timer is armed
    run,       \* the run in flight in each project
    promo,     \* a Start now waiting for resumeDispatch
    disposed,  \* the scheduler was disposed
    command,   \* the readiness command in the settings
    snap,      \* the readiness snapshot of each project
    aborted,   \* projects whose readiness check was told to stop
    turn,      \* projects in which our own sessions work
    ext,       \* projects in which another program's session works
    resv,      \* user session starts in progress
    held,      \* items whose session has its automation paused
    \* History, read by the properties and by no guard of the code.
    sent,      \* deliveries of each existing-session item to its provider
    late,      \* those of them whose launch then failed
    crashes, saveFailures, created, retries,
    backlog,   \* items found at the last restart, until the user acts
    blocked,   \* projects whose last automatic attempt ended blocked
    proved     \* projects in which the current command has succeeded

schedVars == <<timer, run, promo, disposed>>
readyVars == <<command, snap, aborted>>
envVars == <<turn, ext, resv, held>>
counters == <<sent, late, crashes, saveFailures, created, retries>>
histVars == <<counters, backlog, blocked, proved>>
vars == <<serviceVars, schedVars, readyVars, envVars, histVars>>

(* Where a run is: "idle", "ready" and "recheck" await the idle predicate, *)
(* the readiness command and the idle predicate again; "claim", "release", *)
(* "assoc", "complete", "fail" and "startupFail" wait for their turn to    *)
(* mutate the store and "saving" for the save; "claimed", "associated",    *)
(* "released", "refused" and "done" follow a mutation; "admit" and         *)
(* "launch" await the supervisor.                                          *)
Pcs == {"off", "idle", "ready", "claim", "claimed", "recheck", "release",
        "released", "admit", "assoc", "associated", "refused", "launch",
        "complete", "fail", "startupFail", "saving", "done"}

\* want is the id asked for, item the one claimed; busy is the part of the
\* idle predicate read before its await; seen the saved creation's state.
Runs == [pc : Pcs, want : Items \cup {None}, item : Items \cup {None},
         auto : BOOLEAN, force : BOOLEAN, busy : BOOLEAN,
         key : Commands \cup {None}, seen : Creations]
NoRun == [pc |-> "off", want |-> None, item |-> None, auto |-> FALSE,
          force |-> FALSE, busy |-> FALSE, key |-> None, seen |-> "none"]

Promos == [on : BOOLEAN, project : Projects \cup {None},
           want : Items \cup {None}, force : BOOLEAN]
NoPromo == [on |-> FALSE, project |-> None, want |-> None, force |-> FALSE]

\* No key: there is no snapshot, or a settings change wiped its commandKey.
Snaps == [key : Commands \cup {None}, ok : BOOLEAN]
NoSnap == [key |-> None, ok |-> FALSE]

SchedTypeOK ==
    /\ timer \subseteq Projects
    /\ run \in [Projects -> Runs]
    /\ promo \in Promos
    /\ disposed \in BOOLEAN

ReadyTypeOK ==
    /\ command \in Commands \cup {None}
    /\ snap \in [Projects -> Snaps]
    /\ aborted \subseteq Projects

EnvTypeOK ==
    /\ turn \subseteq Projects
    /\ ext \subseteq Projects
    /\ resv \in [Projects -> 0..MaxReservations]
    /\ held \subseteq Items

HistTypeOK ==
    /\ sent \in [Items -> Nat]
    /\ late \in [Items -> 0..MaxLateFailures]
    /\ crashes \in 0..MaxCrashes
    /\ saveFailures \in 0..MaxSaveFailures
    /\ created \subseteq Items
    /\ retries \in [Items -> 0..MaxRetries]
    /\ backlog \subseteq Items
    /\ blocked \subseteq Projects
    /\ proved \subseteq Projects

TypeOK == ServiceTypeOK /\ SchedTypeOK /\ ReadyTypeOK /\ EnvTypeOK /\ HistTypeOK

Init ==
    /\ ServiceInit
    /\ timer = {}
    /\ run = [p \in Projects |-> NoRun]
    /\ promo = NoPromo
    /\ disposed = FALSE
    /\ command \in Commands \cup {None}
    /\ snap = [p \in Projects |-> NoSnap]
    /\ aborted = {}
    /\ turn = {}
    /\ ext = {}
    /\ resv = [p \in Projects |-> 0]
    /\ held = {}
    /\ sent = [i \in Items |-> 0]
    /\ late = [i \in Items |-> 0]
    /\ crashes = 0
    /\ saveFailures = 0
    /\ created = {}
    /\ retries = [i \in Items |-> 0]
    /\ backlog = {}
    /\ blocked = {}
    /\ proved = {}

InFlight(p) == run[p].pc # "off"
DispatchableSet == {p \in Projects : Dispatchable(p)}
WithItems == {ProjectOf[i] : i \in Present(mem)}

-----------------------------------------------------------------------------
(* Timers and the reaction to events.                                       *)

\* The projects of ps that scheduleProject arms: a request for a project
\* with a run in flight is dropped.
Armed(ps) == {p \in ps : Dispatchable(p) /\ ~InFlight(p)}

\* scheduleProjectIfDispatchable for the projects of sched: one with nothing
\* to promote is disarmed and its readiness state dropped.  For those of
\* disarm (dispatching, promoted, failed, reordered) it is only disarmed.
Announce(sched, disarm) ==
    IF disposed THEN UNCHANGED <<timer, snap, aborted>>
    ELSE /\ timer' = (timer \ ((sched \cup disarm) \ DispatchableSet))
                        \cup Armed(sched)
         /\ snap' = [p \in Projects |->
                       IF p \in sched \ DispatchableSet THEN NoSnap ELSE snap[p]]
         /\ aborted' = aborted \cup
               {p \in sched \ DispatchableSet : run[p].pc = "ready"}
Schedule(p) == Announce({p}, {})

PauseAll ==
    /\ timer' = IF disposed THEN timer ELSE timer \ WithItems
    /\ aborted' = IF disposed THEN aborted
                  ELSE aborted \cup {p \in WithItems : run[p].pc = "ready"}
    /\ UNCHANGED snap

\* Seeded fault: an item action that resumed announces only its own item.
OwnProjectOnlyFault ==
    CASE pend.op = "pause" -> PauseAll
      [] pend.op = "resume" -> Announce(WithItems, {})
      [] OTHER -> Announce({ProjectOf[pend.item]}, {})

\* handleEvent for the project-queue-changed events of the closed mutation.
\* An item action that resumed dispatch tells every OTHER project "resumed".
OnQueueChanged ==
    LET own    == {ProjectOf[pend.item]}
        others == IF pend.resumed THEN WithItems \ own ELSE {}
        live   == \/ pend.op \in {"create", "update", "delete", "retry",
                                 "release", "associate"}
                  \/ pend.op = "startupFail" /\ Status(pend.item) = "queued"
    IN  CASE pend.op = "pause" -> PauseAll
          [] pend.op = "resume" -> Announce(WithItems, {})
          [] live -> Announce(own \cup others, {})
          [] OTHER -> Announce(others, own)

\* Seeded fault: a blocked attempt arms no retry.
NoRetryFault(p, retry, s) ==
    /\ run' = [run EXCEPT ![p] = NoRun]
    /\ snap' = IF command # None /\ ~disposed /\ QueueOf(p) = <<>>
               THEN [s EXCEPT ![p] = NoSnap] ELSE s
    /\ aborted' = aborted \ {p}
    /\ blocked' = IF retry /\ run[p].auto THEN blocked \cup {p}
                  ELSE blocked \ {p}
    /\ UNCHANGED timer

\* The finally block of runProjectNow; s is the readiness state it leaves.
EndRun(p, retry, s) ==
    /\ run' = [run EXCEPT ![p] = NoRun]
    /\ timer' = IF retry /\ ~disposed /\ Dispatchable(p) THEN timer \cup {p}
                ELSE timer
    /\ snap' = IF command # None /\ ~disposed /\ QueueOf(p) = <<>>
               THEN [s EXCEPT ![p] = NoSnap] ELSE s
    /\ aborted' = aborted \ {p}
    /\ blocked' = IF retry /\ run[p].auto THEN blocked \cup {p}
                  ELSE blocked \ {p}

-----------------------------------------------------------------------------
(* Starting a run.                                                          *)

\* hasRunnableQueuedItem
Runnable(p, i) == IF i = None THEN Dispatchable(p)
                  ELSE ProjectOf[i] = p /\ Status(i) = "queued"
NextItem(p, i) == IF i # None THEN i ELSE QueueOf(p)[1]
AutomationHeld(i) == mem.rec[i].target = "existing" /\ i \in held

\* Seeded fault: inFlight is not consulted.
SecondRunFault(p, i, auto, force) ==
    /\ timer' = timer \ {p}
    /\ run' = IF ~disposed /\ ~Paused /\ Runnable(p, i)
              THEN [run EXCEPT ![p] =
                     [NoRun EXCEPT !.pc = "idle", !.want = i, !.auto = auto]]
              ELSE run

\* The synchronous part of runProjectNow; its callers cleared the timer.
StartRun(p, i, auto, force) ==
    /\ timer' = timer \ {p}
    /\ run' = IF /\ ~disposed /\ ~InFlight(p) /\ ~Paused
                 /\ Runnable(p, i)
                 /\ ~(auto /\ AutomationHeld(NextItem(p, i)))
              THEN [run EXCEPT ![p] =
                     [NoRun EXCEPT !.pc = IF force THEN "claim" ELSE "idle",
                                   !.want = i, !.auto = auto, !.force = force,
                                   !.busy = p \in turn \cup ext /\ ~force,
                                   !.key = IF force THEN command ELSE None]]
              ELSE run

TimerFires(p) ==
    /\ p \in timer
    /\ StartRun(p, None, TRUE, FALSE)
    /\ UNCHANGED <<serviceVars, promo, disposed, readyVars, envVars, histVars>>

\* A Start now drops the armed retry before it looks for its item: when it
\* finds none to promote, nothing follows the attempt that was blocked.
StartNow(p, i, force) ==
    /\ StartRun(p, i, FALSE, force)
    /\ blocked' = IF run'[p].pc = "off" THEN blocked \ {p} ELSE blocked

\* promoteNow: a paused dispatch is first resumed when the item may run.
PromoteNow(p, i, force) ==
    LET asked  == IF i # None \/ QueueOf(p) = <<>> THEN i ELSE QueueOf(p)[1]
        resume == /\ Paused /\ asked # None
                  /\ ProjectOf[asked] = p /\ Status(asked) = "queued"
    IN  /\ ~promo.on
        /\ i # None => i \in created
        /\ \/ /\ resume
              /\ DoResume("promote")
              /\ promo' = [on |-> TRUE, project |-> p, want |-> i, force |-> force]
              /\ UNCHANGED <<timer, run, blocked>>
           \/ /\ ~resume
              /\ StartNow(p, i, force)
              /\ UNCHANGED <<serviceVars, promo>>
        /\ backlog' = {}
        /\ UNCHANGED <<disposed, readyVars, envVars, counters, proved>>

\* Its continuation once the resume was saved.
PromoteResumed ==
    /\ promo.on
    /\ pend.by # "promote"
    /\ StartNow(promo.project, promo.want, promo.force)
    /\ promo' = NoPromo
    /\ UNCHANGED <<serviceVars, disposed, readyVars, envVars, counters, backlog,
                   proved>>

-----------------------------------------------------------------------------
(* A run up to its claim.                                                   *)

\* What the run's other clauses leave alone.
RunFrame == UNCHANGED <<promo, disposed, command, envVars, crashes,
                        saveFailures, created, retries, backlog, proved>>
Settle(p, retry) == EndRun(p, retry, snap)
Goto(p, pc) ==
    /\ run' = [run EXCEPT ![p].pc = pc]
    /\ UNCHANGED <<timer, snap, aborted, blocked>>

\* Our own and the external sessions were listed when the check began; user
\* session starts are asked when its awaits end.
Quiet(p) == ~run[p].busy /\ resv[p] = 0

\* With a readiness command an automatic attempt may come too soon after the
\* last check; otherwise the check starts.
IdleChecked(p) ==
    /\ run[p].pc = "idle"
    /\ \/ /\ ~Quiet(p)
          /\ Settle(p, TRUE)
       \/ /\ Quiet(p) /\ command = None
          /\ Goto(p, "claim")
       \/ /\ Quiet(p) /\ command # None /\ run[p].auto
          /\ Settle(p, TRUE)
       \/ /\ Quiet(p) /\ command # None
          /\ run' = [run EXCEPT ![p].pc = "ready", ![p].key = command]
          /\ snap' = [snap EXCEPT ![p].key = command]
          /\ UNCHANGED <<timer, aborted, blocked>>
    /\ UNCHANGED <<serviceVars, sent, late>>
    /\ RunFrame

\* Seeded fault: the answer of an older command is believed.
StaleAnswerFault(p, ok) ==
    LET known == [snap EXCEPT ![p] = [key |-> command, ok |-> ok]]
    IN  /\ run[p].pc = "ready"
        /\ IF ok /\ ~disposed /\ ~Paused
           THEN /\ run' = [run EXCEPT ![p].pc = "claim", ![p].key = command]
                /\ snap' = known
                /\ UNCHANGED <<timer, aborted, blocked>>
           ELSE EndRun(p, TRUE, known)
        /\ proved' = IF ok /\ p \notin aborted THEN proved \cup {p} ELSE proved
        /\ UNCHANGED <<serviceVars, promo, disposed, command, envVars, counters,
                       backlog>>

\* The command answered, timed out or was stopped.  After a success an
\* automatic attempt still waits until the quiet window has passed.
ReadinessChecked(p, ok) ==
    LET known == [snap EXCEPT ![p] = [key |-> run[p].key, ok |-> ok]]
        stale == p \in aborted \/ run[p].key # command
    IN  /\ run[p].pc = "ready"
        /\ \/ /\ disposed \/ Paused
              /\ Settle(p, FALSE)
           \/ /\ ~disposed /\ ~Paused /\ stale
              /\ Settle(p, TRUE)
           \/ /\ ~disposed /\ ~Paused /\ ~stale /\ (~ok \/ run[p].auto)
              /\ EndRun(p, TRUE, known)
           \/ /\ ~disposed /\ ~Paused /\ ~stale /\ ok
              /\ run' = [run EXCEPT ![p].pc = "claim"]
              /\ snap' = known
              /\ UNCHANGED <<timer, aborted, blocked>>
        /\ proved' = IF ok /\ ~stale THEN proved \cup {p} ELSE proved
        /\ UNCHANGED <<serviceVars, promo, disposed, command, envVars, counters,
                       backlog>>

\* Opening a mutation for the run of p.
Mutate(p, i) ==
    /\ run' = [run EXCEPT ![p].pc = "saving", ![p].item = i]
    /\ UNCHANGED <<timer, snap, aborted, blocked, sent, late>>
    /\ RunFrame

ClaimItem(p) ==
    LET c == Claimable(p, run[p].want)
    IN  /\ run[p].pc = "claim"
        /\ \/ /\ c # None
              /\ DoClaim(c)
              /\ Mutate(p, c)
           \/ /\ c = None /\ Unlocked
              /\ Settle(p, FALSE)
              /\ UNCHANGED <<serviceVars, sent, late>>
              /\ RunFrame

\* dispatchItem up to its first await.  creationSessionId must match a saved
\* creation, and an admitted item cannot go to another session.
BeginDispatch(p) ==
    LET i     == run[p].item
        r     == mem.rec[i]
        state == creation[i].state
    IN  run' = [run EXCEPT
            ![p].seen = state,
            ![p].pc = IF r.assoc /\ (r.target = "existing" \/ state = "none") THEN "fail"
                      ELSE IF r.target = "existing" THEN "launch"
                      ELSE IF state = "none" THEN "admit"
                      ELSE "assoc"]

\* claimed: force skips the second look at the idle predicate.
Claimed(p) ==
    /\ run[p].pc = "claimed"
    /\ \/ /\ run[p].force
          /\ BeginDispatch(p)
       \/ /\ ~run[p].force
          /\ run' = [run EXCEPT ![p].pc = "recheck", ![p].busy = p \in turn \cup ext]
    /\ UNCHANGED <<serviceVars, timer, snap, aborted, blocked, sent, late>>
    /\ RunFrame

\* getProjectIdleStatus adds the readiness snapshot to the predicate.
StillIdle(p) ==
    /\ Quiet(p)
    /\ command # None => snap[p].key = command /\ snap[p].ok

\* Seeded fault: the claim is dispatched without a second look.
NoRecheckFault(p) ==
    /\ run[p].pc = "recheck"
    /\ IF disposed \/ Paused THEN run' = [run EXCEPT ![p].pc = "release"]
                             ELSE BeginDispatch(p)
    /\ UNCHANGED <<serviceVars, timer, snap, aborted, blocked, sent, late>>
    /\ RunFrame

Rechecked(p) ==
    /\ run[p].pc = "recheck"
    /\ \/ /\ StillIdle(p) /\ ~disposed /\ ~Paused /\ run[p].key = command
          /\ BeginDispatch(p)
       \/ /\ ~(StillIdle(p) /\ ~disposed /\ ~Paused /\ run[p].key = command)
          /\ run' = [run EXCEPT ![p].pc = "release"]
    /\ UNCHANGED <<serviceVars, timer, snap, aborted, blocked, sent, late>>
    /\ RunFrame

-----------------------------------------------------------------------------
(* Dispatch.                                                                *)

Deliver(i) == sent' = [sent EXCEPT ![i] = @ + 1]

\* Seeded fault: an answer that came late is taken for a failed start.
LateAnswerFault(p) ==
    /\ run[p].pc = "launch" /\ mem.rec[run[p].item].target = "existing"
    /\ Goto(p, "startupFail")
    /\ Deliver(run[p].item)
    /\ UNCHANGED <<serviceVars, late>>
    /\ RunFrame

\* The supervisor's answer for an item of an existing session: it took the
\* input, refused it for good, or could not start the provider.  A launch may
\* also fail once the provider has the message: what follows the delivery, the
\* save of the session's boundary, is awaited too.
LaunchExisting(p) ==
    LET i == run[p].item
    IN  /\ run[p].pc = "launch" /\ mem.rec[i].target = "existing"
        /\ \/ /\ Goto(p, "complete")
              /\ Deliver(i)
              /\ UNCHANGED late
           \/ /\ Goto(p, "startupFail") \/ Goto(p, "fail")
              /\ \/ UNCHANGED <<sent, late>>
                 \/ /\ \A j \in Items : late[j] < MaxLateFailures
                    /\ Deliver(i)
                    /\ late' = [late EXCEPT ![i] = @ + 1]
        /\ UNCHANGED serviceVars
        /\ RunFrame

\* startSession admits the creation under the item's key, or is refused.
AdmitCreation(p) ==
    LET i == run[p].item
    IN  /\ run[p].pc = "admit"
        /\ \/ /\ Goto(p, "assoc")
              /\ creation' = [creation EXCEPT ![i].state = "open"]
           \/ /\ Goto(p, "fail")
              /\ UNCHANGED creation
        /\ UNCHANGED <<mem, disk, pend, sent, late>>
        /\ RunFrame

\* authorize may refuse; recordSessionCreation wants the item dispatching.
AssociateItem(p) ==
    /\ run[p].pc = "assoc"
    /\ \/ /\ Status(run[p].item) = "dispatching"
          /\ DoAssociate(run[p].item)
          /\ Mutate(p, run[p].item)
       \/ /\ Goto(p, "refused")
          /\ UNCHANGED <<serviceVars, sent, late>>
          /\ RunFrame

\* A refusal before the launch settles a fresh admission as not-admitted.
Refused(p) ==
    LET i == run[p].item
    IN  /\ run[p].pc = "refused"
        /\ Goto(p, "fail")
        /\ creation' = IF run[p].seen = "none" /\ creation[i].state = "open"
                       THEN [creation EXCEPT ![i].state = "failed"]
                       ELSE creation
        /\ UNCHANGED <<mem, disk, pend, sent, late>>
        /\ RunFrame

\* dispatchDurableNewSession after the association, judging the state it
\* read before it: a first admission and an explicit retry of a proved
\* failure are launched, a running or confirmed one is only reported, any
\* other is never replayed.
Associated(p) ==
    LET i    == run[p].item
        seen == run[p].seen
        id   == mem.rec[i].retryId
        redo == seen = "failed" /\ id > creation[i].spent
                    /\ creation[i].state = "failed"
    IN  /\ run[p].pc = "associated"
        /\ \/ /\ seen = "none"
              /\ Goto(p, "launch")
              /\ UNCHANGED creation
           \/ /\ seen \in {"open", "consumed"}
              /\ Goto(p, "complete")
              /\ UNCHANGED creation
           \/ /\ redo
              /\ Goto(p, "launch")
              /\ creation' = [creation EXCEPT ![i] = [state |-> "open", spent |-> id]]
           \/ /\ seen \in {"uncertain", "failed"} /\ ~redo
              /\ Goto(p, "fail")
              /\ UNCHANGED creation
        /\ UNCHANGED <<mem, disk, pend, sent, late>>
        /\ RunFrame

\* startSession or startSavedSession returns a process or a place in the
\* worker queue, or throws: before the provider was started the admission
\* has failed, after it the outcome is uncertain.
LaunchNew(p) ==
    LET i == run[p].item
    IN  /\ run[p].pc = "launch" /\ mem.rec[i].target = "new"
        /\ \/ /\ creation[i].state # "failed"
              /\ Goto(p, "complete")
              /\ UNCHANGED creation
           \/ /\ Goto(p, "fail")
              /\ creation' \in
                   {[creation EXCEPT ![i].state = s] :
                      s \in IF creation[i].state = "open"
                            THEN {"failed", "uncertain"}
                            ELSE {creation[i].state}}
        /\ UNCHANGED <<mem, disk, pend, sent, late>>
        /\ RunFrame

-----------------------------------------------------------------------------
(* The end of a run.                                                        *)

CompleteItem(p) ==
    /\ run[p].pc = "complete"
    /\ DoComplete(run[p].item)
    /\ Mutate(p, run[p].item)

ReleaseItem(p) ==
    /\ run[p].pc = "release"
    /\ DoRelease(run[p].item)
    /\ Mutate(p, run[p].item)

StartupFailure(p) ==
    /\ run[p].pc = "startupFail"
    /\ DoStartupFailure(run[p].item)
    /\ Mutate(p, run[p].item)

\* Seeded fault: failing an item that is gone does not return.
FailMissingFault(p) ==
    /\ run[p].pc = "fail"
    /\ Status(run[p].item) # "absent"
    /\ DoFail(run[p].item)
    /\ Mutate(p, run[p].item)

\* failDispatch finds no item when a completion failed after removing it.
FailItem(p) ==
    /\ run[p].pc = "fail"
    /\ \/ /\ Status(run[p].item) # "absent"
          /\ DoFail(run[p].item)
          /\ Mutate(p, run[p].item)
       \/ /\ Status(run[p].item) = "absent" /\ Unlocked
          /\ Settle(p, FALSE)
          /\ UNCHANGED <<serviceVars, sent, late>>
          /\ RunFrame

RunEnds(p) ==
    /\ run[p].pc \in {"released", "done"}
    /\ Settle(p, run[p].pc = "released")
    /\ UNCHANGED <<serviceVars, sent, late>>
    /\ RunFrame

RunStep(p) ==
    \/ IdleChecked(p)
    \/ \E ok \in BOOLEAN : ReadinessChecked(p, ok)
    \/ ClaimItem(p) \/ Claimed(p) \/ Rechecked(p)
    \/ LaunchExisting(p) \/ LaunchNew(p)
    \/ AdmitCreation(p) \/ AssociateItem(p) \/ Refused(p) \/ Associated(p)
    \/ CompleteItem(p) \/ ReleaseItem(p) \/ StartupFailure(p) \/ FailItem(p)
    \/ RunEnds(p)

-----------------------------------------------------------------------------
(* The pending save and the caller that awaits it.                          *)

Awaiting(pc) ==
    run' = IF pend.by = "run"
           THEN [run EXCEPT ![ProjectOf[pend.item]].pc = pc] ELSE run

SaveSucceeds ==
    /\ SaveDone
    /\ OnQueueChanged
    /\ Awaiting(CASE pend.op = "claim"     -> "claimed"
                  [] pend.op = "associate" -> "associated"
                  [] pend.op = "release"   -> "released"
                  [] pend.op = "startupFail" /\ Status(pend.item) = "queued" ->
                       "released"
                  [] OTHER                 -> "done")
    /\ UNCHANGED <<creation, promo, disposed, command, envVars, histVars>>

\* Where a failure leaves the run: claim has no item to fail yet, and the
\* mutations of the catch block are not retried.
OnFailure == CASE pend.op \in {"release", "complete"} -> "fail"
               [] pend.op = "associate" -> "refused"
               [] OTHER -> "done"

\* A mutation that fails and is not rolled back tells nobody what it changed.
Failure ==
    /\ saveFailures < MaxSaveFailures
    /\ saveFailures' = saveFailures + 1
    /\ Awaiting(OnFailure)
    /\ blocked' = IF mem' # mem THEN blocked
                  ELSE IF pend.resumed \/ pend.op = "resume" THEN {}
                  ELSE {p \in blocked : pend.item = None \/ ProjectOf[pend.item] # p}
    /\ UNCHANGED <<creation, timer, disposed, readyVars, envVars, sent, late,
                   crashes, created, retries, backlog, proved>>

SaveFails ==
    /\ SaveFailed
    /\ promo' = IF pend.by = "promote" THEN NoPromo ELSE promo
    /\ Failure

\* Removing the attachments of an item fails after its state was saved: the
\* caller sees an error and no event is emitted.
CleanupFails ==
    /\ pend.op \in {"update", "delete", "complete"}
    /\ SaveDone
    /\ UNCHANGED promo
    /\ Failure

-----------------------------------------------------------------------------
(* Users.                                                                   *)

\* Moved to the top of a project with nothing to promote, an item arms no
\* timer: "reordered" only ever disarms.
UserFrame ==
    /\ blocked' = IF /\ pend'.op = "reorder"
                     /\ ~Dispatchable(ProjectOf[pend'.item])
                  THEN blocked \ {ProjectOf[pend'.item]} ELSE blocked
    /\ UNCHANGED <<schedVars, readyVars, envVars, sent, late, crashes,
                   saveFailures, proved>>

CreateItem(i, target) ==
    /\ i \notin created
    /\ DoCreate(i, target)
    /\ created' = created \cup {i}
    /\ UNCHANGED <<retries, backlog>>
    /\ UserFrame

\* Every other action on an item shows that the user saw the queue.
UpdateItem(i, target) ==
    DoUpdate(i, target) /\ backlog' = {} /\ UNCHANGED <<created, retries>> /\ UserFrame
DeleteItem(i) ==
    DoDelete(i) /\ backlog' = {} /\ UNCHANGED <<created, retries>> /\ UserFrame
MoveItemToTop(i) ==
    DoMoveToTop(i) /\ backlog' = {} /\ UNCHANGED <<created, retries>> /\ UserFrame
ResumeDispatch ==
    DoResume("user") /\ backlog' = {} /\ UNCHANGED <<created, retries>> /\ UserFrame
PauseDispatch(reason) ==
    DoPause(reason) /\ UNCHANGED <<created, retries, backlog>> /\ UserFrame

RetryItem(i) ==
    /\ retries[i] < MaxRetries
    /\ retries' = [retries EXCEPT ![i] = @ + 1]
    /\ DoRetry(i, retries[i] + 1)
    /\ backlog' = {}
    /\ UNCHANGED created
    /\ UserFrame

UserStep ==
    \/ \E i \in Items :
          \/ \E target \in Targetable : CreateItem(i, target) \/ UpdateItem(i, target)
          \/ DeleteItem(i) \/ MoveItemToTop(i) \/ RetryItem(i)
    \/ ResumeDispatch
    \/ \E reason \in Pausable : PauseDispatch(reason)
    \/ \E p \in Projects, i \in Promotable, force \in Forcible :
          PromoteNow(p, i, force)

-----------------------------------------------------------------------------
(* The rest of the server.                                                  *)

EnvFrame == UNCHANGED <<serviceVars, run, promo, disposed, command, histVars>>

\* process-state-changed, session-created, queue-request-added, ...
TurnStarts(p) ==
    /\ turn' = turn \cup {p}
    /\ Schedule(p)
    /\ UNCHANGED <<ext, resv, held>>
    /\ EnvFrame

TurnEnds(p) ==
    /\ turn' = turn \ {p}
    /\ Schedule(p)
    /\ UNCHANGED <<ext, resv, held>>
    /\ EnvFrame

\* session-status-changed announces another program's session; its ownership
\* later decays without an event.
ExternalStarts(p) ==
    /\ ext' = ext \cup {p}
    /\ Schedule(p)
    /\ UNCHANGED <<turn, resv, held>>
    /\ EnvFrame

ExternalDecays(p) ==
    /\ ext' = ext \ {p}
    /\ UNCHANGED <<turn, resv, held, timer, snap, aborted>>
    /\ EnvFrame

\* reserveUserSessionStart and the release it returns.
ReserveUserStart(p) ==
    /\ ~disposed
    /\ resv[p] < MaxReservations
    /\ resv' = [resv EXCEPT ![p] = @ + 1]
    /\ timer' = timer \ {p}
    /\ UNCHANGED <<snap, aborted, turn, ext, held>>
    /\ EnvFrame

ReleaseUserStart(p) ==
    /\ resv[p] > 0
    /\ resv' = [resv EXCEPT ![p] = @ - 1]
    /\ Schedule(p)
    /\ UNCHANGED <<turn, ext, held>>
    /\ EnvFrame

\* automationPausedUntilUserTurn of the item's session, set by a session
\* boundary and lifted by a user turn; neither is announced on the bus.
HoldAutomation(i) ==
    /\ i \notin held
    /\ held' = held \cup {i}
    /\ UNCHANGED <<turn, ext, resv, timer, snap, aborted>>
    /\ EnvFrame

LiftHold(i) ==
    /\ i \in held /\ ProjectOf[i] \in turn
    /\ held' = held \ {i}
    /\ UNCHANGED <<turn, ext, resv, timer, snap, aborted>>
    /\ EnvFrame

\* worker-activity-changed, queue-position-changed, ...
ServerActivity ==
    /\ ~disposed
    /\ timer' = timer \cup Armed(DispatchableSet)
    /\ UNCHANGED <<envVars, snap, aborted>>
    /\ EnvFrame

\* readinessSettingsChanged
SetCommand(c) ==
    /\ c # command
    /\ command' = c
    /\ aborted' = aborted \cup {p \in Projects : run[p].pc = "ready"}
    /\ snap' = [p \in Projects |-> [snap[p] EXCEPT !.key = None]]
    /\ timer' = IF disposed THEN timer ELSE timer \cup Armed(DispatchableSet)
    /\ proved' = {}
    /\ UNCHANGED <<serviceVars, run, promo, disposed, envVars, counters,
                   backlog, blocked>>

\* What the creation's own owner may do to it meanwhile.
Advances == [open |-> {"consumed", "uncertain", "failed"},
             uncertain |-> {"consumed"}, failed |-> {"open"},
             none |-> {}, consumed |-> {}]
CreationAdvances(i) ==
    /\ \E s \in Advances[creation[i].state] :
          creation' = [creation EXCEPT ![i].state = s]
    /\ UNCHANGED <<mem, disk, pend, schedVars, readyVars, envVars, histVars>>

Dispose ==
    /\ ~disposed
    /\ disposed' = TRUE
    /\ timer' = {}
    /\ resv' = [p \in Projects |-> 0]
    /\ aborted' = aborted \cup {p \in Projects : run[p].pc = "ready"}
    /\ UNCHANGED <<serviceVars, run, promo, command, snap, turn, ext, held, histVars>>

\* recoverOwnerLoss settles what the dead controller left open.
OwnerLost == {c \in [Items -> CreationRec] : \A i \in Items :
                 IF creation[i].state # "open" THEN c[i] = creation[i]
                 ELSE \E s \in {"failed", "uncertain"} :
                        c[i] = [creation[i] EXCEPT !.state = s]}

\* The process dies at any point and starts again: initialize, then a new
\* scheduler.  saved says whether the save of the repaired state succeeded.
Restart(image, saved) ==
    /\ crashes < MaxCrashes
    /\ crashes' = crashes + 1
    /\ saved \/ saveFailures < MaxSaveFailures
    /\ saveFailures' = IF saved THEN saveFailures ELSE saveFailures + 1
    /\ Initialize(image, saved)
    /\ creation' \in OwnerLost
    /\ timer' = {}
    /\ run' = [p \in Projects |-> NoRun]
    /\ promo' = NoPromo
    /\ disposed' = FALSE
    /\ snap' = [p \in Projects |-> NoSnap]
    /\ aborted' = {}
    /\ turn' = {}
    /\ resv' = [p \in Projects |-> 0]
    /\ backlog' = Present(mem')
    /\ blocked' = {}
    /\ proved' = {}
    /\ UNCHANGED <<command, ext, held, sent, late, created, retries>>

ServerStep ==
    \/ \E p \in Projects :
          \/ "turn" \in Disturbances /\ (TurnStarts(p) \/ TurnEnds(p))
          \/ "external" \in Disturbances /\ (ExternalStarts(p) \/ ExternalDecays(p))
          \/ ReserveUserStart(p) \/ ReleaseUserStart(p)
    \/ "hold" \in Disturbances /\ \E i \in Items : HoldAutomation(i) \/ LiftHold(i)
    \/ "activity" \in Disturbances /\ ServerActivity
    \/ "dispose" \in Disturbances /\ Dispose
    \/ \E c \in Commands \cup {None} : SetCommand(c)
    \/ "creation" \in Disturbances /\ \E i \in Items : CreationAdvances(i)
    \/ \E image \in CrashImages, saved \in BOOLEAN : Restart(image, saved)

SaveStep == SaveSucceeds \/ SaveFails \/ CleanupFails

Next ==
    \/ \E p \in Projects : TimerFires(p) \/ RunStep(p)
    \/ PromoteResumed
    \/ SaveStep
    \/ UserStep
    \/ ServerStep

Spec == Init /\ [][Next]_vars
=============================================================================
