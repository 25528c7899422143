----------------------- MODULE ProjectQueuePromises -----------------------
(***************************************************************************)
(* Proofs of what the Project Queue promises its users, on top of the      *)
(* consistency of the store: which file a crash leaves, which session an   *)
(* item gets, how often it is delivered, and who goes first.  Part 1: what *)
(* a mutation does to the records.  Part 2: memory and file.  Part 3:      *)
(* which way a step may go.  Part 4: users and saves.  Part 5: the runs.   *)
(* Part 6: the rest of the server.  Part 7: the invariants.  Part 8: who   *)
(* goes first.                                                             *)
(***************************************************************************)
EXTENDS ProjectQueueProofs

-----------------------------------------------------------------------------
(* Part 1.  What a mutation does to the records.                            *)

\* Record q of item j says of its session what r said, or what its key says.
Fits(r, q, j) ==
    /\ q.status = "absent" <=> r.status = "absent"
    /\ q.target = r.target
    /\ q.assoc => r.assoc \/ (r.status # "absent" /\ creation[j].state # "none")

\* A change of the memory that keeps every item's session, but drops gone.
Rewrites(m, gone) ==
    \A j \in Items : IF j \in gone THEN m.rec[j] = Absent
                     ELSE Fits(mem.rec[j], m.rec[j], j)

LEMMA ReconciledRecords ==
    ASSUME StoreInv
    PROVE  /\ Reconciled(mem) \in QueueState
           /\ Reconciled(mem).paused = mem.paused
           /\ Reconciled(mem).order = mem.order
           /\ \A j \in Items : /\ Fits(mem.rec[j], Reconciled(mem).rec[j], j)
                               /\ Reconciled(mem).rec[j].status = mem.rec[j].status
                               /\ Reconciled(mem).rec[j].assoc <=>
                                    mem.rec[j].assoc \/ (mem.rec[j].status # "absent"
                                                         /\ creation[j].state # "none")
<1>1. StateOK(mem) /\ mem \in QueueState /\ creation \in [Items -> CreationRec]
    BY DEF StoreInv, ServiceTypeOK, StateOK
<1>2. /\ StateOK(Reconciled(mem)) /\ Reconciled(mem).order = mem.order
      /\ Reconciled(mem).paused = mem.paused
    BY <1>1, ReconciledOK
<1>3. \A j \in Items :
         /\ mem.rec[j] \in ItemRec
         /\ Reconciled(mem).rec[j] = IF mem.rec[j].status # "absent" /\ creation[j].state # "none"
                                     THEN [mem.rec[j] EXCEPT !.assoc = TRUE]
                                     ELSE mem.rec[j]
    BY <1>1 DEF Reconciled, QueueState
<1>4. ASSUME NEW j \in Items
      PROVE  /\ Fits(mem.rec[j], Reconciled(mem).rec[j], j)
             /\ Reconciled(mem).rec[j].status = mem.rec[j].status
             /\ Reconciled(mem).rec[j].assoc <=>
                  mem.rec[j].assoc \/ (mem.rec[j].status # "absent"
                                       /\ creation[j].state # "none")
  <2>1. CASE mem.rec[j].status # "absent" /\ creation[j].state # "none"
    <3> DEFINE q == [mem.rec[j] EXCEPT !.assoc = TRUE]
    <3>1. q.status = mem.rec[j].status /\ q.target = mem.rec[j].target /\ q.assoc = TRUE
        BY <1>3 DEF ItemRec
    <3>2. Reconciled(mem).rec[j] = q
        BY <1>3, <2>1
    <3> HIDE DEF q
    <3> QED BY <2>1, <3>1, <3>2 DEF Fits
  <2>2. CASE ~(mem.rec[j].status # "absent" /\ creation[j].state # "none")
    <3>1. Reconciled(mem).rec[j] = mem.rec[j]
        BY <1>3, <2>2
    <3> QED BY <2>2, <3>1 DEF Fits
  <2> QED BY <2>1, <2>2
<1> QED BY <1>2, <1>4 DEF StateOK

\* Relabelling an item that is there, and moving any.
LEMMA RelabelRewrites ==
    ASSUME NEW m \in QueueState, Rewrites(m, {}), NEW n, NEW i \in Items,
           mem.rec[i].status # "absent", NEW r,
           n.rec = [m.rec EXCEPT ![i] = r],
           r.status # "absent", r.target = m.rec[i].target, r.assoc = m.rec[i].assoc
    PROVE  Rewrites(n, {})
<1>1. m.rec \in [Items -> ItemRec]
    BY DEF QueueState
<1>2. \A j \in Items : n.rec[j] = IF j = i THEN r ELSE m.rec[j]
    BY <1>1
<1>3. \A j \in Items : Fits(mem.rec[j], m.rec[j], j)
    BY DEF Rewrites
<1>4. \A j \in Items : Fits(mem.rec[j], n.rec[j], j)
    BY <1>2, <1>3 DEF Fits
<1> QED BY <1>4 DEF Rewrites

LEMMA DropRewrites ==
    ASSUME NEW m \in QueueState, Rewrites(m, {}), NEW i \in Items
    PROVE  Rewrites(Drop(m, i), {i}) /\ Drop(m, i).paused \in {m.paused, "no"}
<1> DEFINE d == [m EXCEPT !.order[ProjectOf[i]] = Without(@, i), !.rec[i] = Absent]
<1>1. /\ d.rec = [m.rec EXCEPT ![i] = Absent] /\ m.rec \in [Items -> ItemRec]
      /\ d.paused = m.paused
    BY DEF QueueState
<1>2. Drop(m, i).rec = d.rec /\ Drop(m, i).paused \in {d.paused, "no"}
  <2>1. Drop(m, i) = d \/ Drop(m, i) = [d EXCEPT !.paused = "no"]
      BY DEF Drop, ClearPauseIfEmpty
  <2>2. [d EXCEPT !.paused = "no"].rec = d.rec /\ [d EXCEPT !.paused = "no"].paused = "no"
      BY DEF QueueState
  <2> HIDE DEF d
  <2> QED BY <2>1, <2>2
<1> HIDE DEF d
<1>3. \A j \in Items : Drop(m, i).rec[j] = IF j = i THEN Absent ELSE m.rec[j]
    BY <1>1, <1>2
<1> QED BY <1>1, <1>2, <1>3 DEF Rewrites

\* Opening a mutation other than a creation or an edit.
Plain == Ops \ {"none", "create", "update"}
Drops(op, i) == IF op \in {"delete", "complete"} THEN {i} ELSE {}
OpensPlainly ==
    /\ Unlocked
    /\ pend'.op \in Plain
    /\ Rewrites(mem', Drops(pend'.op, pend'.item))
    /\ UNCHANGED <<disk, creation>>
    /\ pend'.resumed => pend'.op # "pause"

LEMMA OpenPlainly ==
    ASSUME Unlocked, NEW op \in Plain, NEW m, NEW i, NEW by, NEW resumed \in BOOLEAN,
           NEW undo, Open(m, op, i, by, resumed, undo), Rewrites(m, Drops(op, i)),
           resumed => op # "pause"
    PROVE  OpensPlainly
    BY DEF Open, Mutation, OpensPlainly

LEMMA ResumeRewrites ==
    ASSUME NEW m \in QueueState, NEW gone, Rewrites(m, gone)
    PROVE  Rewrites([m EXCEPT !.paused = "no"], gone)
<1>1. [m EXCEPT !.paused = "no"].rec = m.rec
    BY DEF QueueState
<1> QED BY <1>1 DEF Rewrites

LEMMA ItemActionPlainly ==
    ASSUME Unlocked, NEW op \in Plain, NEW i, NEW m \in QueueState,
           Rewrites(m, Drops(op, i)), op # "pause", ItemAction(m, op, i)
    PROVE  OpensPlainly
<1>1. Open([m EXCEPT !.paused = "no"], op, i, "user", Paused, EmptyState)
    BY DEF ItemAction, Plain
<1>2. Rewrites([m EXCEPT !.paused = "no"], Drops(op, i))
    BY ResumeRewrites
<1>3. Paused \in BOOLEAN
    BY DEF Paused
<1> QED BY <1>1, <1>2, <1>3, OpenPlainly

\* What the memory is before a mutation.
LEMMA MemoryRewrites ==
    ASSUME StoreInv
    PROVE  /\ mem \in QueueState /\ Rewrites(mem, {})
           /\ Reconciled(mem) \in QueueState /\ Rewrites(Reconciled(mem), {})
<1>1. mem \in QueueState
    BY DEF StoreInv, StateOK
<1>2. Rewrites(mem, {})
    BY DEF Rewrites, Fits
<1>3. Rewrites(Reconciled(mem), {})
    BY ReconciledRecords DEF Rewrites
<1> QED BY <1>1, <1>2, <1>3, ReconciledRecords

\* The users' mutations.
LEMMA UsersOpenPlainly ==
    ASSUME StoreInv, NEW i \in Items, NEW id,
           DoDelete(i) \/ DoRetry(i, id) \/ DoMoveToTop(i)
    PROVE  OpensPlainly
<1> DEFINE m == Reconciled(mem)
<1>1. /\ m \in QueueState /\ Rewrites(m, {}) /\ StateOK(m)
      /\ m.rec[i].status = mem.rec[i].status /\ m.rec \in [Items -> ItemRec]
    BY MemoryRewrites, StoreFacts DEF QueueState
<1>2. Unlocked /\ mem.rec[i].status # "absent"
    BY DEF DoDelete, DoRetry, DoMoveToTop, Status
<1>3. CASE DoDelete(i)
  <2>1. Rewrites(Drop(m, i), Drops("delete", i))
      BY <1>1, DropRewrites DEF Drops
  <2>2. Drop(m, i) \in QueueState
    <3>1. m.rec[i].status # "absent"
        BY <1>1, <1>2
    <3> HIDE DEF m
    <3> QED BY <1>1, <3>1, DropOK DEF StateOK
  <2>3. ItemAction(Drop(m, i), "delete", i) /\ "delete" \in Plain
      BY <1>3 DEF DoDelete, Plain, Ops
  <2> HIDE DEF m
  <2> QED BY <1>2, <2>1, <2>2, <2>3, ItemActionPlainly
<1>4. CASE DoRetry(i, id)
  <2> DEFINE r == [m.rec[i] EXCEPT !.status = "queued", !.fails = 0, !.retryId = id]
             n == [m EXCEPT !.rec[i] = r]
  <2>1. /\ r.status = "queued" /\ r.target = m.rec[i].target /\ r.assoc = m.rec[i].assoc
      BY <1>1 DEF ItemRec
  <2>2. n.rec = [m.rec EXCEPT ![i] = r]
      BY <1>1 DEF QueueState
  <2>3. Rewrites(n, Drops("retry", i))
    <3>1. Drops("retry", i) = {}
        BY DEF Drops
    <3> HIDE DEF m, n, r
    <3> QED BY <1>1, <1>2, <2>1, <2>2, <3>1, RelabelRewrites
  <2>4. [n EXCEPT !.paused = "no"].rec = n.rec
      BY <1>1 DEF QueueState
  <2>5. n = [m EXCEPT !.rec[i].status = "queued", !.rec[i].fails = 0,
                      !.rec[i].retryId = id]
      BY <1>1 DEF QueueState
  <2>6. Open([n EXCEPT !.paused = "no"], "retry", i, "user", Paused, EmptyState)
      BY <1>4, <2>5 DEF DoRetry, ItemAction
  <2>7. "retry" \in Plain /\ Paused \in BOOLEAN
      BY DEF Plain, Ops, Paused
  <2>8. Rewrites([n EXCEPT !.paused = "no"], Drops("retry", i))
      BY <2>3, <2>4 DEF Rewrites
  <2> HIDE DEF n
  <2> QED BY <1>2, <2>6, <2>7, <2>8, OpenPlainly
<1>5. CASE DoMoveToTop(i)
  <2> DEFINE n == ToTop(m, i)
  <2>1. n \in QueueState /\ n.rec = m.rec
    <3>1. m.rec[i].status # "absent"
        BY <1>1, <1>2
    <3> HIDE DEF m
    <3> QED BY <1>1, <3>1, ToTopOK DEF StateOK
  <2>2. Rewrites(n, {})
      BY <1>1, <2>1 DEF Rewrites
  <2>3. ItemAction(n, "reorder", i) \/ ItemAction(m, "resume", i)
      BY <1>5 DEF DoMoveToTop
  <2>4. /\ {"reorder", "resume"} \subseteq Plain
        /\ Drops("reorder", i) = {} /\ Drops("resume", i) = {}
      BY DEF Plain, Ops, Drops
  <2> HIDE DEF m, n
  <2> QED BY <1>1, <1>2, <2>1, <2>2, <2>3, <2>4, ItemActionPlainly
<1> QED BY <1>3, <1>4, <1>5

LEMMA PausesOpenPlainly ==
    ASSUME StoreInv, NEW reason, NEW by, DoPause(reason) \/ DoResume(by)
    PROVE  OpensPlainly
<1>1. Unlocked /\ mem \in QueueState /\ Rewrites(mem, {})
    BY MemoryRewrites DEF DoPause, DoResume
<1>2. /\ {"pause", "resume"} \subseteq Plain
      /\ Drops("pause", None) = {} /\ Drops("resume", None) = {}
    BY DEF Plain, Ops, Drops
<1>3. ASSUME NEW w
      PROVE  Rewrites([mem EXCEPT !.paused = w], {})
  <2>1. [mem EXCEPT !.paused = w].rec = mem.rec
      BY <1>1 DEF QueueState
  <2> QED BY <1>1, <2>1 DEF Rewrites
<1>4. CASE DoPause(reason)
  <2>1. Open([mem EXCEPT !.paused = reason], "pause", None, "user", FALSE, EmptyState)
      BY <1>4 DEF DoPause
  <2> QED BY <1>1, <1>2, <1>3, <2>1, OpenPlainly
<1>5. CASE DoResume(by)
  <2>1. Open([mem EXCEPT !.paused = "no"], "resume", None, by, FALSE, EmptyState)
      BY <1>5 DEF DoResume
  <2> QED BY <1>1, <1>2, <1>3, <2>1, OpenPlainly
<1> QED BY <1>4, <1>5

\* The runs' mutations.
LEMMA MarkedRewrites ==
    ASSUME StoreInv, NEW i \in Items, mem.rec[i].status # "absent",
           NEW status, status # "absent"
    PROVE  /\ Rewrites(Marked(i, status), {})
           /\ Marked(i, status).rec[i].target = mem.rec[i].target
<1> DEFINE m == Reconciled(mem)
           r == [m.rec[i] EXCEPT !.status = status]
<1>1. m \in QueueState /\ Rewrites(m, {}) /\ m.rec \in [Items -> ItemRec]
    BY MemoryRewrites DEF QueueState
<1>2. r.status = status /\ r.target = m.rec[i].target /\ r.assoc = m.rec[i].assoc
    BY <1>1 DEF ItemRec
<1>3. Marked(i, status).rec = [m.rec EXCEPT ![i] = r]
    BY <1>1 DEF Marked, QueueState
<1>4. m.rec[i].target = mem.rec[i].target
    BY <1>1 DEF Rewrites, Fits
<1> HIDE DEF m, r
<1>5. Rewrites(Marked(i, status), {})
    BY <1>1, <1>2, <1>3, RelabelRewrites
<1> QED BY <1>1, <1>2, <1>3, <1>4, <1>5

LEMMA RunOpensPlainly ==
    ASSUME Unlocked, NEW op \in Plain, NEW m, NEW i, Rewrites(m, Drops(op, i)),
           OpenForRun(m, op, i)
    PROVE  OpensPlainly
    BY OpenPlainly DEF OpenForRun

LEMMA RunsOpenPlainly ==
    ASSUME StoreInv, NEW i \in Items, mem.rec[i].status # "absent",
           \/ DoClaim(i) \/ DoRelease(i) \/ DoFail(i) \/ DoComplete(i)
           \/ DoStartupFailure(i)
           \/ DoAssociate(i) /\ creation[i].state # "none"
    PROVE  OpensPlainly
<1>1. /\ {"claim", "release", "fail", "complete", "startupFail", "associate"} \subseteq Plain
      /\ \A op \in {"claim", "release", "fail", "startupFail", "associate"} :
            Drops(op, i) = {}
      /\ Drops("complete", i) = {i}
    BY DEF Plain, Ops, Drops
<1>2. Unlocked /\ StateOK(mem) /\ mem \in QueueState /\ mem.rec \in [Items -> ItemRec]
    BY StoreFacts DEF DoClaim, DoRelease, DoFail, DoComplete, DoStartupFailure, DoAssociate,
                      QueueState
<1>3. CASE DoClaim(i) \/ DoRelease(i) \/ DoFail(i)
  <2>1. \E status \in {"dispatching", "queued", "failed"}, op \in {"claim", "release", "fail"} :
           OpenForRun(Marked(i, status), op, i)
      BY <1>3 DEF DoClaim, DoRelease, DoFail
  <2> QED BY <1>1, <1>2, <2>1, MarkedRewrites, RunOpensPlainly
<1>4. CASE DoComplete(i)
  <2>1. OpenForRun(Drop(Reconciled(mem), i), "complete", i)
      BY <1>4 DEF DoComplete
  <2>2. Rewrites(Drop(Reconciled(mem), i), {i})
      BY MemoryRewrites, DropRewrites
  <2> QED BY <1>1, <1>2, <2>1, <2>2, RunOpensPlainly
<1>5. CASE DoStartupFailure(i)
  <2> DEFINE fails == mem.rec[i].fails + 1
             status == IF fails >= MaxStartupFailures THEN "failed" ELSE "queued"
             m == Marked(i, status)
             r == [m.rec[i] EXCEPT !.fails = fails]
             n == [m EXCEPT !.rec[i].fails = fails]
  <2>1. OpenForRun(ToHead(n, i), "startupFail", i)
      BY <1>5 DEF DoStartupFailure
  <2>2. Rewrites(m, {}) /\ status \in {"failed", "queued"}
    <3>1. status \in {"failed", "queued"} /\ status # "absent"
        OBVIOUS
    <3> HIDE DEF status
    <3> QED BY <3>1, MarkedRewrites
  <2>3. /\ m \in QueueState /\ m.rec \in [Items -> ItemRec]
        /\ m.rec[i].status = status
    <3> DEFINE q == Reconciled(mem)
               s == [q.rec[i] EXCEPT !.status = status]
    <3>1. q \in QueueState /\ q.rec[i] \in ItemRec /\ q.rec \in [Items -> ItemRec]
        BY StoreFacts DEF QueueState
    <3>2. s \in ItemRec /\ s.status = status
        BY <2>2, <3>1 DEF ItemRec, Statuses
    <3>3. m = [q EXCEPT !.rec[i] = s]
        BY <3>1 DEF Marked, QueueState
    <3> HIDE DEF status, q, s
    <3> QED BY <3>1, <3>2, <3>3 DEF QueueState
  <2> HIDE DEF status, m, fails
  <2>4. r.status = status /\ r.target = m.rec[i].target /\ r.assoc = m.rec[i].assoc
      BY <2>3 DEF ItemRec
  <2>5. n.rec = [m.rec EXCEPT ![i] = r] /\ n.order = m.order
      BY <2>3 DEF QueueState
  <2>6. ToHead(n, i).rec = n.rec
      BY <2>3 DEF ToHead, QueueState
  <2> HIDE DEF n, r
  <2>7. Rewrites(n, {})
      BY <1>2, <2>2, <2>3, <2>4, <2>5, RelabelRewrites
  <2>8. Rewrites(ToHead(n, i), {})
      BY <2>6, <2>7 DEF Rewrites
  <2> QED BY <1>1, <1>2, <2>1, <2>8, RunOpensPlainly
<1>6. CASE DoAssociate(i) /\ creation[i].state # "none"
  <2> DEFINE r == [mem.rec[i] EXCEPT !.assoc = TRUE]
             n == [mem EXCEPT !.rec[i].assoc = TRUE]
  <2>1. OpenForRun(n, "associate", i)
      BY <1>6 DEF DoAssociate
  <2>2. n.rec = [mem.rec EXCEPT ![i] = r]
      BY <1>2 DEF QueueState
  <2>3. r.status = mem.rec[i].status /\ r.target = mem.rec[i].target
      BY <1>2 DEF ItemRec
  <2> HIDE DEF r, n
  <2>4. \A j \in Items : n.rec[j] = IF j = i THEN r ELSE mem.rec[j]
      BY <1>2, <2>2
  <2>5. Rewrites(n, {})
      BY <1>6, <2>3, <2>4 DEF Rewrites, Fits
  <2> QED BY <1>1, <1>2, <2>1, <2>5, RunOpensPlainly
<1> QED BY <1>3, <1>4, <1>5, <1>6

\* A creation and an edit, which a failed save undoes.
LEMMA CreateRecords ==
    ASSUME StoreInv, NEW i \in Items, NEW target \in Targets, DoCreate(i, target)
    PROVE  /\ Unlocked /\ pend'.op = "create" /\ pend'.item = i /\ pend'.undo = mem
           /\ ~pend'.resumed /\ mem'.paused = mem.paused /\ UNCHANGED <<disk, creation>>
           /\ mem'.rec[i].status = "queued" /\ ~mem'.rec[i].assoc
           /\ mem'.rec[i].target = target
           /\ \A j \in Items \ {i} : mem'.rec[j] = mem.rec[j]
<1> DEFINE r == [Absent EXCEPT !.status = "queued", !.target = target]
<1>1. mem \in QueueState /\ mem.rec \in [Items -> ItemRec]
    BY StoreFacts DEF QueueState
<1>2. r.status = "queued" /\ r.assoc = FALSE /\ r.target = target
    BY DEF Absent
<1>3. /\ mem'.rec = [mem.rec EXCEPT ![i] = r] /\ mem'.paused = mem.paused
      /\ pend' = Mutation("create", i, "user", FALSE, mem) /\ Unlocked
      /\ UNCHANGED <<disk, creation>>
    BY <1>1 DEF DoCreate, Open, QueueState
<1> HIDE DEF r
<1>4. mem'.rec[i] = r /\ \A j \in Items \ {i} : mem'.rec[j] = mem.rec[j]
    BY <1>1, <1>3
<1> QED BY <1>2, <1>3, <1>4 DEF Mutation

LEMMA UpdateRecords ==
    ASSUME StoreInv, NEW i \in Items, NEW target \in Targets, DoUpdate(i, target)
    PROVE  /\ Unlocked /\ pend'.op = "update" /\ pend'.item = i
           /\ pend'.undo = Reconciled(mem) /\ UNCHANGED <<disk, creation>>
           /\ mem.rec[i].status \in {"queued", "failed"} /\ creation[i].state = "none"
           /\ mem'.rec[i].status = "queued" /\ ~mem'.rec[i].assoc
           /\ \A j \in Items \ {i} : mem'.rec[j] = Reconciled(mem).rec[j]
<1> DEFINE m == Reconciled(mem)
           r == [m.rec[i] EXCEPT !.status = "queued", !.fails = 0, !.target = target]
           n == [m EXCEPT !.rec[i].status = "queued", !.rec[i].fails = 0,
                          !.rec[i].target = target]
<1>1. m \in QueueState /\ m.rec \in [Items -> ItemRec]
    BY StoreFacts DEF QueueState
<1>2. /\ Unlocked /\ mem.rec[i].status \in {"queued", "failed"} /\ ~m.rec[i].assoc
      /\ mem' = [n EXCEPT !.paused = "no"] /\ UNCHANGED <<disk, creation>>
      /\ pend' = Mutation("update", i, "user", Paused, m)
    BY DEF DoUpdate, ItemAction, Open, Status
<1>3. r.status = "queued" /\ r.assoc = m.rec[i].assoc
    BY <1>1 DEF ItemRec
<1>4. mem'.rec = [m.rec EXCEPT ![i] = r]
    BY <1>1, <1>2 DEF QueueState
<1>5. creation[i].state = "none"
    BY <1>2, ReconciledRecords
<1> HIDE DEF r, n
<1>6. mem'.rec[i] = r /\ \A j \in Items \ {i} : mem'.rec[j] = m.rec[j]
    BY <1>1, <1>4
<1> QED BY <1>2, <1>3, <1>5, <1>6 DEF Mutation

-----------------------------------------------------------------------------
(* Part 2.  Memory and file.                                                *)

StoreKept == FileFollowsMemory /\ UndoExact /\ SessionsKept /\ TargetsFollow

\* Which creations have been admitted does not change.
KnownStill ==
    \A i \in Items : creation'[i].state = "none" <=> creation[i].state = "none"

LEMMA QuietStoreKept ==
    ASSUME StoreKept, UNCHANGED <<mem, disk, pend, saveFailures>>, KnownStill
    PROVE  StoreKept'
<1>1. FileFollowsMemory' /\ UndoExact'
    BY DEF StoreKept, FileFollowsMemory, UndoExact, Undoable, Present
<1>2. SessionsKept'
    BY DEF StoreKept, SessionsKept, SessionKept, Undoable, KnownStill
<1>3. TargetsFollow'
    BY DEF StoreKept, TargetsFollow, SameTarget, Undoable
<1> QED BY <1>1, <1>2, <1>3 DEF StoreKept

\* An item that is being dispatched for a new session is admitted.
LEMMA AdmissionStoreKept ==
    ASSUME StoreInv, StoreKept, UNCHANGED <<mem, disk, pend, saveFailures>>,
           NEW i \in Items, mem.rec[i].status = "dispatching", mem.rec[i].target = "new",
           creation' = [creation EXCEPT ![i].state = "open"]
    PROVE  StoreKept'
<1>1. FileFollowsMemory' /\ UndoExact'
    BY DEF StoreKept, FileFollowsMemory, UndoExact, Undoable, Present
<1>2. TargetsFollow'
    BY DEF StoreKept, TargetsFollow, SameTarget, Undoable
<1>3. \A j \in Items : creation'[j].state = IF j = i THEN "open" ELSE creation[j].state
    BY DEF StoreInv, ServiceTypeOK, CreationRec
<1>4. Undoable => pend.item # i
    BY DEF Undoable, StoreInv, UndoOK
<1>5. disk.rec[i].status # "absent" => disk.rec[i].target = "new"
    BY <1>4 DEF StoreKept, TargetsFollow, SameTarget, Undoable
<1>6. Undoable => pend.undo.rec[i].target = "new"
    BY <1>4 DEF StoreKept, UndoExact
<1>7. SessionsKept'
    BY <1>3, <1>5, <1>6 DEF StoreKept, SessionsKept, SessionKept, Undoable
<1> QED BY <1>1, <1>2, <1>7 DEF StoreKept

\* Opening a mutation.
LEMMA PlainStoreKept ==
    ASSUME StoreKept, OpensPlainly, UNCHANGED saveFailures
    PROVE  StoreKept'
<1>1. /\ ~Undoable' /\ pend.op = "none" /\ ~Undoable
      /\ pend'.op \notin {"none", "create", "update"} /\ pend.op \notin {"delete", "complete"}
    BY DEF OpensPlainly, Plain, Undoable, Unlocked
<1>2. /\ Absent.status = "absent" /\ Absent.assoc = FALSE
    BY DEF Absent
<1>3. \A j \in Items :
         \/ Fits(mem.rec[j], mem'.rec[j], j)
         \/ /\ mem'.rec[j] = Absent /\ pend'.op \in {"delete", "complete"}
            /\ pend'.item = j
    BY DEF OpensPlainly, Rewrites, Drops
<1>4. disk' = disk /\ creation' = creation
    BY DEF OpensPlainly
<1>5. FileFollowsMemory'
    BY <1>1, <1>2, <1>3, <1>4 DEF StoreKept, FileFollowsMemory, Present, Fits
<1>6. UndoExact'
    BY <1>1 DEF UndoExact, Undoable
<1>7. SessionsKept'
    BY <1>1, <1>2, <1>3, <1>4 DEF StoreKept, SessionsKept, SessionKept, Fits, Undoable
<1>8. TargetsFollow'
    BY <1>1, <1>2, <1>3, <1>4 DEF StoreKept, TargetsFollow, SameTarget, Fits, Undoable
<1> QED BY <1>5, <1>6, <1>7, <1>8 DEF StoreKept

LEMMA CreateStoreKept ==
    ASSUME StoreInv, StoreKept, NEW i \in Items, NEW target \in Targets,
           DoCreate(i, target), UNCHANGED saveFailures,
           i \notin Present(mem) \cup Present(disk), creation[i].state = "none"
    PROVE  StoreKept'
<1>1. /\ pend.op = "none" /\ pend'.op = "create" /\ pend'.item = i /\ pend'.undo = mem
      /\ mem'.paused = mem.paused /\ UNCHANGED <<disk, creation>>
      /\ mem'.rec[i].status = "queued" /\ ~mem'.rec[i].assoc
      /\ \A j \in Items \ {i} : mem'.rec[j] = mem.rec[j]
    BY CreateRecords DEF Unlocked
<1>2. mem.rec[i].status = "absent" /\ disk.rec[i].status = "absent"
    BY DEF Present
<1>3. FileFollowsMemory'
    BY <1>1, <1>2 DEF StoreKept, FileFollowsMemory, Present
<1>4. UndoExact'
    BY <1>1, <1>2 DEF UndoExact, Undoable
<1>5. SessionsKept'
  <2>1. SessionKept(mem) /\ SessionKept(disk)
      BY DEF StoreKept, SessionsKept
  <2>2. SessionKept(mem)'
    <3>1. \A j \in Items : j # i => mem'.rec[j] = mem.rec[j]
        BY <1>1
    <3> QED BY <1>1, <2>1, <3>1 DEF SessionKept
  <2>3. SessionKept(disk)'
      BY <1>1, <2>1 DEF SessionKept
  <2>4. SessionKept(pend.undo)'
      BY <1>1, <2>1 DEF SessionKept
  <2> QED BY <2>2, <2>3, <2>4 DEF SessionsKept
<1>6. TargetsFollow'
    BY <1>1, <1>2 DEF StoreKept, TargetsFollow, SameTarget, Undoable
<1> QED BY <1>3, <1>4, <1>5, <1>6 DEF StoreKept

LEMMA UpdateStoreKept ==
    ASSUME StoreInv, StoreKept, NEW i \in Items, NEW target \in Targets,
           DoUpdate(i, target), UNCHANGED saveFailures
    PROVE  StoreKept'
<1> DEFINE m == Reconciled(mem)
<1>1. /\ pend.op = "none" /\ pend'.op = "update" /\ pend'.item = i /\ pend'.undo = m
      /\ UNCHANGED <<disk, creation>>
      /\ mem.rec[i].status \in {"queued", "failed"} /\ creation[i].state = "none"
      /\ mem'.rec[i].status = "queued" /\ ~mem'.rec[i].assoc
      /\ \A j \in Items \ {i} : mem'.rec[j] = m.rec[j]
    BY UpdateRecords DEF Unlocked
<1>2. \A j \in Items : Fits(mem.rec[j], m.rec[j], j)
    BY ReconciledRecords
<1>3. /\ SessionKept(mem) /\ SessionKept(disk)
      /\ \A j \in Items : SameTarget(mem, disk, j)
    BY <1>1 DEF StoreKept, SessionsKept, TargetsFollow
<1> HIDE DEF m
<1>4. FileFollowsMemory'
  <2>1. Present(mem') = Present(mem)
      BY <1>1, <1>2 DEF Present, Fits
  <2> QED BY <1>1, <2>1 DEF StoreKept, FileFollowsMemory, Present
<1>5. UndoExact'
    BY <1>1 DEF UndoExact, Undoable
<1>6. SessionsKept'
  <2>1. SessionKept(mem)'
      BY <1>1, <1>2, <1>3 DEF SessionKept, Fits
  <2>2. SessionKept(disk)'
      BY <1>1, <1>3 DEF SessionKept
  <2>3. SessionKept(pend.undo)'
      BY <1>1, <1>2, <1>3 DEF SessionKept, Fits
  <2> QED BY <2>1, <2>2, <2>3 DEF SessionsKept
<1>7. TargetsFollow'
    BY <1>1, <1>2, <1>3 DEF TargetsFollow, SameTarget, Fits, Undoable
<1> QED BY <1>4, <1>5, <1>6, <1>7 DEF StoreKept

\* Closing one.
LEMMA NoMutationLeft ==
    ASSUME pend' = NoMutation
    PROVE  ~Undoable' /\ pend'.op = "none" /\ ~pend'.resumed
    BY DEF NoMutation, Mutation, Undoable

LEMMA SaveDoneStoreKept ==
    ASSUME StoreKept, SaveDone, creation' = creation
    PROVE  StoreKept'
<1>1. mem' = mem /\ disk' = mem /\ ~Undoable' /\ pend'.op = "none"
    BY NoMutationLeft DEF SaveDone
<1>2. FileFollowsMemory' /\ UndoExact' /\ TargetsFollow'
    BY <1>1 DEF FileFollowsMemory, UndoExact, TargetsFollow, SameTarget, Present
<1>3. SessionsKept'
    BY <1>1 DEF StoreKept, SessionsKept, SessionKept
<1> QED BY <1>2, <1>3 DEF StoreKept

LEMMA SaveFailedStoreKept ==
    ASSUME StoreInv, StoreKept, SaveFailed, creation' = creation, saveFailures' # 0
    PROVE  StoreKept'
<1>1. /\ disk' = disk /\ ~Undoable' /\ pend'.op = "none" /\ ~Unlocked
      /\ mem' = IF Undoable THEN pend.undo ELSE mem
    BY NoMutationLeft DEF SaveFailed, Undoable
<1>2. FileFollowsMemory'
  <2>1. CASE pend.op = "create"
    <3>1. /\ mem' = pend.undo /\ pend.item \in Items
          /\ \A j \in Items \ {pend.item} : pend.undo.rec[j] = mem.rec[j]
          /\ pend.undo.rec[pend.item].status = "absent"
        BY <1>1, <2>1 DEF StoreKept, UndoExact, Undoable, StoreInv, UndoOK
    <3>2. Present(mem) \ Present(disk) \subseteq {pend.item}
        BY <2>1 DEF StoreKept, FileFollowsMemory
    <3>3. Present(mem') \subseteq Present(disk)
        BY <3>1, <3>2 DEF Present
    <3> QED BY <1>1, <3>3 DEF FileFollowsMemory, Present
  <2>2. CASE pend.op # "create"
    <3>1. Present(mem) \subseteq Present(disk)
        BY <2>2 DEF StoreKept, FileFollowsMemory
    <3>2. Present(mem') \subseteq Present(mem)
        BY SaveFailedOK
    <3> QED BY <1>1, <3>1, <3>2 DEF FileFollowsMemory, Present
  <2> QED BY <2>1, <2>2
<1>3. UndoExact'
    BY <1>1 DEF UndoExact
<1>4. SessionsKept'
    BY <1>1 DEF StoreKept, SessionsKept, SessionKept
<1>5. TargetsFollow'
    BY <1>1 DEF StoreKept, TargetsFollow, SameTarget, Undoable
<1> QED BY <1>2, <1>3, <1>4, <1>5 DEF StoreKept

\* A restart: what it reads back is what the file or the memory said.
LEMMA ReloadedRecords ==
    ASSUME NEW m, StateOK(m)
    PROVE  /\ \A j \in Items : Fits(m.rec[j], Reloaded(m).rec[j], j)
           /\ \A j \in Items : Reloaded(m).rec[j].status # "dispatching"
           /\ Present(m) # {} => Reloaded(m).paused # "no"
<1>1. m \in QueueState /\ \A i \in Items : m.rec[i] \in ItemRec
    BY DEF StateOK, QueueState
<1>2. /\ \A i \in Items : Reloaded(m).rec[i] = IF m.rec[i].status = "dispatching"
                                     THEN [m.rec[i] EXCEPT !.status = "queued"]
                                     ELSE m.rec[i]
      /\ Reloaded(m).paused = IF Present(m) = {} THEN "no"
                    ELSE IF m.paused = "no" THEN "restart" ELSE m.paused
    BY <1>1 DEF Reloaded, QueueState
<1>3. ASSUME NEW j \in Items
      PROVE  Fits(m.rec[j], Reloaded(m).rec[j], j) /\ Reloaded(m).rec[j].status # "dispatching"
  <2>1. CASE m.rec[j].status = "dispatching"
    <3> DEFINE q == [m.rec[j] EXCEPT !.status = "queued"]
    <3>1. q.status = "queued" /\ q.target = m.rec[j].target /\ q.assoc = m.rec[j].assoc
        BY <1>1 DEF ItemRec
    <3>2. Reloaded(m).rec[j] = q
        BY <1>2, <2>1
    <3> HIDE DEF q
    <3> QED BY <2>1, <3>1, <3>2 DEF Fits
  <2>2. CASE m.rec[j].status # "dispatching"
    <3>1. Reloaded(m).rec[j] = m.rec[j]
        BY <1>2, <2>2
    <3> QED BY <2>2, <3>1 DEF Fits
  <2> QED BY <2>1, <2>2
<1> QED BY <1>2, <1>3

LEMMA RestartStoreKept ==
    ASSUME StoreInv, StoreKept, NEW image \in CrashImages, NEW saved \in BOOLEAN,
           Initialize(image, saved), KnownStill, ~saved => saveFailures' # 0
    PROVE  /\ StoreKept'
           /\ \A j \in Items : mem'.rec[j].status # "dispatching"
           /\ Present(mem') # {} => mem'.paused # "no"
<1> DEFINE r == Reloaded(image)
           loaded == Reconciled(r)
<1>1. image \in {mem, disk} /\ StateOK(image) /\ image \in QueueState
      /\ creation \in [Items -> CreationRec]
    BY DEF CrashImages, StoreInv, ServiceTypeOK, StateOK
<1>2. /\ StateOK(r) /\ r \in QueueState /\ Present(r) = Present(image)
      /\ \A j \in Items : Fits(image.rec[j], r.rec[j], j)
      /\ \A j \in Items : r.rec[j].status # "dispatching"
      /\ Present(image) # {} => r.paused # "no"
    BY <1>1, ReloadedOK, ReloadedRecords DEF StateOK
<1>3. /\ mem' = IF saved \/ r = image THEN loaded ELSE EmptyState
      /\ disk' = IF saved THEN r ELSE image
      /\ ~Undoable' /\ pend'.op = "none"
    BY NoMutationLeft DEF Initialize
<1> HIDE DEF r
<1>4. /\ loaded.paused = r.paused
      /\ \A j \in Items :
            loaded.rec[j] = IF r.rec[j].status # "absent" /\ creation[j].state # "none"
                            THEN [r.rec[j] EXCEPT !.assoc = TRUE]
                            ELSE r.rec[j]
      /\ \A j \in Items : r.rec[j] \in ItemRec
    BY <1>2 DEF Reconciled, QueueState
<1> HIDE DEF loaded
<1>5. ASSUME NEW j \in Items
      PROVE  Fits(r.rec[j], loaded.rec[j], j) /\ loaded.rec[j].status = r.rec[j].status
  <2> DEFINE q == [r.rec[j] EXCEPT !.assoc = TRUE]
  <2>1. q.status = r.rec[j].status /\ q.target = r.rec[j].target /\ q.assoc = TRUE
      BY <1>4 DEF ItemRec
  <2>2. \/ loaded.rec[j] = q /\ r.rec[j].status # "absent" /\ creation[j].state # "none"
        \/ loaded.rec[j] = r.rec[j]
      BY <1>4
  <2> HIDE DEF q
  <2> QED BY <2>1, <2>2 DEF Fits
<1>6. /\ \A j \in Items : EmptyState.rec[j].status = "absent" /\ ~EmptyState.rec[j].assoc
      /\ Present(EmptyState) = {}
    BY DEF EmptyState, Absent, Present
<1>7. Present(loaded) = Present(image) /\ Present(mem') \subseteq Present(disk')
      /\ (saveFailures' = 0 => Present(disk') = Present(mem'))
    BY <1>2, <1>3, <1>5, <1>6 DEF Present
<1>8. FileFollowsMemory' /\ UndoExact'
    BY <1>3, <1>7 DEF FileFollowsMemory, UndoExact, Present
<1>9. SessionKept(image) /\ SessionKept(r) /\ SessionKept(loaded) /\ SessionKept(EmptyState)
  <2>1. SessionKept(image)
      BY <1>1 DEF StoreKept, SessionsKept
  <2>2. SessionKept(r)
      BY <1>2, <2>1 DEF SessionKept, Fits
  <2>3. SessionKept(loaded)
      BY <1>5, <2>2 DEF SessionKept, Fits
  <2>4. SessionKept(EmptyState)
      BY <1>6 DEF SessionKept
  <2> QED BY <2>1, <2>2, <2>3, <2>4
<1>10. SessionsKept'
    BY <1>3, <1>9 DEF SessionsKept, SessionKept, KnownStill
<1>11. TargetsFollow'
    BY <1>2, <1>3, <1>5, <1>6 DEF TargetsFollow, SameTarget, Fits
<1>12. /\ \A j \in Items : mem'.rec[j].status # "dispatching"
       /\ Present(mem') # {} => mem'.paused # "no"
    BY <1>2, <1>3, <1>4, <1>5, <1>6, <1>7
<1> QED BY <1>8, <1>10, <1>11, <1>12 DEF StoreKept

-----------------------------------------------------------------------------
(* Part 3.  What kinds of step keep.                                        *)

LEMMA Promised ==
    /\ StorePromises <=> StoreKept /\ AdmissionsFit
    /\ (QueueInductive <=> Inductive /\ StoreKept /\ AdmissionsFit /\ RunPromises)
    BY DEF StorePromises, StoreKept, QueueInductive

\* The facts the lemmas below start from.
LEMMA QueueFacts ==
    ASSUME QueueInductive
    PROVE  /\ Inductive /\ StoreInv /\ StoreKept /\ AdmissionsFit /\ RunPromises
           /\ PendingOK /\ RunsOK /\ CreatedOK /\ ClaimHeld
           /\ run \in [Projects -> Runs] /\ creation \in [Items -> CreationRec]
           /\ sent \in [Items -> Nat] /\ late \in [Items -> Nat]
           /\ crashes \in Nat /\ saveFailures \in Nat
           /\ snap \in [Projects -> Snaps] /\ command \in Commands \cup {None}
           /\ \A p \in Projects : run[p] \in Runs
    BY SchedulerAssumption, Promised
       DEF Inductive, Consistent, TypeOK, SchedTypeOK, HistTypeOK, ReadyTypeOK,
           StoreInv, ServiceTypeOK

\* A step around the queue.
LEMMA StillKept ==
    ASSUME QueueInductive, KnownStill, ReadinessKnown', backlog' \in {backlog, {}},
           UNCHANGED <<mem, disk, pend, run, saveFailures, sent, late, crashes, created>>
    PROVE  StorePromises' /\ RunPromises'
<1>1. StoreKept' /\ AdmissionsFit'
  <2>1. StoreKept'
      BY QueueFacts, QuietStoreKept
  <2>2. ASSUME NEW p \in Projects
        PROVE  /\ run[p].pc = "admit" => mem.rec[run[p].item].target = "new"
               /\ run[p].pc = "assoc" => creation'[run[p].item].state # "none"
    <3>1. run[p].pc = "assoc" => run[p].item \in Items
        BY QueueFacts DEF RunsOK, UnclaimedPcs
    <3> QED BY <3>1, QueueFacts DEF AdmissionsFit, KnownStill
  <2>3. \A i \in Items \ created : creation'[i].state = "none"
      BY QueueFacts DEF AdmissionsFit, KnownStill
  <2> QED BY <2>1, <2>2, <2>3 DEF AdmissionsFit
<1>2. ClaimsOwned' /\ BacklogHeld' /\ ResumesAnnounced'
    BY QueueFacts DEF RunPromises, ClaimsOwned, BacklogHeld, ResumesAnnounced, HoldsClaim,
                      Status, Paused
<1>3. DeliveriesCounted'
    BY QueueFacts DEF RunPromises, DeliveriesCounted, Completing, Present
<1> QED BY <1>1, <1>2, <1>3, Promised DEF StorePromises, StoreKept, RunPromises

\* The run of p goes on to r without a mutation.
Goes(p, r) ==
    /\ run' = [run EXCEPT ![p] = r]
    /\ UNCHANGED <<mem, disk, pend, saveFailures, crashes, created>>
    /\ run[p].pc \notin {"saving", "complete"}
    /\ run[p].pc \in ClaimPcs \cup {"fail"} /\ Status(run[p].item) = "dispatching"
          => r.item = run[p].item /\ r.pc \in ClaimPcs \cup {"fail"}

LEMMA DeliveriesStill ==
    ASSUME QueueInductive, NEW p \in Projects, NEW r, Goes(p, r), UNCHANGED <<sent, late>>
    PROVE  DeliveriesCounted'
<1>1. \A i \in Items : Completing(i) => Completing(i)'
    BY QueueFacts, ServiceAssumption DEF Goes, Completing
<1> QED BY <1>1, QueueFacts DEF RunPromises, DeliveriesCounted, Goes, Present

\* Which items are admitted: more, but none that was not created.
KnownGrows ==
    \A i \in Items : /\ creation[i].state # "none" => creation'[i].state # "none"
                     /\ i \notin created => creation'[i].state = "none"

LEMMA RunGoesKept ==
    ASSUME QueueInductive, NEW p \in Projects, NEW r, Goes(p, r), KnownGrows, StoreKept',
           DeliveriesCounted', ReadinessKnown', backlog' = {},
           r.pc = "admit" => mem.rec[r.item].target = "new",
           r.pc = "assoc" => creation'[r.item].state # "none"
    PROVE  StorePromises' /\ RunPromises'
<1>1. /\ run'[p] = r /\ \A q \in Projects : q # p => run'[q] = run[q]
      /\ UNCHANGED <<mem, disk, pend, saveFailures, crashes, created>>
    BY QueueFacts DEF Goes
<1>2. AdmissionsFit'
  <2>1. ASSUME NEW q \in Projects, q # p
        PROVE  /\ run[q].pc = "admit" => mem.rec[run[q].item].target = "new"
               /\ run[q].pc = "assoc" => creation'[run[q].item].state # "none"
    <3>1. run[q].pc = "assoc" => run[q].item \in Items
        BY QueueFacts DEF RunsOK, UnclaimedPcs
    <3> QED BY <3>1, QueueFacts DEF AdmissionsFit, KnownGrows
  <2>2. \A i \in Items \ created : creation'[i].state = "none"
      BY DEF KnownGrows
  <2> QED BY <1>1, <2>1, <2>2 DEF AdmissionsFit
<1>3. ClaimsOwned'
  <2> SUFFICES ASSUME saveFailures = 0, NEW i \in Items, Status(i) = "dispatching"
               PROVE  LET q == ProjectOf[i]
                      IN  run'[q].item = i /\ (HoldsClaim(q)' \/ run'[q].pc = "fail")
      BY <1>1 DEF ClaimsOwned, Status
  <2> DEFINE q == ProjectOf[i]
  <2>1. q \in Projects /\ run[q].item = i /\ (HoldsClaim(q) \/ run[q].pc = "fail")
      BY QueueFacts, ServiceAssumption DEF RunPromises, ClaimsOwned
  <2>2. CASE q = p
    <3>1. run[p].pc \in ClaimPcs \cup {"fail"}
        BY <2>1, <2>2 DEF HoldsClaim, Goes
    <3>2. r.item = i /\ r.pc \in ClaimPcs \cup {"fail"}
        BY <2>1, <2>2, <3>1 DEF Goes
    <3> QED BY <1>1, <2>2, <3>2 DEF HoldsClaim
  <2>3. CASE q # p
      BY <1>1, <2>1, <2>3 DEF HoldsClaim
  <2> QED BY <2>2, <2>3
<1>4. BacklogHeld' /\ ResumesAnnounced'
    BY <1>1, QueueFacts DEF RunPromises, BacklogHeld, ResumesAnnounced
<1> QED BY <1>2, <1>3, <1>4, Promised DEF StorePromises, StoreKept, RunPromises

\* The run of p opens a mutation of i.
LEMMA RunOpensKept ==
    ASSUME QueueInductive, NEW p \in Projects, NEW i \in Items, ProjectOf[i] = p,
           Mutate(p, i), OpensPlainly, pend'.item = i, SameStatus(mem, mem', i),
           Status(i)' = "dispatching" => pend'.op \in {"claim", "associate"},
           run[p].pc \notin {"off", "idle", "ready"},
           run[p].pc \in ClaimPcs \cup {"fail"} => i = run[p].item,
           run[p].pc = "complete" => pend'.op = "complete"
    PROVE  StorePromises' /\ RunPromises'
<1>1. /\ Unlocked /\ pend'.op \in Plain /\ UNCHANGED <<disk, creation>>
      /\ Rewrites(mem', Drops(pend'.op, i))
      /\ pend'.resumed => pend'.op # "pause"
      /\ \A q \in Projects : run[q].pc # "saving"
    BY QueueFacts, UnlockedIdle DEF OpensPlainly
<1>2. /\ run' = [run EXCEPT ![p].pc = "saving", ![p].item = i]
      /\ UNCHANGED <<timer, snap, aborted, blocked, sent, late, command, crashes, saveFailures,
                     created, backlog, proved>>
    BY DEF Mutate, RunFrame
<1>3. /\ run'[p].pc = "saving" /\ run'[p].item = i /\ run'[p].force = run[p].force
      /\ \A q \in Projects : q # p => run'[q] = run[q]
    BY <1>2, QueueFacts DEF Runs
<1>4. StoreKept'
    BY <1>2, QueueFacts, PlainStoreKept
<1>5. AdmissionsFit'
  <2>1. ASSUME NEW q \in Projects, q # p
        PROVE  /\ run[q].pc = "admit" => mem'.rec[run[q].item].target = "new"
               /\ run[q].pc = "assoc" => creation[run[q].item].state # "none"
    <3>1. run[q].pc = "admit" => run[q].item \in Items /\ ProjectOf[run[q].item] = q
        BY QueueFacts DEF RunsOK, UnclaimedPcs
    <3>2. \A j \in Items : j # i => mem'.rec[j].target = mem.rec[j].target
        BY <1>1 DEF Rewrites, Drops, Fits
    <3> QED BY <2>1, <3>1, <3>2, QueueFacts DEF AdmissionsFit
  <2>2. \A j \in Items \ created : creation[j].state = "none"
      BY QueueFacts DEF AdmissionsFit
  <2> QED BY <1>1, <1>2, <1>3, <2>1, <2>2 DEF AdmissionsFit
<1>6. ClaimsOwned'
  <2> SUFFICES ASSUME saveFailures = 0, NEW j \in Items, Status(j)' = "dispatching"
               PROVE  LET q == ProjectOf[j]
                      IN  run'[q].item = j /\ (HoldsClaim(q)' \/ run'[q].pc = "fail")
      BY <1>2 DEF ClaimsOwned
  <2> DEFINE q == ProjectOf[j]
  <2>1. CASE j = i
      BY <1>3, <2>1 DEF HoldsClaim
  <2>2. CASE j # i
    <3>1. Status(j) = "dispatching"
        BY <2>2 DEF SameStatus, Status
    <3>2. q \in Projects /\ run[q].item = j /\ run[q].pc \in ClaimPcs \cup {"fail"}
        BY <1>1, <3>1, QueueFacts, ServiceAssumption DEF RunPromises, ClaimsOwned, HoldsClaim
    <3>3. q # p
        BY <2>2, <3>2
    <3> QED BY <1>3, <3>2, <3>3 DEF HoldsClaim
  <2> QED BY <2>1, <2>2
<1>7. DeliveriesCounted'
  <2>1. ASSUME NEW j \in Items, j \in Present(mem')
        PROVE  j \in Present(mem) /\ (Completing(j) => Completing(j)')
    <3>1. Absent.status = "absent"
        BY DEF Absent
    <3>2. j \notin Drops(pend'.op, i) /\ j \in Present(mem)
        BY <1>1, <2>1, <3>1 DEF Rewrites, Fits, Present
    <3>3. Completing(j) => ProjectOf[j] # p
        BY <3>2 DEF Completing, Drops, ClaimPcs
    <3> QED BY <1>3, <3>2, <3>3, ServiceAssumption DEF Completing
  <2> QED BY <1>2, <2>1, QueueFacts DEF RunPromises, DeliveriesCounted
<1>8. BacklogHeld' /\ ReadinessKnown' /\ ResumesAnnounced'
  <2>1. backlog = {}
    <3>1. NoRun.pc = "off"
        BY DEF NoRun
    <3> QED BY <3>1, QueueFacts DEF RunPromises, BacklogHeld
  <2>2. ReadinessKnown'
      BY <1>2, <1>3, QueueFacts DEF RunPromises, ReadinessKnown
  <2> QED BY <1>1, <1>2, <2>1, <2>2 DEF BacklogHeld, ResumesAnnounced
<1> QED BY <1>4, <1>5, <1>6, <1>7, <1>8, Promised DEF StorePromises, StoreKept, RunPromises

\* A user or a promotion opens a mutation.
LEMMA UserOpensKept ==
    ASSUME QueueInductive, Unlocked, StoreKept',
           UNCHANGED <<run, sent, late, crashes, saveFailures, snap, command, proved, creation>>,
           created \subseteq created',
           \A j \in Items : mem'.rec[j].status = "dispatching"
                              => mem.rec[j].status = "dispatching",
           \A j \in Items : mem.rec[j].status = "dispatching"
                              => mem'.rec[j].target = mem.rec[j].target,
           \A j \in Present(mem') : j \in Present(mem) \/ j \notin created,
           pend'.resumed => pend'.op # "pause",
           \/ backlog' = {}
           \/ /\ backlog' = backlog /\ pend'.op # "update"
              /\ mem.paused # "no" => mem'.paused # "no"
    PROVE  StorePromises' /\ RunPromises'
<1>1. \A p \in Projects : run[p].pc # "saving"
    BY QueueFacts, UnlockedIdle
<1>2. AdmissionsFit'
  <2>1. ASSUME NEW p \in Projects, run[p].pc = "admit"
        PROVE  mem'.rec[run[p].item].target = "new"
    <3>1. run[p].item \in Items /\ mem.rec[run[p].item].status = "dispatching"
        BY <2>1, QueueFacts DEF RunsOK, UnclaimedPcs, ClaimHeld, HoldsClaim, ClaimPcs, Status
    <3> QED BY <2>1, <3>1, QueueFacts DEF AdmissionsFit
  <2> QED BY <2>1, QueueFacts DEF AdmissionsFit
<1>3. ClaimsOwned'
  <2> SUFFICES ASSUME saveFailures = 0, NEW j \in Items, Status(j)' = "dispatching"
               PROVE  LET q == ProjectOf[j]
                      IN  run'[q].item = j /\ (HoldsClaim(q)' \/ run'[q].pc = "fail")
      BY DEF ClaimsOwned
  <2>1. Status(j) = "dispatching" /\ ProjectOf[j] \in Projects
      BY ServiceAssumption DEF Status
  <2> QED BY <1>1, <2>1, QueueFacts DEF RunPromises, ClaimsOwned, HoldsClaim
<1>4. DeliveriesCounted'
  <2>1. \A j \in Items : Completing(j)' <=> Completing(j)
      BY DEF Completing
  <2>2. \A j \in Items : j \notin created => sent[j] = 0 /\ sent[j] <= crashes + late[j]
      BY QueueFacts DEF RunPromises, DeliveriesCounted
  <2> QED BY <2>1, <2>2, QueueFacts DEF RunPromises, DeliveriesCounted
<1>5. BacklogHeld' /\ ReadinessKnown' /\ ResumesAnnounced'
  <2>1. BacklogHeld'
      BY QueueFacts DEF RunPromises, BacklogHeld, Paused
  <2>2. ReadinessKnown' /\ ResumesAnnounced'
      BY QueueFacts DEF RunPromises, ReadinessKnown, ResumesAnnounced
  <2> QED BY <2>1, <2>2
<1> QED BY <1>2, <1>3, <1>4, <1>5, Promised DEF StorePromises, StoreKept, RunPromises

\* The pending save settles, and the run that awaits it goes on at pc.
LEMMA ClosesKept ==
    ASSUME QueueInductive, ~Unlocked, StoreKept', pend' = NoMutation, NEW pc, Awaiting(pc),
           pc \notin {"off", "saving", "admit", "assoc", "complete"},
           UNCHANGED <<sent, late, crashes, creation, created, backlog, command, proved>>,
           \A q \in Projects : snap'[q].key \in {None, snap[q].key},
           \A j \in Items : mem.rec[j].status = "dispatching"
                              => mem'.rec[j].target = mem.rec[j].target,
           Present(mem') \subseteq Present(mem),
           backlog # {} => mem'.paused = mem.paused,
           \/ saveFailures' # 0
           \/ /\ mem' = mem /\ saveFailures' = saveFailures
              /\ pend.op \in {"claim", "associate"} => pc \in ClaimPcs
    PROVE  StorePromises' /\ RunPromises'
<1>1. ASSUME NEW q \in Projects
      PROVE  /\ run'[q].item = run[q].item /\ run'[q].force = run[q].force
             /\ \/ run'[q] = run[q] /\ run[q].pc # "saving"
                \/ run[q].pc = "saving" /\ run'[q].pc = pc
  <2>1. run[q].pc = "saving" <=> pend.by = "run" /\ q = ProjectOf[pend.item]
      BY QueueFacts DEF PendingOK, RunsOK, UnclaimedPcs
  <2>2. run[q] \in Runs /\ run \in [Projects -> Runs]
      BY QueueFacts
  <2>3. CASE run[q].pc = "saving"
    <3>1. run' = [run EXCEPT ![q].pc = pc]
        BY <2>1, <2>3 DEF Awaiting
    <3> QED BY <2>2, <2>3, <3>1 DEF Runs
  <2>4. CASE run[q].pc # "saving"
    <3>1. run' = run \/ (run' = [run EXCEPT ![ProjectOf[pend.item]].pc = pc]
                         /\ q # ProjectOf[pend.item])
        BY <2>1, <2>4 DEF Awaiting
    <3> QED BY <2>2, <2>4, <3>1
  <2> QED BY <2>3, <2>4
<1>2. AdmissionsFit'
  <2>1. ASSUME NEW p \in Projects
        PROVE  /\ run'[p].pc = "admit" => mem'.rec[run'[p].item].target = "new"
               /\ run'[p].pc = "assoc" => creation[run'[p].item].state # "none"
    <3>1. run'[p].pc \in {"admit", "assoc"} => run'[p] = run[p]
        BY <1>1
    <3>2. run[p].pc = "admit" =>
             run[p].item \in Items /\ mem.rec[run[p].item].status = "dispatching"
        BY QueueFacts DEF RunsOK, UnclaimedPcs, ClaimHeld, HoldsClaim, ClaimPcs, Status
    <3> QED BY <3>1, <3>2, QueueFacts DEF AdmissionsFit
  <2> QED BY <2>1, QueueFacts DEF AdmissionsFit
<1>3. ClaimsOwned'
  <2> SUFFICES ASSUME saveFailures' = 0, NEW j \in Items, Status(j)' = "dispatching"
               PROVE  LET q == ProjectOf[j]
                      IN  run'[q].item = j /\ (HoldsClaim(q)' \/ run'[q].pc = "fail")
      BY DEF ClaimsOwned
  <2> DEFINE q == ProjectOf[j]
  <2>1. /\ q \in Projects /\ run[q].item = j /\ (HoldsClaim(q) \/ run[q].pc = "fail")
        /\ pend.op \in {"claim", "associate"} => pc \in ClaimPcs
      BY QueueFacts, ServiceAssumption DEF RunPromises, ClaimsOwned, Status
  <2> QED BY <1>1, <2>1 DEF HoldsClaim, ClaimPcs
<1>4. DeliveriesCounted'
  <2>1. \A j \in Items : Completing(j) => Completing(j)'
      BY <1>1, ServiceAssumption DEF Completing
  <2> QED BY <2>1, QueueFacts DEF RunPromises, DeliveriesCounted
<1>5. BacklogHeld'
  <2>1. ASSUME backlog # {}
        PROVE  mem.paused # "no" /\ \A q \in Projects : run'[q] = NoRun
    <3>1. mem.paused # "no" /\ \A q \in Projects : run[q] = NoRun
        BY <2>1, QueueFacts DEF RunPromises, BacklogHeld, Paused
    <3>2. NoRun.pc # "saving"
        BY DEF NoRun
    <3> QED BY <1>1, <3>1, <3>2
  <2> QED BY <2>1, NoMutationLeft DEF BacklogHeld, Paused
<1>6. ReadinessKnown' /\ ResumesAnnounced'
  <2>1. ResumesAnnounced'
      BY NoMutationLeft DEF ResumesAnnounced
  <2>2. ASSUME NEW q \in Projects
        PROVE  /\ snap'[q].key \in {None, command}
               /\ run'[q].pc \notin {"off", "idle", "ready"} /\ ~run'[q].force
                  /\ snap'[q].key # None => q \in proved
    <3>1. /\ snap[q].key \in {None, command}
          /\ run[q].pc \notin {"off", "idle", "ready"} /\ ~run[q].force
                  /\ snap[q].key # None => q \in proved
        BY QueueFacts DEF RunPromises, ReadinessKnown
    <3> QED BY <1>1, <3>1
  <2> QED BY <2>1, <2>2 DEF ReadinessKnown
<1> QED BY <1>2, <1>3, <1>4, <1>5, <1>6, Promised DEF StorePromises, StoreKept, RunPromises

-----------------------------------------------------------------------------
(* Part 4.  The actions of users, and the save they wait for.               *)

\* Only a run claims an item.
LEMMA UsersClaimNothing ==
    ASSUME StoreInv, NEW i \in Items, NEW id,
           DoDelete(i) \/ DoRetry(i, id) \/ DoMoveToTop(i)
    PROVE  mem'.rec[i].status # "dispatching"
<1> DEFINE m == Reconciled(mem)
<1>1. /\ m \in QueueState /\ StateOK(m) /\ m.rec[i].status = mem.rec[i].status
      /\ m.rec \in [Items -> ItemRec] /\ mem.rec[i].status \in {"queued", "failed"}
    BY StoreFacts DEF DoDelete, DoRetry, DoMoveToTop, Status, QueueState
<1>2. CASE DoDelete(i)
  <2>1. OpensPlainly /\ pend'.op = "delete" /\ pend'.item = i
      BY <1>2, UsersOpenPlainly DEF DoDelete, ItemAction, Open, Mutation
  <2>2. Absent.status = "absent"
      BY DEF Absent
  <2> QED BY <2>1, <2>2 DEF OpensPlainly, Rewrites, Drops
<1>3. CASE DoRetry(i, id)
  <2> DEFINE r == [m.rec[i] EXCEPT !.status = "queued", !.fails = 0, !.retryId = id]
             n == [m EXCEPT !.rec[i] = r]
  <2>1. r.status = "queued"
      BY <1>1 DEF ItemRec
  <2>2. mem' = [n EXCEPT !.paused = "no"]
      BY <1>1, <1>3 DEF DoRetry, ItemAction, Open, QueueState
  <2>3. mem'.rec = [m.rec EXCEPT ![i] = r]
      BY <1>1, <2>2 DEF QueueState
  <2> HIDE DEF r, n
  <2> QED BY <1>1, <2>1, <2>3
<1>4. CASE DoMoveToTop(i)
  <2> DEFINE n == ToTop(m, i)
  <2>1. n \in QueueState /\ n.rec = m.rec
    <3>1. m.rec[i].status # "absent"
        BY <1>1
    <3> HIDE DEF m
    <3> QED BY <1>1, <3>1, ToTopOK DEF StateOK
  <2>2. \E o \in {m, n} : mem' = [o EXCEPT !.paused = "no"]
      BY <1>4 DEF DoMoveToTop, ItemAction, Open
  <2> HIDE DEF m, n
  <2>3. mem'.rec = m.rec
      BY <1>1, <2>1, <2>2 DEF QueueState
  <2> QED BY <1>1, <2>3
<1> QED BY <1>2, <1>3, <1>4

\* The user's mutations other than a creation and an edit.
LEMMA UsersKept ==
    ASSUME QueueInductive, Unlocked, UserFrame, OpensPlainly, created' = created,
           NEW i \in Items \cup {None}, SameStatus(mem, mem', i), pend'.item = i,
           i \in Items => /\ mem.rec[i].status # "dispatching"
                          /\ mem'.rec[i].status # "dispatching",
           \/ backlog' = {}
           \/ backlog' = backlog /\ mem'.paused # "no"
    PROVE  StorePromises' /\ RunPromises'
<1>1. /\ UNCHANGED <<run, sent, late, crashes, saveFailures, snap, command, proved, creation>>
      /\ pend'.op # "update" /\ (pend'.resumed => pend'.op # "pause")
    BY DEF UserFrame, schedVars, readyVars, OpensPlainly, Plain
<1>2. StoreKept'
    BY <1>1, QueueFacts, PlainStoreKept
<1>3. ASSUME NEW j \in Items
      PROVE  /\ mem'.rec[j].status = "dispatching" => mem.rec[j].status = "dispatching"
             /\ mem.rec[j].status = "dispatching" => mem'.rec[j].target = mem.rec[j].target
             /\ mem'.rec[j].status # "absent" => mem.rec[j].status # "absent"
  <2>1. Absent.status = "absent"
      BY DEF Absent
  <2>2. j \in Drops(pend'.op, i) => j = i
      BY DEF Drops
  <2> QED BY <2>1, <2>2 DEF OpensPlainly, Rewrites, Fits, SameStatus
<1>4. Present(mem') \subseteq Present(mem)
    BY <1>3 DEF Present
<1> QED BY <1>1, <1>2, <1>3, <1>4, UserOpensKept

LEMMA ItemActionsKept ==
    ASSUME QueueInductive, NEW i \in Items,
           DeleteItem(i) \/ MoveItemToTop(i) \/ RetryItem(i)
    PROVE  StorePromises' /\ RunPromises'
<1>1. PICK id : /\ DoDelete(i) \/ DoRetry(i, id) \/ DoMoveToTop(i)
                /\ id \in Nat /\ id \in 0..MaxRetries /\ UserFrame
                /\ backlog' = {} /\ created' = created
  <2>1. \A j \in Items : retries[j] \in Nat /\ retries[j] <= MaxRetries
      BY SchedulerAssumption, ServiceAssumption
         DEF QueueInductive, Inductive, TypeOK, HistTypeOK
  <2>2. MaxRetries \in Nat
      BY ServiceAssumption
  <2>3. CASE RetryItem(i)
    <3>1. retries[i] + 1 \in 0..MaxRetries /\ retries[i] + 1 \in Nat
        BY <2>1, <2>2, <2>3 DEF RetryItem
    <3> QED BY <2>3, <3>1 DEF RetryItem
  <2>4. CASE DeleteItem(i) \/ MoveItemToTop(i)
    <3>1. 0 \in Nat /\ 0 \in 0..MaxRetries
        BY <2>2
    <3> QED BY <2>4, <3>1 DEF DeleteItem, MoveItemToTop
  <2> QED BY <2>3, <2>4
<1>2. /\ Unlocked /\ mem.rec[i].status \in {"queued", "failed"} /\ pend'.item = i
    BY <1>1 DEF DoDelete, DoRetry, DoMoveToTop, Status, ItemAction, Open, Mutation
<1>3. \E op : Effect(op, i, "user")
    BY <1>1, QueueFacts, DeleteOK, RetryOK, MoveToTopOK
<1>4. SameStatus(mem, mem', i)
    BY <1>3 DEF Effect
<1>5. OpensPlainly /\ mem'.rec[i].status # "dispatching"
    BY <1>1, QueueFacts, UsersOpenPlainly, UsersClaimNothing
<1> QED BY <1>1, <1>2, <1>4, <1>5, UsersKept

LEMMA PausesKept ==
    ASSUME QueueInductive,
           ResumeDispatch \/ \E reason \in Pausable : PauseDispatch(reason)
    PROVE  StorePromises' /\ RunPromises'
<1>1. PICK reason \in {"manual", "restart"} :
         /\ UserFrame /\ created' = created /\ Unlocked
         /\ \/ DoResume("user") /\ backlog' = {}
            \/ DoPause(reason) /\ backlog' = backlog
    BY SchedulerAssumption DEF ResumeDispatch, PauseDispatch, DoResume, DoPause
<1>2. OpensPlainly /\ pend'.item = None
    BY <1>1, QueueFacts, PausesOpenPlainly DEF DoResume, DoPause, Open, Mutation
<1>3. mem'.rec = mem.rec
    BY <1>1, QueueFacts, ResumeDispatchOK, PauseOK
<1>4. DoPause(reason) => mem'.paused # "no"
    BY QueueFacts DEF DoPause, Open, StoreInv, StateOK, QueueState
<1>5. SameStatus(mem, mem', None) /\ None \notin Items
    BY <1>3, ServiceAssumption DEF SameStatus
<1> QED BY <1>1, <1>2, <1>4, <1>5, UsersKept

LEMMA CreateItemKept ==
    ASSUME QueueInductive, NEW i \in Items, NEW target \in Targets, CreateItem(i, target)
    PROVE  StorePromises' /\ RunPromises'
<1>1. /\ i \notin created /\ DoCreate(i, target) /\ created' = created \cup {i}
      /\ backlog' = backlog /\ UserFrame /\ Unlocked
    BY DEF CreateItem, DoCreate
<1>2. /\ UNCHANGED <<run, sent, late, crashes, saveFailures, snap, command, proved>>
    BY <1>1 DEF UserFrame, schedVars, readyVars
<1>3. i \notin Present(mem) \cup Present(disk) /\ creation[i].state = "none"
    BY <1>1, QueueFacts DEF CreatedOK, AdmissionsFit
<1>4. StoreKept'
    BY <1>1, <1>2, <1>3, QueueFacts, CreateStoreKept
<1>5. /\ pend'.op = "create" /\ ~pend'.resumed /\ mem'.paused = mem.paused
      /\ creation' = creation /\ mem'.rec[i].status = "queued"
      /\ \A j \in Items \ {i} : mem'.rec[j] = mem.rec[j]
    BY <1>1, QueueFacts, CreateRecords
<1>6. mem.rec[i].status = "absent"
    BY <1>3 DEF Present
<1>7. \A j \in Present(mem') : j \in Present(mem) \/ j \notin created
    BY <1>1, <1>5 DEF Present
<1> QED BY <1>1, <1>2, <1>4, <1>5, <1>6, <1>7, UserOpensKept

LEMMA UpdateItemKept ==
    ASSUME QueueInductive, NEW i \in Items, NEW target \in Targets, UpdateItem(i, target)
    PROVE  StorePromises' /\ RunPromises'
<1>1. /\ DoUpdate(i, target) /\ created' = created /\ backlog' = {} /\ UserFrame /\ Unlocked
    BY DEF UpdateItem, DoUpdate
<1>2. /\ UNCHANGED <<run, sent, late, crashes, saveFailures, snap, command, proved>>
    BY <1>1 DEF UserFrame, schedVars, readyVars
<1>3. StoreKept'
    BY <1>1, <1>2, QueueFacts, UpdateStoreKept
<1>4. /\ pend'.op = "update" /\ creation' = creation
      /\ mem.rec[i].status \in {"queued", "failed"} /\ mem'.rec[i].status = "queued"
      /\ \A j \in Items \ {i} : mem'.rec[j] = Reconciled(mem).rec[j]
    BY <1>1, QueueFacts, UpdateRecords
<1>5. \A j \in Items : /\ Fits(mem.rec[j], Reconciled(mem).rec[j], j)
                       /\ Reconciled(mem).rec[j].status = mem.rec[j].status
    BY QueueFacts, ReconciledRecords
<1>6. \A j \in Present(mem') : j \in Present(mem)
    BY <1>4, <1>5 DEF Present
<1> QED BY <1>1, <1>2, <1>3, <1>4, <1>5, <1>6, UserOpensKept DEF Fits

\* An event forgets readiness snapshots and learns none.
LEMMA AnnounceForgets ==
    ASSUME NEW sched, NEW disarm, Announce(sched, disarm), snap \in [Projects -> Snaps]
    PROVE  \A q \in Projects : snap'[q].key \in {None, snap[q].key}
<1>1. NoSnap.key = None
    BY DEF NoSnap
<1> QED BY <1>1 DEF Announce

LEMMA SaveSucceedsKept ==
    ASSUME QueueInductive, SaveSucceeds
    PROVE  StorePromises' /\ RunPromises'
<1> DEFINE pc == CASE pend.op = "claim"     -> "claimed"
                   [] pend.op = "associate" -> "associated"
                   [] pend.op = "release"   -> "released"
                   [] pend.op = "startupFail" /\ Status(pend.item) = "queued" ->
                        "released"
                   [] OTHER                 -> "done"
<1>1. /\ SaveDone /\ OnQueueChanged /\ Awaiting(pc)
      /\ UNCHANGED <<creation, command, sent, late, crashes, created, backlog, proved,
                     saveFailures>>
    BY DEF SaveSucceeds, histVars, counters
<1>2. /\ pc \in {"claimed", "associated", "released", "done"}
      /\ pend.op \in {"claim", "associate"} => pc \in ClaimPcs
    BY DEF ClaimPcs
<1> HIDE DEF pc
<1>3. /\ mem' = mem /\ pend' = NoMutation /\ ~Unlocked
    BY <1>1 DEF SaveDone
<1>4. StoreKept'
    BY <1>1, QueueFacts, SaveDoneStoreKept
<1>5. \A q \in Projects : snap'[q].key \in {None, snap[q].key}
  <2>1. snap' = snap \/ \E sched, disarm : Announce(sched, disarm)
      BY <1>1 DEF OnQueueChanged, PauseAll
  <2> QED BY <2>1, QueueFacts, AnnounceForgets
<1>6. Present(mem') = Present(mem)
    BY <1>3
<1> QED BY <1>1, <1>2, <1>3, <1>4, <1>5, <1>6, ClosesKept

LEMMA FailureKept ==
    ASSUME QueueInductive, SaveFails \/ CleanupFails
    PROVE  StorePromises' /\ RunPromises'
<1>1. /\ Awaiting(OnFailure) /\ saveFailures' = saveFailures + 1
      /\ UNCHANGED <<creation, command, snap, sent, late, crashes, created, backlog, proved>>
    BY DEF SaveFails, CleanupFails, Failure, readyVars
<1> DEFINE pc == OnFailure
<1>2. pc \in {"fail", "refused", "done"}
    BY DEF OnFailure
<1>3. Awaiting(pc) /\ saveFailures' # 0
    BY <1>1, QueueFacts
<1> HIDE DEF pc
<1>4. /\ StoreKept' /\ pend' = NoMutation /\ ~Unlocked
      /\ \A j \in Items : mem.rec[j].status = "dispatching"
                            => mem'.rec[j].target = mem.rec[j].target
      /\ Present(mem') \subseteq Present(mem)
      /\ backlog # {} => mem'.paused = mem.paused
  <2>1. CASE SaveFailed
    <3>1. /\ StoreKept' /\ Present(mem') \subseteq Present(mem)
          /\ pend' = NoMutation /\ ~Unlocked
          /\ pend.op \notin {"create", "update"} => mem' = mem
          /\ Undoable => mem' = pend.undo
        BY <1>1, <1>3, <2>1, QueueFacts, SaveFailedStoreKept, SaveFailedOK
           DEF SaveFailed, Undoable
    <3>2. CASE Undoable
      <4>1. /\ pend.item \in Items /\ mem.rec[pend.item].status = "queued"
            /\ \A j \in Items \ {pend.item} : pend.undo.rec[j] = mem.rec[j]
            /\ pend.op = "create" => pend.undo.paused = mem.paused
          BY <3>2, QueueFacts DEF StoreKept, UndoExact, StoreInv, UndoOK, Undoable
      <4>2. backlog # {} => pend.op # "update"
          BY QueueFacts DEF RunPromises, BacklogHeld
      <4> QED BY <3>1, <3>2, <4>1, <4>2 DEF Undoable
    <3>3. CASE ~Undoable
        BY <3>1, <3>3 DEF Undoable
    <3> QED BY <3>2, <3>3
  <2>2. CASE SaveDone
    <3>1. mem' = mem /\ pend' = NoMutation /\ ~Unlocked
        BY <2>2 DEF SaveDone
    <3>2. StoreKept'
        BY <1>1, <2>2, QueueFacts, SaveDoneStoreKept
    <3> QED BY <3>1, <3>2 DEF Present
  <2> QED BY <2>1, <2>2 DEF SaveFails, CleanupFails
<1> QED BY <1>1, <1>2, <1>3, <1>4, ClosesKept

\* A restart counts a crash and holds the backlog.
LEMMA RestartKept ==
    ASSUME QueueInductive, NEW image \in CrashImages, NEW saved \in BOOLEAN,
           Restart(image, saved)
    PROVE  StorePromises' /\ RunPromises'
<1>1. /\ crashes' = crashes + 1 /\ (~saved => saveFailures' = saveFailures + 1)
      /\ Initialize(image, saved) /\ creation' \in OwnerLost
      /\ run' = [p \in Projects |-> NoRun] /\ snap' = [p \in Projects |-> NoSnap]
      /\ backlog' = Present(mem') /\ UNCHANGED <<command, sent, late, created>>
    BY DEF Restart, Present
<1>2. KnownStill
  <2> SUFFICES ASSUME NEW i \in Items
               PROVE  creation'[i].state = "none" <=> creation[i].state = "none"
      BY DEF KnownStill
  <2>1. creation[i] \in CreationRec
      BY QueueFacts
  <2>2. CASE creation[i].state # "open"
      BY <1>1, <2>2 DEF OwnerLost
  <2>3. CASE creation[i].state = "open"
    <3>1. PICK s \in {"failed", "uncertain"} : creation'[i] = [creation[i] EXCEPT !.state = s]
        BY <1>1, <2>3 DEF OwnerLost
    <3>2. creation'[i].state = s
        BY <2>1, <3>1 DEF CreationRec
    <3> QED BY <2>3, <3>2
  <2> QED BY <2>2, <2>3
<1>3. ~saved => saveFailures' # 0
    BY <1>1, QueueFacts
<1>4. /\ StoreKept' /\ pend' = NoMutation
      /\ \A j \in Items : mem'.rec[j].status # "dispatching"
      /\ Present(mem') # {} => mem'.paused # "no"
    BY <1>1, <1>2, <1>3, QueueFacts, RestartStoreKept DEF Initialize
<1>5. /\ NoRun.pc = "off" /\ NoSnap.key = None
      /\ \A p \in Projects : run'[p] = NoRun /\ snap'[p] = NoSnap
    BY <1>1 DEF NoRun, NoSnap
<1>6. AdmissionsFit'
    BY <1>1, <1>2, <1>5, QueueFacts DEF AdmissionsFit, KnownStill
<1>7. ClaimsOwned' /\ BacklogHeld' /\ ReadinessKnown' /\ ResumesAnnounced'
    BY <1>1, <1>4, <1>5, NoMutationLeft
       DEF ClaimsOwned, BacklogHeld, ReadinessKnown, ResumesAnnounced, Status, Paused
<1>8. DeliveriesCounted'
    BY <1>1, QueueFacts DEF RunPromises, DeliveriesCounted
<1> QED BY <1>4, <1>6, <1>7, <1>8, Promised DEF StorePromises, StoreKept, RunPromises

-----------------------------------------------------------------------------
(* Part 5.  The runs.                                                       *)

\* Starting one: a backlog is paused, and a paused queue starts nothing.
LEMMA StartRunKept ==
    ASSUME QueueInductive, NEW p \in Projects, NEW i, NEW auto, NEW force,
           StartRun(p, i, auto, force),
           UNCHANGED <<serviceVars, snap, command, proved, counters>>,
           backlog' \in {backlog, {}}
    PROVE  StorePromises' /\ RunPromises'
<1> DEFINE pc == IF force THEN "claim" ELSE "idle"
           key == IF force THEN command ELSE None
           r == [NoRun EXCEPT !.pc = pc, !.want = i, !.auto = auto, !.force = force,
                              !.busy = p \in turn \cup ext /\ ~force, !.key = key]
<1>1. UNCHANGED <<mem, disk, pend, creation, saveFailures, crashes, created, sent, late>>
    BY DEF serviceVars, counters
<1>2. \/ run' = run
      \/ run' = [run EXCEPT ![p] = r] /\ run[p].pc = "off" /\ ~Paused
    BY DEF StartRun, InFlight
<1>3. r.pc = pc /\ r.force = force
    BY DEF NoRun
<1>4. pc \in {"claim", "idle"} /\ (~force => pc = "idle")
    OBVIOUS
<1> HIDE DEF r, pc, key
<1>5. KnownStill /\ KnownGrows
    BY <1>1, QueueFacts DEF KnownStill, KnownGrows, AdmissionsFit
<1>6. CASE run' = run
  <2>1. ReadinessKnown'
      BY <1>6, QueueFacts DEF RunPromises, ReadinessKnown
  <2> QED BY <1>1, <1>5, <1>6, <2>1, StillKept
<1>7. CASE run' = [run EXCEPT ![p] = r] /\ run[p].pc = "off" /\ ~Paused
  <2>1. Goes(p, r)
      BY <1>1, <1>7 DEF Goes, ClaimPcs
  <2>2. StoreKept' /\ DeliveriesCounted' /\ backlog' = {}
      BY <1>1, <1>5, <1>7, <2>1, QueueFacts, QuietStoreKept, DeliveriesStill
         DEF RunPromises, BacklogHeld
  <2>3. ReadinessKnown'
    <3>1. run'[p] = r /\ \A q \in Projects : q # p => run'[q] = run[q]
        BY <1>7, QueueFacts
    <3> QED BY <1>3, <1>4, <3>1, QueueFacts DEF RunPromises, ReadinessKnown
  <2> QED BY <1>3, <1>4, <1>5, <2>1, <2>2, <2>3, RunGoesKept
<1> QED BY <1>2, <1>6, <1>7

LEMMA TimerFiresKept ==
    ASSUME QueueInductive, NEW p \in Projects, TimerFires(p)
    PROVE  StorePromises' /\ RunPromises'
    BY StartRunKept DEF TimerFires, readyVars, histVars

LEMMA PromoteResumedKept ==
    ASSUME QueueInductive, PromoteResumed
    PROVE  StorePromises' /\ RunPromises'
<1>1. promo.project \in Projects
    BY QueueFacts DEF PromoteResumed, RunsOK
<1> QED BY <1>1, StartRunKept DEF PromoteResumed, StartNow, readyVars

LEMMA PromoteNowKept ==
    ASSUME QueueInductive, NEW p \in Projects, NEW i, NEW force, PromoteNow(p, i, force)
    PROVE  StorePromises' /\ RunPromises'
<1>1. /\ \/ DoResume("promote") /\ run' = run
         \/ StartRun(p, i, FALSE, force) /\ UNCHANGED serviceVars
      /\ backlog' = {} /\ UNCHANGED <<snap, command, proved, counters>>
    BY DEF PromoteNow, StartNow, readyVars
<1>2. CASE DoResume("promote") /\ run' = run
  <2>1. Unlocked /\ OpensPlainly /\ mem'.rec = mem.rec
      BY <1>2, QueueFacts, PausesOpenPlainly, ResumeDispatchOK DEF DoResume
  <2>2. /\ UNCHANGED <<run, sent, late, crashes, saveFailures, snap, command, proved, creation,
                       created>>
        /\ pend'.resumed => pend'.op # "pause"
      BY <1>1, <1>2, <2>1 DEF OpensPlainly, counters
  <2>3. StoreKept'
      BY <2>1, <2>2, QueueFacts, PlainStoreKept
  <2>4. Present(mem') = Present(mem)
      BY <2>1 DEF Present
  <2> QED BY <1>1, <2>1, <2>2, <2>3, <2>4, UserOpensKept
<1>3. CASE StartRun(p, i, FALSE, force) /\ UNCHANGED serviceVars
    BY <1>1, <1>3, StartRunKept
<1> QED BY <1>1, <1>2, <1>3

\* What the steps of a run leave the readiness state and the backlog.
LEMMA RunKnows ==
    ASSUME QueueInductive, NEW p \in Projects, NEW r, run' = [run EXCEPT ![p] = r],
           run[p].pc # "off", backlog' = backlog, command' = command, proved \subseteq proved',
           snap'[p].key \in {None, command},
           \A q \in Projects \ {p} : snap'[q] = snap[q],
           r.pc \notin {"off", "idle", "ready"} /\ ~r.force /\ snap'[p].key # None
              => p \in proved'
    PROVE  ReadinessKnown' /\ backlog' = {}
<1>1. NoRun.pc = "off"
    BY DEF NoRun
<1>2. backlog' = {}
    BY <1>1, QueueFacts DEF RunPromises, BacklogHeld
<1>3. run'[p] = r /\ \A q \in Projects : q # p => run'[q] = run[q]
    BY QueueFacts
<1> QED BY <1>2, <1>3, QueueFacts DEF RunPromises, ReadinessKnown

\* A run ends.
LEMMA EndsKept ==
    ASSUME QueueInductive, NEW p \in Projects, NEW retry, NEW s \in [Projects -> Snaps],
           EndRun(p, retry, s), \A q \in Projects \ {p} : s[q] = snap[q],
           s[p].key \in {None, command}, proved \subseteq proved',
           UNCHANGED <<mem, disk, pend, creation, saveFailures, crashes, created, sent, late,
                       command, backlog>>,
           run[p].pc \notin {"off", "saving", "complete"},
           run[p].pc \in ClaimPcs \cup {"fail"} => Status(run[p].item) # "dispatching"
    PROVE  StorePromises' /\ RunPromises'
<1>1. /\ run' = [run EXCEPT ![p] = NoRun] /\ NoRun.pc = "off" /\ NoSnap.key = None
      /\ snap' \in {s, [s EXCEPT ![p] = NoSnap]}
    BY DEF EndRun, NoRun, NoSnap
<1>2. KnownStill /\ KnownGrows
    BY QueueFacts DEF KnownStill, KnownGrows, AdmissionsFit
<1> HIDE DEF NoRun
<1>3. Goes(p, NoRun)
    BY <1>1 DEF Goes
<1>4. StoreKept' /\ DeliveriesCounted'
    BY <1>2, <1>3, QueueFacts, QuietStoreKept, DeliveriesStill
<1>5. ReadinessKnown' /\ backlog' = {}
    BY <1>1, RunKnows
<1> QED BY <1>1, <1>2, <1>3, <1>4, <1>5, RunGoesKept

LEMMA SettleKept ==
    ASSUME QueueInductive, NEW p \in Projects, NEW retry, Settle(p, retry),
           UNCHANGED <<serviceVars, saveFailures, crashes, created, sent, late, command, backlog>>,
           proved \subseteq proved', run[p].pc \notin {"off", "saving", "complete"},
           run[p].pc \in ClaimPcs \cup {"fail"} => Status(run[p].item) # "dispatching"
    PROVE  StorePromises' /\ RunPromises'
<1>1. snap[p].key \in {None, command}
    BY QueueFacts DEF RunPromises, ReadinessKnown
<1> QED BY <1>1, QueueFacts, EndsKept DEF Settle, serviceVars

\* A run that holds its claim goes on.
LEMMA GoesOnKept ==
    ASSUME QueueInductive, NEW p \in Projects, NEW r, run' = [run EXCEPT ![p] = r],
           UNCHANGED <<mem, disk, pend, saveFailures, crashes, created, snap, command,
                       backlog, proved>>,
           run[p].pc \in ClaimPcs \ {"complete"}, r.pc \in ClaimPcs \cup {"fail"},
           r.item = run[p].item, r.force = run[p].force,
           r.pc = "admit" => mem.rec[r.item].target = "new",
           r.pc = "assoc" => creation'[r.item].state # "none",
           KnownGrows, StoreKept', DeliveriesCounted'
    PROVE  StorePromises' /\ RunPromises'
<1>1. run[p].pc \notin {"off", "idle", "ready", "saving", "complete"}
    BY DEF ClaimPcs
<1>2. Goes(p, r)
    BY <1>1 DEF Goes
<1>3. ReadinessKnown' /\ backlog' = {}
    BY <1>1, QueueFacts, RunKnows DEF RunPromises, ReadinessKnown
<1> QED BY <1>2, <1>3, RunGoesKept

\* As above, with nothing learnt or delivered.
LEMMA GoesQuietlyKept ==
    ASSUME QueueInductive, NEW p \in Projects, NEW r, run' = [run EXCEPT ![p] = r],
           UNCHANGED <<mem, disk, pend, saveFailures, crashes, created, snap, command,
                       backlog, proved, sent, late>>,
           run[p].pc \in ClaimPcs \ {"complete"}, r.pc \in ClaimPcs \cup {"fail"},
           r.item = run[p].item, r.force = run[p].force,
           r.pc = "admit" => mem.rec[r.item].target = "new",
           r.pc = "assoc" => creation[r.item].state # "none",
           KnownStill
    PROVE  StorePromises' /\ RunPromises'
<1>1. run[p].pc \notin UnclaimedPcs /\ run[p].pc # "saving"
    BY DEF ClaimPcs, UnclaimedPcs
<1>2. run[p].item \in Items
    BY <1>1, QueueFacts DEF RunsOK
<1>3. KnownGrows /\ (r.pc = "assoc" => creation'[r.item].state # "none")
    BY <1>2, QueueFacts DEF KnownStill, KnownGrows, AdmissionsFit
<1>4. Goes(p, r)
    BY <1>1 DEF Goes
<1>5. StoreKept' /\ DeliveriesCounted'
    BY <1>4, QueueFacts, QuietStoreKept, DeliveriesStill
<1> QED BY <1>3, <1>5, GoesOnKept

\* The same for a step that is written with Goto.
LEMMA GotoKept ==
    ASSUME QueueInductive, NEW p \in Projects, NEW pc \in (ClaimPcs \cup {"fail"}) \ {"admit"},
           Goto(p, pc), UNCHANGED <<mem, disk, pend, sent, late>>, RunFrame, KnownStill,
           run[p].pc \in ClaimPcs \ {"complete"},
           pc = "assoc" => creation[run[p].item].state # "none"
    PROVE  StorePromises' /\ RunPromises'
<1> DEFINE r == [run[p] EXCEPT !.pc = pc]
<1>1. /\ r.pc = pc /\ r.item = run[p].item /\ r.force = run[p].force
      /\ run' = [run EXCEPT ![p] = r]
    BY QueueFacts DEF Goto, Runs
<1>2. UNCHANGED <<mem, disk, pend, saveFailures, crashes, created, snap, command,
                  backlog, proved, sent, late>>
    BY DEF Goto, RunFrame
<1> HIDE DEF r
<1> QED BY <1>1, <1>2, GoesQuietlyKept

-----------------------------------------------------------------------------
(* Each action of a run.                                                    *)

\* A run that claims nothing yet goes on.
LEMMA UnclaimedGoesKept ==
    ASSUME QueueInductive, NEW p \in Projects, NEW r, run' = [run EXCEPT ![p] = r],
           UNCHANGED <<mem, disk, pend, creation, saveFailures, crashes, created, sent, late,
                       command, backlog>>,
           run[p].pc \in {"idle", "ready"}, r.pc \in {"ready", "claim"},
           proved \subseteq proved', snap'[p].key \in {None, command},
           \A q \in Projects \ {p} : snap'[q] = snap[q],
           r.pc = "claim" /\ ~r.force /\ snap'[p].key # None => p \in proved'
    PROVE  StorePromises' /\ RunPromises'
<1>1. KnownStill /\ KnownGrows
    BY QueueFacts DEF KnownStill, KnownGrows, AdmissionsFit
<1>2. Goes(p, r)
    BY DEF Goes, ClaimPcs
<1>3. StoreKept' /\ DeliveriesCounted'
    BY <1>1, <1>2, QueueFacts, QuietStoreKept, DeliveriesStill
<1>4. ReadinessKnown' /\ backlog' = {}
    BY RunKnows
<1> QED BY <1>1, <1>2, <1>3, <1>4, RunGoesKept

LEMMA IdleCheckedKept ==
    ASSUME QueueInductive, NEW p \in Projects, IdleChecked(p)
    PROVE  StorePromises' /\ RunPromises'
<1>1. /\ run[p].pc = "idle" /\ UNCHANGED <<serviceVars, sent, late>> /\ RunFrame
      /\ \/ Settle(p, TRUE)
         \/ Goto(p, "claim") /\ command = None
         \/ /\ run' = [run EXCEPT ![p].pc = "ready", ![p].key = command]
            /\ snap' = [snap EXCEPT ![p].key = command]
    BY DEF IdleChecked
<1>2. /\ UNCHANGED <<mem, disk, pend, creation, saveFailures, crashes, created, sent, late,
                     command, backlog, proved>>
      /\ snap[p].key \in {None, command}
    BY <1>1, QueueFacts DEF serviceVars, RunFrame, RunPromises, ReadinessKnown
<1>3. CASE Settle(p, TRUE)
    BY <1>1, <1>2, <1>3, SettleKept DEF ClaimPcs
<1>4. CASE Goto(p, "claim") /\ command = None
  <2> DEFINE r == [run[p] EXCEPT !.pc = "claim"]
  <2>1. r.pc = "claim" /\ run' = [run EXCEPT ![p] = r] /\ snap' = snap
      BY <1>4, QueueFacts DEF Goto, Runs
  <2> HIDE DEF r
  <2> QED BY <1>1, <1>2, <1>4, <2>1, UnclaimedGoesKept
<1>5. CASE /\ run' = [run EXCEPT ![p].pc = "ready", ![p].key = command]
           /\ snap' = [snap EXCEPT ![p].key = command]
  <2> DEFINE r == [run[p] EXCEPT !.pc = "ready", !.key = command]
  <2>1. r.pc = "ready" /\ run' = [run EXCEPT ![p] = r]
      BY <1>5, QueueFacts DEF Runs
  <2>2. snap'[p].key = command /\ \A q \in Projects \ {p} : snap'[q] = snap[q]
      BY <1>5, QueueFacts DEF Snaps
  <2> HIDE DEF r
  <2> QED BY <1>1, <1>2, <2>1, <2>2, UnclaimedGoesKept
<1> QED BY <1>1, <1>3, <1>4, <1>5

LEMMA ReadinessCheckedKept ==
    ASSUME QueueInductive, NEW p \in Projects, NEW ok \in BOOLEAN, ReadinessChecked(p, ok)
    PROVE  StorePromises' /\ RunPromises'
<1> DEFINE known == [snap EXCEPT ![p] = [key |-> run[p].key, ok |-> ok]]
           stale == p \in aborted \/ run[p].key # command
<1>1. /\ run[p].pc = "ready"
      /\ \/ \E retry \in BOOLEAN : Settle(p, retry)
         \/ EndRun(p, TRUE, known) /\ ~stale
         \/ run' = [run EXCEPT ![p].pc = "claim"] /\ snap' = known /\ ~stale /\ ok
      /\ proved' = IF ok /\ ~stale THEN proved \cup {p} ELSE proved
      /\ UNCHANGED <<serviceVars, command, counters, backlog>>
    BY DEF ReadinessChecked
<1>2. /\ UNCHANGED <<mem, disk, pend, creation, saveFailures, crashes, created, sent, late,
                     command, backlog>>
      /\ proved \subseteq proved'
    BY <1>1 DEF serviceVars, counters
<1>3. /\ known[p].key = run[p].key /\ known \in [Projects -> Snaps]
      /\ \A q \in Projects \ {p} : known[q] = snap[q]
    BY QueueFacts DEF Snaps, Runs
<1>4. ~stale => run[p].key = command
    OBVIOUS
<1> HIDE DEF known
<1>5. CASE \E retry \in BOOLEAN : Settle(p, retry)
    BY <1>1, <1>2, <1>5, SettleKept DEF ClaimPcs
<1>6. CASE EndRun(p, TRUE, known) /\ ~stale
  <2> HIDE DEF stale
  <2> QED BY <1>1, <1>2, <1>3, <1>4, <1>6, EndsKept DEF ClaimPcs
<1>7. CASE run' = [run EXCEPT ![p].pc = "claim"] /\ snap' = known /\ ~stale /\ ok
  <2> DEFINE r == [run[p] EXCEPT !.pc = "claim"]
  <2>1. r.pc = "claim" /\ run' = [run EXCEPT ![p] = r] /\ p \in proved'
      BY <1>1, <1>7, QueueFacts DEF Runs
  <2> HIDE DEF r, stale
  <2> QED BY <1>1, <1>2, <1>3, <1>4, <1>7, <2>1, UnclaimedGoesKept
<1> QED BY <1>1, <1>5, <1>6, <1>7

LEMMA ClaimItemKept ==
    ASSUME QueueInductive, NEW p \in Projects, ClaimItem(p)
    PROVE  StorePromises' /\ RunPromises'
<1> DEFINE c == Claimable(p, run[p].want)
<1>1. /\ run[p].pc = "claim"
      /\ \/ c # None /\ DoClaim(c) /\ Mutate(p, c)
         \/ Settle(p, FALSE) /\ UNCHANGED <<serviceVars, sent, late>> /\ RunFrame
    BY DEF ClaimItem
<1>2. CASE Settle(p, FALSE) /\ UNCHANGED <<serviceVars, sent, late>> /\ RunFrame
    BY <1>1, <1>2, SettleKept DEF RunFrame, ClaimPcs
<1>3. CASE c # None /\ DoClaim(c) /\ Mutate(p, c)
  <2>1. c \in Items /\ ProjectOf[c] = p /\ Status(c) = "queued"
      BY <1>3, QueueFacts, ClaimableFound
  <2> HIDE DEF c
  <2> PICK i \in Items : i = c
      BY <2>1
  <2>2. Effect("claim", i, "run") /\ OpensPlainly
      BY <1>3, <2>1, QueueFacts, ClaimOK, RunsOpenPlainly DEF Status
  <2>3. pend'.op = "claim" /\ pend'.item = i /\ SameStatus(mem, mem', i)
      BY <2>2 DEF Effect
  <2> QED BY <1>1, <1>3, <2>1, <2>2, <2>3, RunOpensKept DEF ClaimPcs
<1> QED BY <1>1, <1>2, <1>3

LEMMA BeginDispatchKept ==
    ASSUME QueueInductive, NEW p \in Projects, run[p].pc \in ClaimPcs \ {"complete"},
           BeginDispatch(p), UNCHANGED <<serviceVars, snap, sent, late>>, RunFrame
    PROVE  StorePromises' /\ RunPromises'
<1> DEFINE i == run[p].item
           state == creation[i].state
           pc == IF mem.rec[i].assoc /\ (mem.rec[i].target = "existing" \/ state = "none")
                 THEN "fail"
                 ELSE IF mem.rec[i].target = "existing" THEN "launch"
                 ELSE IF state = "none" THEN "admit"
                 ELSE "assoc"
           r == [run[p] EXCEPT !.seen = state, !.pc = pc]
<1>1. i \in Items /\ mem.rec[i] \in ItemRec
  <2>1. run[p].pc \notin UnclaimedPcs
      BY DEF ClaimPcs, UnclaimedPcs
  <2> QED BY <2>1, QueueFacts DEF RunsOK, StoreInv, StateOK, QueueState
<1>2. /\ pc \in {"fail", "launch", "admit", "assoc"}
      /\ pc = "admit" => mem.rec[i].target = "new"
      /\ pc = "assoc" => state # "none"
  <2>1. mem.rec[i].target \in {"existing", "new"}
      BY <1>1 DEF ItemRec, Targets
  <2>2. pc = "admit" => mem.rec[i].target # "existing"
      OBVIOUS
  <2>3. pc = "assoc" => state # "none"
      OBVIOUS
  <2>4. pc \in {"fail", "launch", "admit", "assoc"}
      OBVIOUS
  <2> HIDE DEF pc, state, i
  <2> QED BY <2>1, <2>2, <2>3, <2>4
<1>3. run' = [run EXCEPT ![p].seen = state, ![p].pc = pc]
    BY DEF BeginDispatch
<1> HIDE DEF pc
<1>4. /\ r.pc = pc /\ r.item = i /\ r.force = run[p].force
      /\ run' = [run EXCEPT ![p] = r]
    BY <1>3, QueueFacts DEF Runs
<1>5. UNCHANGED <<mem, disk, pend, creation, saveFailures, crashes, created, command,
                  backlog, proved>>
    BY DEF serviceVars, RunFrame
<1>6. KnownStill
    BY <1>5 DEF KnownStill
<1> HIDE DEF r
<1>7. r.pc \in ClaimPcs \cup {"fail"}
    BY <1>2, <1>4 DEF ClaimPcs
<1> QED BY <1>2, <1>4, <1>5, <1>6, <1>7, GoesQuietlyKept

LEMMA ClaimedKept ==
    ASSUME QueueInductive, NEW p \in Projects, Claimed(p) \/ Rechecked(p)
    PROVE  StorePromises' /\ RunPromises'
<1>1. /\ run[p].pc \in {"claimed", "recheck"}
      /\ UNCHANGED <<serviceVars, timer, snap, aborted, blocked, sent, late>> /\ RunFrame
      /\ \/ BeginDispatch(p)
         \/ run' = [run EXCEPT ![p].pc = "recheck", ![p].busy = p \in turn \cup ext]
         \/ run' = [run EXCEPT ![p].pc = "release"]
    BY DEF Claimed, Rechecked
<1>2. run[p].pc \in ClaimPcs \ {"complete"}
    BY <1>1 DEF ClaimPcs
<1>3. CASE BeginDispatch(p)
    BY <1>1, <1>2, <1>3, BeginDispatchKept
<1>4. KnownStill
    BY <1>1 DEF serviceVars, KnownStill
<1>5. CASE run' = [run EXCEPT ![p].pc = "recheck", ![p].busy = p \in turn \cup ext]
  <2> DEFINE busy == p \in turn \cup ext
             r == [run[p] EXCEPT !.pc = "recheck", !.busy = busy]
  <2>1. /\ r.pc = "recheck" /\ r.item = run[p].item /\ r.force = run[p].force
        /\ run' = [run EXCEPT ![p] = r]
      BY <1>5, QueueFacts DEF Runs
  <2> HIDE DEF r
  <2>2. r.pc \in ClaimPcs
      BY <2>1 DEF ClaimPcs
  <2>3. UNCHANGED <<mem, disk, pend, creation, saveFailures, crashes, created, command,
                    backlog, proved, snap, sent, late>>
      BY <1>1 DEF serviceVars, RunFrame
  <2> QED BY <1>2, <1>4, <2>1, <2>2, <2>3, GoesQuietlyKept
<1>6. CASE run' = [run EXCEPT ![p].pc = "release"]
  <2>1. Goto(p, "release") /\ UNCHANGED <<mem, disk, pend, sent, late>>
      BY <1>1, <1>6 DEF Goto, serviceVars
  <2>2. "release" \in (ClaimPcs \cup {"fail"}) \ {"admit"}
      BY DEF ClaimPcs
  <2> QED BY <1>1, <1>2, <1>4, <2>1, <2>2, GotoKept
<1> QED BY <1>1, <1>3, <1>5, <1>6

\* The awaits of a dispatch.
LEMMA Dispatches ==
    ASSUME QueueInductive, NEW p \in Projects, run[p].pc \in ClaimPcs
    PROVE  /\ run[p].item \in Items /\ ProjectOf[run[p].item] = p
           /\ mem.rec[run[p].item].status = "dispatching"
           /\ run[p].pc \notin {"off", "idle", "ready", "saving"}
<1>1. run[p].pc \notin UnclaimedPcs /\ run[p].pc # "saving" /\ HoldsClaim(p)
    BY DEF ClaimPcs, UnclaimedPcs, HoldsClaim
<1> QED BY <1>1, QueueFacts DEF RunsOK, ClaimHeld, Status, UnclaimedPcs

\* What a launch delivers: one message that is acknowledged, one whose launch
\* then fails, or none.
LEMMA LaunchExistingKept ==
    ASSUME QueueInductive, NEW p \in Projects, LaunchExisting(p)
    PROVE  StorePromises' /\ RunPromises'
<1> DEFINE delivers(i) == sent' = [sent EXCEPT ![i] = @ + 1]
           fails == Goto(p, "startupFail") \/ Goto(p, "fail")
<1>1. /\ run[p].pc = "launch" /\ UNCHANGED <<mem, disk, pend, creation>> /\ RunFrame
      /\ \/ Goto(p, "complete") /\ delivers(run[p].item) /\ late' = late
         \/ fails /\ UNCHANGED <<sent, late>>
         \/ /\ fails /\ delivers(run[p].item)
            /\ late' = [late EXCEPT ![run[p].item] = @ + 1]
    BY DEF LaunchExisting, Deliver, serviceVars
<1>2. run[p].pc \in ClaimPcs \ {"complete"} /\ {"complete", "startupFail"} \subseteq ClaimPcs
    BY <1>1 DEF ClaimPcs
<1> PICK i \in Items : i = run[p].item
    BY <1>2, Dispatches
<1>3. KnownStill /\ KnownGrows /\ StoreKept'
  <2>1. KnownStill /\ KnownGrows /\ saveFailures' = saveFailures
      BY <1>1, QueueFacts DEF KnownStill, KnownGrows, AdmissionsFit, RunFrame
  <2> QED BY <1>1, <2>1, QueueFacts, QuietStoreKept
<1>4. /\ ProjectOf[i] = p /\ mem.rec[i].status = "dispatching"
      /\ i \in created /\ i \in Present(mem) /\ ~Completing(i)
  <2>1. ProjectOf[i] = p /\ mem.rec[i].status = "dispatching"
      BY <1>2, Dispatches
  <2> QED BY <1>1, <2>1, QueueFacts DEF CreatedOK, Present, Completing
<1>5. ASSUME NEW pc \in {"complete", "startupFail", "fail"}, Goto(p, pc), delivers(i),
             \/ pc = "complete" /\ late' = late
             \/ late' = [late EXCEPT ![i] = @ + 1]
      PROVE  StorePromises' /\ RunPromises'
  <2> DEFINE r == [run[p] EXCEPT !.pc = pc]
  <2>1. /\ r.pc = pc /\ r.item = i /\ r.force = run[p].force
        /\ run' = [run EXCEPT ![p] = r]
      BY <1>5, QueueFacts DEF Goto, Runs
  <2>2. UNCHANGED <<mem, disk, pend, saveFailures, crashes, created, snap, command,
                    backlog, proved>>
      BY <1>1, <1>5 DEF Goto, RunFrame
  <2> HIDE DEF r
  <2>3. DeliveriesCounted'
    <3> SUFFICES ASSUME NEW j \in Items
                 PROVE  /\ sent'[j] <= 1 + crashes + late'[j]
                        /\ j \notin created => sent'[j] = 0
                        /\ j \in Present(mem) /\ ~Completing(j)'
                              => sent'[j] <= crashes + late'[j]
        BY <2>2 DEF DeliveriesCounted, Present
    <3>1. /\ sent[j] <= 1 + crashes + late[j]
          /\ sent[j] \in Nat /\ late[j] \in Nat /\ crashes \in Nat
          /\ j \notin created => sent[j] = 0
          /\ j \in Present(mem) /\ ~Completing(j) => sent[j] <= crashes + late[j]
        BY QueueFacts DEF RunPromises, DeliveriesCounted
    <3>2. CASE j = i
      <4>1. run'[p] = r /\ sent'[i] = sent[i] + 1
            /\ ((pc = "complete" /\ late'[i] = late[i]) \/ late'[i] = late[i] + 1)
          BY <1>5, <2>1, QueueFacts
      <4>2. pc = "complete" => Completing(i)'
          BY <1>4, <2>1, <4>1 DEF Completing
      <4>3. sent[i] <= crashes + late[i]
          BY <1>4, <3>1, <3>2
      <4>4. /\ sent'[j] <= 1 + crashes + late'[j]
            /\ sent'[j] <= crashes + late'[j] \/ pc = "complete"
          BY <3>1, <3>2, <4>1, <4>3
      <4> QED BY <1>4, <3>2, <4>2, <4>4
    <3>3. CASE j # i
      <4>1. Completing(j) => Completing(j)'
        <5>1. CASE ProjectOf[j] = p
            BY <1>1, <5>1 DEF Completing
        <5>2. CASE ProjectOf[j] # p
            BY <2>1, <5>2, QueueFacts, ServiceAssumption DEF Completing
        <5> QED BY <5>1, <5>2
      <4>2. sent'[j] = sent[j] /\ late'[j] = late[j]
          BY <1>5, <3>3, QueueFacts
      <4> QED BY <3>1, <4>1, <4>2
    <3> QED BY <3>2, <3>3
  <2>4. r.pc \in ClaimPcs \cup {"fail"} /\ r.pc \notin {"admit", "assoc"}
      BY <1>2, <2>1
  <2> QED BY <1>2, <1>3, <2>1, <2>2, <2>3, <2>4, GoesOnKept
<1>6. CASE fails /\ UNCHANGED <<sent, late>>
    BY <1>1, <1>2, <1>3, <1>6, GotoKept
<1> QED BY <1>1, <1>5, <1>6

LEMMA AdmitCreationKept ==
    ASSUME QueueInductive, NEW p \in Projects, AdmitCreation(p)
    PROVE  StorePromises' /\ RunPromises'
<1> DEFINE i == run[p].item
<1>1. /\ run[p].pc = "admit" /\ UNCHANGED <<mem, disk, pend, sent, late>> /\ RunFrame
      /\ \/ Goto(p, "assoc") /\ creation' = [creation EXCEPT ![i].state = "open"]
         \/ Goto(p, "fail") /\ creation' = creation
    BY DEF AdmitCreation
<1>2. run[p].pc \in ClaimPcs \ {"complete"}
    BY <1>1 DEF ClaimPcs
<1>3. CASE Goto(p, "assoc") /\ creation' = [creation EXCEPT ![i].state = "open"]
  <2> DEFINE r == [run[p] EXCEPT !.pc = "assoc"]
  <2>1. /\ r.pc = "assoc" /\ r.item = i /\ r.force = run[p].force
        /\ run' = [run EXCEPT ![p] = r]
      BY <1>3, QueueFacts DEF Goto, Runs
  <2>2. UNCHANGED <<mem, disk, pend, saveFailures, crashes, created, snap, command,
                    backlog, proved, sent, late>>
      BY <1>1, <1>3 DEF Goto, RunFrame
  <2>3. /\ i \in Items /\ ProjectOf[i] = p /\ mem.rec[i].status = "dispatching"
        /\ mem.rec[i].target = "new"
      BY <1>1, <1>2, Dispatches, QueueFacts DEF AdmissionsFit
  <2>4. i \in created
      BY <2>3, QueueFacts DEF CreatedOK, Present
  <2> HIDE DEF r, i
  <2>5. \A j \in Items : creation'[j].state = IF j = i THEN "open" ELSE creation[j].state
      BY <1>3, <2>3, QueueFacts DEF CreationRec
  <2>6. StoreKept'
      BY <1>3, <2>2, <2>3, QueueFacts, AdmissionStoreKept
  <2>7. KnownGrows
      BY <2>4, <2>5, QueueFacts DEF KnownGrows, AdmissionsFit
  <2>8. DeliveriesCounted'
    <3>1. Goes(p, r)
        BY <1>1, <2>1, <2>2 DEF Goes, ClaimPcs, i
    <3> QED BY <2>2, <3>1, DeliveriesStill
  <2>9. r.pc \in ClaimPcs
      BY <2>1 DEF ClaimPcs
  <2> QED BY <1>2, <2>1, <2>2, <2>3, <2>5, <2>6, <2>7, <2>8, <2>9, GoesOnKept DEF i
<1>4. CASE Goto(p, "fail") /\ creation' = creation
  <2>1. KnownStill
      BY <1>4 DEF KnownStill
  <2> QED BY <1>1, <1>2, <1>4, <2>1, GotoKept
<1> QED BY <1>1, <1>3, <1>4

\* The creation of a run's item is settled or restarted, not forgotten.
LEMMA SettledStill ==
    ASSUME creation \in [Items -> CreationRec], NEW i \in Items, NEW s, s # "none",
           creation[i].state # "none", creation' = [creation EXCEPT ![i].state = s]
    PROVE  KnownStill
<1>1. \A j \in Items : creation'[j].state = IF j = i THEN s ELSE creation[j].state
    BY DEF CreationRec
<1> QED BY <1>1 DEF KnownStill

LEMMA RefusedKept ==
    ASSUME QueueInductive, NEW p \in Projects, Refused(p)
    PROVE  StorePromises' /\ RunPromises'
<1>1. /\ run[p].pc = "refused" /\ UNCHANGED <<mem, disk, pend, sent, late>> /\ RunFrame
      /\ Goto(p, "fail")
      /\ \/ creation' = creation
         \/ /\ creation' = [creation EXCEPT ![run[p].item].state = "failed"]
            /\ creation[run[p].item].state = "open"
    BY DEF Refused
<1>2. run[p].pc \in ClaimPcs \ {"complete"}
    BY <1>1 DEF ClaimPcs
<1>3. run[p].item \in Items
    BY <1>2, Dispatches
<1>4. KnownStill
  <2>1. CASE creation' = creation
      BY <2>1 DEF KnownStill
  <2> QED BY <1>1, <1>3, <2>1, QueueFacts, SettledStill
<1> QED BY <1>1, <1>2, <1>4, GotoKept

LEMMA AssociatedKept ==
    ASSUME QueueInductive, NEW p \in Projects, Associated(p)
    PROVE  StorePromises' /\ RunPromises'
<1> DEFINE redone == [state |-> "open", spent |-> mem.rec[run[p].item].retryId]
<1>1. /\ run[p].pc = "associated" /\ UNCHANGED <<mem, disk, pend, sent, late>> /\ RunFrame
      /\ Goto(p, "launch") \/ Goto(p, "complete") \/ Goto(p, "fail")
      /\ \/ creation' = creation
         \/ /\ creation' = [creation EXCEPT ![run[p].item] = redone]
            /\ creation[run[p].item].state = "failed"
    BY DEF Associated
<1>2. /\ run[p].pc \in ClaimPcs \ {"complete"} /\ {"launch", "complete"} \subseteq ClaimPcs
    BY <1>1 DEF ClaimPcs
<1>3. run[p].item \in Items
    BY <1>2, Dispatches
<1>4. KnownStill
    BY <1>1, <1>3, QueueFacts DEF KnownStill
<1> QED BY <1>1, <1>2, <1>4, GotoKept

LEMMA LaunchNewKept ==
    ASSUME QueueInductive, NEW p \in Projects, LaunchNew(p)
    PROVE  StorePromises' /\ RunPromises'
<1>1. /\ run[p].pc = "launch" /\ UNCHANGED <<mem, disk, pend, sent, late>> /\ RunFrame
      /\ \/ Goto(p, "complete") /\ creation' = creation
         \/ /\ Goto(p, "fail")
            /\ \/ \E s \in {"failed", "uncertain"} :
                     /\ creation' = [creation EXCEPT ![run[p].item].state = s]
                     /\ creation[run[p].item].state = "open"
               \/ creation' = [creation EXCEPT
                                 ![run[p].item].state = creation[run[p].item].state]
    BY DEF LaunchNew
<1>2. run[p].pc \in ClaimPcs \ {"complete"} /\ "complete" \in ClaimPcs
    BY <1>1 DEF ClaimPcs
<1>3. run[p].item \in Items
    BY <1>2, Dispatches
<1>4. KnownStill
  <2>1. CASE creation' = creation
      BY <2>1 DEF KnownStill
  <2>2. CASE creation' = [creation EXCEPT ![run[p].item].state
                                            = creation[run[p].item].state]
    <3>1. \A j \in Items : creation'[j].state = creation[j].state
        BY <1>3, <2>2, QueueFacts DEF CreationRec
    <3> QED BY <3>1 DEF KnownStill
  <2> QED BY <1>1, <1>3, <2>1, <2>2, QueueFacts, SettledStill
<1> QED BY <1>1, <1>2, <1>4, GotoKept

\* The mutations of a run that was claiming.
LEMMA AssociateItemKept ==
    ASSUME QueueInductive, NEW p \in Projects, AssociateItem(p)
    PROVE  StorePromises' /\ RunPromises'
<1>1. run[p].pc = "assoc" /\ run[p].pc \in ClaimPcs \ {"complete"} /\ "refused" \in ClaimPcs
    BY DEF AssociateItem, ClaimPcs
<1>2. PICK i \in Items : i = run[p].item
    BY <1>1, Dispatches
<1>3. /\ ProjectOf[i] = p /\ Status(i) = "dispatching" /\ creation[i].state # "none"
    BY <1>1, <1>2, Dispatches, QueueFacts DEF AdmissionsFit, Status
<1>4. CASE DoAssociate(i) /\ Mutate(p, i)
  <2>1. Effect("associate", i, "run") /\ OpensPlainly
      BY <1>3, <1>4, QueueFacts, AssociateOK, RunsOpenPlainly DEF Status
  <2>2. pend'.op = "associate" /\ pend'.item = i /\ SameStatus(mem, mem', i)
      BY <2>1 DEF Effect
  <2> QED BY <1>1, <1>2, <1>3, <1>4, <2>1, <2>2, RunOpensKept
<1>5. CASE Goto(p, "refused") /\ UNCHANGED <<serviceVars, sent, late>> /\ RunFrame
  <2>1. KnownStill /\ UNCHANGED <<mem, disk, pend, sent, late>>
      BY <1>5 DEF serviceVars, KnownStill
  <2> QED BY <1>1, <1>5, <2>1, GotoKept
<1> QED BY <1>2, <1>4, <1>5 DEF AssociateItem

\* What the mutations that end a dispatch leave of the item's claim.
LEMMA EndingsUnclaim ==
    ASSUME StoreInv, NEW i \in Items, mem.rec[i].status # "absent",
           DoComplete(i) \/ DoRelease(i) \/ DoFail(i)
    PROVE  mem'.rec[i].status # "dispatching"
<1>1. CASE DoComplete(i)
  <2>1. OpensPlainly /\ pend'.op = "complete" /\ pend'.item = i
      BY <1>1, RunsOpenPlainly DEF DoComplete, OpenForRun, Open, Mutation
  <2>2. Absent.status = "absent"
      BY DEF Absent
  <2> QED BY <2>1, <2>2 DEF OpensPlainly, Rewrites, Drops
<1>2. CASE DoRelease(i) \/ DoFail(i)
  <2>1. PICK status \in {"queued", "failed"} : mem' = Marked(i, status)
      BY <1>2 DEF DoRelease, DoFail, OpenForRun, Open
  <2> DEFINE r == [Reconciled(mem).rec[i] EXCEPT !.status = status]
  <2>2. Reconciled(mem).rec[i] \in ItemRec /\ Reconciled(mem) \in QueueState
      BY StoreFacts
  <2>3. r.status = status /\ Marked(i, status).rec[i] = r
      BY <2>2 DEF ItemRec, Marked, QueueState
  <2> QED BY <2>1, <2>3
<1> QED BY <1>1, <1>2

LEMMA EndingsKept ==
    ASSUME QueueInductive, NEW p \in Projects,
           CompleteItem(p) \/ ReleaseItem(p) \/ StartupFailure(p)
    PROVE  StorePromises' /\ RunPromises'
<1>1. run[p].pc \in {"complete", "release", "startupFail"} /\ run[p].pc \in ClaimPcs
    BY DEF CompleteItem, ReleaseItem, StartupFailure, ClaimPcs
<1>2. PICK i \in Items : i = run[p].item
    BY <1>1, Dispatches
<1>3. ProjectOf[i] = p /\ Status(i) = "dispatching" /\ mem.rec[i].status # "absent"
    BY <1>1, <1>2, Dispatches DEF Status
<1>4. /\ DoComplete(i) \/ DoRelease(i) \/ DoStartupFailure(i)
      /\ run[p].pc = "complete" => DoComplete(i)
      /\ Mutate(p, i)
    BY <1>2 DEF CompleteItem, ReleaseItem, StartupFailure
<1>5. PICK op \in {"complete", "release", "startupFail"} :
         Effect(op, i, "run") /\ (DoComplete(i) => op = "complete")
    BY <1>3, <1>4, QueueFacts, CompleteOK, ReleaseOK, StartupFailureOK
<1>6. OpensPlainly
    BY <1>3, <1>4, QueueFacts, RunsOpenPlainly
<1>7. mem'.rec[i].status # "dispatching"
    BY <1>3, <1>4, QueueFacts, EndingsUnclaim, StartupFailureOK DEF Status
<1>8. pend'.op = op /\ pend'.item = i /\ SameStatus(mem, mem', i)
    BY <1>5 DEF Effect
<1> QED BY <1>1, <1>2, <1>3, <1>4, <1>5, <1>6, <1>7, <1>8, RunOpensKept DEF Status

LEMMA FailItemKept ==
    ASSUME QueueInductive, NEW p \in Projects, FailItem(p)
    PROVE  StorePromises' /\ RunPromises'
<1>1. run[p].pc = "fail"
    BY DEF FailItem
<1>2. PICK i \in Items : i = run[p].item /\ ProjectOf[i] = p
    BY <1>1, QueueFacts DEF RunsOK, UnclaimedPcs
<1>3. CASE Status(i) # "absent" /\ DoFail(i) /\ Mutate(p, i)
  <2>1. Effect("fail", i, "run") /\ OpensPlainly /\ mem'.rec[i].status # "dispatching"
      BY <1>3, QueueFacts, FailOK, RunsOpenPlainly, EndingsUnclaim DEF Status
  <2>2. pend'.op = "fail" /\ pend'.item = i /\ SameStatus(mem, mem', i)
      BY <2>1 DEF Effect
  <2> QED BY <1>1, <1>2, <1>3, <2>1, <2>2, RunOpensKept DEF Status
<1>4. CASE /\ Status(i) = "absent" /\ Settle(p, FALSE)
           /\ UNCHANGED <<serviceVars, sent, late>> /\ RunFrame
    BY <1>1, <1>2, <1>4, SettleKept DEF RunFrame
<1> QED BY <1>2, <1>3, <1>4 DEF FailItem

LEMMA RunEndsKept ==
    ASSUME QueueInductive, NEW p \in Projects, RunEnds(p)
    PROVE  StorePromises' /\ RunPromises'
<1>1. /\ run[p].pc \in {"released", "done"} /\ \E retry \in BOOLEAN : Settle(p, retry)
      /\ UNCHANGED <<serviceVars, sent, late>> /\ RunFrame
    BY DEF RunEnds
<1> QED BY <1>1, SettleKept DEF RunFrame, ClaimPcs

LEMMA RunStepKept ==
    ASSUME QueueInductive, NEW p \in Projects, RunStep(p)
    PROVE  StorePromises' /\ RunPromises'
    BY IdleCheckedKept, ReadinessCheckedKept, ClaimItemKept, ClaimedKept,
       LaunchExistingKept, LaunchNewKept, AdmitCreationKept, AssociateItemKept,
       RefusedKept, AssociatedKept, EndingsKept, FailItemKept, RunEndsKept DEF RunStep

-----------------------------------------------------------------------------
(* Part 6.  The rest of the server.                                         *)

LEMMA UserStepKept ==
    ASSUME QueueInductive, UserStep
    PROVE  StorePromises' /\ RunPromises'
<1>1. Targetable \subseteq Targets
    BY SchedulerAssumption
<1>2. ASSUME NEW i \in Items, NEW target \in Targetable,
             CreateItem(i, target) \/ UpdateItem(i, target)
      PROVE  StorePromises' /\ RunPromises'
    BY <1>1, <1>2, CreateItemKept, UpdateItemKept
<1>3. ASSUME NEW i \in Items, DeleteItem(i) \/ MoveItemToTop(i) \/ RetryItem(i)
      PROVE  StorePromises' /\ RunPromises'
    BY <1>3, ItemActionsKept
<1> QED BY <1>2, <1>3, PausesKept, PromoteNowKept DEF UserStep

\* What surrounds the queue may make it forget a snapshot, but teaches it none.
LEMMA AroundKept ==
    ASSUME QueueInductive,
           UNCHANGED <<mem, disk, pend, creation, run, command, histVars>>,
           \A p \in Projects : snap'[p].key \in {None, snap[p].key}
    PROVE  StorePromises' /\ RunPromises'
<1>1. UNCHANGED <<sent, late, crashes, saveFailures, created, backlog, proved>>
    BY DEF histVars, counters
<1>2. KnownStill
    BY DEF KnownStill
<1>3. ReadinessKnown'
    BY <1>1, QueueFacts DEF RunPromises, ReadinessKnown
<1> QED BY <1>1, <1>2, <1>3, StillKept

LEMMA WorkKept ==
    ASSUME QueueInductive, NEW p \in Projects,
           \/ TurnStarts(p) \/ TurnEnds(p) \/ ExternalStarts(p) \/ ExternalDecays(p)
           \/ ReserveUserStart(p) \/ ReleaseUserStart(p)
    PROVE  StorePromises' /\ RunPromises'
<1>1. EnvFrame /\ (snap' = snap \/ Announce({p}, {}))
    BY DEF TurnStarts, TurnEnds, ExternalStarts, ExternalDecays, ReserveUserStart,
           ReleaseUserStart, Schedule
<1>2. \A q \in Projects : snap'[q].key \in {None, snap[q].key}
    BY <1>1, QueueFacts, AnnounceForgets
<1> QED BY <1>1, <1>2, AroundKept DEF EnvFrame, serviceVars

LEMMA HoldsKept ==
    ASSUME QueueInductive,
           \/ \E i \in Items : HoldAutomation(i) \/ LiftHold(i)
           \/ ServerActivity
    PROVE  StorePromises' /\ RunPromises'
<1>1. EnvFrame /\ snap' = snap
    BY DEF HoldAutomation, LiftHold, ServerActivity
<1> QED BY <1>1, AroundKept DEF EnvFrame, serviceVars

LEMMA DisposeKept ==
    ASSUME QueueInductive, Dispose
    PROVE  StorePromises' /\ RunPromises'
    BY AroundKept DEF Dispose, serviceVars

\* A settings change wipes every snapshot's key.
LEMMA SetCommandKept ==
    ASSUME QueueInductive, NEW c \in Commands \cup {None}, SetCommand(c)
    PROVE  StorePromises' /\ RunPromises'
<1>1. /\ UNCHANGED <<serviceVars, run, counters, backlog>>
      /\ snap' = [p \in Projects |-> [snap[p] EXCEPT !.key = None]]
    BY DEF SetCommand
<1>2. \A p \in Projects : snap'[p].key = None
    BY <1>1, QueueFacts DEF Snaps
<1>3. KnownStill
    BY <1>1 DEF KnownStill, serviceVars
<1>4. ReadinessKnown'
    BY <1>2 DEF ReadinessKnown
<1> QED BY <1>1, <1>3, <1>4, StillKept DEF serviceVars, counters

\* The owner of a creation advances it, but only one that was admitted.
LEMMA CreationAdvancesKept ==
    ASSUME QueueInductive, NEW i \in Items, CreationAdvances(i)
    PROVE  StorePromises' /\ RunPromises'
<1>1. PICK s \in Advances[creation[i].state] :
         creation' = [creation EXCEPT ![i].state = s]
    BY DEF CreationAdvances
<1>2. /\ UNCHANGED <<mem, disk, pend, run, snap, command, sent, late, crashes, saveFailures,
                     created, backlog, proved>>
    BY DEF CreationAdvances, schedVars, readyVars, histVars, counters
<1>3. creation[i].state \in Creations
    BY QueueFacts DEF CreationRec
<1>4. creation[i].state # "none" /\ s # "none"
    BY <1>3 DEF Advances, Creations
<1>5. KnownStill
    BY <1>1, <1>4, QueueFacts, SettledStill
<1>6. ReadinessKnown'
    BY <1>2, QueueFacts DEF RunPromises, ReadinessKnown
<1> QED BY <1>2, <1>5, <1>6, StillKept

LEMMA ServerStepKept ==
    ASSUME QueueInductive, ServerStep
    PROVE  StorePromises' /\ RunPromises'
    BY WorkKept, HoldsKept, DisposeKept, SetCommandKept, CreationAdvancesKept, RestartKept
       DEF ServerStep

LEMMA StutterKept ==
    ASSUME QueueInductive, UNCHANGED vars
    PROVE  StorePromises' /\ RunPromises'
    BY AroundKept DEF vars, serviceVars, schedVars, readyVars

LEMMA InitKept ==
    ASSUME Init
    PROVE  StorePromises /\ RunPromises
<1>1. /\ mem = EmptyState /\ disk = EmptyState /\ pend = NoMutation
      /\ creation = [i \in Items |-> [state |-> "none", spent |-> 0]]
      /\ run = [p \in Projects |-> NoRun] /\ snap = [p \in Projects |-> NoSnap]
      /\ sent = [i \in Items |-> 0] /\ late = [i \in Items |-> 0] /\ crashes = 0
      /\ backlog = {}
    BY DEF Init, ServiceInit
<1>2. /\ NoMutation.op = "none" /\ ~NoMutation.resumed /\ ~Undoable
      /\ NoRun.pc = "off" /\ NoSnap.key = None
    BY <1>1 DEF NoMutation, Mutation, Undoable, NoRun, NoSnap
<1>3. \A i \in Items : /\ mem.rec[i].status = "absent" /\ ~mem.rec[i].assoc
                       /\ disk.rec[i].status = "absent" /\ ~disk.rec[i].assoc
                       /\ creation[i].state = "none" /\ sent[i] = 0 /\ late[i] = 0
    BY <1>1 DEF EmptyState, Absent
<1>4. FileFollowsMemory /\ UndoExact /\ SessionsKept /\ TargetsFollow
    BY <1>2, <1>3 DEF FileFollowsMemory, UndoExact, SessionsKept, SessionKept, TargetsFollow,
                      SameTarget, Present
<1>5. AdmissionsFit
    BY <1>1, <1>2, <1>3 DEF AdmissionsFit
<1>6. ClaimsOwned /\ DeliveriesCounted
    BY <1>1, <1>3 DEF ClaimsOwned, DeliveriesCounted, Status, Present
<1>7. BacklogHeld /\ ReadinessKnown /\ ResumesAnnounced
    BY <1>1, <1>2 DEF BacklogHeld, ReadinessKnown, ResumesAnnounced
<1> QED BY <1>4, <1>5, <1>6, <1>7 DEF StorePromises, RunPromises

-----------------------------------------------------------------------------
(* Part 7.  The invariants.                                                 *)

LEMMA PromisesKept ==
    ASSUME QueueInductive, [Next]_vars
    PROVE  StorePromises' /\ RunPromises'
<1>1. CASE \E p \in Projects : TimerFires(p) \/ RunStep(p)
    BY <1>1, TimerFiresKept, RunStepKept
<1>2. CASE PromoteResumed
    BY <1>2, PromoteResumedKept
<1>3. CASE SaveStep
    BY <1>3, SaveSucceedsKept, FailureKept DEF SaveStep
<1>4. CASE UserStep
    BY <1>4, UserStepKept
<1>5. CASE ServerStep
    BY <1>5, ServerStepKept
<1>6. CASE UNCHANGED vars
    BY <1>6, StutterKept
<1> QED BY <1>1, <1>2, <1>3, <1>4, <1>5, <1>6 DEF Next

\* What the queue relies on holds of every instance, in every interleaving of
\* users, runs, failing saves and crashes: memory, file and what a failed save
\* would restore say the same of each item's session; each dispatching item has
\* its run; a backlog is held; a readiness snapshot speaks of the current
\* command.
THEOREM QueueIsInductive == Spec => []QueueInductive
<1>1. Init => StorePromises /\ RunPromises
    BY InitKept
<1>2. Inductive /\ (StorePromises /\ RunPromises) /\ [Next]_vars
        => (StorePromises /\ RunPromises)'
    BY PromisesKept DEF QueueInductive
<1>3. QueueInductive <=> Inductive /\ (StorePromises /\ RunPromises)
    BY DEF QueueInductive
<1> QED BY <1>1, <1>2, <1>3, InductiveInvariant, PTL DEF Spec

\* An acknowledged item is in the file until it is removed, and a removed one
\* returns after a crash only if a save failed (withMutation and save,
\* ProjectQueueService.ts:1030-1352).
THEOREM FileKeepsUp == Spec => []FileFollowsMemory
<1>1. QueueInductive => FileFollowsMemory
    BY DEF QueueInductive, StorePromises
<1> QED BY <1>1, QueueIsInductive, PTL

\* An item whose key was admitted never asks for another session, whatever is
\* edited, rolled back or reloaded (reconcileCreationAssociations, updateItem).
THEOREM AdmittedItemsKeepTheirSession == Spec => []AdmittedItemKeepsItsSession
<1>1. QueueInductive => AdmittedItemKeepsItsSession
    BY DEF QueueInductive, StorePromises, SessionsKept, SessionKept,
           AdmittedItemKeepsItsSession, Status
<1> QED BY <1>1, QueueIsInductive, PTL

\* While every save succeeds, nothing stays dispatching without a run that
\* will settle it (the catch and finally blocks of runProjectNow).
THEOREM DispatchingItemsAreOwned == Spec => []DispatchingIsOwned
<1>1. ASSUME QueueInductive
      PROVE  DispatchingIsOwned
    BY <1>1, QueueFacts DEF RunPromises, ClaimsOwned, DispatchingIsOwned, HoldsClaim, ClaimPcs,
                            InFlight
<1>2. QueueInductive => DispatchingIsOwned
    BY <1>1
<1> QED BY <1>2, QueueIsInductive, PTL

\* A message that reached its session is given to it again only because the
\* process died before its completion was saved (completeItem) or its launch
\* failed after the delivery (Supervisor.ts:3151-3161): once more for each.
THEOREM DeliveriesAreCounted == Spec => []RedeliveriesExplained
<1>1. QueueInductive => RedeliveriesExplained
    BY DEF QueueInductive, RunPromises, DeliveriesCounted, RedeliveriesExplained
<1> QED BY <1>1, QueueIsInductive, PTL

\* No item found at a restart is claimed before the user acts on the queue
\* (the paused-after-restart state of initialize).
THEOREM BacklogsWait == Spec => []BacklogWaitsForUser
<1>1. ASSUME QueueInductive
      PROVE  BacklogWaitsForUser
  <2>1. NoRun.item = None /\ None \notin Items
      BY ServiceAssumption DEF NoRun
  <2>2. backlog \subseteq Items
      BY <1>1 DEF QueueInductive, Inductive, TypeOK, HistTypeOK
  <2> QED BY <1>1, <2>1, <2>2, QueueFacts DEF RunPromises, BacklogHeld, BacklogWaitsForUser
<1>2. QueueInductive => BacklogWaitsForUser
    BY <1>1
<1> QED BY <1>2, QueueIsInductive, PTL

-----------------------------------------------------------------------------
(* Part 8.  Who goes first.                                                 *)

\* A run moves no other.
LEMMA OthersStay ==
    ASSUME QueueInductive, NEW q \in Projects, RunStep(q), NEW p \in Projects, p # q
    PROVE  run'[p] = run[p]
<1>1. run \in [Projects -> Runs]
    BY QueueFacts
<1>2. CASE IdleChecked(q) \/ \E ok \in BOOLEAN : ReadinessChecked(q, ok)
    BY <1>1, <1>2 DEF IdleChecked, ReadinessChecked, Settle, EndRun, Goto
<1>3. CASE ClaimItem(q) \/ Claimed(q) \/ Rechecked(q)
    BY <1>1, <1>3 DEF ClaimItem, Claimed, Rechecked, BeginDispatch, Mutate, Settle, EndRun, Goto
<1>4. CASE LaunchExisting(q) \/ LaunchNew(q) \/ AdmitCreation(q)
    BY <1>1, <1>4 DEF LaunchExisting, LaunchNew, AdmitCreation, Goto
<1>5. CASE AssociateItem(q) \/ Refused(q) \/ Associated(q)
    BY <1>1, <1>5 DEF AssociateItem, Refused, Associated, Mutate, Goto
<1>6. CASE CompleteItem(q) \/ ReleaseItem(q) \/ StartupFailure(q) \/ FailItem(q) \/ RunEnds(q)
    BY <1>1, <1>6 DEF CompleteItem, ReleaseItem, StartupFailure, FailItem, RunEnds, Mutate,
                      Settle, EndRun
<1> QED BY <1>2, <1>3, <1>4, <1>5, <1>6 DEF RunStep

LEMMA StartRunMoves ==
    ASSUME QueueInductive, NEW q \in Projects, NEW i, NEW auto, NEW force,
           StartRun(q, i, auto, force), NEW p \in Projects, run[p].pc # "off"
    PROVE  run'[p] = run[p]
    BY QueueFacts DEF StartRun, InFlight

\* Who else finds a run at work, waiting for no save, lets it be or kills it.
LEMMA RunsLetBe ==
    ASSUME QueueInductive, [Next]_vars, NEW p \in Projects, run[p].pc \notin {"off", "saving"},
           ~RunStep(p)
    PROVE  run'[p] = run[p] \/ run'[p] = NoRun
<1>1. CASE \E q \in Projects : TimerFires(q) \/ RunStep(q)
    BY <1>1, OthersStay, StartRunMoves DEF TimerFires
<1>2. CASE PromoteResumed
  <2>1. promo.project \in Projects
      BY <1>2, QueueFacts DEF PromoteResumed, RunsOK
  <2> QED BY <1>2, <2>1, StartRunMoves DEF PromoteResumed, StartNow
<1>3. CASE SaveStep
  <2>1. PICK pc : Awaiting(pc)
      BY <1>3 DEF SaveStep, SaveSucceeds, SaveFails, CleanupFails, Failure
  <2>2. pend.by = "run" => run[ProjectOf[pend.item]].pc = "saving"
      BY QueueFacts DEF PendingOK
  <2> QED BY <2>1, <2>2, QueueFacts DEF Awaiting
<1>4. CASE UserStep
  <2>1. CASE \E q \in Projects, i \in Promotable, force \in Forcible : PromoteNow(q, i, force)
      BY <2>1, StartRunMoves DEF PromoteNow, StartNow
  <2>2. CASE run' = run
      BY <2>2
  <2>3. run' = run \/ \E q \in Projects, i \in Promotable, force \in Forcible :
                          PromoteNow(q, i, force)
      BY <1>4 DEF UserStep, CreateItem, UpdateItem, DeleteItem, MoveItemToTop, RetryItem,
                  ResumeDispatch, PauseDispatch, UserFrame, schedVars
  <2> QED BY <2>1, <2>2, <2>3
<1>5. CASE ServerStep
  <2>1. run' = run \/ run' = [q \in Projects |-> NoRun]
      BY <1>5 DEF ServerStep, TurnStarts, TurnEnds, ExternalStarts, ExternalDecays,
                  ReserveUserStart, ReleaseUserStart, HoldAutomation, LiftHold,
                  ServerActivity, EnvFrame, Dispose, SetCommand, CreationAdvances, Restart,
                  schedVars
  <2> QED BY <2>1
<1>6. CASE UNCHANGED vars
    BY <1>6 DEF vars, schedVars
<1> QED BY <1>1, <1>2, <1>3, <1>4, <1>5, <1>6 DEF Next

\* Only a run that has just found its project idle for the second time begins
\* an unforced dispatch.
LEMMA DispatchIsRechecked ==
    ASSUME QueueInductive, [Next]_vars, NEW p \in Projects, StartsDispatch(p), ~run[p].force
    PROVE  StillIdle(p) /\ ~Paused
<1>1. run[p].pc \in {"claimed", "recheck"} /\ run'[p].pc \in DispatchPcs
    BY DEF StartsDispatch
<1>2. NoRun.pc \notin DispatchPcs /\ run[p].pc \notin DispatchPcs
    BY <1>1 DEF NoRun, DispatchPcs
<1>3. RunStep(p)
    BY <1>1, <1>2, RunsLetBe
<1>4. Claimed(p) \/ Rechecked(p)
    BY <1>1, <1>3 DEF RunStep, IdleChecked, ReadinessChecked, ClaimItem, LaunchExisting,
                      LaunchNew, AdmitCreation, AssociateItem, Refused, Associated,
                      CompleteItem, ReleaseItem, StartupFailure, FailItem, RunEnds
<1>5. CASE Claimed(p)
  <2>1. run' = [run EXCEPT ![p].pc = "recheck", ![p].busy = p \in turn \cup ext]
      BY <1>5 DEF Claimed
  <2>2. run'[p].pc = "recheck"
      BY <2>1, QueueFacts DEF Runs
  <2> QED BY <1>1, <2>2 DEF DispatchPcs
<1>6. CASE Rechecked(p)
  <2>1. run' = [run EXCEPT ![p].pc = "release"] => run'[p].pc = "release"
      BY QueueFacts DEF Runs
  <2> QED BY <1>1, <1>6, <2>1 DEF Rechecked, DispatchPcs
<1> QED BY <1>4, <1>5, <1>6

\* A user who starts a session while a promotion is under way goes first, up
\* to the hand-over to the supervisor (reserveUserSessionStart and the idle
\* check after the claim).
THEOREM UsersGoFirst == Spec => UserStartWins
<1>1. ASSUME QueueInductive, [Next]_vars, NEW p \in Projects, StartsDispatch(p),
             ~run[p].force
      PROVE  resv[p] = 0 /\ ~Paused
    BY <1>1, DispatchIsRechecked DEF StillIdle, Quiet
<1>2. QueueInductive /\ [Next]_vars =>
         [\A p \in Projects : StartsDispatch(p) /\ ~run[p].force => resv[p] = 0 /\ ~Paused]_vars
    BY <1>1
<1> QED BY <1>2, QueueIsInductive, PTL DEF Spec, UserStartWins

\* An unforced promotion follows a success of the command in force, whatever
\* settings changes, aborts and late answers came between (getReadinessStatus
\* and the snapshot it keeps).
THEOREM ReadinessIsProved == Spec => ReadinessProved
<1>1. ASSUME QueueInductive, [Next]_vars, NEW p \in Projects, StartsDispatch(p),
             ~run[p].force, command # None
      PROVE  p \in proved
  <2>1. run[p].pc \notin {"off", "idle", "ready"} /\ snap[p].key # None
      BY <1>1, DispatchIsRechecked DEF StartsDispatch, StillIdle
  <2> QED BY <1>1, <2>1, QueueFacts DEF RunPromises, ReadinessKnown
<1>2. QueueInductive /\ [Next]_vars =>
         [\A p \in Projects :
             StartsDispatch(p) /\ ~run[p].force /\ command # None => p \in proved]_vars
    BY <1>1
<1> QED BY <1>2, QueueIsInductive, PTL DEF Spec, ReadinessProved

\* A project with something to promote is among those an event names.
LEMMA DispatchableHasItems ==
    ASSUME QueueInductive, NEW p \in Projects, Dispatchable(p)
    PROVE  p \in WithItems
<1>1. /\ mem.order[p] # <<>> /\ Listing(mem.order[p], Here(mem, p))
    BY QueueFacts DEF StoreInv, StateOK, Dispatchable, HeadQueued, QueueOf
<1>2. 1 \in 1..Len(mem.order[p])
    BY <1>1 DEF Listing
<1>3. mem.order[p][1] \in Here(mem, p)
    BY <1>1, <1>2 DEF Listing
<1> QED BY <1>3 DEF Here, WithItems, Present

\* A project that can promote and is announced has a timer, or its run.
LEMMA AnnouncedIsArmed ==
    ASSUME NEW sched, NEW disarm, Announce(sched, disarm), ~disposed,
           NEW p \in sched, Dispatchable(p)
    PROVE  p \in timer' \/ InFlight(p)
    BY DEF Announce, Armed

\* An item action that resumed a paused queue resumes it in every project
\* (emitItemActionChange and handleEvent).
THEOREM ResumesReachOthers == Spec => ResumeReachesOthers
<1>1. ASSUME QueueInductive, pend.resumed, SaveSucceeds,
             NEW p \in Projects \ {ProjectOf[pend.item]}, Dispatchable(p), ~disposed
      PROVE  p \in timer' \/ InFlight(p)
  <2>1. OnQueueChanged /\ p \in WithItems /\ pend.op # "pause"
      BY <1>1, DispatchableHasItems, QueueFacts DEF SaveSucceeds, RunPromises, ResumesAnnounced
  <2>2. \E sched, disarm : Announce(sched, disarm) /\ p \in sched
      BY <1>1, <2>1 DEF OnQueueChanged
  <2> QED BY <1>1, <2>2, AnnouncedIsArmed
<1>2. QueueInductive /\ [Next]_vars =>
         [pend.resumed /\ SaveSucceeds =>
             \A p \in Projects \ {ProjectOf[pend.item]} :
                 Dispatchable(p) /\ ~disposed => p \in timer' \/ InFlight(p)]_vars
    BY <1>1
<1> QED BY <1>2, QueueIsInductive, PTL DEF Spec, ResumeReachesOthers
=============================================================================
