------------------------- MODULE SessionWorkProofs -------------------------
(***************************************************************************)
(* Proofs about who is responsible for a durable creation, and about the   *)
(* limit on workers.  Part 1: what any step does to the rows.  Part 2: who *)
(* moves what.  Part 3: the fences of calls and owners, and when an        *)
(* outcome becomes uncertain.  Part 4: somebody answers for every attempt. *)
(* Part 5: the workers are counted.  Part 6: the theorems.                 *)
(***************************************************************************)
EXTENDS SessionNativeProofs, FiniteSetTheorems

-----------------------------------------------------------------------------
(* Part 1.  What a step does to the rows.                                   *)

\* What becomes of a creation's row: a new attempt, or the same one, which is
\* not put back to wait.
Aged(c) ==
    \/ current'[c] = current[c] + 1
    \/ /\ current'[c] = current[c] /\ Home'[c] = Home[c]
       /\ Now'[c] \in Pending => Now[c] \in Pending

\* The server an attempt is of does not change.
LEMMA UpdateHome ==
    ASSUME RowsOK, NEW f, f.c \in Creations, IsCurrent(f), UNCHANGED current,
           NEW s, NEW dl, NEW g, Update(f, s, dl, g)
    PROVE  Home' = Home
<1> DEFINE r == [state |-> s, delivery |-> dl, gen |-> g, pid |-> Att(f).pid]
<1>1. f.a \in AttemptNos /\ f.a = current[f.c]
    BY StoreAssumption DEF RowsOK, IsCurrent, AttemptNos
<1>2. attempt' = [attempt EXCEPT ![f.c][f.a] = r] /\ r.pid = attempt[f.c][f.a].pid
    BY DEF Update, Att
<1> HIDE DEF r
<1>3. \A c \in Creations, a \in AttemptNos : attempt'[c][a].pid = attempt[c][a].pid
    BY <1>1, <1>2 DEF RowsOK
<1>4. \A c \in Creations : current[c] # 0 => current[c] \in AttemptNos
    BY StoreAssumption DEF RowsOK, AttemptNos
<1> QED BY <1>3, <1>4 DEF Home

\* Every step ages the rows.
LEMMA StepAges ==
    ASSUME CreationConsistent, [Next]_vars, NEW c \in Creations
    PROVE  Aged(c)
<1>1. RowsOK
    BY InductiveParts
<1>2. CASE Untouched
    BY <1>1, <1>2, RowsFrame DEF Untouched, Aged
<1>3. ASSUME NEW f, Rewrites(f)
      PROVE  Aged(c)
  <2>1. f.c \in Creations /\ IsCurrent(f) /\ UNCHANGED current
      BY <1>3 DEF Rewrites, CanFailBeforeEffects, CanBeginDispatch, CanFailBeforeProvider,
                  OwnerLossMatters, CanBindNative
  <2>2. \E s, dl, g : Update(f, s, dl, g) /\ (s \in Pending => Att(f).state \in Pending)
    <3>1. CASE CanFailBeforeEffects(f) /\ FailBeforeEffects(f)
        BY <3>1 DEF FailBeforeEffects, Pending
    <3>2. CASE CanFailBeforeEffects(f) /\ Update(f, "queued", "not-admitted", f.g)
        BY <3>2 DEF CanFailBeforeEffects
    <3>3. CASE BeginDispatch(f)
        BY <3>3 DEF BeginDispatch, Pending
    <3>4. CASE FailBeforeProvider(f)
        BY <3>4 DEF FailBeforeProvider, Pending
    <3>5. CASE MarkUncertain(f)
        BY <3>5 DEF MarkUncertain, Pending
    <3>6. CASE \E n : BindNative(f, n)
        BY <3>6 DEF BindNative, Pending
    <3>7. CASE \E n : ConfirmOwnedInput(f, n)
        BY <3>7 DEF ConfirmOwnedInput, Pending
    <3> QED BY <1>3, <3>1, <3>2, <3>3, <3>4, <3>5, <3>6, <3>7 DEF Rewrites
  <2>3. PICK s, dl, g : Update(f, s, dl, g) /\ (s \in Pending => Att(f).state \in Pending)
      BY <2>2
  <2>4. /\ Now[f.c] = Att(f).state /\ Now'[f.c] = s
        /\ \A b \in Creations \ {f.c} : Now'[b] = Now[b]
      BY <1>1, <2>1, <2>3, UpdateNow
  <2>5. Home' = Home
      BY <1>1, <2>1, <2>3, UpdateHome
  <2> QED BY <2>1, <2>3, <2>4, <2>5 DEF Aged
<1>4. ASSUME NEW b \in Creations, NewAttempt(b)
      PROVE  Aged(c)
  <2>1. PICK s \in Pending \cup {"failed"}, p \in Pids : Insert(b, p, s)
      BY <1>4 DEF NewAttempt
  <2>2. /\ Now' = [Now EXCEPT ![b] = s] /\ Home' = [Home EXCEPT ![b] = p]
        /\ current' = [current EXCEPT ![b] = @ + 1]
      BY <1>1, <1>4, <2>1, InsertKeepsRows DEF NewAttempt
  <2>3. Now \in [Creations -> States] /\ Home = [d \in Creations |-> Home[d]]
      BY <1>1, NowTypes DEF Home
  <2> QED BY <1>1, <2>2, <2>3 DEF Aged, RowsOK
<1>5. CASE Recovers
  <2>1. PICK alive : RecoverOwnerLoss(alive)
      BY <1>5 DEF Recovers
  <2>2. UNCHANGED current
      BY <1>5 DEF Recovers
  <2>3. /\ Home' = Home
        /\ \/ Now'[c] = Now[c]
           \/ Now'[c] \in {"failed", "uncertain"}
      BY <1>1, <2>1, <2>2, RecoveryKeepsRows
  <2> QED BY <2>2, <2>3 DEF Aged, Pending
<1> QED BY <1>2, <1>3, <1>4, <1>5, StepShape DEF Quiet, Effect

\* A failure or a loss recorded by a call: it doubts what the call dispatched.
LEMMA FailureDoubts ==
    ASSUME CreationConsistent, NEW d \in Runs, UNCHANGED current,
           run[d].pc \in Dispatched \cup {"preflight", "accepted"},
           RecordFailure(run[d]), NEW c \in Creations,
           Now'[c] = "uncertain"
    PROVE  Now[c] = "uncertain" \/ (c = run[d].c /\ run[d].pc # "preflight")
<1>1. RowsOK /\ OtherTypes /\ ServerInv
    BY InductiveParts
<1>2. run[d].c \in Creations
    BY <1>1, RunFence DEF Dispatched, BeforeEffect, AfterEffect
<1>3. CASE CanFailBeforeEffects(run[d])
  <2>1. /\ IsCurrent(run[d]) /\ Update(run[d], "failed", "not-admitted", run[d].g)
      BY <1>3 DEF CanFailBeforeEffects, RecordFailure, FailBeforeEffects
  <2> QED BY <1>1, <1>2, <2>1, UpdateNow
<1>4. CASE ~CanFailBeforeEffects(run[d]) /\ OwnerLossMatters(run[d])
  <2>1. /\ IsCurrent(run[d]) /\ Update(run[d], "uncertain", "uncertain", run[d].g)
        /\ Att(run[d]).state \in Effective
      BY <1>4 DEF OwnerLossMatters, RecordFailure, RecordOwnerLoss, MarkUncertain, Effective
  <2>2. c # run[d].c => Now'[c] = Now[c]
      BY <1>1, <1>2, <2>1, UpdateNow
  <2>3. run[d].g = 1
      BY <1>1, <1>2, <2>1, CurrentFence DEF RowConsistent
  <2>4. run[d].pc # "preflight"
      BY <1>1, <2>3 DEF ServerInv, RunsHoldTheirFence
  <2> QED BY <2>2, <2>4
<1>5. CASE ~CanFailBeforeEffects(run[d]) /\ ~OwnerLossMatters(run[d])
  <2>1. UNCHANGED <<current, attempt>>
      BY <1>5 DEF RecordFailure, RecordOwnerLoss
  <2> QED BY <1>1, <2>1, RowsFrame
<1> QED BY <1>3, <1>4, <1>5

-----------------------------------------------------------------------------
(* Part 2.  Who moves what.                                                 *)

\* The queue keeps its entries, and their places.
QueueKept ==
    \A k \in DOMAIN queue : k \in DOMAIN queue' /\ queue'[k] = queue[k]

\* An entry is added behind the others.
LEMMA AppendKeeps ==
    ASSUME queue \in Seq(Fence), NEW f \in Fence, queue' = Append(queue, f)
    PROVE  /\ QueueKept /\ Len(queue') \in DOMAIN queue'
           /\ queue'[Len(queue')] = f
<1>1. /\ Len(queue') = Len(queue) + 1 /\ queue' \in Seq(Fence)
      /\ \A k \in 1..Len(queue) : queue'[k] = queue[k]
      /\ queue'[Len(queue) + 1] = f
    BY AppendProperties
<1>2. /\ DOMAIN queue = 1..Len(queue) /\ DOMAIN queue' = 1..Len(queue')
      /\ Len(queue) \in Nat
    BY <1>1, LenProperties
<1> QED BY <1>1, <1>2 DEF QueueKept

\* A call that was accepted carries a fence.
LEMMA CallFence ==
    ASSUME CreationConsistent, NEW d \in Runs, run[d].pc \notin {"off", "submitting"}
    PROVE  /\ [c |-> run[d].c, a |-> run[d].a, g |-> run[d].g] \in Fence
           /\ run[d].c \in Creations /\ run[d].a \in 1..current[run[d].c]
           /\ current[run[d].c] # 0
<1>1. OtherTypes /\ ServerInv /\ RowsOK
    BY InductiveParts
<1>2. run[d].c \in Creations /\ run[d].a \in 1..current[run[d].c] /\ run[d] \in RunRec
    BY <1>1, RunFence DEF ServerInv, RunsHoldTheirFence
<1>3. current[run[d].c] \in 0..MaxAttempts /\ MaxAttempts \in Nat
    BY <1>1, <1>2, StoreAssumption DEF RowsOK
<1> QED BY <1>2, <1>3 DEF Fence, RunRec, AttemptNos

\* A call moves itself and the owner of its creation, and may join the queue.
CallIsAlone(d) ==
    /\ \A e \in Runs \ {d} : run'[e] = run[e]
    /\ \A c \in Creations \ {run[d].c} : owner'[c] = owner[c]
    /\ UNCHANGED <<up, pid>>
    /\ QueueKept
LEMMA CallsAreAlone ==
    ASSUME CreationConsistent, NEW d \in Runs, RunStep(d)
    PROVE  CallIsAlone(d) /\ run[d].pc # "off" /\ run[d].c \in Creations
<1>1. OtherTypes /\ ServerInv /\ RowsOK
    BY InductiveParts
<1>2. run[d].pc # "off"
    BY DEF RunStep, Admit, AcceptanceFails, JoinsAnother, StartSaved, RunFails, Dispatch,
           RouterRefuses, LaunchProvider, StartFails, Attach, Settle, SettleFails,
           AbortEnds, MakeCopy, BindCopy
<1>3. run[d].c \in Creations
    BY <1>1, <1>2, RunFence
<1>4. queue' = queue => QueueKept
    BY DEF QueueKept
<1>5. ASSUME Admit(d) \/ AcceptanceFails(d) \/ JoinsAnother(d)
      PROVE  CallIsAlone(d)
    BY <1>1, <1>4, <1>5 DEF Admit, AcceptanceFails, JoinsAnother, End, OtherTypes, CallIsAlone
<1>6. CASE StartSaved(d)
  <2> DEFINE f == [c |-> run[d].c, a |-> run[d].a, g |-> run[d].g]
  <2>1. f \in Fence
      BY <1>6, CallFence DEF StartSaved
  <2>2. queue' = queue \/ queue' = Append(queue, f)
      BY <1>6 DEF StartSaved
  <2>3. QueueKept
      BY <1>1, <1>4, <2>1, <2>2, AppendKeeps DEF OtherTypes
  <2> QED BY <1>1, <1>2, <1>3, <1>6, <2>3 DEF StartSaved, End, OtherTypes, CallIsAlone
<1>7. ASSUME RunFails(d) \/ Dispatch(d) \/ RouterRefuses(d) \/ AbortEnds(d) \/ BindCopy(d)
      PROVE  CallIsAlone(d)
    BY <1>1, <1>4, <1>7 DEF RunFails, Dispatch, RouterRefuses, AbortEnds, BindCopy, End,
                            OtherTypes, CallIsAlone
<1>8. ASSUME LaunchProvider(d) \/ \E n \in Natives : MakeCopy(d, n)
      PROVE  CallIsAlone(d)
    BY <1>1, <1>4, <1>8 DEF LaunchProvider, MakeCopy, Become, OtherTypes, CallIsAlone
<1>9. ASSUME StartFails(d) \/ Settle(d)
      PROVE  CallIsAlone(d)
    BY <1>1, <1>4, <1>9 DEF StartFails, Settle, End, OtherTypes, CallIsAlone
<1>10. ASSUME Attach(d) \/ SettleFails(d)
      PROVE  CallIsAlone(d)
    BY <1>1, <1>4, <1>10 DEF Attach, SettleFails, Become, OtherTypes, CallIsAlone
<1> QED BY <1>2, <1>3, <1>5, <1>6, <1>7, <1>8, <1>9, <1>10 DEF RunStep

\* A request, or a promotion.
Request(d) ==
    \/ Promote(d)
    \/ \E c \in Creations :
          \/ Submit(d, c) \/ SubmitCopy(d, c)
          \/ \E key \in RetryKeys : Retry(d, c, key)
LEMMA RequestsAreAlone ==
    ASSUME CreationConsistent, NEW d \in Runs, Request(d)
    PROVE  /\ run[d] = Off /\ UNCHANGED <<up, pid, owner, launches>>
           /\ \A e \in Runs \ {d} : run'[e] = run[e]
<1>1. OtherTypes
    BY InductiveParts
<1> QED BY <1>1 DEF Request, Promote, Submit, SubmitCopy, Retry, OtherTypes

\* The native side moves the owner of one creation and no call.
LEMMA OwnersAreAlone ==
    ASSUME CreationConsistent, NEW c \in Creations, OwnerStep(c)
    PROVE  /\ UNCHANGED <<up, pid, run, queue, current, launches>>
           /\ \A e \in Creations \ {c} : owner'[e] = owner[e]
<1>1. OtherTypes
    BY InductiveParts
<1>2. ASSUME \/ \E n \in Natives : OwnerNames(c, n)
             \/ OwnerTakesInput(c) \/ OwnerEnds(c)
             \/ \E gone \in BOOLEAN : StreamEnds(c, gone)
      PROVE  /\ UNCHANGED <<up, pid, run, queue, current, launches>>
             /\ \A e \in Creations \ {c} : owner'[e] = owner[e]
    BY <1>1, <1>2 DEF OwnerNames, OwnerTakesInput, OwnerEnds, StreamEnds, storeVars, OtherTypes
<1>3. ASSUME ReportNative(c) \/ ReportInput(c) \/ ReportBoth(c) \/ HostEvidence(c)
      PROVE  /\ UNCHANGED <<up, pid, run, queue, current, launches>>
             /\ \A e \in Creations \ {c} : owner'[e] = owner[e]
    BY <1>1, <1>3 DEF ReportNative, ReportInput, ReportBoth, HostEvidence, OtherTypes
<1> QED BY <1>2, <1>3 DEF OwnerStep

\* What is left: the server as a whole, and files.
Elsewhere ==
    \/ \E k \in DOMAIN queue : Cancel(k)
    \/ \E n \in Natives : ExternalNative(n) \/ Discover(n)
    \/ Restart \/ CompetingStartup \/ UNCHANGED vars
LEMMA ElsewhereMovesNobody ==
    ASSUME Elsewhere
    PROVE  UNCHANGED <<run, owner, current, launches>>
BY DEF Elsewhere, Cancel, ExternalNative, Discover, Restart, CompetingStartup, vars,
       storeVars, serverVars

\* Every step is one of these.
LEMMA StepKinds ==
    ASSUME [Next]_vars
    PROVE  \/ \E d \in Runs : RunStep(d) \/ Request(d)
           \/ \E c \in Creations : OwnerStep(c)
           \/ Crash
           \/ Elsewhere
BY DEF Next, Request, Elsewhere

\* Where a call comes from.
CallPath(d) ==
    \/ run'[d] = run[d]
    \/ run'[d].pc \in {"off", "submitting", "preflight"}
    \/ Admit(d) \/ Dispatch(d) \/ LaunchProvider(d) \/ Attach(d) \/ SettleFails(d)
    \/ \E n \in Natives : MakeCopy(d, n)
LEMMA CallPaths ==
    ASSUME CreationConsistent, [Next]_vars, NEW d \in Runs
    PROVE  CallPath(d)
<1>1. OtherTypes /\ Off.pc = "off"
    BY InductiveParts DEF Off
<1>2. CASE \E e \in Runs : RunStep(e)
  <2>1. PICK e \in Runs : RunStep(e)
      BY <1>2
  <2>2. CASE e # d
      BY <2>1, <2>2, CallsAreAlone DEF CallIsAlone, CallPath
  <2>3. CASE e = d
    <3>1. CASE \/ AcceptanceFails(d) \/ JoinsAnother(d) \/ RunFails(d) \/ RouterRefuses(d)
               \/ StartFails(d) \/ Settle(d) \/ AbortEnds(d) \/ BindCopy(d)
      <4>1. End(d)
          BY <3>1 DEF AcceptanceFails, JoinsAnother, RunFails, RouterRefuses, StartFails,
                      Settle, AbortEnds, BindCopy
      <4> QED BY <1>1, <4>1 DEF End, OtherTypes, CallPath
    <3>2. CASE StartSaved(d)
        BY <1>1, <3>2 DEF StartSaved, End, OtherTypes, CallPath
    <3> QED BY <2>1, <2>3, <3>1, <3>2 DEF RunStep, CallPath
  <2> QED BY <2>2, <2>3
<1>3. CASE \E e \in Runs : Request(e)
  <2>1. PICK e \in Runs : Request(e)
      BY <1>3
  <2>2. CASE e # d
      BY <2>1, <2>2, RequestsAreAlone DEF CallPath
  <2>3. CASE e = d
    <3>1. CASE Promote(d)
        BY <1>1, <3>1 DEF Promote, OtherTypes, CallPath
    <3>2. ASSUME NEW c \in Creations, Submit(d, c) \/ SubmitCopy(d, c)
          PROVE  CallPath(d)
        BY <1>1, <3>2 DEF Submit, SubmitCopy, OtherTypes, CallPath
    <3>3. ASSUME NEW c \in Creations, NEW key \in RetryKeys, Retry(d, c, key)
          PROVE  CallPath(d)
        BY <1>1, <3>3 DEF Retry, OtherTypes, CallPath
    <3> QED BY <2>1, <2>3, <3>1, <3>2, <3>3 DEF Request
  <2> QED BY <2>2, <2>3
<1>4. CASE \E c \in Creations : OwnerStep(c)
    BY <1>4, OwnersAreAlone DEF CallPath
<1>5. CASE Crash
    BY <1>1, <1>5 DEF Crash, CallPath
<1>6. CASE Elsewhere
    BY <1>6, ElsewhereMovesNobody DEF CallPath
<1> QED BY <1>2, <1>3, <1>4, <1>5, <1>6, StepKinds

\* Fields of an owner that change leave the others.
Alike(p, o) == p.a = o.a /\ p.g = o.g /\ p.watched = o.watched
LEMMA OwnerField ==
    ASSUME NEW o \in OwnerRec, NEW v
    PROVE  /\ Alike([o EXCEPT !.life = v], o)
           /\ Alike([o EXCEPT !.registered = v], o)
           /\ Alike([o EXCEPT !.native = v], o)
           /\ Alike([o EXCEPT !.input = v], o)
           /\ Alike([o EXCEPT !.named = v], o)
           /\ Alike([[o EXCEPT !.life = "gone"] EXCEPT !.registered = v], o)
BY DEF OwnerRec, Alike

\* Where an owner comes from.
SameOwner(c) ==
    /\ owner'[c].a = owner[c].a /\ owner'[c].g = owner[c].g
    /\ \/ owner'[c].watched = owner[c].watched
       \/ ~owner'[c].watched /\ (Crash \/ \E gone \in BOOLEAN : StreamEnds(c, gone))
LaunchedBy(d, c) ==
    run[d].c = c /\ (LaunchProvider(d) \/ \E n \in Natives : MakeCopy(d, n))
OwnerPath(c) ==
    \/ launches'[c] = launches[c] /\ SameOwner(c)
    \/ \E d \in Runs : run[d].c = c /\ Attach(d)
    \/ \E d \in Runs : LaunchedBy(d, c)
LEMMA OwnerPaths ==
    ASSUME CreationConsistent, [Next]_vars, NEW c \in Creations
    PROVE  OwnerPath(c)
<1>1. OtherTypes
    BY InductiveParts
<1>2. owner[c] \in OwnerRec
    BY <1>1, OwnerRecord
<1>3. CASE \E d \in Runs : RunStep(d)
  <2>1. PICK d \in Runs : RunStep(d)
      BY <1>3
  <2>2. CallIsAlone(d)
      BY <2>1, CallsAreAlone
  <2>3. CASE LaunchProvider(d) \/ \E n \in Natives : MakeCopy(d, n)
    <3>1. CASE run[d].c = c
        BY <2>3, <3>1 DEF LaunchedBy, OwnerPath
    <3>2. CASE run[d].c # c
        BY <1>1, <2>2, <2>3, <3>2
           DEF CallIsAlone, LaunchProvider, MakeCopy, OtherTypes, SameOwner, OwnerPath
    <3> QED BY <3>1, <3>2
  <2>4. CASE ~(LaunchProvider(d) \/ \E n \in Natives : MakeCopy(d, n))
    <3>1. launches' = launches
        BY <2>1, <2>4 DEF RunStep, Admit, AcceptanceFails, JoinsAnother, StartSaved, RunFails,
              Dispatch, RouterRefuses, StartFails, Attach, Settle, SettleFails, AbortEnds, BindCopy
    <3>2. CASE run[d].c # c
        BY <2>2, <3>1, <3>2 DEF CallIsAlone, SameOwner, OwnerPath
    <3>3. CASE run[d].c = c /\ Attach(d)
        BY <3>3 DEF OwnerPath
    <3>4. CASE run[d].c = c /\ (StartFails(d) \/ Settle(d) \/ SettleFails(d))
      <4>1. \/ owner' = [owner EXCEPT ![c].life = IF c \in Hosted THEN @ ELSE "gone"]
            \/ \E b : owner' = [owner EXCEPT ![c].registered = b]
          BY <3>4 DEF StartFails, Settle, SettleFails
      <4>2. \E v : \/ owner'[c] = [owner[c] EXCEPT !.life = v]
                   \/ owner'[c] = [owner[c] EXCEPT !.registered = v]
          BY <1>1, <4>1 DEF OtherTypes
      <4>3. Alike(owner'[c], owner[c])
          BY <1>2, <4>2, OwnerField
      <4> QED BY <3>1, <4>3 DEF OwnerPath, SameOwner, Alike
    <3>5. CASE ~(StartFails(d) \/ Settle(d) \/ SettleFails(d) \/ Attach(d))
      <4>1. owner' = owner
          BY <2>1, <2>4, <3>5 DEF RunStep, Admit, AcceptanceFails, JoinsAnother, StartSaved,
                RunFails, Dispatch, RouterRefuses, AbortEnds, BindCopy
      <4> QED BY <3>1, <4>1 DEF SameOwner, OwnerPath
    <3> QED BY <3>2, <3>3, <3>4, <3>5
  <2> QED BY <2>3, <2>4
<1>4. CASE \E d \in Runs : Request(d)
    BY <1>4, RequestsAreAlone DEF SameOwner, OwnerPath
<1>5. CASE \E e \in Creations : OwnerStep(e)
  <2>1. PICK e \in Creations : OwnerStep(e)
      BY <1>5
  <2>2. launches' = launches /\ (e # c => owner'[c] = owner[c])
      BY <2>1, OwnersAreAlone
  <2>3. CASE e = c
    <3>1. ASSUME NEW gone \in BOOLEAN, StreamEnds(c, gone)
          PROVE  SameOwner(c)
        BY <1>1, <1>2, <3>1 DEF StreamEnds, OtherTypes, OwnerRec, SameOwner
    <3>2. ASSUME \/ \E n \in Natives : OwnerNames(c, n)
                 \/ OwnerTakesInput(c) \/ ReportNative(c) \/ OwnerEnds(c)
          PROVE  SameOwner(c)
      <4>1. \/ \E n : owner' = [owner EXCEPT ![c].native = n]
            \/ owner' = [owner EXCEPT ![c].input = "taken"]
            \/ owner' = [owner EXCEPT ![c].named = TRUE]
            \/ owner' = [owner EXCEPT ![c].life = "gone", ![c].registered = FALSE]
          BY <3>2 DEF OwnerNames, OwnerTakesInput, ReportNative, OwnerEnds
      <4>2. \E v : \/ owner'[c] = [owner[c] EXCEPT !.native = v]
                   \/ owner'[c] = [owner[c] EXCEPT !.input = v]
                   \/ owner'[c] = [owner[c] EXCEPT !.named = v]
                   \/ owner'[c] = [[owner[c] EXCEPT !.life = "gone"] EXCEPT !.registered = v]
          BY <1>1, <4>1 DEF OtherTypes
      <4>3. Alike(owner'[c], owner[c])
          BY <1>2, <4>2, OwnerField
      <4> QED BY <4>3 DEF SameOwner, Alike
    <3>3. ASSUME ReportInput(c) \/ ReportBoth(c) \/ HostEvidence(c)
          PROVE  SameOwner(c)
        BY <3>3 DEF ReportInput, ReportBoth, HostEvidence, SameOwner
    <3> QED BY <2>1, <2>2, <2>3, <3>1, <3>2, <3>3 DEF OwnerStep, OwnerPath
  <2> QED BY <2>2, <2>3 DEF SameOwner, OwnerPath
<1>6. CASE Crash
    BY <1>1, <1>2, <1>6 DEF Crash, OwnerRec, SameOwner, OwnerPath
<1>7. CASE Elsewhere
    BY <1>7, ElsewhereMovesNobody DEF SameOwner, OwnerPath
<1> QED BY <1>3, <1>4, <1>5, <1>6, <1>7, StepKinds

\* Somebody has the current attempt of c in hand while it waits.
HeldNow(c) == (\E d \in Runs : Serves(d, c)) \/ InQueue(FenceOf(c))

\* An attempt that is made is this server's, and whoever made it has it.
IsNew(c) ==
    /\ current'[c] = current[c] + 1 /\ Home'[c] = pid
    /\ UNCHANGED <<up, pid, launches>>
    /\ Now'[c] \in Pending \cup {"failed"}
    /\ Now'[c] \in Pending => HeldNow(c)'
LEMMA InsertIsNew ==
    ASSUME CreationConsistent, NEW c \in Creations, NEW s \in Pending \cup {"failed"},
           Insert(c, pid, s), NewAttempt(c), UNCHANGED <<up, pid, launches>>,
           \/ s = "failed"
           \/ \E d \in Runs : /\ run'[d].pc \in {"accepted", "preflight"}
                              /\ run'[d].c = c /\ run'[d].a = current[c] + 1
           \/ \E k \in DOMAIN queue' : queue'[k].c = c /\ queue'[k].a = current[c] + 1
    PROVE  IsNew(c) /\ \A e \in Creations \ {c} : current'[e] = current[e]
<1>1. RowsOK /\ OtherTypes
    BY InductiveParts
<1>2. /\ Now' = [Now EXCEPT ![c] = s] /\ Home' = [Home EXCEPT ![c] = pid]
      /\ current' = [current EXCEPT ![c] = @ + 1]
    BY <1>1, InsertKeepsRows DEF NewAttempt, OtherTypes
<1>3. /\ Now'[c] = s /\ Home'[c] = pid /\ current'[c] = current[c] + 1
      /\ \A e \in Creations \ {c} : current'[e] = current[e]
  <2>1. Now \in [Creations -> States] /\ Home = [b \in Creations |-> Home[b]]
      BY <1>1, NowTypes DEF Home
  <2> QED BY <1>1, <1>2, <2>1 DEF RowsOK
<1>4. s # "failed" => HeldNow(c)'
    BY <1>3 DEF HeldNow, Serves, InQueue, FenceOf
<1> QED BY <1>3, <1>4 DEF IsNew, Pending

\* An attempt only becomes another one when a new one is made.
LEMMA NewAttempts ==
    ASSUME CreationConsistent, [Next]_vars, NEW c \in Creations, current'[c] # current[c]
    PROVE  IsNew(c)
<1>1. RowsOK /\ OtherTypes /\ pid \in Pids /\ MaxAttempts \in Nat \ {0}
    BY InductiveParts, StoreAssumption DEF OtherTypes
<1>2. CASE \E d \in Runs : RunStep(d)
  <2>1. PICK d \in Runs : RunStep(d)
      BY <1>2
  <2>2. Admit(d)
      BY <2>1 DEF RunStep, AcceptanceFails, JoinsAnother, StartSaved, RunFails, Dispatch,
            RouterRefuses, LaunchProvider, StartFails, Attach, Settle, SettleFails,
            AbortEnds, MakeCopy, BindCopy, storeVars
  <2>3. current[run[d].c] = 0 /\ Insert(run[d].c, pid, "saved") /\ run[d].c \in Creations
      BY <2>1, <2>2, CallsAreAlone DEF Admit
  <2>4. /\ run'[d].pc = "accepted" /\ run'[d].c = run[d].c /\ run'[d].a = 1
        /\ UNCHANGED <<up, pid, launches>>
      BY <1>1, <2>2, <2>3 DEF Admit, OtherTypes
  <2>5. NewAttempt(run[d].c)
      BY <1>1, <2>3 DEF NewAttempt, Pending
  <2> HIDE DEF Insert
  <2>6. IsNew(run[d].c) /\ \A e \in Creations \ {run[d].c} : current'[e] = current[e]
    <3>1. "saved" \in Pending \cup {"failed"} /\ 1 = current[run[d].c] + 1
        BY <2>3 DEF Pending
    <3> QED BY <2>3, <2>4, <2>5, <3>1, InsertIsNew
  <2> QED BY <2>6
<1>3. CASE \E d \in Runs : Request(d)
  <2>1. PICK d \in Runs : Request(d)
      BY <1>3
  <2>2. ASSUME NEW e \in Creations, SubmitCopy(d, e)
        PROVE  IsNew(c)
    <3>1. Insert(e, pid, "saved") /\ current[e] = 0 /\ UNCHANGED <<up, pid, launches>>
        BY <2>2 DEF SubmitCopy
    <3>2. run'[d].pc = "preflight" /\ run'[d].c = e /\ run'[d].a = 1
        BY <1>1, <2>2 DEF SubmitCopy, OtherTypes
    <3>3. NewAttempt(e)
        BY <1>1, <3>1 DEF NewAttempt, Pending
    <3>4. "saved" \in Pending \cup {"failed"} /\ 1 = current[e] + 1
        BY <3>1 DEF Pending
    <3> QED BY <3>1, <3>2, <3>3, <3>4, InsertIsNew
  <2>3. ASSUME NEW e \in Creations, NEW key \in RetryKeys, Retry(d, e, key)
        PROVE  IsNew(c)
    <3> DEFINE f == [c |-> e, a |-> current[e] + 1, g |-> 0]
               s == IF ~AtCapacity THEN "saved" ELSE IF QueueFull THEN "failed" ELSE "queued"
    <3>1. /\ Insert(e, pid, s) /\ CanRetry(e, key) /\ UNCHANGED <<up, pid, launches>>
          /\ s \in Pending \cup {"failed"}
        BY <2>3 DEF Retry, Pending
    <3>2. \/ s = "failed"
          \/ run'[d].pc = "preflight" /\ run'[d].c = e /\ run'[d].a = current[e] + 1
          \/ queue' = Append(queue, f)
        BY <1>1, <2>3 DEF Retry, OtherTypes
    <3>3. current[e] \in Nat /\ current[e] < MaxAttempts
        BY <1>1, <3>1 DEF CanRetry, RowsOK
    <3>4. f \in Fence /\ f.c = e /\ f.a = current[e] + 1
        BY <1>1, <3>3 DEF Fence, AttemptNos, Generations
    <3>5. NewAttempt(e)
        BY <1>1, <3>1, <3>3 DEF NewAttempt, CanRetry
    <3> HIDE DEF s, f
    <3>6. queue' = Append(queue, f) =>
             \E k \in DOMAIN queue' : queue'[k].c = e /\ queue'[k].a = current[e] + 1
        BY <1>1, <3>4, AppendKeeps DEF OtherTypes
    <3> QED BY <3>1, <3>2, <3>5, <3>6, InsertIsNew
  <2>4. ASSUME Promote(d) \/ \E e \in Creations : Submit(d, e)
        PROVE  FALSE
      BY <2>4 DEF Promote, Submit, storeVars
  <2> QED BY <2>1, <2>2, <2>3, <2>4 DEF Request
<1>4. CASE Crash
    BY <1>4 DEF Crash, storeVars
<1> QED BY <1>2, <1>3, <1>4, StepKinds, OwnersAreAlone, ElsewhereMovesNobody

-----------------------------------------------------------------------------
(* Part 3.  The fences of calls and owners, and what becomes uncertain.     *)

\* Two calls do not share a dispatched creation; one that is past its dispatch
\* works on the current attempt.
LEMMA DispatchedFence ==
    ASSUME CreationConsistent, NEW d \in Runs, run[d].pc \in Dispatched
    PROVE  /\ run[d].c \in Creations /\ run[d].a = current[run[d].c] /\ run[d].g = 1
           /\ run[d].pc # "off" /\ up
           /\ Now[run[d].c] \in Effective
           /\ run[d].pc \in BeforeEffect =>
                 launches[run[d].c] = 0 /\ owner[run[d].c] = NoOwner
           /\ run[d].pc \in AfterEffect => launches[run[d].c] = 1
           /\ \A e \in Runs : run[e].pc \in Dispatched /\ run[e].c = run[d].c => e = d
<1>1. OtherTypes /\ ServerInv
    BY InductiveParts
<1>2. run[d].pc \notin {"off", "submitting", "accepted", "preflight"}
    BY DEF Dispatched, BeforeEffect, AfterEffect
<1>3. run[d].c \in Creations /\ up
    BY <1>1, <1>2, RunFence, WorkNeedsServer
<1> QED BY <1>1, <1>2, <1>3 DEF ServerInv, RunsHoldTheirFence, OneDispatcher, OwnersAreLaunched

\* An effect is an effect of the attempt that stays current.
LEMMA LaunchedStays ==
    ASSUME CreationConsistent, CreationConsistent', [Next]_vars, NEW c \in Creations,
           launches'[c] = 1
    PROVE  current'[c] = current[c]
<1>1. Now'[c] \in Effective
    BY DEF CreationConsistent, OwnersAreLaunched
<1>2. Now'[c] \notin Pending \cup {"failed"}
    BY <1>1 DEF Effective, Pending
<1> QED BY <1>2, NewAttempts DEF IsNew

\* What a launch or a copy makes.
LEMMA Launch ==
    ASSUME CreationConsistent, NEW d \in Runs, NEW c \in Creations, LaunchedBy(d, c)
    PROVE  /\ run[d].pc \in BeforeEffect /\ run'[d].pc \in {"starting", "copied"}
           /\ run'[d].c = c
           /\ owner'[c].a = run[d].a /\ owner'[c].g = run[d].g /\ ~owner'[c].watched
           /\ UNCHANGED <<current, attempt>>
<1>1. OtherTypes
    BY InductiveParts
<1>2. CASE LaunchProvider(d)
  <2> DEFINE o == [NoOwner EXCEPT !.life = "live", !.a = run[d].a, !.g = run[d].g]
  <2>1. o.a = run[d].a /\ o.g = run[d].g /\ o.watched = FALSE
      BY DEF NoOwner
  <2>2. owner' = [owner EXCEPT ![c] = o]
      BY <1>2 DEF LaunchProvider, LaunchedBy
  <2> HIDE DEF o
  <2> QED BY <1>1, <1>2, <2>1, <2>2, BecomeRecord
          DEF LaunchProvider, LaunchedBy, Become, OtherTypes, BeforeEffect, Pcs, storeVars
<1>3. ASSUME NEW n \in Natives, MakeCopy(d, n)
      PROVE  /\ run[d].pc \in BeforeEffect /\ run'[d].pc \in {"starting", "copied"}
             /\ run'[d].c = c
             /\ owner'[c].a = run[d].a /\ owner'[c].g = run[d].g /\ ~owner'[c].watched
             /\ UNCHANGED <<current, attempt>>
  <2> DEFINE o == [NoOwner EXCEPT !.life = "gone", !.a = run[d].a, !.g = run[d].g,
                                  !.native = n]
  <2>1. o.a = run[d].a /\ o.g = run[d].g /\ o.watched = FALSE
      BY DEF NoOwner
  <2>2. owner' = [owner EXCEPT ![c] = o]
      BY <1>3 DEF MakeCopy, LaunchedBy
  <2> HIDE DEF o
  <2> QED BY <1>1, <1>3, <2>1, <2>2, BecomeRecord
          DEF MakeCopy, LaunchedBy, Become, OtherTypes, BeforeEffect, Pcs, storeVars
<1> QED BY <1>2, <1>3 DEF LaunchedBy

\* What attaching a provider makes.
LEMMA Attached ==
    ASSUME CreationConsistent, NEW d \in Runs, Attach(d)
    PROVE  /\ run[d].pc = "starting" /\ run'[d].pc \in {"aborting", "settling"}
           /\ run'[d].c = run[d].c /\ run[d].c \in Creations
           /\ owner'[run[d].c].a = owner[run[d].c].a
           /\ owner'[run[d].c].g = owner[run[d].c].g
           /\ launches' = launches /\ UNCHANGED <<current, attempt>>
<1>1. OtherTypes /\ run[d].c \in Creations
    BY InductiveParts, RunFence DEF Attach
<1>2. owner[run[d].c] \in OwnerRec
    BY <1>1, OwnerRecord
<1>3. /\ owner'[run[d].c].a = owner[run[d].c].a
      /\ owner'[run[d].c].g = owner[run[d].c].g
    BY <1>1, <1>2 DEF Attach, OtherTypes, OwnerRec
<1>4. run'[d].pc \in {"aborting", "settling"} /\ run'[d].c = run[d].c
    BY <1>1 DEF Attach, Become, OtherTypes, RunRec
<1> QED BY <1>1, <1>3, <1>4 DEF Attach, storeVars

\* The fence of a launched owner.
OwnersFenced == \A c \in Creations :
                   launches[c] = 1 => owner[c].a = current[c] /\ owner[c].g = 1
LEMMA OwnersStayFenced ==
    ASSUME CreationConsistent, CreationConsistent', [Next]_vars, OwnersFenced
    PROVE  OwnersFenced'
<1> SUFFICES ASSUME NEW c \in Creations, launches'[c] = 1
             PROVE  owner'[c].a = current'[c] /\ owner'[c].g = 1
    BY DEF OwnersFenced
<1>1. current'[c] = current[c]
    BY LaunchedStays
<1>2. CASE launches'[c] = launches[c] /\ SameOwner(c)
    BY <1>1, <1>2 DEF SameOwner, OwnersFenced
<1>3. ASSUME NEW d \in Runs, run[d].c = c, Attach(d)
      PROVE  owner'[c].a = current'[c] /\ owner'[c].g = 1
    BY <1>1, <1>3, Attached DEF OwnersFenced
<1>4. ASSUME NEW d \in Runs, LaunchedBy(d, c)
      PROVE  owner'[c].a = current'[c] /\ owner'[c].g = 1
  <2>1. run[d].pc \in Dispatched /\ run[d].c = c
      BY <1>4, Launch DEF Dispatched, LaunchedBy
  <2> QED BY <1>1, <1>4, <2>1, Launch, DispatchedFence
<1> QED BY <1>2, <1>3, <1>4, OwnerPaths DEF OwnerPath

\* A server process only ends in a crash, and only a restart makes a new one.
LEMMA ServerSteps ==
    ASSUME CreationConsistent, [Next]_vars
    PROVE  \/ UNCHANGED <<up, pid>>
           \/ Crash /\ ~up' /\ pid' = pid
           \/ /\ Restart /\ ~up /\ up'
              /\ ~PidReuse => pid' = pid + 1
<1>1. ASSUME Elsewhere
      PROVE  UNCHANGED <<up, pid>> \/ (Restart /\ ~up /\ up' /\ (~PidReuse => pid' = pid + 1))
    BY <1>1 DEF Elsewhere, Cancel, ExternalNative, Discover, Restart, CompetingStartup, vars,
                serverVars
<1>2. Crash => ~up' /\ pid' = pid
    BY DEF Crash
<1> QED BY <1>1, <1>2, StepKinds, CallsAreAlone, RequestsAreAlone, OwnersAreAlone
        DEF CallIsAlone

\* Every attempt was made by this server or an earlier one.
HomesKnown == \A c \in Creations : Home[c] <= pid \/ PidReuse
LEMMA HomesStayKnown ==
    ASSUME CreationConsistent, CreationConsistent', [Next]_vars, HomesKnown
    PROVE  HomesKnown'
<1> SUFFICES ASSUME NEW c \in Creations, ~PidReuse
             PROVE  Home'[c] <= pid'
    BY DEF HomesKnown
<1>1. pid \in Nat /\ Home[c] \in Nat
  <2>1. RowsOK /\ pid \in Pids
      BY InductiveParts DEF OtherTypes
  <2>2. current[c] \in 0..MaxAttempts /\ MaxAttempts \in Nat /\ MaxLives \in Nat
      BY <2>1, StoreAssumption DEF RowsOK
  <2>3. current[c] # 0 => attempt[c][current[c]].pid \in 0..MaxLives
      BY <2>1, <2>2 DEF RowsOK, AttemptNos, AttemptRec
  <2> QED BY <2>1, <2>2, <2>3 DEF Home, Pids
<1>2. pid' = pid \/ pid' = pid + 1
    BY ServerSteps
<1>3. CASE current'[c] # current[c]
    BY <1>1, <1>2, <1>3, NewAttempts DEF IsNew
<1>4. CASE current'[c] = current[c]
  <2>1. Home'[c] = Home[c]
    <3>1. current[c] # current[c] + 1
        BY InductiveParts DEF RowsOK
    <3> QED BY <1>4, <3>1, StepAges DEF Aged
  <2> QED BY <1>1, <1>2, <2>1 DEF HomesKnown
<1> QED BY <1>3, <1>4

\* A provider that starts is not watched yet.
StartsUnwatched == \A d \in Runs : run[d].pc = "starting" => ~owner[run[d].c].watched
LEMMA StartsStayUnwatched ==
    ASSUME CreationConsistent, CreationConsistent', [Next]_vars, StartsUnwatched
    PROVE  StartsUnwatched'
<1> SUFFICES ASSUME NEW d \in Runs, run'[d].pc = "starting"
             PROVE  ~owner'[run'[d].c].watched
    BY DEF StartsUnwatched
<1> DEFINE c == run'[d].c
<1>1. c \in Creations
    BY DEF CreationConsistent, RunsHoldTheirFence
<1>2. ASSUME NEW e \in Runs, LaunchedBy(e, c)
      PROVE  ~owner'[c].watched
    BY <1>1, <1>2, Launch
<1>3. ASSUME run'[d] = run[d]
      PROVE  ~owner'[c].watched
  <2>1. run[d].pc = "starting" /\ run[d].c = c /\ "starting" \in Dispatched
      BY <1>3 DEF Dispatched, AfterEffect
  <2>2. SameOwner(c) => ~owner'[c].watched
      BY <2>1 DEF SameOwner, StartsUnwatched
  <2>3. ASSUME NEW e \in Runs, run[e].c = c, Attach(e)
        PROVE  FALSE
    <3>1. run[e].pc = "starting" /\ run'[e].pc # "starting"
        BY <2>3, Attached
    <3>2. e = d
        BY <2>1, <2>3, <3>1, DispatchedFence
    <3> QED BY <3>1, <3>2
  <2> QED BY <1>1, <1>2, <2>2, <2>3, OwnerPaths DEF OwnerPath
<1>4. ASSUME LaunchProvider(d) \/ \E n \in Natives : MakeCopy(d, n)
      PROVE  ~owner'[c].watched
  <2>1. LaunchedBy(d, run[d].c) /\ run[d].c \in Creations
    <3>1. run[d].pc \in Dispatched
        BY <1>4 DEF LaunchProvider, MakeCopy, Dispatched, BeforeEffect
    <3> QED BY <1>4, <3>1, DispatchedFence DEF LaunchedBy
  <2>2. run'[d].c = run[d].c
      BY <2>1, Launch
  <2> QED BY <1>2, <2>1, <2>2
<1>5. ASSUME Admit(d) \/ Dispatch(d) \/ Attach(d) \/ SettleFails(d)
      PROVE  FALSE
  <2>1. OtherTypes
      BY InductiveParts
  <2>2. ~Attach(d)
      BY Attached
  <2> QED BY <1>5, <2>1, <2>2
          DEF Admit, Dispatch, SettleFails, Become, OtherTypes, RunRec
<1> QED BY <1>3, <1>4, <1>5, CallPaths DEF CallPath

\* Copies are made by the calls of copies.
CallsKeepTheirIntent ==
    \A d \in Runs :
        /\ run[d].pc \in {"copying", "copied"} => Intent[run[d].c] = "copy"
        /\ run[d].pc \in {"launching", "starting", "settling", "aborting"} =>
              Intent[run[d].c] # "copy"
LEMMA IntentsAreKept ==
    ASSUME CreationConsistent, [Next]_vars, CallsKeepTheirIntent
    PROVE  CallsKeepTheirIntent'
<1> SUFFICES ASSUME NEW d \in Runs
             PROVE  /\ run'[d].pc \in {"copying", "copied"} => Intent[run'[d].c] = "copy"
                    /\ run'[d].pc \in {"launching", "starting", "settling", "aborting"} =>
                          Intent[run'[d].c] # "copy"
    BY DEF CallsKeepTheirIntent
<1>1. OtherTypes /\ run[d] \in RunRec
    BY InductiveParts DEF OtherTypes
<1>2. CASE run'[d] = run[d]
    BY <1>2 DEF CallsKeepTheirIntent
<1>3. CASE Admit(d)
    BY <1>1, <1>3 DEF Admit, OtherTypes
<1>4. CASE Dispatch(d)
    BY <1>1, <1>4 DEF Dispatch, OtherTypes, RunRec
<1>5. CASE Attach(d)
    BY <1>5, Attached DEF CallsKeepTheirIntent
<1>6. CASE SettleFails(d)
    BY <1>1, <1>6 DEF SettleFails, Become, OtherTypes, RunRec, CallsKeepTheirIntent
<1>7. CASE LaunchProvider(d)
    BY <1>1, <1>7 DEF LaunchProvider, Become, OtherTypes, RunRec, CallsKeepTheirIntent
<1>8. ASSUME NEW n \in Natives, MakeCopy(d, n)
      PROVE  run'[d].pc = "copied" /\ run'[d].c = run[d].c /\ run[d].pc = "copying"
    BY <1>1, <1>8 DEF MakeCopy, Become, OtherTypes, RunRec
<1> QED BY <1>2, <1>3, <1>4, <1>5, <1>6, <1>7, <1>8, CallPaths
        DEF CallPath, CallsKeepTheirIntent

\* A call accepted for an attempt that waits has its fence.
LEMMA AcceptanceStaysInTime ==
    ASSUME CreationConsistent, CreationConsistent', [Next]_vars, AcceptedInTime
    PROVE  AcceptedInTime'
<1> SUFFICES ASSUME NEW d \in Runs, run'[d].pc = "accepted",
                    run'[d].a = current'[run'[d].c], Now'[run'[d].c] \in Pending
             PROVE  run'[d].g = 0
    BY DEF AcceptedInTime
<1> DEFINE c == run'[d].c
<1>1. c \in Creations
    BY DEF CreationConsistent, RunsHoldTheirFence
<1>2. OtherTypes /\ RowsOK
    BY InductiveParts
<1>3. ASSUME run'[d] = run[d]
      PROVE  run'[d].g = 0
  <2>1. run[d].a \in 1..current[c] /\ current[c] \in Nat
    <3>1. run[d].c = c /\ run[d].pc \notin {"off", "submitting"}
        BY <1>3
    <3>2. run[d].a \in 1..current[run[d].c]
        BY <3>1, CallFence
    <3>3. current[c] \in Nat
        BY <1>1, <1>2, StoreAssumption DEF RowsOK
    <3> QED BY <3>1, <3>2, <3>3
  <2>2. current'[c] # current[c] + 1
      BY <1>3, <2>1
  <2>3. Now[c] \in Pending /\ current'[c] = current[c]
      BY <1>1, <2>2, StepAges DEF Aged
  <2> QED BY <1>3, <2>3 DEF AcceptedInTime
<1>4. ASSUME Admit(d)
      PROVE  run'[d].g = 0
  <2>1. run'[d].c = run[d].c /\ run'[d].g = FenceOf(run[d].c).g
      BY <1>2, <1>4 DEF Admit, OtherTypes
  <2>2. CASE current[c] = 0
      BY <2>1, <2>2 DEF FenceOf
  <2>3. CASE current[c] # 0
    <3>1. UNCHANGED <<current, attempt>>
        BY <1>4, <2>1, <2>3 DEF Admit
    <3>2. Now[c] \in Pending
        BY <1>2, <3>1, RowsFrame
    <3>3. attempt[c][current[c]].state = Now[c] /\ current[c] \in AttemptNos
        BY <1>1, <1>2, <2>3, StoreAssumption DEF Now, StateOf, RowsOK, AttemptNos
    <3>4. attempt[c][current[c]].gen = 0
        BY <1>1, <1>2, <3>2, <3>3 DEF RowsOK, RowsAreConsistent, RowConsistent
    <3> QED BY <2>1, <2>3, <3>4 DEF FenceOf
  <2> QED BY <2>2, <2>3
<1>5. ASSUME \/ Dispatch(d) \/ LaunchProvider(d) \/ Attach(d) \/ SettleFails(d)
             \/ \E n \in Natives : MakeCopy(d, n)
      PROVE  FALSE
  <2>1. run'[d].pc # "accepted"
    <3>1. ~Attach(d)
        BY Attached
    <3>2. ~Dispatch(d)
        BY <1>2 DEF Dispatch, OtherTypes, RunRec
    <3>3. ~LaunchProvider(d) /\ ~SettleFails(d)
        BY <1>2 DEF LaunchProvider, SettleFails, Become, OtherTypes, RunRec
    <3>4. \A n \in Natives : ~MakeCopy(d, n)
        BY <1>2 DEF MakeCopy, Become, OtherTypes, RunRec
    <3> QED BY <1>5, <3>1, <3>2, <3>3, <3>4
  <2> QED BY <2>1
<1> QED BY <1>3, <1>4, <1>5, CallPaths DEF CallPath

\* Whoever may turn the attempt of a creation uncertain: the call that
\* dispatched it as it ends, its process as its stream ends, or a server for
\* which it is not one of its own.
Doubted(c) ==
    \/ \E d \in Runs : run[d].pc \in Dispatched /\ run[d].c = c /\ run'[d] = Off
    \/ owner[c].watched /\ ~owner'[c].watched
    \/ ~Mine(c)
NewlyDoubted(c) == Now'[c] = "uncertain" /\ Now[c] # "uncertain"

\* An update to another state doubts nothing.
LEMMA UpdateDoubtsNothing ==
    ASSUME CreationConsistent, NEW f, f.c \in Creations, IsCurrent(f), UNCHANGED current,
           NEW s, NEW dl, NEW g, Update(f, s, dl, g),
           s = "uncertain" => Att(f).state = "uncertain",
           NEW c \in Creations
    PROVE  ~NewlyDoubted(c)
BY UpdateNow, InductiveParts DEF NewlyDoubted

\* Nor does a new attempt, or a step that leaves the rows alone.
LEMMA OthersDoubtNothing ==
    ASSUME CreationConsistent, NEW c \in Creations,
           \/ Untouched
           \/ \E b \in Creations, s \in Pending \cup {"failed"} :
                 NewAttempt(b) /\ Insert(b, pid, s)
    PROVE  ~NewlyDoubted(c)
<1>1. RowsOK /\ pid \in Pids
    BY InductiveParts DEF OtherTypes
<1>2. CASE Untouched
    BY <1>1, <1>2, RowsFrame DEF Untouched, NewlyDoubted
<1>3. ASSUME NEW b \in Creations, NEW s \in Pending \cup {"failed"},
             NewAttempt(b), Insert(b, pid, s)
      PROVE  ~NewlyDoubted(c)
  <2>1. Now' = [Now EXCEPT ![b] = s] /\ s # "uncertain" /\ Now \in [Creations -> States]
      BY <1>1, <1>3, InsertKeepsRows, NowTypes DEF NewAttempt, Pending
  <2> QED BY <2>1 DEF NewlyDoubted
<1> QED BY <1>2, <1>3

\* Failing, binding and confirming do not doubt anything.
LEMMA WritesDoubtNothing ==
    ASSUME CreationConsistent, NEW f, f.c \in Creations, UNCHANGED current,
           \/ CanFailBeforeEffects(f) /\ FailBeforeEffects(f)
           \/ CanFailBeforeEffects(f) /\ Update(f, "queued", "not-admitted", f.g)
           \/ CanBeginDispatch(f) /\ BeginDispatch(f)
           \/ CanFailBeforeProvider(f) /\ FailBeforeProvider(f)
           \/ \E n : CanBindNative(f, n) /\ (BindNative(f, n) \/ ConfirmOwnedInput(f, n)),
           NEW c \in Creations
    PROVE  ~NewlyDoubted(c)
<1>1. IsCurrent(f)
    BY DEF CanFailBeforeEffects, CanBeginDispatch, CanFailBeforeProvider, CanBindNative
<1>2. \E s, dl, g : Update(f, s, dl, g) /\ (s = "uncertain" => Att(f).state = "uncertain")
    BY DEF FailBeforeEffects, BeginDispatch, FailBeforeProvider, BindNative, ConfirmOwnedInput
<1> QED BY <1>1, <1>2, UpdateDoubtsNothing

\* Every doubt has one of those causes.
LEMMA CallsDoubt ==
    ASSUME CreationConsistent, [Next]_vars, NEW d \in Runs, RunStep(d),
           NEW c \in Creations, NewlyDoubted(c)
    PROVE  Doubted(c)
<1>1. OtherTypes /\ run[d].c \in Creations /\ run[d].pc # "off"
    BY InductiveParts, CallsAreAlone
<1>2. CASE Admit(d)
  <2>1. current'[c] = current[c] /\ ~Untouched
    <3>1. Now'[c] \notin Pending \cup {"failed"}
        BY DEF NewlyDoubted, Pending
    <3> QED BY <3>1, NewAttempts, OthersDoubtNothing DEF IsNew
  <2>2. current[run[d].c] = 0 /\ Insert(run[d].c, pid, "saved")
      BY <1>2, <2>1 DEF Admit, Untouched
  <2>3. NewAttempt(run[d].c) /\ "saved" \in Pending \cup {"failed"}
      BY <1>1, <2>2, StoreAssumption DEF NewAttempt, Pending, OtherTypes
  <2> QED BY <1>1, <2>2, <2>3, OthersDoubtNothing
<1>3. CASE AcceptanceFails(d)
    BY <1>1, <1>3, WritesDoubtNothing, OthersDoubtNothing DEF AcceptanceFails, Untouched
<1>4. CASE JoinsAnother(d) \/ LaunchProvider(d) \/ Attach(d) \/ Settle(d) \/ SettleFails(d)
           \/ \E n \in Natives : MakeCopy(d, n)
    BY <1>4, OthersDoubtNothing
       DEF JoinsAnother, LaunchProvider, Attach, Settle, SettleFails, MakeCopy, storeVars, Untouched
<1>5. CASE StartSaved(d)
  <2> DEFINE f == [c |-> run[d].c, a |-> run[d].a, g |-> run[d].g]
  <2>1. f.c \in Creations /\ CanFailBeforeEffects(f) /\ UNCHANGED current
      BY <1>1, <1>5 DEF StartSaved, NothingToStart
  <2>2. \/ UNCHANGED attempt \/ FailBeforeEffects(f)
        \/ Update(f, "queued", "not-admitted", f.g)
      BY <1>5 DEF StartSaved
  <2> HIDE DEF f
  <2> QED BY <2>1, <2>2, WritesDoubtNothing, OthersDoubtNothing DEF Untouched
<1>6. CASE RunFails(d) \/ StartFails(d) \/ AbortEnds(d)
  <2>1. /\ run[d].pc \in Dispatched \cup {"preflight"} /\ RecordFailure(run[d])
        /\ UNCHANGED current /\ run'[d] = Off
      BY <1>1, <1>6 DEF RunFails, StartFails, AbortEnds, End, Dispatched, BeforeEffect,
                        AfterEffect, OtherTypes
  <2>2. c = run[d].c /\ run[d].pc # "preflight"
      BY <2>1, FailureDoubts DEF NewlyDoubted
  <2> QED BY <2>1, <2>2 DEF Doubted
<1>7. CASE Dispatch(d) \/ RouterRefuses(d) \/ BindCopy(d)
    BY <1>1, <1>7, WritesDoubtNothing DEF Dispatch, RouterRefuses, BindCopy
<1> QED BY <1>2, <1>3, <1>4, <1>5, <1>6, <1>7 DEF RunStep

\* The other actors' doubts.
LEMMA OwnersDoubt ==
    ASSUME CreationConsistent, NEW e \in Creations, OwnerStep(e),
           NEW c \in Creations, NewlyDoubted(c)
    PROVE  Doubted(c)
<1> DEFINE f == OwnerFence(e)
           n == owner[e].native
<1>1. OtherTypes /\ RowsOK /\ f.c = e
    BY InductiveParts DEF OwnerFence
<1>2. CASE ReportNative(e) \/ ReportInput(e) \/ ReportBoth(e) \/ HostEvidence(e)
  <2>1. /\ CanBindNative(f, n) /\ (BindNative(f, n) \/ ConfirmOwnedInput(f, n))
        /\ UNCHANGED current
      BY <1>2 DEF ReportNative, ReportInput, ReportBoth, HostEvidence, CanConfirmOwnedInput
  <2> HIDE DEF f, n
  <2> QED BY <1>1, <2>1, WritesDoubtNothing
<1>3. ASSUME NEW gone \in BOOLEAN, StreamEnds(e, gone)
      PROVE  Doubted(c)
  <2>1. owner[e].watched /\ RecordOwnerLoss(f) /\ UNCHANGED current
      BY <1>3 DEF StreamEnds
  <2>2. owner'[e].watched = FALSE
    <3>1. owner[e] \in OwnerRec
        BY <1>1, OwnerRecord
    <3> QED BY <1>1, <1>3, <3>1 DEF StreamEnds, OtherTypes, OwnerRec
  <2> HIDE DEF f
  <2>3. c = e
    <3>1. CASE OwnerLossMatters(f)
        BY <1>1, <2>1, <3>1, UpdateNow
           DEF RecordOwnerLoss, MarkUncertain, OwnerLossMatters, NewlyDoubted
    <3>2. CASE ~OwnerLossMatters(f)
        BY <2>1, <3>2, OthersDoubtNothing DEF RecordOwnerLoss, Untouched
    <3> QED BY <3>1, <3>2
  <2> QED BY <2>1, <2>2, <2>3 DEF Doubted
<1>4. CASE (\E m \in Natives : OwnerNames(e, m)) \/ OwnerTakesInput(e) \/ OwnerEnds(e)
    BY <1>4, OthersDoubtNothing DEF OwnerNames, OwnerTakesInput, OwnerEnds, storeVars, Untouched
<1> QED BY <1>2, <1>3, <1>4 DEF OwnerStep

\* Requests admit what nobody doubts.
LEMMA RequestsDoubtNothing ==
    ASSUME CreationConsistent, NEW d \in Runs, Request(d), NEW c \in Creations
    PROVE  ~NewlyDoubted(c)
<1>1. pid \in Pids /\ MaxAttempts \in Nat \ {0}
    BY InductiveParts, StoreAssumption DEF OtherTypes
<1>2. ASSUME Promote(d) \/ \E e \in Creations : Submit(d, e)
      PROVE  Untouched
    BY <1>2 DEF Promote, Submit, storeVars, Untouched
<1>3. ASSUME NEW e \in Creations, SubmitCopy(d, e)
      PROVE  ~NewlyDoubted(c)
  <2>1. current[e] = 0 /\ Insert(e, pid, "saved") /\ "saved" \in Pending \cup {"failed"}
      BY <1>3 DEF SubmitCopy, Pending
  <2>2. NewAttempt(e)
      BY <1>1, <2>1 DEF NewAttempt
  <2> QED BY <2>1, <2>2, OthersDoubtNothing
<1>4. ASSUME NEW e \in Creations, NEW key \in RetryKeys, Retry(d, e, key)
      PROVE  ~NewlyDoubted(c)
  <2> DEFINE s == IF ~AtCapacity THEN "saved" ELSE IF QueueFull THEN "failed" ELSE "queued"
  <2>1. CanRetry(e, key) /\ Insert(e, pid, s) /\ s \in Pending \cup {"failed"}
      BY <1>4 DEF Retry, Pending
  <2> HIDE DEF s
  <2>2. NewAttempt(e)
      BY <1>1, <2>1 DEF NewAttempt, CanRetry
  <2> QED BY <2>1, <2>2, OthersDoubtNothing
<1> QED BY <1>2, <1>3, <1>4, OthersDoubtNothing DEF Request

\* Every doubt has one of those causes.
LEMMA StepDoubts ==
    ASSUME CreationConsistent, [Next]_vars, NEW c \in Creations, NewlyDoubted(c)
    PROVE  Doubted(c)
<1>1. OtherTypes /\ RowsOK
    BY InductiveParts
<1>2. ASSUME Elsewhere
      PROVE  Doubted(c)
  <2>1. ASSUME NEW k \in DOMAIN queue, Cancel(k)
        PROVE  FALSE
    <3>1. queue[k].c \in Creations
      <4>1. queue[k] \in Fence
        <5>1. queue \in Seq(Fence) /\ k \in 1..Len(queue)
            BY <1>1, LenProperties DEF OtherTypes
        <5> QED BY <5>1, ElementOfSeq
      <4> QED BY <4>1 DEF Fence
    <3> QED BY <2>1, <3>1, WritesDoubtNothing, OthersDoubtNothing DEF Cancel, Untouched
  <2>2. CASE Restart
      BY <2>2 DEF Restart, Doubted, Mine
  <2>3. CASE CompetingStartup
    <3>1. PICK alive \in Alive(pid) : RecoverOwnerLoss(alive) /\ UNCHANGED current
        BY <2>3 DEF CompetingStartup
    <3>2. pid \in alive
        BY <3>1 DEF Alive
    <3>3. Home[c] \notin alive
        BY <1>1, <3>1, RecoveryKeepsRows DEF NewlyDoubted
    <3> QED BY <3>2, <3>3 DEF Doubted, Mine
  <2>4. ASSUME (\E n \in Natives : ExternalNative(n) \/ Discover(n)) \/ UNCHANGED vars
        PROVE  Untouched
      BY <2>4 DEF ExternalNative, Discover, vars, storeVars, serverVars, Untouched
  <2> QED BY <1>2, <2>1, <2>2, <2>3, <2>4, OthersDoubtNothing DEF Elsewhere
<1>3. Crash => Untouched
    BY DEF Crash, storeVars, Untouched
<1> QED BY <1>2, <1>3, StepKinds, CallsDoubt, OwnersDoubt, RequestsDoubtNothing,
           OthersDoubtNothing

\* A call whose provider may still start, or is there.
Owns(d) == \/ run[d].pc \in {"launching", "starting"}
           \/ run[d].pc = "settling" /\ owner[run[d].c].watched
LEMMA OwnedRuns ==
    /\ OwnedIsNotUncertain <=> \A d \in Runs : Owns(d) => StateOf(run[d].c) # "uncertain"
    /\ OwnedIsNotUncertain' <=> \A d \in Runs : Owns(d)' => StateOf(run[d].c)' # "uncertain"
    /\ \A d \in Runs : Owns(d) => run[d].pc \in Dispatched
    /\ \A d \in Runs : Owns(d)' => run'[d].pc \in Dispatched
BY DEF OwnedIsNotUncertain, Owns, Dispatched, BeforeEffect, AfterEffect

\* Nobody doubts what a call of this server still owns.
LEMMA OwnedStaysCertain ==
    ASSUME CreationConsistent, CreationConsistent', [Next]_vars, StartsUnwatched,
           OwnedIsNotUncertain
    PROVE  OwnedIsNotUncertain'
<1> SUFFICES ASSUME NEW d \in Runs, Owns(d)'
             PROVE  StateOf(run[d].c)' # "uncertain"
    BY OwnedRuns
<1> DEFINE c == run'[d].c
<1>1. c \in Creations /\ run'[d].pc \in Dispatched
  <2>1. run'[d].pc \in Dispatched
      BY OwnedRuns
  <2>2. run'[d].pc # "off"
      BY <2>1 DEF Dispatched, BeforeEffect, AfterEffect
  <2> QED BY <2>1, <2>2 DEF CreationConsistent, RunsHoldTheirFence
<1>2. RowsOK /\ OtherTypes /\ run[d] \in RunRec
    BY InductiveParts DEF OtherTypes
<1>3. SUFFICES Now'[c] # "uncertain"
    BY <1>1 DEF Now
<1>4. ASSUME run'[d] = run[d]
      PROVE  Now'[c] # "uncertain"
  <2>1. /\ run[d].pc \in Dispatched /\ run[d].c = c
        /\ \A e \in Runs : run[e].pc \in Dispatched /\ run[e].c = c => e = d
        /\ up /\ run[d].pc # "off" /\ current[c] # 0
        /\ run[d].pc \in BeforeEffect => owner[c] = NoOwner
    <3>1. run[d].pc \in Dispatched /\ run[d].c = c
        BY <1>1, <1>4
    <3>2. run[d].pc \notin {"off", "submitting"}
        BY <3>1 DEF Dispatched, BeforeEffect, AfterEffect
    <3> QED BY <3>1, <3>2, DispatchedFence, CallFence
  <2>2. Owns(d)
    <3>1. CASE run[d].pc \in {"launching", "starting"}
        BY <3>1 DEF Owns
    <3>2. CASE run[d].pc = "settling"
      <4>1. owner'[c].watched
          BY <1>4, <3>2 DEF Owns
      <4>2. ASSUME NEW e \in Runs, run[e].c = c, Attach(e) \/ LaunchedBy(e, c)
            PROVE  FALSE
        <5>1. run[e].pc \in BeforeEffect \cup {"starting"}
            BY <1>1, <4>2, Attached, Launch
        <5>2. e = d
            BY <2>1, <4>2, <5>1 DEF Dispatched, AfterEffect
        <5> QED BY <3>2, <5>1, <5>2 DEF BeforeEffect
      <4>3. SameOwner(c)
          BY <1>1, <4>2, OwnerPaths DEF OwnerPath, LaunchedBy
      <4> QED BY <2>1, <3>2, <4>1, <4>3 DEF SameOwner, Owns
    <3> QED BY <1>4, <3>1, <3>2 DEF Owns
  <2>3. Now[c] # "uncertain"
      BY <1>1, <2>1, <2>2, OwnedRuns DEF Now
  <2>4. ~Doubted(c)
    <3>1. Mine(c)
      <4>1. Home[c] = pid
          BY <2>1 DEF CreationConsistent, WorkIsThisServers
      <4> QED BY <2>1, <4>1 DEF Mine
    <3>2. ~(owner[c].watched /\ ~owner'[c].watched)
      <4>1. run[d].pc = "launching" => owner[c].watched = FALSE
          BY <2>1 DEF BeforeEffect, NoOwner
      <4>2. run[d].pc = "starting" => ~owner[c].watched
          BY <2>1 DEF StartsUnwatched
      <4> QED BY <1>4, <4>1, <4>2 DEF Owns
    <3>3. ~\E e \in Runs : run[e].pc \in Dispatched /\ run[e].c = c /\ run'[e] = Off
      <4>1. run'[d] # Off
          BY <1>4, <2>1 DEF Off
      <4> QED BY <2>1, <4>1
    <3> QED BY <3>1, <3>2, <3>3 DEF Doubted
  <2> QED BY <1>1, <2>3, <2>4, StepDoubts DEF NewlyDoubted
<1>5. ASSUME Dispatch(d)
      PROVE  Now'[c] # "uncertain"
  <2>1. run'[d].c = run[d].c
      BY <1>2, <1>5 DEF Dispatch, OtherTypes, RunRec
  <2>2. CanBeginDispatch(run[d]) /\ BeginDispatch(run[d]) /\ UNCHANGED current
      BY <1>5 DEF Dispatch
  <2>3. Now'[run[d].c] = "dispatching"
      BY <1>1, <1>2, <2>1, <2>2, UpdateNow DEF CanBeginDispatch, BeginDispatch
  <2> QED BY <2>1, <2>3
<1>6. ASSUME LaunchProvider(d) \/ Attach(d)
      PROVE  Now'[c] # "uncertain"
  <2>1. run'[d].c = run[d].c
      BY <1>2, <1>6, Attached DEF LaunchProvider, Become, OtherTypes, RunRec
  <2>2. Owns(d)
      BY <1>6 DEF LaunchProvider, Attach, Owns
  <2>3. UNCHANGED <<current, attempt>>
      BY <1>6 DEF LaunchProvider, Attach, storeVars
  <2>4. Now[c] # "uncertain"
      BY <1>1, <2>1, <2>2, OwnedRuns DEF Now
  <2> QED BY <1>2, <2>3, <2>4, RowsFrame
<1>7. ~Admit(d) /\ ~SettleFails(d) /\ \A n \in Natives : ~MakeCopy(d, n)
  <2>1. run'[d].pc \in {"launching", "starting", "settling"}
      BY DEF Owns
  <2>2. ~Admit(d) /\ ~SettleFails(d)
      BY <1>2, <2>1 DEF Admit, SettleFails, Become, OtherTypes, RunRec
  <2>3. \A n \in Natives : ~MakeCopy(d, n)
      BY <1>2, <2>1 DEF MakeCopy, Become, OtherTypes, RunRec
  <2> QED BY <2>2, <2>3
<1>8. run'[d].pc \notin {"off", "submitting", "preflight"}
    BY DEF Owns
<1> QED BY <1>4, <1>5, <1>6, <1>7, <1>8, CallPaths DEF CallPath

-----------------------------------------------------------------------------
(* Part 4.  Somebody answers for every attempt.                             *)

\* The row of an attempt that waits, or was dispatched.
LEMMA RowOf ==
    ASSUME CreationConsistent, NEW c \in Creations, Now[c] # "absent"
    PROVE  /\ current[c] \in AttemptNos /\ current[c] # 0
           /\ attempt[c][current[c]].state = Now[c] /\ StateOf(c) = Now[c]
           /\ DeliveryOf(c) = attempt[c][current[c]].delivery
           /\ Now[c] \in Pending => attempt[c][current[c]].gen = 0
           /\ Now[c] \in Effective => attempt[c][current[c]].gen = 1
           /\ Now[c] = "dispatching" => DeliveryOf(c) = "not-admitted"
<1>1. RowsOK
    BY InductiveParts
<1>2. /\ current[c] # 0 /\ attempt[c][current[c]].state = Now[c] /\ StateOf(c) = Now[c]
      /\ DeliveryOf(c) = attempt[c][current[c]].delivery
    BY DEF Now, StateOf, DeliveryOf
<1>3. current[c] \in AttemptNos
    BY <1>1, <1>2, StoreAssumption DEF RowsOK, AttemptNos
<1>4. RowConsistent(Now[c], attempt[c][current[c]].delivery, attempt[c][current[c]].gen)
    BY <1>1, <1>2, <1>3 DEF RowsOK, RowsAreConsistent
<1> QED BY <1>2, <1>3, <1>4 DEF RowConsistent

\* A waiting attempt can be refused, or dispatched, by who has its first fence.
LEMMA FirstFence ==
    ASSUME CreationConsistent, NEW f, f.c \in Creations, f.a = current[f.c], f.g = 0,
           Now[f.c] \in Pending
    PROVE  IsCurrent(f) /\ CanFailBeforeEffects(f)
<1>1. Now[f.c] # "absent"
    BY DEF Pending
<1> QED BY <1>1, RowOf DEF CanFailBeforeEffects, IsCurrent, Att

\* And is then refused.
LEMMA RefusedIsNotPending ==
    ASSUME CreationConsistent, NEW f, f.c \in Creations, UNCHANGED current,
           CanFailBeforeEffects(f), FailBeforeEffects(f)
    PROVE  Now'[f.c] = "failed" /\ Now'[f.c] \notin Pending
BY UpdateNow, InductiveParts DEF CanFailBeforeEffects, FailBeforeEffects, Pending

\* The call that has a waiting attempt in hand keeps it, or hands it on.
LEMMA CallHandsOn ==
    ASSUME CreationConsistent, AcceptedInTime, NEW d \in Runs, RunStep(d),
           NEW c \in Creations, Serves(d, c), Now[c] \in Pending,
           Now'[c] \in Pending, current'[c] = current[c]
    PROVE  HeldNow(c)'
<1>1. /\ run[d].c = c /\ run[d].a = current[c] /\ run[d].pc \notin {"off", "submitting"}
      /\ OtherTypes /\ ServerInv
    BY InductiveParts DEF Serves
<1>2. run[d].pc \notin Dispatched
  <2>1. Now[c] \notin Effective
      BY DEF Effective, Pending
  <2> QED BY <1>1, <2>1, DispatchedFence
<1>3. run[d].pc \in {"accepted", "preflight"} /\ run[d].g = 0
  <2>1. run[d].pc \in Pcs
      BY <1>1 DEF OtherTypes, RunRec
  <2>2. run[d].pc \in {"accepted", "preflight"}
      BY <1>1, <1>2, <2>1 DEF Pcs, Dispatched, BeforeEffect, AfterEffect
  <2> QED BY <1>1, <2>2 DEF AcceptedInTime, ServerInv, RunsHoldTheirFence
<1>4. CanFailBeforeEffects(run[d])
    BY <1>1, <1>3, FirstFence
<1>5. CASE AcceptanceFails(d)
    BY <1>1, <1>4, <1>5, RefusedIsNotPending DEF AcceptanceFails
<1>6. CASE JoinsAnother(d)
  <2>1. queue' = queue /\ NothingToStart(run[d]) /\ run[d].pc = "accepted"
      BY <1>6 DEF JoinsAnother
  <2>2. CASE InQueue(run[d])
      BY <1>1, <2>1, <2>2 DEF InQueue, HeldNow, FenceOf
  <2>3. CASE Coalesced(run[d])
    <3>1. PICK e \in Runs : run[e].pc \in Executing /\ run[e].c = c /\ run[e].a = current[c]
        BY <1>1, <2>3 DEF Coalesced
    <3>2. run'[e] = run[e]
      <4>1. e # d
          BY <2>1, <3>1 DEF Executing
      <4> QED BY <4>1, CallsAreAlone DEF CallIsAlone
    <3> QED BY <3>1, <3>2 DEF HeldNow, Serves, Executing
  <2> QED BY <1>4, <2>1, <2>2, <2>3 DEF NothingToStart
<1>7. CASE StartSaved(d)
  <2> DEFINE f == [c |-> run[d].c, a |-> run[d].a, g |-> run[d].g]
  <2>1. f \in Fence /\ f.c = c /\ f.a = current[c]
      BY <1>1, CallFence
  <2>2. /\ CanFailBeforeEffects(f) /\ UNCHANGED current
        /\ \/ run'[d].pc = "preflight" /\ run'[d].c = c /\ run'[d].a = current[c]
           \/ FailBeforeEffects(f)
           \/ queue' = Append(queue, f)
      BY <1>1, <1>7 DEF StartSaved, NothingToStart, OtherTypes
  <2> HIDE DEF f
  <2>3. CASE run'[d].pc = "preflight" /\ run'[d].c = c /\ run'[d].a = current[c]
      BY <2>3 DEF HeldNow, Serves
  <2>4. CASE FailBeforeEffects(f)
      BY <2>1, <2>2, <2>4, RefusedIsNotPending
  <2>5. CASE queue' = Append(queue, f)
    <3>1. \E k \in DOMAIN queue' : queue'[k].c = c /\ queue'[k].a = current'[c]
        BY <1>1, <2>1, <2>5, AppendKeeps DEF OtherTypes
    <3> QED BY <3>1 DEF HeldNow, InQueue, FenceOf
  <2> QED BY <2>2, <2>3, <2>4, <2>5
<1>8. CASE RunFails(d)
    BY <1>1, <1>4, <1>8, RefusedIsNotPending DEF RunFails, RecordFailure
<1>9. CASE Dispatch(d)
  <2>1. Now'[c] = "dispatching"
    <3>1. CanBeginDispatch(run[d]) /\ BeginDispatch(run[d]) /\ UNCHANGED current
        BY <1>9 DEF Dispatch
    <3> QED BY <1>1, <3>1, UpdateNow, InductiveParts DEF CanBeginDispatch, BeginDispatch
  <2> QED BY <2>1 DEF Pending
<1>10. ASSUME \/ Admit(d) \/ RouterRefuses(d) \/ LaunchProvider(d) \/ StartFails(d)
              \/ Attach(d) \/ Settle(d) \/ SettleFails(d) \/ AbortEnds(d)
              \/ (\E n \in Natives : MakeCopy(d, n)) \/ BindCopy(d)
       PROVE  FALSE
    BY <1>3, <1>10 DEF Admit, RouterRefuses, LaunchProvider, StartFails, Attach, Settle,
                       SettleFails, AbortEnds, MakeCopy, BindCopy
<1> QED BY <1>5, <1>6, <1>7, <1>8, <1>9, <1>10 DEF RunStep

\* Whoever else serves it.
LEMMA ServiceStays ==
    ASSUME CreationConsistent, [Next]_vars, AcceptedInTime, NEW d \in Runs,
           NEW c \in Creations, Serves(d, c), Now[c] \in Pending,
           Now'[c] \in Pending, current'[c] = current[c], up'
    PROVE  HeldNow(c)'
<1>1. CASE run'[d] = run[d]
    BY <1>1 DEF HeldNow, Serves
<1>2. CASE run'[d] # run[d]
  <2>1. RunStep(d)
    <3>1. ASSUME NEW e \in Runs, RunStep(e) \/ Request(e)
          PROVE  e = d
        BY <1>2, <3>1, CallsAreAlone, RequestsAreAlone DEF CallIsAlone
    <3>2. ~Request(d)
      <4>1. run[d] # Off
          BY DEF Serves, Off
      <4> QED BY <4>1, RequestsAreAlone
    <3>3. ~Crash
        BY DEF Crash
    <3> QED BY <1>2, <3>1, <3>2, <3>3, StepKinds, OwnersAreAlone, ElsewhereMovesNobody
  <2> QED BY <2>1, CallHandsOn
<1> QED BY <1>1, <1>2

\* Removing one entry keeps the others.
LEMMA RemoveAtKeeps ==
    ASSUME NEW S, NEW s \in Seq(S), NEW n \in 1..Len(s), NEW k \in 1..Len(s), k # n
    PROVE  \E j \in DOMAIN RemoveAt(s, n) : RemoveAt(s, n)[j] = s[k]
<1> DEFINE p == SubSeq(s, 1, n - 1)
           q == SubSeq(s, n + 1, Len(s))
<1>1. /\ Len(s) \in Nat /\ n \in Int /\ k \in Int
      /\ \A i \in 1..Len(s) : s[i] \in S
    BY LenProperties, ElementOfSeq
<1>2. p \in Seq(S) /\ Len(p) = n - 1 /\ \A i \in 1..(n - 1) : p[i] = s[i]
    BY <1>1, SubSeqProperties
<1>3. q \in Seq(S) /\ Len(q) = Len(s) - n /\ \A i \in 1..(Len(s) - n) : q[i] = s[n + i]
  <2>1. \A i \in (n + 1)..Len(s) : s[i] \in S
      BY <1>1
  <2>2. /\ q \in Seq(S)
        /\ Len(q) = IF n + 1 <= Len(s) THEN Len(s) - (n + 1) + 1 ELSE 0
        /\ \A i \in 1..(Len(s) - (n + 1) + 1) : q[i] = s[(n + 1) + i - 1]
      BY <1>1, <2>1, SubSeqProperties
  <2>3. \A i \in 1..(Len(s) - n) : (n + 1) + i - 1 = n + i
      BY <1>1
  <2> HIDE DEF q
  <2>4. Len(s) - (n + 1) + 1 = Len(s) - n /\ Len(q) = Len(s) - n
    <3>1. \A x \in Nat : \A y \in 1..x :
              x - (y + 1) + 1 = x - y /\ (y + 1 <= x \/ x - y = 0)
        OBVIOUS
    <3>2. Len(s) - (n + 1) + 1 = Len(s) - n /\ (n + 1 <= Len(s) \/ Len(s) - n = 0)
        BY <1>1, <3>1
    <3> QED BY <2>2, <3>2
  <2> QED BY <2>2, <2>3, <2>4
<1> HIDE DEF p, q
<1>4. /\ DOMAIN (p \o q) = 1..(Len(p) + Len(q))
      /\ \A i \in 1..(Len(p) + Len(q)) :
            (p \o q)[i] = IF i <= Len(p) THEN p[i] ELSE q[i - Len(p)]
  <2>1. /\ p \o q \in Seq(S) /\ Len(p \o q) = Len(p) + Len(q)
        /\ \A i \in 1..(Len(p) + Len(q)) :
              (p \o q)[i] = IF i <= Len(p) THEN p[i] ELSE q[i - Len(p)]
      BY <1>2, <1>3, ConcatProperties
  <2>2. DOMAIN (p \o q) = 1..Len(p \o q)
      BY <2>1, LenProperties
  <2> QED BY <2>1, <2>2
<1>5. RemoveAt(s, n) = p \o q
    BY DEF RemoveAt, p, q
<1>6. CASE k < n
  <2>1. k \in 1..(Len(p) + Len(q)) /\ k <= Len(p) /\ k \in 1..(n - 1)
      BY <1>1, <1>2, <1>3, <1>6
  <2>2. (p \o q)[k] = s[k]
      BY <1>2, <1>4, <2>1
  <2> QED BY <1>4, <1>5, <2>1, <2>2
<1>7. CASE k > n
  <2>1. /\ k - 1 \in 1..(Len(p) + Len(q)) /\ ~(k - 1 <= Len(p))
        /\ k - 1 - Len(p) = k - n /\ k - n \in 1..(Len(s) - n) /\ n + (k - n) = k
      BY <1>1, <1>2, <1>3, <1>7
  <2>2. (p \o q)[k - 1] = q[k - n]
      BY <1>4, <2>1
  <2>3. q[k - n] = s[k]
      BY <1>3, <2>1
  <2> QED BY <1>4, <1>5, <2>1, <2>2, <2>3
<1> QED BY <1>1, <1>6, <1>7

\* A queued attempt stays queued until a call takes it up.
LEMMA QueueHandsOn ==
    ASSUME CreationConsistent, [Next]_vars, NEW c \in Creations,
           InQueue(FenceOf(c)), Now[c] \in Pending, Now'[c] \in Pending,
           current'[c] = current[c], up'
    PROVE  HeldNow(c)'
<1>1. OtherTypes /\ ServerInv /\ queue \in Seq(Fence)
    BY InductiveParts DEF OtherTypes
<1>2. PICK k \in DOMAIN queue : queue[k].c = c /\ queue[k].a = current[c]
    BY DEF InQueue, FenceOf
<1>3. Len(queue) \in Nat /\ DOMAIN queue = 1..Len(queue) /\ k \in 1..Len(queue)
    BY <1>1, <1>2, LenProperties
<1>4. queue[k].g = 0 /\ IsCurrent(queue[k]) /\ CanFailBeforeEffects(queue[k])
  <2>1. queue[k].g = 0
      BY <1>1, <1>2 DEF ServerInv, WorkIsThisServers
  <2> QED BY <1>2, <2>1, FirstFence
<1>5. ASSUME NEW j \in DOMAIN queue', queue'[j] = queue[k]
      PROVE  HeldNow(c)'
    BY <1>2, <1>5 DEF HeldNow, InQueue, FenceOf
<1>6. QueueKept => HeldNow(c)'
    BY <1>2, <1>5 DEF QueueKept
<1>7. queue' = queue => HeldNow(c)'
    BY <1>2, <1>5
<1>8. ASSUME NEW d \in Runs, Promote(d)
      PROVE  HeldNow(c)'
  <2>1. queue # <<>> /\ queue' = Tail(queue)
      BY <1>8 DEF Promote
  <2>2. CASE k = 1
    <3>1. Head(queue) = queue[k]
        BY <1>1, <2>1, <2>2, HeadTailProperties
    <3>2. run'[d].pc = "preflight" /\ run'[d].c = c /\ run'[d].a = current[c]
        BY <1>1, <1>2, <1>4, <1>8, <3>1 DEF Promote, OtherTypes
    <3> QED BY <3>2 DEF HeldNow, Serves
  <2>3. CASE k # 1
    <3>1. /\ Tail(queue) \in Seq(Fence) /\ Len(Tail(queue)) = Len(queue) - 1
          /\ \A j \in 1..Len(Tail(queue)) : Tail(queue)[j] = queue[j + 1]
        BY <1>1, <2>1, HeadTailProperties
    <3>2. DOMAIN Tail(queue) = 1..Len(Tail(queue))
        BY <3>1, LenProperties
    <3>3. k - 1 \in 1..Len(Tail(queue)) /\ (k - 1) + 1 = k
        BY <1>3, <2>3, <3>1
    <3>4. k - 1 \in DOMAIN queue' /\ queue'[k - 1] = queue[k]
        BY <2>1, <3>1, <3>2, <3>3
    <3> QED BY <1>5, <3>4
  <2> QED BY <2>2, <2>3
<1>9. ASSUME NEW d \in Runs, NEW e \in Creations, NEW key \in RetryKeys, Retry(d, e, key)
      PROVE  HeldNow(c)'
  <2> DEFINE f == [c |-> e, a |-> current[e] + 1, g |-> 0]
  <2>1. queue' = queue \/ queue' = Append(queue, f)
      BY <1>9 DEF Retry
  <2>2. f \in Fence
    <3>1. RowsOK /\ MaxAttempts \in Nat /\ current[e] < MaxAttempts
        BY <1>9, InductiveParts, StoreAssumption DEF Retry, CanRetry
    <3> QED BY <3>1 DEF Fence, RowsOK, AttemptNos, Generations
  <2> HIDE DEF f
  <2> QED BY <1>1, <1>6, <1>7, <2>1, <2>2, AppendKeeps
<1>10. ASSUME NEW d \in Runs, NEW e \in Creations, Submit(d, e) \/ SubmitCopy(d, e)
       PROVE  HeldNow(c)'
    BY <1>7, <1>10 DEF Submit, SubmitCopy
<1>11. ASSUME NEW j \in DOMAIN queue, Cancel(j)
       PROVE  HeldNow(c)'
  <2>1. CASE j = k
    <3>1. FailBeforeEffects(queue[k]) /\ UNCHANGED current
        BY <1>4, <1>11, <2>1 DEF Cancel
    <3> QED BY <1>2, <1>4, <3>1, RefusedIsNotPending
  <2>2. CASE j # k
    <3>1. queue' = RemoveAt(queue, j)
        BY <1>11 DEF Cancel
    <3>2. \E i \in DOMAIN queue' : queue'[i] = queue[k]
        BY <1>1, <1>3, <2>2, <3>1, RemoveAtKeeps
    <3> QED BY <1>5, <3>2
  <2> QED BY <2>1, <2>2
<1>12. ASSUME \/ \E n \in Natives : ExternalNative(n) \/ Discover(n)
              \/ Restart \/ CompetingStartup \/ UNCHANGED vars
       PROVE  HeldNow(c)'
    BY <1>7, <1>12 DEF ExternalNative, Discover, Restart, CompetingStartup, vars, serverVars
<1>13. ~Crash
    BY DEF Crash
<1>14. ASSUME NEW d \in Runs, RunStep(d)
       PROVE  HeldNow(c)'
    BY <1>6, <1>14, CallsAreAlone DEF CallIsAlone
<1>15. ASSUME NEW e \in Creations, OwnerStep(e)
       PROVE  HeldNow(c)'
    BY <1>7, <1>15, OwnersAreAlone
<1> QED BY <1>8, <1>9, <1>10, <1>11, <1>12, <1>13, <1>14, <1>15, StepKinds
        DEF Request, Elsewhere

\* A loss, or a failure, recorded under the launched fence settles it.
LEMMA LossSettles ==
    ASSUME CreationConsistent, NEW f, f.c \in Creations, f.a = current[f.c], f.g = 1,
           Unsettled(f.c), UNCHANGED current, RecordFailure(f) \/ RecordOwnerLoss(f)
    PROVE  ~Unsettled(f.c)'
<1> DEFINE c == f.c
<1>1. Now[c] \in {"dispatching", "bound"} /\ Now[c] = StateOf(c) /\ Now'[c] = StateOf(c)'
    BY DEF Unsettled, Now
<1>2. Now[c] # "absent" /\ Now[c] \in Effective /\ Now[c] \notin Pending
    BY <1>1 DEF Effective, Pending
<1>3. /\ IsCurrent(f) /\ Att(f).state = Now[c] /\ Att(f).delivery = DeliveryOf(c)
      /\ Now[c] = "dispatching" => DeliveryOf(c) = "not-admitted"
    BY <1>2, RowOf DEF IsCurrent, Att
<1>4. OwnerLossMatters(f) /\ ~CanFailBeforeEffects(f)
    BY <1>1, <1>2, <1>3 DEF OwnerLossMatters, CanFailBeforeEffects, Unsettled, Message
<1>5. Update(f, "uncertain", "uncertain", f.g)
    BY <1>4 DEF RecordFailure, RecordOwnerLoss, MarkUncertain
<1>6. Now'[c] = "uncertain"
    BY <1>3, <1>5, UpdateNow, InductiveParts
<1> QED BY <1>1, <1>6 DEF Unsettled

\* The call that dispatched an attempt carries it until it is settled, or its
\* process is watched.
LEMMA CarrierHandsOn ==
    ASSUME CreationConsistent, CallsKeepTheirIntent, NEW d \in Runs, RunStep(d),
           run[d].pc \in Dispatched, NEW c \in Creations, run[d].c = c,
           Unsettled(c), Unsettled(c)'
    PROVE  Carried(c)' \/ owner'[c].watched
<1>1. /\ run[d].a = current[c] /\ run[d].g = 1 /\ OtherTypes /\ run[d] \in RunRec
      /\ RowsOK
    BY DispatchedFence, InductiveParts DEF OtherTypes
<1>2. ASSUME run'[d].pc \in Dispatched, run'[d].c = c
      PROVE  Carried(c)'
    BY <1>2 DEF Carried
<1>3. CASE RunFails(d) \/ StartFails(d) \/ AbortEnds(d)
  <2>1. RecordFailure(run[d]) /\ UNCHANGED current
      BY <1>3 DEF RunFails, StartFails, AbortEnds
  <2> QED BY <1>1, <2>1, LossSettles
<1>4. CASE RouterRefuses(d)
  <2>1. CanFailBeforeProvider(run[d]) /\ FailBeforeProvider(run[d]) /\ UNCHANGED current
      BY <1>4 DEF RouterRefuses
  <2>2. Now'[c] = "failed"
      BY <1>1, <2>1, UpdateNow DEF CanFailBeforeProvider, FailBeforeProvider
  <2> QED BY <2>2 DEF Now, Unsettled
<1>5. CASE LaunchProvider(d) \/ SettleFails(d)
  <2>1. run'[d].pc \in {"starting", "aborting"} /\ run'[d].c = c
      BY <1>1, <1>5 DEF LaunchProvider, SettleFails, Become, OtherTypes, RunRec
  <2> QED BY <1>2, <2>1 DEF Dispatched, AfterEffect
<1>6. ASSUME NEW n \in Natives, MakeCopy(d, n)
      PROVE  Carried(c)'
  <2>1. run'[d].pc = "copied" /\ run'[d].c = c
      BY <1>1, <1>6 DEF MakeCopy, Become, OtherTypes, RunRec
  <2> QED BY <1>2, <2>1 DEF Dispatched, AfterEffect
<1>7. CASE Attach(d)
    BY <1>2, <1>7, Attached DEF Dispatched, AfterEffect
<1>8. CASE Settle(d)
  <2>1. owner[c].watched /\ owner' = [owner EXCEPT ![c].registered = TRUE]
        /\ owner[c] \in OwnerRec
      BY <1>1, <1>8, OwnerRecord DEF Settle
  <2>2. owner'[c] = [owner[c] EXCEPT !.registered = TRUE]
      BY <1>1, <2>1 DEF OtherTypes
  <2>3. Alike(owner'[c], owner[c])
      BY <2>1, <2>2, OwnerField
  <2> QED BY <2>1, <2>3 DEF Alike
<1>9. CASE BindCopy(d)
  <2> DEFINE n == owner[run[d].c].native
  <2>1. CanBindNative(run[d], n) /\ BindNative(run[d], n) /\ UNCHANGED current
        /\ Intent[c] = "copy"
      BY <1>9 DEF BindCopy, CallsKeepTheirIntent
  <2> HIDE DEF n
  <2>2. Now'[c] \in {"uncertain", "bound"}
      BY <1>1, <2>1, UpdateNow DEF CanBindNative, BindNative
  <2> QED BY <2>1, <2>2 DEF Unsettled, Now, Message
<1>10. ASSUME Admit(d) \/ AcceptanceFails(d) \/ JoinsAnother(d) \/ StartSaved(d) \/ Dispatch(d)
       PROVE  FALSE
    BY <1>10 DEF Admit, AcceptanceFails, JoinsAnother, StartSaved, Dispatch, Dispatched,
                 BeforeEffect, AfterEffect
<1> QED BY <1>3, <1>4, <1>5, <1>6, <1>7, <1>8, <1>9, <1>10 DEF RunStep

\* Whoever carries it.
LEMMA CarriedStays ==
    ASSUME CreationConsistent, [Next]_vars, CallsKeepTheirIntent, NEW c \in Creations,
           Carried(c), Unsettled(c), Unsettled(c)', up'
    PROVE  Carried(c)' \/ owner'[c].watched
<1>1. PICK d \in Runs : run[d].pc \in Dispatched /\ run[d].c = c
    BY DEF Carried
<1>2. CASE run'[d] = run[d]
    BY <1>1, <1>2 DEF Carried
<1>3. CASE run'[d] # run[d]
  <2>1. RunStep(d)
    <3>1. ASSUME NEW e \in Runs, RunStep(e) \/ Request(e)
          PROVE  e = d
        BY <1>3, <3>1, CallsAreAlone, RequestsAreAlone DEF CallIsAlone
    <3>2. ~Request(d)
      <4>1. run[d] # Off
          BY <1>1 DEF Dispatched, BeforeEffect, AfterEffect, Off
      <4> QED BY <4>1, RequestsAreAlone
    <3>3. ~Crash
        BY DEF Crash
    <3> QED BY <1>3, <3>1, <3>2, <3>3, StepKinds, OwnersAreAlone, ElsewhereMovesNobody
  <2> QED BY <1>1, <2>1, CarrierHandsOn
<1> QED BY <1>2, <1>3

\* The process that is watched is watched until its stream ends, which settles
\* the attempt.
LEMMA WatchStays ==
    ASSUME CreationConsistent, [Next]_vars, OwnersFenced, NEW c \in Creations,
           owner[c].watched, Unsettled(c), Unsettled(c)', up'
    PROVE  Carried(c)' \/ owner'[c].watched
<1>1. CASE SameOwner(c)
  <2>1. ~Crash
      BY DEF Crash
  <2>2. ASSUME NEW gone \in BOOLEAN, StreamEnds(c, gone)
        PROVE  FALSE
    <3>1. launches[c] = 1
      <4>1. owner[c] # NoOwner
          BY DEF NoOwner
      <4> QED BY <4>1 DEF CreationConsistent, OwnersAreLaunched
    <3>2. /\ OwnerFence(c).c = c /\ OwnerFence(c).a = current[c] /\ OwnerFence(c).g = 1
        BY <3>1 DEF OwnersFenced, OwnerFence
    <3>3. RecordOwnerLoss(OwnerFence(c)) /\ UNCHANGED current
        BY <2>2 DEF StreamEnds
    <3> HIDE DEF OwnerFence
    <3> QED BY <3>2, <3>3, LossSettles
  <2> QED BY <1>1, <2>1, <2>2 DEF SameOwner
<1>2. ASSUME NEW d \in Runs, run[d].c = c, Attach(d)
      PROVE  Carried(c)'
    BY <1>2, Attached DEF Carried, Dispatched, AfterEffect
<1>3. ASSUME NEW d \in Runs, LaunchedBy(d, c)
      PROVE  Carried(c)'
    BY <1>3, Launch DEF Carried, Dispatched, AfterEffect
<1> QED BY <1>1, <1>2, <1>3, OwnerPaths DEF OwnerPath

\* An attempt that is dispatched in this step.
NewlyDispatched(c) == Now'[c] = "dispatching" /\ Now[c] # "dispatching"

\* Of what is written, only a dispatch dispatches.
LEMMA WritesDispatchNothing ==
    ASSUME CreationConsistent, NEW f, f.c \in Creations, UNCHANGED current,
           \/ Untouched
           \/ CanFailBeforeEffects(f) /\ FailBeforeEffects(f)
           \/ CanFailBeforeEffects(f) /\ Update(f, "queued", "not-admitted", f.g)
           \/ CanFailBeforeProvider(f) /\ FailBeforeProvider(f)
           \/ RecordFailure(f) \/ RecordOwnerLoss(f)
           \/ \E n : CanBindNative(f, n) /\ (BindNative(f, n) \/ ConfirmOwnedInput(f, n)),
           NEW c \in Creations
    PROVE  ~NewlyDispatched(c)
<1>1. RowsOK
    BY InductiveParts
<1>2. CASE Untouched
    BY <1>1, <1>2, RowsFrame DEF Untouched, NewlyDispatched
<1>3. CASE ~Untouched
  <2>1. IsCurrent(f) /\ \E s, dl, g : Update(f, s, dl, g) /\ s # "dispatching"
    <3>1. CASE CanFailBeforeEffects(f) /\ FailBeforeEffects(f)
        BY <3>1 DEF CanFailBeforeEffects, FailBeforeEffects
    <3>2. CASE CanFailBeforeEffects(f) /\ Update(f, "queued", "not-admitted", f.g)
        BY <3>2 DEF CanFailBeforeEffects
    <3>3. CASE CanFailBeforeProvider(f) /\ FailBeforeProvider(f)
        BY <3>3 DEF CanFailBeforeProvider, FailBeforeProvider
    <3>4. CASE RecordOwnerLoss(f)
        BY <1>3, <3>4 DEF RecordOwnerLoss, OwnerLossMatters, MarkUncertain, Untouched
    <3>5. CASE RecordFailure(f)
        BY <3>1, <3>4, <3>5 DEF RecordFailure
    <3>6. CASE \E n : CanBindNative(f, n) /\ (BindNative(f, n) \/ ConfirmOwnedInput(f, n))
        BY <3>6 DEF CanBindNative, BindNative, ConfirmOwnedInput
    <3> QED BY <1>3, <3>1, <3>2, <3>3, <3>4, <3>5, <3>6
  <2> QED BY <1>1, <2>1, UpdateNow DEF NewlyDispatched
<1> QED BY <1>2, <1>3

\* Who dispatches an attempt carries it.
LEMMA DispatcherCarries ==
    ASSUME CreationConsistent, [Next]_vars, NEW c \in Creations,
           current'[c] = current[c], NewlyDispatched(c)
    PROVE  Carried(c)'
<1>1. OtherTypes /\ RowsOK
    BY InductiveParts
<1>2. ASSUME NEW d \in Runs, RunStep(d)
      PROVE  Carried(c)'
  <2>1. run[d].c \in Creations /\ run[d] \in RunRec
      BY <1>1, <1>2, CallsAreAlone DEF OtherTypes
  <2>2. CASE Dispatch(d)
    <3>1. /\ CanBeginDispatch(run[d]) /\ BeginDispatch(run[d]) /\ UNCHANGED current
          /\ run'[d].pc \in BeforeEffect /\ run'[d].c = run[d].c
        BY <1>1, <2>1, <2>2 DEF Dispatch, OtherTypes, RunRec, BeforeEffect
    <3>2. c = run[d].c
        BY <1>1, <2>1, <3>1, UpdateNow DEF CanBeginDispatch, BeginDispatch, NewlyDispatched
    <3> QED BY <3>1, <3>2 DEF Carried, Dispatched
  <2>3. CASE Admit(d)
    <3>1. CASE Untouched
        BY <2>1, <3>1, WritesDispatchNothing DEF Untouched
    <3>2. CASE ~Untouched
      <4>1. Insert(run[d].c, pid, "saved") /\ current[run[d].c] = 0
          BY <2>3, <3>2 DEF Admit, Untouched
      <4>2. NewAttempt(run[d].c) /\ "saved" \in Pending \cup {"failed"} /\ pid \in Pids
          BY <1>1, <4>1, StoreAssumption DEF NewAttempt, Pending, OtherTypes
      <4>3. Now' = [Now EXCEPT ![run[d].c] = "saved"]
          BY <1>1, <2>1, <4>1, <4>2, InsertKeepsRows DEF NewAttempt
      <4> QED BY <1>1, <4>3, NowTypes DEF NewlyDispatched
    <3> QED BY <3>1, <3>2
  <2>4. CASE \/ JoinsAnother(d) \/ LaunchProvider(d) \/ Attach(d) \/ Settle(d) \/ SettleFails(d)
             \/ \E n \in Natives : MakeCopy(d, n)
    <3>1. Untouched
        BY <2>4 DEF JoinsAnother, LaunchProvider, Attach, Settle, SettleFails, MakeCopy,
                    storeVars, Untouched
    <3> QED BY <2>1, <3>1, WritesDispatchNothing DEF Untouched
  <2>5. CASE StartSaved(d)
    <3> DEFINE f == [c |-> run[d].c, a |-> run[d].a, g |-> run[d].g]
    <3>1. f.c \in Creations /\ CanFailBeforeEffects(f) /\ UNCHANGED current
        BY <2>1, <2>5 DEF StartSaved, NothingToStart
    <3>2. \/ UNCHANGED attempt \/ FailBeforeEffects(f)
          \/ Update(f, "queued", "not-admitted", f.g)
        BY <2>5 DEF StartSaved
    <3> HIDE DEF f
    <3> QED BY <3>1, <3>2, WritesDispatchNothing DEF Untouched
  <2>6. CASE RunFails(d) \/ StartFails(d) \/ AbortEnds(d)
      BY <2>1, <2>6, WritesDispatchNothing DEF RunFails, StartFails, AbortEnds
  <2>7. CASE AcceptanceFails(d) \/ RouterRefuses(d) \/ BindCopy(d)
      BY <2>1, <2>7, WritesDispatchNothing
         DEF AcceptanceFails, RouterRefuses, BindCopy, Untouched
  <2> QED BY <1>2, <2>2, <2>3, <2>4, <2>5, <2>6, <2>7 DEF RunStep
<1>3. ASSUME NEW d \in Runs, Request(d)
      PROVE  FALSE
  <2>1. ASSUME NEW e \in Creations, NEW s \in Pending \cup {"failed"},
               NewAttempt(e), Insert(e, pid, s)
        PROVE  FALSE
    <3>1. Now' = [Now EXCEPT ![e] = s] /\ s # "dispatching" /\ Now \in [Creations -> States]
        BY <1>1, <2>1, InsertKeepsRows, NowTypes DEF NewAttempt, Pending, OtherTypes
    <3> QED BY <3>1 DEF NewlyDispatched
  <2>2. ASSUME NEW e \in Creations, SubmitCopy(d, e)
        PROVE  FALSE
    <3>1. current[e] = 0 /\ Insert(e, pid, "saved") /\ "saved" \in Pending \cup {"failed"}
        BY <2>2 DEF SubmitCopy, Pending
    <3>2. NewAttempt(e)
        BY <1>1, <3>1, StoreAssumption DEF NewAttempt, OtherTypes
    <3> QED BY <2>1, <3>1, <3>2
  <2>3. ASSUME NEW e \in Creations, NEW key \in RetryKeys, Retry(d, e, key)
        PROVE  FALSE
    <3> DEFINE s == IF ~AtCapacity THEN "saved" ELSE IF QueueFull THEN "failed" ELSE "queued"
    <3>1. CanRetry(e, key) /\ Insert(e, pid, s) /\ s \in Pending \cup {"failed"}
        BY <2>3 DEF Retry, Pending
    <3> HIDE DEF s
    <3>2. NewAttempt(e)
        BY <1>1, <3>1, StoreAssumption DEF NewAttempt, CanRetry, OtherTypes
    <3> QED BY <2>1, <3>1, <3>2
  <2>4. ASSUME Promote(d) \/ \E e \in Creations : Submit(d, e)
        PROVE  FALSE
    <3>1. UNCHANGED <<current, attempt>>
        BY <2>4 DEF Promote, Submit, storeVars
    <3> QED BY <1>1, <3>1, RowsFrame DEF NewlyDispatched
  <2> QED BY <1>3, <2>2, <2>3, <2>4 DEF Request
<1>4. ASSUME NEW e \in Creations, OwnerStep(e)
      PROVE  FALSE
  <2> DEFINE f == OwnerFence(e)
             n == owner[e].native
  <2>1. f.c = e
      BY DEF OwnerFence
  <2>2. CASE ReportNative(e) \/ ReportInput(e) \/ ReportBoth(e) \/ HostEvidence(e)
    <3>1. /\ CanBindNative(f, n) /\ (BindNative(f, n) \/ ConfirmOwnedInput(f, n))
          /\ UNCHANGED current
        BY <2>2 DEF ReportNative, ReportInput, ReportBoth, HostEvidence, CanConfirmOwnedInput
    <3> HIDE DEF f, n
    <3> QED BY <2>1, <3>1, WritesDispatchNothing
  <2>3. CASE \E gone \in BOOLEAN : StreamEnds(e, gone)
    <3>1. RecordOwnerLoss(f) /\ UNCHANGED current
        BY <2>3 DEF StreamEnds
    <3> HIDE DEF f
    <3> QED BY <2>1, <3>1, WritesDispatchNothing
  <2>4. CASE (\E m \in Natives : OwnerNames(e, m)) \/ OwnerTakesInput(e) \/ OwnerEnds(e)
    <3>1. UNCHANGED <<current, attempt>>
        BY <2>4 DEF OwnerNames, OwnerTakesInput, OwnerEnds, storeVars
    <3> QED BY <1>1, <3>1, RowsFrame DEF NewlyDispatched
  <2> QED BY <1>4, <2>2, <2>3, <2>4 DEF OwnerStep
<1>5. ASSUME NEW k \in DOMAIN queue, Cancel(k)
      PROVE  FALSE
  <2>1. queue[k].c \in Creations
    <3>1. queue[k] \in Fence
      <4>1. queue \in Seq(Fence) /\ k \in 1..Len(queue)
          BY <1>1, LenProperties DEF OtherTypes
      <4> QED BY <4>1, ElementOfSeq
    <3> QED BY <3>1 DEF Fence
  <2> QED BY <1>5, <2>1, WritesDispatchNothing DEF Cancel, Untouched
<1>6. ASSUME Restart \/ CompetingStartup
      PROVE  FALSE
  <2>1. UNCHANGED current /\ \E alive : RecoverOwnerLoss(alive)
      BY <1>6 DEF Restart, CompetingStartup
  <2>2. Now'[c] = Now[c] \/ Now'[c] \in {"failed", "uncertain"}
      BY <1>1, <2>1, RecoveryKeepsRows
  <2> QED BY <2>2 DEF NewlyDispatched
<1>7. ASSUME \/ Crash \/ (\E n \in Natives : ExternalNative(n) \/ Discover(n))
             \/ UNCHANGED vars
      PROVE  FALSE
  <2>1. UNCHANGED <<current, attempt>>
      BY <1>7 DEF Crash, ExternalNative, Discover, vars, storeVars, serverVars
  <2> QED BY <1>1, <2>1, RowsFrame DEF NewlyDispatched
<1> QED BY <1>2, <1>3, <1>4, <1>5, <1>6, <1>7, StepKinds DEF Elsewhere

\* What is not settled after a step was not before, or is just dispatched.
LEMMA UnsettledBefore ==
    ASSUME CreationConsistent, [Next]_vars, NEW c \in Creations, Unsettled(c)'
    PROVE  Unsettled(c) \/ NewlyDispatched(c)
<1>1. Advances(c)
    BY StepAdvances
<1>2. StateOf(c) = Now[c] /\ StateOf(c)' = Now'[c]
    BY DEF Now
<1> QED BY <1>1, <1>2
        DEF Advances, CardMove, Unsettled, NewlyDispatched, Message, Effective

\* Somebody still answers for every attempt of this server.
LEMMA AnswersStay ==
    ASSUME CreationConsistent, CreationConsistent', [Next]_vars, ~PidReuse,
           AcceptedInTime, HomesKnown, CallsKeepTheirIntent, OwnersFenced, Answerable
    PROVE  Answerable'
<1> SUFFICES ASSUME NEW c \in Creations, Mine(c)'
             PROVE  Answered(c)'
    BY DEF Answerable
<1>1. StateOf(c)' = Now'[c] /\ StateOf(c) = Now[c] /\ up'
    BY DEF Now, Mine
<1>2. CASE current'[c] # current[c]
  <2>1. Now'[c] \in Pending \cup {"failed"} /\ (Now'[c] \in Pending => HeldNow(c)')
      BY <1>2, NewAttempts DEF IsNew
  <2>2. ~Unsettled(c)'
      BY <1>1, <2>1 DEF Unsettled, Pending
  <2> QED BY <1>1, <2>1, <2>2 DEF Answered, HeldNow
<1>3. CASE current'[c] = current[c]
  <2>1. RowsOK /\ OtherTypes
      BY InductiveParts
  <2>2. Home'[c] = Home[c] /\ (Now'[c] \in Pending => Now[c] \in Pending)
    <3>1. current[c] # current[c] + 1
        BY <2>1 DEF RowsOK
    <3> QED BY <1>3, <3>1, StepAges DEF Aged
  <2>3. Mine(c)
    <3>1. ~Restart
      <4>1. Restart => pid' = pid + 1
          BY ServerSteps DEF Restart
      <4>2. pid \in Nat /\ Home[c] <= pid
        <5>1. pid \in Pids
            BY <2>1 DEF OtherTypes
        <5> QED BY <5>1, StoreAssumption DEF HomesKnown, Pids
      <4>3. Home'[c] = pid'
          BY DEF Mine
      <4>4. Home[c] \in Int
        <5>1. Home[c] = pid'
            BY <2>2, <4>3
        <5>2. pid' \in Pids
            BY InductiveParts DEF CreationConsistent, TypeOK
        <5> QED BY <5>1, <5>2, StoreAssumption DEF Pids
      <4> QED BY <2>2, <4>1, <4>2, <4>3, <4>4
    <3>2. UNCHANGED <<up, pid>>
        BY <1>1, <3>1, ServerSteps
    <3> QED BY <2>2, <3>2 DEF Mine
  <2>4. Answered(c)
      BY <2>3 DEF Answerable
  <2>5. ASSUME Now'[c] \in Pending
        PROVE  HeldNow(c)'
    <3>1. HeldNow(c) /\ Now[c] \in Pending
        BY <1>1, <2>2, <2>4, <2>5 DEF Answered, HeldNow
    <3> QED BY <1>1, <1>3, <2>5, <3>1, ServiceStays, QueueHandsOn DEF HeldNow
  <2>6. ASSUME Unsettled(c)'
        PROVE  Carried(c)' \/ owner'[c].watched
    <3>1. CASE NewlyDispatched(c)
        BY <1>3, <3>1, DispatcherCarries
    <3>2. CASE Unsettled(c)
        BY <1>1, <2>4, <2>6, <3>2, CarriedStays, WatchStays DEF Answered
    <3> QED BY <2>6, <3>1, <3>2, UnsettledBefore
  <2> QED BY <1>1, <2>5, <2>6 DEF Answered, HeldNow
<1> QED BY <1>2, <1>3

-----------------------------------------------------------------------------
(* Part 5.  The workers are counted.                                        *)

\* A start begins where there is room, or is a copy's.
Enters(d) ==
    /\ ~AtCapacity /\ owner' = owner
    /\ \A e \in Runs \ {d} : run'[e] = run[e]
LEMMA StartsEnter ==
    ASSUME CreationConsistent, [Next]_vars, NEW d \in Runs, run'[d].pc \in Executing
    PROVE  \/ run[d].pc \in Executing /\ run'[d].c = run[d].c
           \/ Enters(d)
           \/ run'[d].c \in Creations /\ Intent[run'[d].c] = "copy"
<1>1. OtherTypes /\ run[d] \in RunRec
    BY InductiveParts DEF OtherTypes
<1>2. CASE run'[d] = run[d]
    BY <1>2
<1>3. CASE Admit(d)
    BY <1>1, <1>3 DEF Admit, OtherTypes, Executing
<1>4. CASE Dispatch(d)
    BY <1>1, <1>4 DEF Dispatch, OtherTypes, RunRec, Executing, Pcs
<1>5. CASE LaunchProvider(d) \/ SettleFails(d)
    BY <1>1, <1>5 DEF LaunchProvider, SettleFails, Become, OtherTypes, RunRec, Executing, Pcs
<1>6. CASE Attach(d)
    BY <1>6, Attached DEF Executing, Pcs
<1>7. ASSUME NEW n \in Natives, MakeCopy(d, n)
      PROVE  run[d].pc \in Executing /\ run'[d].c = run[d].c
    BY <1>1, <1>7 DEF MakeCopy, Become, OtherTypes, RunRec, Executing, Pcs
<1>8. CASE run'[d].pc = "preflight" /\ run'[d] # run[d]
  <2>1. CASE RunStep(d)
    <3>1. StartSaved(d)
      <4>1. ~Admit(d) /\ ~Dispatch(d)
          BY <1>1, <1>8 DEF Admit, Dispatch, OtherTypes, RunRec
      <4>2. ~(LaunchProvider(d) \/ Attach(d) \/ SettleFails(d) \/ \E n \in Natives : MakeCopy(d, n))
        <5>1. ~Attach(d)
            BY <1>8, Attached
        <5>2. ~LaunchProvider(d) /\ ~SettleFails(d)
            BY <1>1, <1>8 DEF LaunchProvider, SettleFails, Become, OtherTypes, RunRec
        <5>3. \A n \in Natives : ~MakeCopy(d, n)
            BY <1>1, <1>8 DEF MakeCopy, Become, OtherTypes, RunRec
        <5> QED BY <5>1, <5>2, <5>3
      <4>3. ~End(d)
          BY <1>1, <1>8 DEF End, OtherTypes, Off
      <4> QED BY <2>1, <4>1, <4>2, <4>3
              DEF RunStep, AcceptanceFails, JoinsAnother, RunFails, RouterRefuses, StartFails,
                  Settle, AbortEnds, BindCopy
    <3>2. ~AtCapacity /\ owner' = owner
      <4>1. ~End(d)
          BY <1>1, <1>8 DEF End, OtherTypes, Off
      <4> QED BY <3>1, <4>1 DEF StartSaved
    <3> QED BY <2>1, <3>2, CallsAreAlone DEF CallIsAlone, Enters
  <2>2. CASE Request(d)
    <3>1. ASSUME NEW c \in Creations, SubmitCopy(d, c)
          PROVE  run'[d].c \in Creations /\ Intent[run'[d].c] = "copy"
        BY <1>1, <3>1 DEF SubmitCopy, OtherTypes
    <3>2. ASSUME NEW c \in Creations, Submit(d, c)
          PROVE  FALSE
        BY <1>1, <1>8, <3>2 DEF Submit, OtherTypes
    <3>3. ASSUME NEW c \in Creations, NEW key \in RetryKeys, Retry(d, c, key)
          PROVE  ~AtCapacity
        BY <1>8, <3>3 DEF Retry
    <3>4. Promote(d) => ~AtCapacity
        BY DEF Promote
    <3> QED BY <2>2, <3>1, <3>2, <3>3, <3>4, RequestsAreAlone DEF Request, Enters
  <2>3. ASSUME NEW e \in Runs, e # d, RunStep(e) \/ Request(e)
        PROVE  FALSE
      BY <1>8, <2>3, CallsAreAlone, RequestsAreAlone DEF CallIsAlone
  <2>4. ~Crash
    <3>1. Crash => run'[d] = Off
        BY DEF Crash
    <3>2. Off.pc # "preflight"
        BY DEF Off
    <3> QED BY <1>8, <3>1, <3>2
  <2> QED BY <1>8, <2>1, <2>2, <2>3, <2>4, StepKinds, OwnersAreAlone, ElsewhereMovesNobody
<1>9. run'[d].pc \notin {"off", "submitting"}
    BY DEF Executing
<1> QED BY <1>2, <1>3, <1>4, <1>5, <1>6, <1>7, <1>8, <1>9, CallPaths DEF CallPath

\* A process is registered by the call that occupies its place.
LEMMA RegistrationIsOccupied ==
    ASSUME CreationConsistent, CallsKeepTheirIntent, [Next]_vars, NEW c \in Creations,
           owner'[c].registered
    PROVE  c \in Occupied
<1>1. OtherTypes /\ owner[c] \in OwnerRec
    BY InductiveParts, OwnerRecord
<1>2. CASE owner[c].registered
    BY <1>2 DEF Occupied, Registered
<1>3. ASSUME NEW d \in Runs, run[d].c = c, run[d].pc \in {"starting", "settling"}
      PROVE  c \in Occupied
    BY <1>3 DEF Occupied, Starting, Executing, Pcs, CallsKeepTheirIntent
<1>4. ASSUME ~owner[c].registered
      PROVE  \E d \in Runs : run[d].c = c /\ run[d].pc \in {"starting", "settling"}
  <2>1. ASSUME NEW d \in Runs, RunStep(d)
        PROVE  run[d].c = c /\ run[d].pc \in {"starting", "settling"}
    <3>1. run[d].c = c /\ owner' # owner
        BY <1>4, <2>1, CallsAreAlone DEF CallIsAlone
    <3>2. ~LaunchProvider(d)
      <4> DEFINE o == [NoOwner EXCEPT !.life = "live", !.a = run[d].a, !.g = run[d].g]
      <4>1. o.registered = FALSE
          BY DEF NoOwner
      <4>2. LaunchProvider(d) => owner' = [owner EXCEPT ![c] = o]
          BY <3>1 DEF LaunchProvider
      <4> HIDE DEF o
      <4> QED BY <1>1, <4>1, <4>2 DEF OtherTypes
    <3>3. ~\E n \in Natives : MakeCopy(d, n)
      <4>1. ASSUME NEW n \in Natives, MakeCopy(d, n)
            PROVE  FALSE
        <5> DEFINE o == [NoOwner EXCEPT !.life = "gone", !.a = run[d].a, !.g = run[d].g,
                                        !.native = n]
        <5>1. o.registered = FALSE
            BY DEF NoOwner
        <5>2. owner' = [owner EXCEPT ![c] = o]
            BY <3>1, <4>1 DEF MakeCopy
        <5> HIDE DEF o
        <5> QED BY <1>1, <5>1, <5>2 DEF OtherTypes
      <4> QED BY <4>1
    <3>4. ~(\/ Admit(d) \/ AcceptanceFails(d) \/ JoinsAnother(d) \/ StartSaved(d)
            \/ RunFails(d) \/ Dispatch(d) \/ RouterRefuses(d) \/ AbortEnds(d) \/ BindCopy(d))
        BY <3>1 DEF Admit, AcceptanceFails, JoinsAnother, StartSaved, RunFails, Dispatch,
                    RouterRefuses, AbortEnds, BindCopy
    <3>5. StartFails(d) \/ Attach(d) \/ Settle(d) \/ SettleFails(d)
        BY <2>1, <3>2, <3>3, <3>4 DEF RunStep
    <3> QED BY <3>1, <3>5 DEF StartFails, Attach, Settle, SettleFails
  <2>2. ASSUME NEW d \in Runs, Request(d)
        PROVE  FALSE
      BY <1>4, <2>2, RequestsAreAlone
  <2>3. ASSUME NEW e \in Creations, OwnerStep(e)
        PROVE  FALSE
    <3>1. e = c /\ owner' # owner
        BY <1>4, <2>3, OwnersAreAlone
    <3>2. ~((\E n \in Natives : OwnerNames(c, n)) \/ OwnerTakesInput(c) \/ ReportNative(c))
      <4>1. ASSUME \/ \E n \in Natives : OwnerNames(c, n)
                   \/ OwnerTakesInput(c) \/ ReportNative(c)
            PROVE  \E v : \/ owner'[c] = [owner[c] EXCEPT !.native = v]
                          \/ owner'[c] = [owner[c] EXCEPT !.input = v]
                          \/ owner'[c] = [owner[c] EXCEPT !.named = v]
          BY <1>1, <4>1 DEF OwnerNames, OwnerTakesInput, ReportNative, OtherTypes
      <4>2. ASSUME NEW v
            PROVE  /\ [owner[c] EXCEPT !.native = v].registered = owner[c].registered
                   /\ [owner[c] EXCEPT !.input = v].registered = owner[c].registered
                   /\ [owner[c] EXCEPT !.named = v].registered = owner[c].registered
          BY <1>1 DEF OwnerRec
      <4> QED BY <1>4, <4>1, <4>2
    <3>3. ~(ReportInput(c) \/ ReportBoth(c) \/ HostEvidence(c))
        BY <3>1 DEF ReportInput, ReportBoth, HostEvidence
    <3>4. ~OwnerEnds(c)
        BY <1>1, <1>4 DEF OwnerEnds, OtherTypes, OwnerRec
    <3>5. ASSUME NEW gone \in BOOLEAN, StreamEnds(c, gone)
          PROVE  FALSE
        BY <1>1, <1>4, <3>5 DEF StreamEnds, OtherTypes, OwnerRec
    <3> QED BY <2>3, <3>1, <3>2, <3>3, <3>4, <3>5 DEF OwnerStep
  <2>4. ~Crash
    <3>1. ASSUME Crash
          PROVE  \E v : owner'[c] = [owner[c] EXCEPT !.watched = FALSE, !.registered = FALSE,
                                                     !.life = v]
        BY <3>1 DEF Crash
    <3>2. ASSUME NEW v
          PROVE  [owner[c] EXCEPT !.watched = FALSE, !.registered = FALSE,
                                  !.life = v].registered = FALSE
        BY <1>1 DEF OwnerRec
    <3> QED BY <3>1, <3>2
  <2> QED BY <1>4, <2>1, <2>2, <2>3, <2>4, StepKinds, ElsewhereMovesNobody
<1> QED BY <1>2, <1>3, <1>4

\* Where there is room for a start, there is room for one more creation.
LEMMA RoomForOne ==
    ASSUME IsFiniteSet(Starting), IsFiniteSet(Registered), ~AtCapacity, MaxWorkers > 0,
           NEW c
    PROVE  LET places == Registered \cup {run[e].c : e \in Starting} \cup {c}
           IN  IsFiniteSet(places) /\ Cardinality(places) <= MaxWorkers
<1> DEFINE working == {run[e].c : e \in Starting}
           both == Registered \cup working
<1>1. /\ IsFiniteSet(working) /\ Cardinality(working) <= Cardinality(Starting)
  <2> DEFINE f == [e \in Starting |-> run[e].c]
  <2>1. f \in Surjection(Starting, working)
      BY DEF Surjection
  <2> HIDE DEF f, working
  <2> QED BY <2>1, FS_Surjection
<1>2. /\ IsFiniteSet(both)
      /\ Cardinality(both) <= Cardinality(Registered) + Cardinality(working)
  <2> HIDE DEF working
  <2>1. /\ IsFiniteSet(both) /\ IsFiniteSet(Registered \cap working)
        /\ Cardinality(both) = Cardinality(Registered) + Cardinality(working)
                               - Cardinality(Registered \cap working)
      BY <1>1, FS_Union, FS_Intersection
  <2> HIDE DEF both
  <2> QED BY <1>1, <2>1, FS_CardinalityType
<1>3. IsFiniteSet(both \cup {c}) /\ Cardinality(both \cup {c}) <= Cardinality(both) + 1
  <2> HIDE DEF both
  <2>1. IsFiniteSet(both)
      BY <1>2
  <2>2. Cardinality(both) \in Nat
      BY <2>1, FS_CardinalityType
  <2>3. /\ IsFiniteSet(both \cup {c})
        /\ Cardinality(both \cup {c}) =
             IF c \in both THEN Cardinality(both) ELSE Cardinality(both) + 1
      BY <2>1, FS_AddElement
  <2>4. Cardinality(both \cup {c}) <= Cardinality(both) + 1
      BY <2>2, <2>3
  <2> QED BY <2>3, <2>4
<1>4. Cardinality(Registered) + Cardinality(Starting) < MaxWorkers
  <2>1. Cardinality(Registered) \in Nat /\ Cardinality(Starting) \in Nat /\ MaxWorkers \in Nat
      BY FS_CardinalityType, DispatchAssumption
  <2> QED BY <2>1 DEF AtCapacity
<1> HIDE DEF working, both
<1>5. /\ Cardinality(Registered) \in Nat /\ Cardinality(Starting) \in Nat /\ MaxWorkers \in Nat
      /\ Cardinality(working) \in Nat /\ Cardinality(both) \in Nat
      /\ Cardinality(both \cup {c}) \in Nat
    BY <1>1, <1>2, <1>3, FS_CardinalityType, DispatchAssumption
<1>6. Cardinality(both \cup {c}) <= MaxWorkers
    BY <1>1, <1>2, <1>3, <1>4, <1>5
<1> QED BY <1>3, <1>6 DEF both, working

\* One call moves at a time, unless all of them die.
LEMMA StartsAreFew ==
    ASSUME CreationConsistent, [Next]_vars
    PROVE  \E x : Starting' \subseteq Starting \cup {x}
<1>1. ASSUME NEW d \in Runs, \A e \in Runs \ {d} : run'[e] = run[e]
      PROVE  Starting' \subseteq Starting \cup {d}
    BY <1>1 DEF Starting
<1>2. ASSUME UNCHANGED run
      PROVE  \E x : Starting' \subseteq Starting \cup {x}
    BY <1>2 DEF Starting
<1>3. ASSUME Crash
      PROVE  Starting' = {}
  <2>1. Off.pc \notin Executing
      BY DEF Off, Executing
  <2> QED BY <1>3, <2>1 DEF Crash, Starting
<1> QED BY <1>1, <1>2, <1>3, StepKinds, CallsAreAlone, RequestsAreAlone, OwnersAreAlone,
           ElsewhereMovesNobody DEF CallIsAlone

\* Whatever is occupied after a step was before, or the call that entered has it.
LEMMA OccupiedFrom ==
    ASSUME CreationConsistent, CallsKeepTheirIntent, [Next]_vars
    PROVE  \/ Occupied' \subseteq Occupied
           \/ /\ ~AtCapacity
              /\ \E c : Occupied' \subseteq
                           Registered \cup {run[e].c : e \in Starting} \cup {c}
<1>1. CASE \E d \in Runs : Enters(d)
  <2>1. PICK d \in Runs : Enters(d)
      BY <1>1
  <2>2. Registered' = Registered /\ Starting' \subseteq Starting \cup {d}
      BY <2>1 DEF Enters, Registered, Starting
  <2>3. \A e \in Starting' : e = d \/ (e \in Starting /\ run'[e].c = run[e].c)
      BY <2>1, <2>2 DEF Enters, Starting
  <2>4. Occupied' \subseteq Registered \cup {run[e].c : e \in Starting} \cup {run'[d].c}
      BY <2>2, <2>3 DEF Occupied
  <2> QED BY <2>1, <2>4 DEF Enters
<1>2. CASE ~\E d \in Runs : Enters(d)
  <2>1. ASSUME NEW c \in Registered'
        PROVE  c \in Occupied
      BY <2>1, RegistrationIsOccupied DEF Registered
  <2>2. ASSUME NEW d \in Starting', Intent[run'[d].c] # "copy"
        PROVE  run'[d].c \in Occupied
    <3>1. d \in Runs /\ run'[d].pc \in Executing
        BY <2>2 DEF Starting
    <3>2. run[d].pc \in Executing /\ run'[d].c = run[d].c
        BY <1>2, <2>2, <3>1, StartsEnter
    <3> QED BY <2>2, <3>1, <3>2 DEF Occupied, Starting
  <2>3. Occupied' \subseteq Occupied
    <3> SUFFICES ASSUME NEW c \in Occupied'
                 PROVE  c \in Occupied
        OBVIOUS
    <3>1. \/ c \in Registered'
          \/ \E d \in Starting' : Intent[run'[d].c] # "copy" /\ c = run'[d].c
        BY DEF Occupied
    <3> QED BY <2>1, <2>2, <3>1
  <2> QED BY <2>3
<1> QED BY <1>1, <1>2

\* The workers stay counted.
LEMMA WorkersStayCounted ==
    ASSUME CreationConsistent, CallsKeepTheirIntent, [Next]_vars, WorkersCounted
    PROVE  WorkersCounted'
<1>1. IsFiniteSet(Starting')
  <2>1. PICK x : Starting' \subseteq Starting \cup {x}
      BY StartsAreFew
  <2> QED BY <2>1, FS_AddElement, FS_Subset DEF WorkersCounted
<1>2. IsFiniteSet(Registered) /\ IsFiniteSet(Starting) /\ IsFiniteSet(Occupied)
    BY FS_Subset DEF WorkersCounted, Occupied
<1>3. CASE Occupied' \subseteq Occupied
  <2>1. IsFiniteSet(Occupied') /\ Cardinality(Occupied') <= Cardinality(Occupied)
      BY <1>2, <1>3, FS_Subset
  <2>2. Cardinality(Occupied') \in Nat /\ Cardinality(Occupied) \in Nat /\ MaxWorkers \in Nat
      BY <1>2, <2>1, FS_CardinalityType, DispatchAssumption
  <2>3. MaxWorkers > 0 => Cardinality(Occupied') <= MaxWorkers
      BY <2>1, <2>2 DEF WorkersCounted, WorkersBounded
  <2> QED BY <1>1, <2>1, <2>3 DEF WorkersCounted, WorkersBounded
<1>4. ASSUME ~AtCapacity, NEW c,
             Occupied' \subseteq Registered \cup {run[e].c : e \in Starting} \cup {c}
      PROVE  WorkersCounted'
  <2> DEFINE working == {run[e].c : e \in Starting}
             places == Registered \cup working \cup {c}
  <2>1. IsFiniteSet(places)
    <3>1. IsFiniteSet(working)
      <4> DEFINE f == [e \in Starting |-> run[e].c]
      <4>1. f \in Surjection(Starting, working)
          BY DEF Surjection
      <4> HIDE DEF f, working
      <4> QED BY <1>2, <4>1, FS_Surjection
    <3> HIDE DEF working
    <3>2. IsFiniteSet(Registered \cup working)
        BY <1>2, <3>1, FS_Union
    <3> QED BY <3>2, FS_AddElement
  <2>2. MaxWorkers > 0 => Cardinality(places) <= MaxWorkers
      BY <1>2, <1>4, RoomForOne
  <2>3. Occupied' \subseteq places
      BY <1>4
  <2> HIDE DEF places
  <2>4. IsFiniteSet(Occupied') /\ Cardinality(Occupied') <= Cardinality(places)
      BY <2>1, <2>3, FS_Subset
  <2>5. Cardinality(Occupied') \in Nat /\ Cardinality(places) \in Nat /\ MaxWorkers \in Nat
      BY <2>1, <2>4, FS_CardinalityType, DispatchAssumption
  <2>6. MaxWorkers > 0 => Cardinality(Occupied') <= MaxWorkers
      BY <2>2, <2>4, <2>5
  <2> QED BY <1>1, <2>4, <2>6 DEF WorkersCounted, WorkersBounded
<1> QED BY <1>3, <1>4, OccupiedFrom

-----------------------------------------------------------------------------
(* Part 6.  The theorems.                                                   *)

\* The parts of the invariant.
LEMMA WorkParts ==
    /\ OwnersCarryTheirFence <=>
          OwnersFenced /\ HomesKnown /\ StartsUnwatched /\ CallsKeepTheirIntent
    /\ WorkConsistent <=> /\ OwnersCarryTheirFence /\ AcceptedInTime
                          /\ PidReuse \/ Answerable
                          /\ OwnedIsNotUncertain /\ WorkersCounted
    /\ OwnersCarryTheirFence' <=>
          OwnersFenced' /\ HomesKnown' /\ StartsUnwatched' /\ CallsKeepTheirIntent'
    /\ WorkConsistent' <=> /\ OwnersCarryTheirFence' /\ AcceptedInTime'
                           /\ PidReuse \/ Answerable'
                           /\ OwnedIsNotUncertain' /\ WorkersCounted'
BY DEF OwnersCarryTheirFence, WorkConsistent, OwnersFenced, HomesKnown, StartsUnwatched,
       CallsKeepTheirIntent

\* A first server has no work.
LEMMA InitWork ==
    ASSUME Init
    PROVE  WorkConsistent
<1>1. /\ \A d \in Runs : run[d].pc = "off"
      /\ \A c \in Creations : /\ launches[c] = 0 /\ Home[c] = 0 /\ ~owner[c].registered
                              /\ StateOf(c) = "absent"
      /\ pid = 1
    BY DEF Init, StoreInit, Off, NoOwner, Home, StateOf
<1>2. OwnersCarryTheirFence
    BY <1>1 DEF OwnersCarryTheirFence
<1>3. AcceptedInTime /\ OwnedIsNotUncertain
    BY <1>1 DEF AcceptedInTime, OwnedIsNotUncertain
<1>4. Answerable
    BY <1>1 DEF Answerable, Answered, Unsettled, Pending
<1>5. WorkersCounted
  <2>1. Starting = {} /\ Registered = {}
      BY <1>1 DEF Starting, Executing, Registered
  <2>2. Occupied = {}
      BY <2>1 DEF Occupied
  <2> QED BY <2>1, <2>2, FS_EmptySet, DispatchAssumption DEF WorkersCounted, WorkersBounded
<1> QED BY <1>2, <1>3, <1>4, <1>5 DEF WorkConsistent

\* Every step keeps it.
LEMMA StepWork ==
    ASSUME CreationConsistent, WorkConsistent, [Next]_vars
    PROVE  WorkConsistent'
<1>1. CreationConsistent'
    BY StepInductive
<1>2. OwnersFenced' /\ HomesKnown' /\ StartsUnwatched' /\ CallsKeepTheirIntent'
    BY <1>1, WorkParts, OwnersStayFenced, HomesStayKnown, StartsStayUnwatched, IntentsAreKept
<1>3. AcceptedInTime' /\ OwnedIsNotUncertain'
    BY <1>1, WorkParts, AcceptanceStaysInTime, OwnedStaysCertain
<1>4. PidReuse \/ Answerable'
    BY <1>1, WorkParts, AnswersStay
<1>5. WorkersCounted'
    BY WorkParts, WorkersStayCounted
<1> QED BY <1>2, <1>3, <1>4, <1>5, WorkParts

\* Calls and owners carry current fences, somebody answers for every attempt of
\* the running server, and the workers are counted.
THEOREM WorkStaysConsistent == Spec => []WorkConsistent
<1>1. Init => WorkConsistent
    BY InitWork
<1>2. CreationConsistent /\ WorkConsistent /\ [Next]_vars => WorkConsistent'
    BY StepWork
<1> QED BY <1>1, <1>2, CreationInvariant, PTL DEF Spec

\* Rows, calls, natives, allocations, answers and workers stay consistent
\* through every transaction, await, failure, crash and competing startup
\* (SessionCreationStore, runCreationAttempt, recoverOwnerLoss).
THEOREM CreationIsInductive == Spec => []CreationInductive
<1>1. CreationConsistent /\ NativesConsistent /\ WorkConsistent => CreationInductive
    BY DEF CreationInductive
<1> QED BY <1>1, CreationInvariant, NativesStayConsistent, WorkStaysConsistent, PTL

\* No attempt of the running server is saved, queued, dispatched or bound and
\* then forgotten: a call, the queue or a watched process has it, where the pid
\* of a dead server is not given to another process (startSavedSession,
\* processQueue, ownerExited, recoverOwnerLoss).
THEOREM NoWorkIsForgotten == Spec => [](~PidReuse => SomeoneAnswers)
<1>1. ASSUME CreationConsistent, Answerable
      PROVE  SomeoneAnswers
  <2> SUFFICES ASSUME NEW c \in Creations, current[c] # 0, up,
                      attempt[c][current[c]].pid = pid
               PROVE  LET r == attempt[c][current[c]]
                          held == \E d \in Runs : Serves(d, c)
                      IN  /\ r.state \in Pending => held \/ InQueue(FenceOf(c))
                          /\ r.state = "dispatching" => held \/ owner[c].watched
                          /\ r.state = "bound" /\ r.delivery # "consumed" /\ Message(c)
                                => held \/ owner[c].watched
      BY DEF SomeoneAnswers
  <2>1. Answered(c)
      BY <1>1 DEF Answerable, Mine, Home
  <2>2. /\ StateOf(c) = attempt[c][current[c]].state
        /\ DeliveryOf(c) = attempt[c][current[c]].delivery
      BY DEF StateOf, DeliveryOf
  <2>3. Carried(c) => \E d \in Runs : Serves(d, c)
    <3>1. ASSUME NEW d \in Runs, run[d].pc \in Dispatched, run[d].c = c
          PROVE  Serves(d, c)
      <4>1. run[d].pc \notin {"off", "submitting"}
          BY <3>1 DEF Dispatched, BeforeEffect, AfterEffect
      <4> QED BY <1>1, <3>1, <4>1, DispatchedFence DEF Serves
    <3> QED BY <3>1 DEF Carried
  <2> QED BY <2>1, <2>2, <2>3 DEF Answered, Unsettled
<1>2. CreationConsistent /\ WorkConsistent => (~PidReuse => SomeoneAnswers)
    BY <1>1 DEF WorkConsistent
<1> QED BY <1>2, CreationInvariant, WorkStaysConsistent, PTL

\* While a call of this server owns the provider it starts, no competing
\* startup, stale call or other failure declares the outcome uncertain
\* (recoverOwnerLoss spares live controllers, assertCurrent).
THEOREM OwnedOutcomesStayOpen == Spec => []OwnedIsNotUncertain
<1>1. WorkConsistent => OwnedIsNotUncertain
    BY DEF WorkConsistent
<1> QED BY <1>1, WorkStaysConsistent, PTL

\* Starts in progress and registered processes never exceed maxWorkers
\* (isAtCreationCapacity counts both, pendingCreationStarts).
THEOREM WorkersStayBounded == Spec => []WorkersBounded
<1>1. WorkConsistent => WorkersBounded
    BY DEF WorkConsistent, WorkersCounted
<1> QED BY <1>1, WorkStaysConsistent, PTL

=============================================================================
