------------------------ MODULE SessionNativeProofs ------------------------
(***************************************************************************)
(* Proofs about the native sessions of durable creations: whose they are,  *)
(* how long an allocation covers them, and what a recorded consumption     *)
(* says.  Part 1: what an operation of the store does to allocations and   *)
(* evidence.  Part 2: the steps that make a native session, or find one.   *)
(* Part 3: all the others.  Part 4: the theorems.                          *)
(***************************************************************************)
EXTENDS SessionCreationProofs

-----------------------------------------------------------------------------
(* Part 1.                                                                  *)

\* Steps that leave the rows alone, or relabel, allocate or bind one of them.
RowsStill == UNCHANGED <<current, attempt, claim, native>>

Relabels(f) ==
    /\ f.c \in Creations
    /\ UNCHANGED <<current, claim, native>>
    /\ \/ CanFailBeforeEffects(f) /\ FailBeforeEffects(f)
       \/ CanFailBeforeEffects(f) /\ Update(f, "queued", "not-admitted", f.g)
       \/ OwnerLossMatters(f) /\ MarkUncertain(f)

Allocates(f) ==
    /\ f.c \in Creations
    /\ UNCHANGED <<current, native>>
    /\ \/ CanBeginDispatch(f) /\ BeginDispatch(f)
       \/ CanFailBeforeProvider(f) /\ FailBeforeProvider(f)

Binds(f) ==
    /\ f.c \in Creations
    /\ UNCHANGED current
    /\ owner[f.c].native # NoNative
    /\ CanBindNative(f, owner[f.c].native)
    /\ \/ BindNative(f, owner[f.c].native)
       \/ /\ ConfirmOwnedInput(f, owner[f.c].native)
          /\ owner[f.c].input = "taken" /\ owner[f.c].a = f.a

RowsMove ==
    \/ RowsStill
    \/ \E f : Relabels(f) \/ Allocates(f) \/ Binds(f)
    \/ (\E c \in Creations : NewAttempt(c)) /\ UNCHANGED <<claim, native>>
    \/ Recovers /\ UNCHANGED <<claim, native>>

\* The allocations, seen by the current states only.
LEMMA Covering ==
    /\ AllocationCoversDoubt <=>
          \A c \in Creations :
              claim[c].a # 0 <=> Now[c] \in Effective /\ native[c] = NoNative
    /\ AllocationCoversDoubt' <=>
          \A c \in Creations :
              claim'[c].a # 0 <=> Now'[c] \in Effective /\ native'[c] = NoNative
BY DEF AllocationCoversDoubt, Now

\* Only a dispatched attempt has a native session.
LEMMA BoundIsEffective ==
    ASSUME CreationConsistent, NativesAreOurs, NEW c \in Creations,
           owner[c].native # NoNative \/ native[c] # NoNative
    PROVE  Now[c] \in Effective /\ launches[c] = 1
<1>1. ServerInv
    BY InductiveParts
<1>2. owner[c].native # NoNative
    BY DEF NativesAreOurs
<1>3. owner[c] # NoOwner
    BY <1>2 DEF NoOwner
<1> QED BY <1>1, <1>3 DEF ServerInv, OwnersAreLaunched

\* What the states become when one attempt is rewritten.
LEMMA UpdateNow ==
    ASSUME RowsOK, NEW f, f.c \in Creations, IsCurrent(f), UNCHANGED current,
           NEW s, NEW dl, NEW g, Update(f, s, dl, g)
    PROVE  /\ f.a # 0 /\ Now[f.c] = Att(f).state /\ Now'[f.c] = s
           /\ \A c \in Creations \ {f.c} : Now'[c] = Now[c]
<1>1. \A c \in Creations : IF c = f.c THEN StateOf(c) = Att(f).state /\ StateOf(c)' = s
                                      ELSE StateOf(c)' = StateOf(c)
    BY UpdateRow
<1>2. f.a # 0
    BY DEF IsCurrent
<1> QED BY <1>1, <1>2 DEF Now

\* An attempt that waits has no allocation; when it leaves the wait for the
\* queue or a refusal it gets none, and doubt does not end one.
LEMMA RelabelsCover ==
    ASSUME CreationConsistent, NativesConsistent, NEW f, Relabels(f)
    PROVE  AllocationCoversDoubt'
<1>1. RowsOK /\ f.c \in Creations /\ UNCHANGED <<current, claim, native>>
    BY InductiveParts DEF Relabels
<1>2. \A c \in Creations : claim[c].a # 0 <=> Now[c] \in Effective /\ native[c] = NoNative
    BY Covering DEF NativesConsistent
<1>3. ASSUME NEW s, NEW dl, IsCurrent(f), Update(f, s, dl, f.g),
             Att(f).state \in Effective <=> s \in Effective
      PROVE  AllocationCoversDoubt'
  <2>1. /\ Now[f.c] = Att(f).state /\ Now'[f.c] = s
        /\ \A c \in Creations \ {f.c} : Now'[c] = Now[c]
      BY <1>1, <1>3, UpdateNow
  <2> QED BY <1>1, <1>2, <1>3, <2>1, Covering
<1>4. CASE CanFailBeforeEffects(f) /\ FailBeforeEffects(f)
    BY <1>3, <1>4 DEF CanFailBeforeEffects, FailBeforeEffects, Pending, Effective
<1>5. CASE CanFailBeforeEffects(f) /\ Update(f, "queued", "not-admitted", f.g)
    BY <1>3, <1>5 DEF CanFailBeforeEffects, Pending, Effective
<1>6. CASE OwnerLossMatters(f) /\ MarkUncertain(f)
    BY <1>3, <1>6 DEF OwnerLossMatters, MarkUncertain, Effective
<1> QED BY <1>4, <1>5, <1>6 DEF Relabels

\* A dispatch allocates; a refusal that had no effect gives the allocation back.
LEMMA AllocatesCover ==
    ASSUME CreationConsistent, NativesConsistent, NEW f, Allocates(f)
    PROVE  AllocationCoversDoubt'
<1>1. RowsOK /\ OtherTypes /\ f.c \in Creations /\ UNCHANGED <<current, native>>
    BY InductiveParts DEF Allocates
<1>2. \A c \in Creations : claim[c].a # 0 <=> Now[c] \in Effective /\ native[c] = NoNative
    BY Covering DEF NativesConsistent
<1>3. CASE CanBeginDispatch(f) /\ BeginDispatch(f)
  <2>1. /\ f.a # 0 /\ Now[f.c] \in Pending /\ Now'[f.c] = "dispatching"
        /\ \A c \in Creations \ {f.c} : Now'[c] = Now[c]
      BY <1>1, <1>3, UpdateNow DEF CanBeginDispatch, BeginDispatch
  <2>2. native[f.c] = NoNative
      BY <1>1, <2>1, BoundIsEffective DEF NativesConsistent, Pending, Effective
  <2>3. claim' = [claim EXCEPT ![f.c] = [a |-> f.a, g |-> f.g + 1]]
      BY <1>3 DEF BeginDispatch
  <2>4. claim'[f.c].a = f.a /\ \A c \in Creations \ {f.c} : claim'[c] = claim[c]
      BY <1>1, <2>3 DEF OtherTypes
  <2> QED BY <1>1, <1>2, <2>1, <2>2, <2>4, Covering DEF Effective
<1>4. CASE CanFailBeforeProvider(f) /\ FailBeforeProvider(f)
  <2>1. /\ Now'[f.c] = "failed"
        /\ \A c \in Creations \ {f.c} : Now'[c] = Now[c]
      BY <1>1, <1>4, UpdateNow DEF CanFailBeforeProvider, FailBeforeProvider
  <2>2. claim'[f.c].a = 0 /\ \A c \in Creations \ {f.c} : claim'[c] = claim[c]
      BY <1>1, <1>4 DEF OtherTypes, FailBeforeProvider, NoClaim
  <2> QED BY <1>1, <1>2, <2>1, <2>2, Covering DEF Effective
<1> QED BY <1>3, <1>4 DEF Allocates

\* A binding ends the allocation: applyNativeBinding takes only this fence's.
LEMMA BindsCover ==
    ASSUME CreationConsistent, NativesConsistent, NEW f, Binds(f)
    PROVE  /\ AllocationCoversDoubt'
           /\ native'[f.c] = owner[f.c].native
           /\ \A c \in Creations \ {f.c} : native'[c] = native[c]
<1> DEFINE n == owner[f.c].native
<1>1. RowsOK /\ OtherTypes /\ f.c \in Creations /\ UNCHANGED current
    BY InductiveParts DEF Binds
<1>2. \A c \in Creations : claim[c].a # 0 <=> Now[c] \in Effective /\ native[c] = NoNative
    BY Covering DEF NativesConsistent
<1>3. /\ n # NoNative /\ ApplyNativeBinding(f, n)
      /\ IsCurrent(f) /\ CanApplyNativeBinding(f, n)
    BY DEF Binds, BindNative, ConfirmOwnedInput, CanBindNative
<1>4. \A c \in Creations \ {f.c} : Now'[c] = Now[c]
  <2>1. \E s, dl : Update(f, s, dl, f.g)
      BY DEF Binds, BindNative, ConfirmOwnedInput
  <2> QED BY <1>1, <1>3, <2>1, UpdateNow
<1>5. /\ native'[f.c] = n
      /\ \A c \in Creations \ {f.c} : native'[c] = native[c] /\ claim'[c] = claim[c]
    BY <1>1, <1>3 DEF ApplyNativeBinding, OtherTypes
<1>6. claim'[f.c].a = 0
  <2>1. claim[f.c].a # 0 => Holds(f)
      BY <1>3 DEF CanApplyNativeBinding
  <2>2. claim'[f.c] = IF Holds(f) THEN NoClaim ELSE claim[f.c]
      BY <1>1, <1>3 DEF ApplyNativeBinding, OtherTypes
  <2> QED BY <2>1, <2>2 DEF NoClaim
<1> HIDE DEF n
<1> QED BY <1>1, <1>2, <1>3, <1>4, <1>5, <1>6, Covering DEF n

\* However the rows move, an allocation covers every launch in doubt.
LEMMA MovesCover ==
    ASSUME CreationConsistent, NativesConsistent, RowsMove
    PROVE  AllocationCoversDoubt'
<1>1. RowsOK /\ OtherTypes
    BY InductiveParts
<1>2. \A c \in Creations : claim[c].a # 0 <=> Now[c] \in Effective /\ native[c] = NoNative
    BY Covering DEF NativesConsistent
<1>3. CASE RowsStill
    BY <1>1, <1>2, <1>3, RowsFrame, Covering DEF RowsStill
<1>4. CASE (\E c \in Creations : NewAttempt(c)) /\ UNCHANGED <<claim, native>>
  <2>1. PICK c \in Creations : NewAttempt(c)
      BY <1>4
  <2>2. PICK s \in Pending \cup {"failed"}, p \in Pids : Insert(c, p, s)
      BY <2>1 DEF NewAttempt
  <2>3. Now' = [Now EXCEPT ![c] = s]
      BY <1>1, <2>1, <2>2, InsertKeepsRows DEF NewAttempt
  <2>4. Now[c] \in {"absent", "failed"}
      BY <2>1 DEF NewAttempt, Now, StateOf
  <2>5. Now \in [Creations -> States]
      BY <1>1, NowTypes
  <2> QED BY <1>2, <1>4, <2>3, <2>4, <2>5, Covering DEF Pending, Effective
<1>5. CASE Recovers /\ UNCHANGED <<claim, native>>
  <2>1. PICK alive : RecoverOwnerLoss(alive)
      BY <1>5 DEF Recovers
  <2>2. UNCHANGED current
      BY <1>5 DEF Recovers
  <2>3. \A c \in Creations :
            \/ Now'[c] = Now[c]
            \/ Now[c] \in Pending /\ Now'[c] = "failed"
            \/ Now[c] \in Effective /\ Now'[c] = "uncertain"
      BY <1>1, <2>1, <2>2, RecoveryKeepsRows
  <2> QED BY <1>2, <1>5, <2>3, Covering DEF Pending, Effective
<1> QED BY <1>3, <1>4, <1>5, RelabelsCover, AllocatesCover, BindsCover DEF RowsMove

\* A step that leaves what an owner is known by.
SameOwners ==
    \A c \in Creations :
        /\ owner'[c].native = owner[c].native
        /\ owner'[c].input = "taken" <=> owner[c].input = "taken"
        /\ owner[c].input = "taken" => owner'[c].a = owner[c].a

\* The deliveries an operation writes.
LEMMA UpdateDelivery ==
    ASSUME RowsOK, NEW f, f.c \in Creations, IsCurrent(f),
           NEW s, NEW dl, NEW g, Update(f, s, dl, g)
    PROVE  /\ f.a \in AttemptNos
           /\ \A c \in Creations, a \in AttemptNos :
                 attempt'[c][a].delivery = IF c = f.c /\ a = f.a THEN dl
                                           ELSE attempt[c][a].delivery
<1> DEFINE r == [state |-> s, delivery |-> dl, gen |-> g, pid |-> Att(f).pid]
<1>1. f.a \in AttemptNos
    BY StoreAssumption DEF RowsOK, IsCurrent, AttemptNos
<1>2. attempt' = [attempt EXCEPT ![f.c][f.a] = r] /\ r.delivery = dl
    BY DEF Update
<1> HIDE DEF r
<1>3. \A c \in Creations, a \in AttemptNos :
          attempt'[c][a] = IF c = f.c /\ a = f.a THEN r ELSE attempt[c][a]
    BY <1>1, <1>2 DEF RowsOK
<1> QED BY <1>1, <1>2, <1>3

\* Nothing but an owner's proof makes a delivery consumed.
LEMMA OnlyProofConsumes ==
    ASSUME CreationConsistent, NativesConsistent, RowsMove,
           NEW c \in Creations, NEW a \in AttemptNos,
           attempt'[c][a].delivery = "consumed"
    PROVE  \/ attempt[c][a].delivery = "consumed"
           \/ owner[c].input = "taken" /\ owner[c].a = a /\ native'[c] = owner[c].native
<1>1. RowsOK
    BY InductiveParts
<1>2. CASE RowsStill
    BY <1>2 DEF RowsStill
<1>3. ASSUME NEW f, Relabels(f)
      PROVE  attempt[c][a].delivery = "consumed"
  <2>1. /\ f.c \in Creations /\ IsCurrent(f)
        /\ \E s : \E dl \in {"not-admitted", "uncertain"} : Update(f, s, dl, f.g)
      BY <1>3 DEF Relabels, CanFailBeforeEffects, FailBeforeEffects, OwnerLossMatters,
                  MarkUncertain
  <2> QED BY <1>1, <2>1, UpdateDelivery
<1>4. ASSUME NEW f, Allocates(f)
      PROVE  attempt[c][a].delivery = "consumed"
  <2>1. /\ f.c \in Creations /\ IsCurrent(f)
        /\ \E s, g : Update(f, s, "not-admitted", g)
      BY <1>4 DEF Allocates, CanBeginDispatch, BeginDispatch, CanFailBeforeProvider,
                  FailBeforeProvider
  <2> QED BY <1>1, <2>1, UpdateDelivery
<1>5. ASSUME NEW f, Binds(f)
      PROVE  \/ attempt[c][a].delivery = "consumed"
             \/ owner[c].input = "taken" /\ owner[c].a = a /\ native'[c] = owner[c].native
  <2>1. f.c \in Creations /\ IsCurrent(f)
      BY <1>5 DEF Binds, CanBindNative
  <2>2. CASE BindNative(f, owner[f.c].native)
    <3>1. \E s : Update(f, s, Att(f).delivery, f.g)
        BY <2>2 DEF BindNative
    <3> QED BY <1>1, <2>1, <3>1, UpdateDelivery DEF Att
  <2>3. CASE /\ ConfirmOwnedInput(f, owner[f.c].native)
             /\ owner[f.c].input = "taken" /\ owner[f.c].a = f.a
    <3>1. Update(f, "bound", "consumed", f.g)
        BY <2>3 DEF ConfirmOwnedInput
    <3>2. CASE c = f.c /\ a = f.a
        BY <1>5, <2>3, <3>2, BindsCover
    <3>3. CASE ~(c = f.c /\ a = f.a)
        BY <1>1, <2>1, <3>1, <3>3, UpdateDelivery
    <3> QED BY <3>2, <3>3
  <2> QED BY <1>5, <2>2, <2>3 DEF Binds
<1>6. ASSUME NEW b \in Creations, NewAttempt(b)
      PROVE  attempt[c][a].delivery = "consumed"
  <2>1. PICK s, p : attempt' = [attempt EXCEPT ![b][current[b] + 1] = Fresh(s, p)]
      BY <1>6 DEF NewAttempt, Insert
  <2>2. Fresh(s, p).delivery = "not-admitted" /\ "consumed" # "not-admitted"
      BY DEF Fresh
  <2> HIDE DEF Fresh
  <2>3. \/ attempt'[c][a] = attempt[c][a]
        \/ attempt'[c][a] = Fresh(s, p)
      BY <1>1, <2>1 DEF RowsOK
  <2> QED BY <2>2, <2>3
<1>7. CASE Recovers
  <2>1. PICK alive : RecoverOwnerLoss(alive)
      BY <1>7 DEF Recovers
  <2>2. attempt'[c][a] = Recovered(c, a, alive)
      BY <2>1 DEF RecoverOwnerLoss
  <2>3. attempt[c][a] \in AttemptRec
      BY <1>1 DEF RowsOK
  <2> QED BY <2>2, <2>3 DEF Recovered, AttemptRec
<1> QED BY <1>2, <1>3, <1>4, <1>5, <1>6, <1>7 DEF RowsMove

\* A native session, once bound, stays bound to the same creation.
LEMMA MovesKeepNatives ==
    ASSUME CreationConsistent, NativesConsistent, RowsMove, NEW c \in Creations
    PROVE  native'[c] = native[c] \/ native'[c] = owner[c].native
BY BindsCover DEF RowsMove, RowsStill, Relabels, Allocates, Binds

\* A provider that starts has taken nothing; a finished copy exists.
CallsFit ==
    \A d \in Runs :
        /\ run[d].pc = "starting" => owner[run[d].c].input = "none"
        /\ run[d].pc = "copied" => owner[run[d].c].native # NoNative

\* A step that makes no native session: rows move, and owners are known by
\* what they were.
Quietly == RowsMove /\ SameOwners /\ UNCHANGED <<adopted, onDisk>> /\ CallsFit'

\* It keeps what is known of the natives.
LEMMA QuietlyKeeps ==
    ASSUME CreationConsistent, NativesConsistent, Quietly
    PROVE  NativesConsistent'
<1>1. NativesAreOurs /\ EvidenceIsTrue /\ RowsMove /\ SameOwners
    BY DEF NativesConsistent, Quietly
<1>2. AllocationCoversDoubt'
    BY <1>1, MovesCover
<1>3. \A c \in Creations : native'[c] = native[c] \/ native'[c] = owner[c].native
    BY <1>1, MovesKeepNatives
<1>4. EvidenceIsTrue'
  <2> SUFFICES ASSUME NEW c \in Creations, NEW a \in AttemptNos,
                      attempt'[c][a].delivery = "consumed"
               PROVE  /\ owner'[c].input = "taken" /\ owner'[c].a = a
                      /\ native'[c] = owner'[c].native
      BY DEF EvidenceIsTrue
  <2>1. \/ attempt[c][a].delivery = "consumed"
        \/ owner[c].input = "taken" /\ owner[c].a = a /\ native'[c] = owner[c].native
      BY <1>1, OnlyProofConsumes
  <2> QED BY <1>1, <1>3, <2>1 DEF EvidenceIsTrue, SameOwners
<1>5. NativesAreOurs'
  <2>1. ASSUME NEW c \in Creations
        PROVE  /\ owner'[c].native # NoNative =>
                     /\ owner'[c].native \in onDisk \ adopted
                     /\ NativeScope[owner'[c].native] = DispatchScope[c]
                     /\ \A d \in Creations \ {c} : owner'[d].native # owner'[c].native
               /\ native'[c] # NoNative => native'[c] = owner'[c].native
               /\ owner'[c].input = "taken" => owner'[c].native # NoNative
      BY <1>1, <1>3 DEF SameOwners, NativesAreOurs
  <2>2. adopted' = adopted /\ onDisk' = onDisk /\ adopted \subseteq onDisk
      BY <1>1 DEF Quietly, NativesAreOurs
  <2> QED BY <2>1, <2>2 DEF NativesAreOurs, Quietly, CallsFit
<1> QED BY <1>2, <1>4, <1>5 DEF NativesConsistent

-----------------------------------------------------------------------------
(* Part 2.                                                                  *)

\* Only a creation that was launched has anything but the empty owner.
LEMMA UnlaunchedOwner ==
    ASSUME CreationConsistent, NEW d \in Runs, run[d].pc \in BeforeEffect
    PROVE  /\ run[d].c \in Creations /\ owner[run[d].c] = NoOwner
           /\ NoOwner.native = NoNative /\ NoOwner.input = "none"
<1>1. OtherTypes /\ ServerInv
    BY InductiveParts
<1>2. run[d].c \in Creations
    BY <1>1, RunFence DEF BeforeEffect
<1>3. owner[run[d].c] = NoOwner
    BY <1>1, <1>2 DEF ServerInv, RunsHoldTheirFence, OwnersAreLaunched
<1> QED BY <1>2, <1>3 DEF NoOwner

\* Calls past their dispatch are alone in it.
LEMMA AloneInDispatch ==
    ASSUME CreationConsistent, NEW d \in Runs, NEW e \in Runs, d # e,
           run[d].pc \in Dispatched, run[e].pc \in Dispatched
    PROVE  run[d].c # run[e].c
BY DEF CreationConsistent, OneDispatcher

\* A copy is written: its native session is new, and its creation had none.
LEMMA MakeCopyNatives ==
    ASSUME CreationConsistent, NativesConsistent, NEW d \in Runs, NEW n \in Natives,
           MakeCopy(d, n)
    PROVE  NativesConsistent'
<1> DEFINE c == run[d].c
           o == [NoOwner EXCEPT !.life = "gone", !.a = run[d].a, !.g = run[d].g,
                                !.native = n]
<1>1. NativesAreOurs /\ EvidenceIsTrue /\ OtherTypes /\ ServerInv
    BY InductiveParts DEF NativesConsistent
<1>2. c \in Creations /\ owner[c].native = NoNative /\ owner[c].input = "none"
    BY UnlaunchedOwner DEF MakeCopy, BeforeEffect
<1>3. o.native = n /\ o.input = "none"
    BY DEF NoOwner
<1>4. owner' = [owner EXCEPT ![c] = o]
    BY DEF MakeCopy
<1>5. n \notin onDisk /\ onDisk' = onDisk \cup {n} /\ NativeScope[n] = DispatchScope[c]
    BY DEF MakeCopy
<1>6. n # NoNative
    BY StoreAssumption
<1>7. RowsStill /\ adopted' = adopted
    BY DEF MakeCopy, RowsStill, storeVars
<1>8. run' = [run EXCEPT ![d].pc = "copied"]
    BY DEF MakeCopy, Become
<1> HIDE DEF o
<1>9. owner'[c] = o /\ \A e \in Creations \ {c} : owner'[e] = owner[e]
    BY <1>1, <1>2, <1>4 DEF OtherTypes
<1>10. native[c] = NoNative
    BY <1>1, <1>2 DEF NativesAreOurs
<1>11. AllocationCoversDoubt'
    BY <1>7, MovesCover DEF RowsMove
<1>12. EvidenceIsTrue'
    BY <1>1, <1>2, <1>7, <1>9 DEF EvidenceIsTrue, RowsStill
<1>13. CallsFit'
  <2>1. run'[d].c = c
      BY <1>1, <1>8 DEF OtherTypes, RunRec
  <2>2. ASSUME NEW e \in Runs \ {d}, run'[e].pc \in {"starting", "copied"}
        PROVE  run'[e] = run[e] /\ run[e].c \in Creations \ {c}
    <3>1. run'[e] = run[e]
        BY <1>1, <1>8 DEF OtherTypes
    <3>2. run[d].pc \in Dispatched /\ run[e].pc \in Dispatched
        BY <2>2, <3>1 DEF MakeCopy, Dispatched, BeforeEffect, AfterEffect
    <3> QED BY <1>1, <2>2, <3>1, <3>2, AloneInDispatch, RunFence
  <2>3. run'[d].pc = "copied"
      BY <1>1, <1>8 DEF OtherTypes, RunRec
  <2> QED BY <1>1, <1>3, <1>6, <1>9, <2>1, <2>2, <2>3 DEF CallsFit, NativesAreOurs
<1>14. NativesAreOurs'
  <2>1. \A e \in Creations : owner'[e].native # NoNative =>
            /\ owner'[e].native \in onDisk' \ adopted'
            /\ NativeScope[owner'[e].native] = DispatchScope[e]
            /\ \A b \in Creations \ {e} : owner'[b].native # owner'[e].native
      BY <1>1, <1>3, <1>5, <1>7, <1>9 DEF NativesAreOurs
  <2>2. \A e \in Creations :
            /\ native'[e] # NoNative => native'[e] = owner'[e].native
            /\ owner'[e].input = "taken" => owner'[e].native # NoNative
      BY <1>1, <1>3, <1>7, <1>9, <1>10 DEF NativesAreOurs, RowsStill
  <2>3. adopted' \subseteq onDisk'
      BY <1>1, <1>5, <1>7 DEF NativesAreOurs
  <2> QED BY <1>13, <2>1, <2>2, <2>3 DEF NativesAreOurs, CallsFit
<1> QED BY <1>11, <1>12, <1>14 DEF NativesConsistent

\* A provider creates its native session.
LEMMA OwnerNamesNatives ==
    ASSUME CreationConsistent, NativesConsistent, NEW c \in Creations,
           NEW n \in Natives, OwnerNames(c, n)
    PROVE  NativesConsistent'
<1> DEFINE o == [owner[c] EXCEPT !.native = n]
<1>1. NativesAreOurs /\ EvidenceIsTrue /\ OtherTypes
    BY InductiveParts DEF NativesConsistent
<1>2. owner[c].native = NoNative /\ owner[c] \in OwnerRec
    BY <1>1, OwnerRecord DEF OwnerNames
<1>3. o.native = n /\ o.input = owner[c].input /\ o.a = owner[c].a
    BY <1>2 DEF OwnerRec
<1>4. owner' = [owner EXCEPT ![c] = o]
    BY DEF OwnerNames
<1>5. n \notin onDisk /\ onDisk' = onDisk \cup {n} /\ NativeScope[n] = DispatchScope[c]
    BY DEF OwnerNames
<1>6. n # NoNative
    BY StoreAssumption
<1>7. RowsStill /\ adopted' = adopted /\ run' = run
    BY DEF OwnerNames, RowsStill, storeVars
<1> HIDE DEF o
<1>8. owner'[c] = o /\ \A e \in Creations \ {c} : owner'[e] = owner[e]
    BY <1>1, <1>4 DEF OtherTypes
<1>9. native[c] = NoNative /\ owner[c].input # "taken"
    BY <1>1, <1>2 DEF NativesAreOurs
<1>10. AllocationCoversDoubt'
    BY <1>7, MovesCover DEF RowsMove
<1>11. EvidenceIsTrue'
    BY <1>1, <1>7, <1>8, <1>9 DEF EvidenceIsTrue, RowsStill
<1>12. CallsFit'
  <2>1. \A d \in Runs : run[d].pc \in {"starting", "copied"} => run[d].c \in Creations
      BY InductiveParts, RunFence
  <2> QED BY <1>1, <1>3, <1>6, <1>7, <1>8, <2>1 DEF CallsFit, NativesAreOurs
<1>13. NativesAreOurs'
  <2>1. \A e \in Creations : owner'[e].native # NoNative =>
            /\ owner'[e].native \in onDisk' \ adopted'
            /\ NativeScope[owner'[e].native] = DispatchScope[e]
            /\ \A b \in Creations \ {e} : owner'[b].native # owner'[e].native
      BY <1>1, <1>3, <1>5, <1>7, <1>8 DEF NativesAreOurs
  <2>2. \A e \in Creations :
            /\ native'[e] # NoNative => native'[e] = owner'[e].native
            /\ owner'[e].input = "taken" => owner'[e].native # NoNative
      BY <1>1, <1>3, <1>6, <1>7, <1>8, <1>9 DEF NativesAreOurs, RowsStill
  <2>3. adopted' \subseteq onDisk'
      BY <1>1, <1>5, <1>7 DEF NativesAreOurs
  <2> QED BY <1>12, <2>1, <2>2, <2>3 DEF NativesAreOurs, CallsFit
<1> QED BY <1>10, <1>11, <1>13 DEF NativesConsistent

\* A provider takes the message it was offered.
LEMMA OwnerTakesInputNatives ==
    ASSUME CreationConsistent, NativesConsistent, NEW c \in Creations, OwnerTakesInput(c)
    PROVE  NativesConsistent'
<1> DEFINE o == [owner[c] EXCEPT !.input = "taken"]
<1>1. NativesAreOurs /\ EvidenceIsTrue /\ OtherTypes
    BY InductiveParts DEF NativesConsistent
<1>2. /\ owner[c] \in OwnerRec
      /\ owner[c].native # NoNative /\ owner[c].input = "offered"
    BY <1>1, OwnerRecord DEF OwnerTakesInput
<1>3. o.native = owner[c].native /\ o.a = owner[c].a
    BY <1>2 DEF OwnerRec
<1>4. owner' = [owner EXCEPT ![c] = o]
    BY DEF OwnerTakesInput
<1>5. RowsStill /\ UNCHANGED <<adopted, onDisk, run>>
    BY DEF OwnerTakesInput, RowsStill, storeVars
<1> HIDE DEF o
<1>6. owner'[c] = o /\ \A e \in Creations \ {c} : owner'[e] = owner[e]
    BY <1>1, <1>4 DEF OtherTypes
<1>7. AllocationCoversDoubt'
    BY <1>5, MovesCover DEF RowsMove
<1>8. EvidenceIsTrue'
    BY <1>1, <1>2, <1>5, <1>6 DEF EvidenceIsTrue, RowsStill
<1>9. CallsFit'
  <2>1. \A d \in Runs : run[d].pc \in {"starting", "copied"} => run[d].c \in Creations
      BY InductiveParts, RunFence
  <2>2. \A d \in Runs : run[d].pc = "starting" => run[d].c # c
      BY <1>1, <1>2 DEF NativesAreOurs
  <2> QED BY <1>1, <1>3, <1>5, <1>6, <2>1, <2>2 DEF CallsFit, NativesAreOurs
<1>10. \A e \in Creations : owner'[e].native = owner[e].native
    BY <1>3, <1>6
<1>11. NativesAreOurs'
  <2>1. \A e \in Creations : owner'[e].native # NoNative =>
            /\ owner'[e].native \in onDisk' \ adopted'
            /\ NativeScope[owner'[e].native] = DispatchScope[e]
            /\ \A b \in Creations \ {e} : owner'[b].native # owner'[e].native
      BY <1>1, <1>5, <1>10 DEF NativesAreOurs
  <2>2. \A e \in Creations :
            /\ native'[e] # NoNative => native'[e] = owner'[e].native
            /\ owner'[e].input = "taken" => owner'[e].native # NoNative
      BY <1>1, <1>2, <1>5, <1>6, <1>10 DEF NativesAreOurs, RowsStill
  <2>3. adopted' \subseteq onDisk'
      BY <1>1, <1>5 DEF NativesAreOurs
  <2> QED BY <1>9, <2>1, <2>2, <2>3 DEF NativesAreOurs, CallsFit
<1> QED BY <1>7, <1>8, <1>11 DEF NativesConsistent

\* A native session appears that is nobody's here, or discovery publishes one:
\* never one of ours, which is bound, or covered by its allocation.
LEMMA FilesNatives ==
    ASSUME CreationConsistent, NativesConsistent, NEW n \in Natives,
           ExternalNative(n) \/ Discover(n)
    PROVE  NativesConsistent'
<1>1. NativesAreOurs /\ EvidenceIsTrue
    BY DEF NativesConsistent
<1>2. RowsStill /\ UNCHANGED <<owner, run>>
    BY DEF ExternalNative, Discover, RowsStill, storeVars, serverVars
<1>3. AllocationCoversDoubt'
    BY <1>2, MovesCover DEF RowsMove
<1>4. EvidenceIsTrue'
    BY <1>1, <1>2 DEF EvidenceIsTrue, RowsStill
<1>5. CASE ExternalNative(n)
  <2>1. adopted' = adopted /\ onDisk' = onDisk \cup {n}
      BY <1>5 DEF ExternalNative, storeVars
  <2>2. NativesAreOurs'
      BY <1>1, <1>2, <2>1 DEF NativesAreOurs, RowsStill
  <2> QED BY <1>3, <1>4, <2>2 DEF NativesConsistent
<1>6. CASE Discover(n)
  <2>1. /\ adopted' = adopted \cup {n} /\ onDisk' = onDisk /\ n \in onDisk
        /\ ~Known(n) /\ ~NamespacePending(NativeScope[n])
      BY <1>6 DEF Discover, Adopt, CanAdopt, serverVars
  <2>2. ASSUME NEW c \in Creations, owner[c].native = n
        PROVE  FALSE
    <3>1. n # NoNative
        BY StoreAssumption
    <3>2. Now[c] \in Effective
        BY <1>1, <2>2, <3>1, BoundIsEffective
    <3>3. native[c] = NoNative
        BY <1>1, <2>1, <2>2 DEF NativesAreOurs, Known
    <3>4. claim[c].a # 0
        BY <3>2, <3>3, Covering DEF NativesConsistent
    <3>5. DispatchScope[c] = NativeScope[n]
        BY <1>1, <2>2, <3>1 DEF NativesAreOurs
    <3> QED BY <2>1, <3>4, <3>5 DEF NamespacePending
  <2>3. NativesAreOurs'
      BY <1>1, <1>2, <2>1, <2>2 DEF NativesAreOurs, RowsStill
  <2> QED BY <1>3, <1>4, <2>3 DEF NativesConsistent
<1> QED BY <1>5, <1>6

-----------------------------------------------------------------------------
(* Part 3.                                                                  *)

\* A failure leaves the rows, or relabels one.
LEMMA FailureMoves ==
    ASSUME NEW f, f.c \in Creations, UNCHANGED <<current, claim, native>>,
           RecordFailure(f) \/ RecordOwnerLoss(f)
    PROVE  RowsMove
<1>1. CASE RecordOwnerLoss(f)
    BY <1>1 DEF RecordOwnerLoss, RowsMove, Relabels, RowsStill
<1>2. CASE RecordFailure(f) /\ CanFailBeforeEffects(f)
    BY <1>2 DEF RecordFailure, RowsMove, Relabels
<1>3. CASE RecordFailure(f) /\ ~CanFailBeforeEffects(f)
    BY <1>1, <1>3 DEF RecordFailure
<1> QED BY <1>1, <1>2, <1>3

\* Calls that end, or move on to a place where nothing is started.
LEMMA CallsStayFit ==
    ASSUME CreationConsistent, NativesAreOurs, NEW d \in Runs,
           \A e \in Runs \ {d} : run'[e] = run[e],
           run'[d].pc \notin {"starting", "copied"},
           \A c \in Creations : owner'[c].native = owner[c].native,
           \A c \in Creations : owner'[c].input = owner[c].input \/ c = run[d].c,
           owner' = owner \/ run[d].pc \in Dispatched
    PROVE  CallsFit'
<1>1. \A e \in Runs : run[e].pc \in {"starting", "copied"} =>
          run[e].c \in Creations /\ run[e].pc \in Dispatched
    BY InductiveParts, RunFence DEF Dispatched, AfterEffect
<1>2. ASSUME NEW e \in Runs, run'[e].pc \in {"starting", "copied"}
      PROVE  /\ run'[e] = run[e] /\ run[e].c \in Creations
             /\ owner' = owner \/ run[e].c # run[d].c
    BY <1>1, <1>2, AloneInDispatch
<1> QED BY <1>2 DEF CallsFit, NativesAreOurs

\* What ending and moving a call does to the others.
LEMMA CallMoves ==
    ASSUME OtherTypes, NEW d \in Runs, NEW r, run' = [run EXCEPT ![d] = r]
    PROVE  run'[d] = r /\ \A e \in Runs \ {d} : run'[e] = run[e]
BY DEF OtherTypes

\* A call moves and no owner changes.
LEMMA CallQuiet ==
    ASSUME CreationConsistent, NativesConsistent, RowsMove, NEW d \in Runs, NEW r,
           run' = [run EXCEPT ![d] = r], r.pc \notin {"starting", "copied"},
           UNCHANGED <<owner, adopted, onDisk>>
    PROVE  Quietly
<1>1. OtherTypes /\ NativesAreOurs
    BY InductiveParts DEF NativesConsistent
<1>2. run'[d] = r /\ \A e \in Runs \ {d} : run'[e] = run[e]
    BY <1>1, CallMoves
<1>3. CallsFit'
    BY <1>1, <1>2, CallsStayFit
<1> QED BY <1>3 DEF Quietly, SameOwners

\* No call moves and no owner changes what it is known by.
LEMMA OwnerQuiet ==
    ASSUME CreationConsistent, NativesConsistent, RowsMove, run' = run,
           NEW c \in Creations, NEW o, owner' = [owner EXCEPT ![c] = o],
           o.native = owner[c].native, o.input = owner[c].input, o.a = owner[c].a,
           UNCHANGED <<adopted, onDisk>>
    PROVE  Quietly
<1>1. OtherTypes /\ NativesAreOurs
    BY InductiveParts DEF NativesConsistent
<1>2. owner'[c] = o /\ \A e \in Creations \ {c} : owner'[e] = owner[e]
    BY <1>1 DEF OtherTypes
<1>3. SameOwners /\ \A e \in Creations : owner'[e].native = owner[e].native
                                       /\ owner'[e].input = owner[e].input
    BY <1>2 DEF SameOwners
<1>4. \A d \in Runs : run[d].pc \in {"starting", "copied"} => run[d].c \in Creations
    BY InductiveParts, RunFence
<1>5. CallsFit'
    BY <1>1, <1>3, <1>4 DEF CallsFit, NativesAreOurs
<1> QED BY <1>3, <1>5 DEF Quietly

\* A call that ends.
LEMMA EndQuiet ==
    ASSUME CreationConsistent, NativesConsistent, RowsMove, NEW d \in Runs, End(d),
           UNCHANGED <<owner, adopted, onDisk>>
    PROVE  Quietly
<1>1. run' = [run EXCEPT ![d] = Off] /\ Off.pc = "off"
    BY DEF End, Off
<1> QED BY <1>1, CallQuiet

\* The server gives up, admits or dispatches an attempt.
LEMMA CallStepQuiet ==
    ASSUME CreationConsistent, NativesConsistent, NEW d \in Runs,
           \/ Admit(d) \/ AcceptanceFails(d) \/ JoinsAnother(d) \/ StartSaved(d)
           \/ RunFails(d) \/ Dispatch(d) \/ RouterRefuses(d) \/ AbortEnds(d)
           \/ BindCopy(d)
    PROVE  Quietly
<1>1. OtherTypes /\ ServerInv /\ RowsOK /\ run[d].c \in Creations
  <2>1. OtherTypes /\ ServerInv /\ RowsOK
      BY InductiveParts
  <2>2. run[d].pc # "off"
      BY DEF Admit, AcceptanceFails, JoinsAnother, StartSaved, RunFails, Dispatch,
             RouterRefuses, AbortEnds, BindCopy
  <2> QED BY <2>1, <2>2, RunFence
<1>2. CASE Admit(d)
  <2> DEFINE r == [pc |-> "accepted", direct |-> FALSE, c |-> run[d].c,
                   a |-> IF current[run[d].c] = 0 THEN 1 ELSE current[run[d].c],
                   g |-> FenceOf(run[d].c).g]
  <2>1. /\ run' = [run EXCEPT ![d] = r] /\ r.pc = "accepted"
        /\ UNCHANGED <<claim, native, owner, adopted, onDisk>>
      BY <1>2 DEF Admit
  <2> HIDE DEF r
  <2>2. CASE current[run[d].c] = 0
    <3>1. Insert(run[d].c, pid, "saved") /\ pid \in Pids /\ 0 < MaxAttempts
        BY <1>1, <1>2, <2>2, StoreAssumption DEF Admit, OtherTypes
    <3>2. NewAttempt(run[d].c)
        BY <2>2, <3>1 DEF NewAttempt, Pending
    <3> QED BY <1>1, <2>1, <3>2, CallQuiet DEF RowsMove
  <2>3. CASE current[run[d].c] # 0
    <3>1. RowsStill
        BY <1>2, <2>1, <2>3 DEF Admit, RowsStill
    <3> QED BY <2>1, <3>1, CallQuiet DEF RowsMove
  <2> QED BY <2>2, <2>3
<1>3. CASE AcceptanceFails(d)
  <2>1. RowsMove
      BY <1>1, <1>3 DEF AcceptanceFails, RowsMove, RowsStill, Relabels
  <2> QED BY <1>3, <2>1, EndQuiet DEF AcceptanceFails
<1>4. CASE JoinsAnother(d)
  <2>1. RowsMove
      BY <1>4 DEF JoinsAnother, RowsMove, RowsStill, storeVars
  <2> QED BY <1>4, <2>1, EndQuiet DEF JoinsAnother, storeVars
<1>5. CASE StartSaved(d)
  <2> DEFINE f == [c |-> run[d].c, a |-> run[d].a, g |-> run[d].g]
             r == [pc |-> "preflight", direct |-> TRUE, c |-> f.c, a |-> f.a, g |-> f.g]
  <2>1. /\ CanFailBeforeEffects(f) /\ f.c \in Creations
        /\ UNCHANGED <<current, claim, native, owner, adopted, onDisk>>
      BY <1>1, <1>5 DEF StartSaved, NothingToStart
  <2>2. \/ attempt' = attempt /\ run' = [run EXCEPT ![d] = r]
        \/ End(d) /\ (FailBeforeEffects(f) \/ Update(f, "queued", "not-admitted", f.g))
      BY <1>5 DEF StartSaved
  <2>3. r.pc = "preflight"
      OBVIOUS
  <2> HIDE DEF f, r
  <2>4. RowsMove
      BY <2>1, <2>2 DEF RowsMove, RowsStill, Relabels
  <2> QED BY <2>1, <2>2, <2>3, <2>4, EndQuiet, CallQuiet
<1>6. CASE RunFails(d)
  <2>1. RowsMove
      BY <1>1, <1>6, FailureMoves DEF RunFails
  <2> QED BY <1>6, <2>1, EndQuiet DEF RunFails
<1>7. CASE Dispatch(d)
  <2>1. RowsMove
      BY <1>1, <1>7 DEF Dispatch, RowsMove, Allocates
  <2> DEFINE pc == IF Intent[run[d].c] = "copy" THEN "copying" ELSE "launching"
             r == [run[d] EXCEPT !.pc = pc, !.g = @ + 1]
  <2>2. run' = [run EXCEPT ![d] = r]
      BY <1>1, <1>7 DEF Dispatch, OtherTypes
  <2>3. r.pc = pc
      BY <1>1 DEF OtherTypes, RunRec
  <2>4. pc \notin {"starting", "copied"}
      OBVIOUS
  <2> HIDE DEF pc, r
  <2> QED BY <1>7, <2>1, <2>2, <2>3, <2>4, CallQuiet DEF Dispatch
<1>8. CASE RouterRefuses(d)
  <2>1. RowsMove
      BY <1>1, <1>8 DEF RouterRefuses, RowsMove, Allocates
  <2> QED BY <1>8, <2>1, EndQuiet DEF RouterRefuses
<1>9. CASE AbortEnds(d)
  <2>1. RowsMove
      BY <1>1, <1>9, FailureMoves DEF AbortEnds
  <2> QED BY <1>9, <2>1, EndQuiet DEF AbortEnds
<1>10. CASE BindCopy(d)
  <2>1. owner[run[d].c].native # NoNative
      BY <1>10 DEF BindCopy, NativesConsistent, NativesAreOurs
  <2>2. Binds(run[d])
      BY <1>1, <1>10, <2>1 DEF BindCopy, Binds
  <2> QED BY <1>10, <2>2, EndQuiet DEF BindCopy, RowsMove
<1> QED BY <1>2, <1>3, <1>4, <1>5, <1>6, <1>7, <1>8, <1>9, <1>10

\* The server takes a request, retries a creation or promotes a queued one.
LEMMA RequestQuiet ==
    ASSUME CreationConsistent, NativesConsistent, NEW d \in Runs,
           \/ Promote(d)
           \/ \E c \in Creations :
                 \/ Submit(d, c) \/ SubmitCopy(d, c)
                 \/ \E key \in RetryKeys : Retry(d, c, key)
    PROVE  Quietly
<1>1. OtherTypes /\ ServerInv /\ RowsOK /\ pid \in Pids /\ MaxAttempts \in Nat \ {0}
    BY InductiveParts, StoreAssumption DEF OtherTypes
<1>2. run = [run EXCEPT ![d] = run[d]]
    BY <1>1 DEF OtherTypes
<1>3. CASE Promote(d)
  <2>1. RowsMove
      BY <1>3 DEF Promote, RowsMove, RowsStill, storeVars
  <2>2. run[d].pc = "off"
      BY <1>3 DEF Promote, Off
  <2>3. \E r : run' = [run EXCEPT ![d] = r] /\ r.pc \in {"off", "preflight"}
    <3> DEFINE f == Head(queue)
               r == [pc |-> "preflight", direct |-> FALSE, c |-> f.c, a |-> f.a, g |-> f.g]
    <3>1. run' = (IF IsCurrent(f) THEN [run EXCEPT ![d] = r] ELSE run) /\ r.pc = "preflight"
        BY <1>3 DEF Promote
    <3> HIDE DEF f, r
    <3> QED BY <1>2, <2>2, <3>1
  <2> QED BY <1>3, <2>1, <2>3, CallQuiet DEF Promote, storeVars
<1>4. ASSUME NEW c \in Creations, Submit(d, c)
      PROVE  Quietly
  <2> DEFINE r == [pc |-> "submitting", direct |-> FALSE, c |-> c, a |-> 0, g |-> 0]
  <2>1. RowsMove
      BY <1>4 DEF Submit, RowsMove, RowsStill, storeVars
  <2>2. run' = [run EXCEPT ![d] = r] /\ r.pc = "submitting"
      BY <1>4 DEF Submit
  <2> HIDE DEF r
  <2> QED BY <1>4, <2>1, <2>2, CallQuiet DEF Submit, storeVars
<1>5. ASSUME NEW c \in Creations, SubmitCopy(d, c)
      PROVE  Quietly
  <2> DEFINE r == [pc |-> "preflight", direct |-> TRUE, c |-> c, a |-> 1, g |-> 0]
  <2>1. Insert(c, pid, "saved") /\ current[c] = 0 /\ 0 < MaxAttempts
      BY <1>1, <1>5 DEF SubmitCopy
  <2>2. NewAttempt(c)
      BY <1>1, <2>1 DEF NewAttempt, Pending
  <2>3. run' = [run EXCEPT ![d] = r] /\ r.pc = "preflight"
      BY <1>5 DEF SubmitCopy
  <2> HIDE DEF r
  <2> QED BY <1>5, <2>2, <2>3, CallQuiet DEF SubmitCopy, RowsMove
<1>6. ASSUME NEW c \in Creations, NEW key \in RetryKeys, Retry(d, c, key)
      PROVE  Quietly
  <2> DEFINE s == IF ~AtCapacity THEN "saved" ELSE IF QueueFull THEN "failed" ELSE "queued"
             r == [pc |-> "preflight", direct |-> TRUE, c |-> c, a |-> current[c] + 1, g |-> 0]
  <2>1. Insert(c, pid, s) /\ CanRetry(c, key) /\ s \in Pending \cup {"failed"}
      BY <1>6 DEF Retry, Pending
  <2>2. run' = [run EXCEPT ![d] = r] \/ run' = run
      BY <1>6 DEF Retry
  <2>3. r.pc = "preflight" /\ run[d].pc = "off"
      BY <1>6 DEF Retry, Off
  <2> HIDE DEF r, s
  <2>4. NewAttempt(c)
      BY <1>1, <2>1 DEF NewAttempt, CanRetry
  <2> QED BY <1>2, <1>6, <2>2, <2>3, <2>4, CallQuiet DEF Retry, RowsMove
<1> QED BY <1>3, <1>4, <1>5, <1>6

\* A call moves on with an owner that keeps what it is known by, except that
\* an input may be offered to it.
LEMMA OwnedCallQuiet ==
    ASSUME CreationConsistent, NativesConsistent, RowsMove, NEW d \in Runs,
           run[d].pc \in Dispatched,
           \A e \in Runs \ {d} : run'[e] = run[e],
           run'[d].pc \notin {"starting", "copied"},
           \A c \in Creations \ {run[d].c} : owner'[c] = owner[c],
           owner'[run[d].c].native = owner[run[d].c].native,
           owner'[run[d].c].a = owner[run[d].c].a,
           \/ owner'[run[d].c].input = owner[run[d].c].input
           \/ owner[run[d].c].input = "none" /\ owner'[run[d].c].input = "offered",
           UNCHANGED <<adopted, onDisk>>
    PROVE  Quietly
<1>1. NativesAreOurs
    BY DEF NativesConsistent
<1>2. SameOwners
    BY DEF SameOwners
<1>3. CallsFit'
  <2>1. /\ \A c \in Creations : owner'[c].native = owner[c].native
        /\ \A c \in Creations : owner'[c].input = owner[c].input \/ c = run[d].c
      OBVIOUS
  <2> QED BY <1>1, <2>1, CallsStayFit
<1> QED BY <1>2, <1>3 DEF Quietly

\* What a call's step does to the other calls, and to the other owners.
LEMMA OwnedMoves ==
    ASSUME CreationConsistent, NEW d \in Runs, NEW c \in Creations, NEW r, NEW o,
           run' = [run EXCEPT ![d] = r], owner' = [owner EXCEPT ![c] = o]
    PROVE  /\ run'[d] = r /\ \A e \in Runs \ {d} : run'[e] = run[e]
           /\ owner'[c] = o /\ \A e \in Creations \ {c} : owner'[e] = owner[e]
BY InductiveParts DEF OtherTypes

\* Becoming, as a whole new record.
LEMMA BecomeQuiet ==
    ASSUME CreationConsistent, NEW d \in Runs, NEW pc \in Pcs, Become(d, pc)
    PROVE  \E r : run' = [run EXCEPT ![d] = r] /\ r.pc = pc
<1> DEFINE r == [run[d] EXCEPT !.pc = pc]
<1>1. OtherTypes
    BY InductiveParts
<1>2. r.pc = pc /\ run' = [run EXCEPT ![d] = r]
    BY <1>1, BecomeRecord DEF Become
<1> HIDE DEF r
<1> QED BY <1>2

\* Calls that work on their provider.
LEMMA OwnedStepsQuiet ==
    ASSUME CreationConsistent, NativesConsistent, NEW d \in Runs,
           StartFails(d) \/ Attach(d) \/ Settle(d) \/ SettleFails(d)
    PROVE  Quietly
<1> DEFINE c == run[d].c
<1>1. OtherTypes /\ ServerInv
    BY InductiveParts
<1>2. run[d].pc \in {"starting", "settling"} /\ run[d].pc \in Dispatched
    BY DEF StartFails, Attach, Settle, SettleFails, Dispatched, AfterEffect
<1>3. c \in Creations
    BY <1>1, <1>2, RunFence
<1>4. owner[c] \in OwnerRec
    BY <1>1, <1>3, OwnerRecord
<1>5. End(d) => \E r : run' = [run EXCEPT ![d] = r] /\ r.pc = "off"
  <2>1. End(d) => run' = [run EXCEPT ![d] = Off]
      BY DEF End
  <2>2. Off.pc = "off"
      BY DEF Off
  <2> QED BY <2>1, <2>2
<1>6. CASE StartFails(d)
  <2> DEFINE life == IF c \in Hosted THEN owner[c].life ELSE "gone"
             o == [owner[c] EXCEPT !.life = life]
  <2>1. RowsMove
      BY <1>3, <1>6, FailureMoves DEF StartFails
  <2>2. owner' = [owner EXCEPT ![c] = o]
      BY <1>1, <1>6 DEF StartFails, OtherTypes
  <2>3. o.native = owner[c].native /\ o.a = owner[c].a /\ o.input = owner[c].input
      BY <1>4 DEF OwnerRec
  <2>4. PICK r : run' = [run EXCEPT ![d] = r] /\ r.pc = "off"
      BY <1>5, <1>6 DEF StartFails
  <2>5. UNCHANGED <<adopted, onDisk>>
      BY <1>6 DEF StartFails
  <2> HIDE DEF o
  <2>6. /\ run'[d] = r /\ \A e \in Runs \ {d} : run'[e] = run[e]
        /\ owner'[c] = o /\ \A e \in Creations \ {c} : owner'[e] = owner[e]
      BY <1>3, <2>2, <2>4, OwnedMoves
  <2> QED BY <1>2, <2>1, <2>3, <2>4, <2>5, <2>6, OwnedCallQuiet
<1>7. CASE Attach(d)
  <2> DEFINE refused == Message(c) /\ ~MayTakeInput(run[d])
             input == IF Message(c) /\ ~refused THEN "offered" ELSE owner[c].input
             o == [owner[c] EXCEPT !.watched = TRUE, !.registered = refused,
                                   !.input = input]
  <2>1. RowsMove
      BY <1>7 DEF Attach, RowsMove, RowsStill, storeVars
  <2>2. owner' = [owner EXCEPT ![c] = o]
      BY <1>1, <1>7 DEF Attach, OtherTypes
  <2>3. o.native = owner[c].native /\ o.a = owner[c].a /\ o.input = input
      BY <1>4 DEF OwnerRec
  <2>4. \E pc \in {"aborting", "settling"} : Become(d, pc)
      BY <1>7 DEF Attach
  <2>5. PICK r : run' = [run EXCEPT ![d] = r] /\ r.pc \in {"aborting", "settling"}
      BY <2>4, BecomeQuiet DEF Pcs
  <2>6. owner[c].input = "none"
      BY <1>7 DEF Attach, NativesConsistent, NativesAreOurs
  <2>7. input = owner[c].input \/ input = "offered"
      OBVIOUS
  <2>8. UNCHANGED <<adopted, onDisk>>
      BY <1>7 DEF Attach, storeVars
  <2> HIDE DEF o, input, refused
  <2>9. /\ run'[d] = r /\ \A e \in Runs \ {d} : run'[e] = run[e]
        /\ owner'[c] = o /\ \A e \in Creations \ {c} : owner'[e] = owner[e]
      BY <1>3, <2>2, <2>5, OwnedMoves
  <2> QED BY <1>2, <2>1, <2>3, <2>5, <2>6, <2>7, <2>8, <2>9, OwnedCallQuiet
<1>8. CASE Settle(d)
  <2> DEFINE o == [owner[c] EXCEPT !.registered = TRUE]
  <2>1. RowsMove
      BY <1>8 DEF Settle, RowsMove, RowsStill, storeVars
  <2>2. owner' = [owner EXCEPT ![c] = o]
      BY <1>1, <1>8 DEF Settle, OtherTypes
  <2>3. o.native = owner[c].native /\ o.a = owner[c].a /\ o.input = owner[c].input
      BY <1>4 DEF OwnerRec
  <2>4. PICK r : run' = [run EXCEPT ![d] = r] /\ r.pc = "off"
      BY <1>5, <1>8 DEF Settle
  <2>5. UNCHANGED <<adopted, onDisk>>
      BY <1>8 DEF Settle, storeVars
  <2> HIDE DEF o
  <2>6. /\ run'[d] = r /\ \A e \in Runs \ {d} : run'[e] = run[e]
        /\ owner'[c] = o /\ \A e \in Creations \ {c} : owner'[e] = owner[e]
      BY <1>3, <2>2, <2>4, OwnedMoves
  <2> QED BY <1>2, <2>1, <2>3, <2>4, <2>5, <2>6, OwnedCallQuiet
<1>9. CASE SettleFails(d)
  <2> DEFINE o == [owner[c] EXCEPT !.registered = (owner[c].life = "live")]
  <2>1. RowsMove
      BY <1>9 DEF SettleFails, RowsMove, RowsStill, storeVars
  <2>2. owner' = [owner EXCEPT ![c] = o]
      BY <1>1, <1>9 DEF SettleFails, OtherTypes
  <2>3. o.native = owner[c].native /\ o.a = owner[c].a /\ o.input = owner[c].input
      BY <1>4 DEF OwnerRec
  <2>4. PICK r : run' = [run EXCEPT ![d] = r] /\ r.pc = "aborting"
      BY <1>9, BecomeQuiet DEF SettleFails, Pcs
  <2>5. UNCHANGED <<adopted, onDisk>>
      BY <1>9 DEF SettleFails, storeVars
  <2> HIDE DEF o
  <2>6. /\ run'[d] = r /\ \A e \in Runs \ {d} : run'[e] = run[e]
        /\ owner'[c] = o /\ \A e \in Creations \ {c} : owner'[e] = owner[e]
      BY <1>3, <2>2, <2>4, OwnedMoves
  <2> QED BY <1>2, <2>1, <2>3, <2>4, <2>5, <2>6, OwnedCallQuiet
<1> QED BY <1>6, <1>7, <1>8, <1>9

\* A provider is launched: it has made nothing yet.
LEMMA LaunchQuiet ==
    ASSUME CreationConsistent, NativesConsistent, NEW d \in Runs, LaunchProvider(d)
    PROVE  Quietly
<1> DEFINE c == run[d].c
           o == [NoOwner EXCEPT !.life = "live", !.a = run[d].a, !.g = run[d].g]
<1>1. OtherTypes /\ ServerInv /\ NativesAreOurs
    BY InductiveParts DEF NativesConsistent
<1>2. c \in Creations /\ owner[c] = NoOwner /\ NoOwner.native = NoNative
      /\ NoOwner.input = "none"
    BY UnlaunchedOwner DEF LaunchProvider, BeforeEffect
<1>3. o.native = NoNative /\ o.input = "none"
    BY DEF NoOwner
<1>4. owner' = [owner EXCEPT ![c] = o]
    BY DEF LaunchProvider
<1>5. RowsMove /\ UNCHANGED <<adopted, onDisk>>
    BY DEF LaunchProvider, RowsMove, RowsStill, storeVars
<1>6. PICK r : run' = [run EXCEPT ![d] = r] /\ r.pc = "starting"
    BY BecomeQuiet DEF LaunchProvider, Pcs
<1>7. run'[d] = r /\ \A e \in Runs \ {d} : run'[e] = run[e]
    BY <1>1, <1>6, CallMoves
<1>8. r.c = c
    BY <1>1, <1>7 DEF LaunchProvider, Become, OtherTypes, RunRec
<1> HIDE DEF o
<1>9. \A e \in Creations : owner'[e].native = owner[e].native
                         /\ owner'[e].input = owner[e].input
    BY <1>1, <1>2, <1>3, <1>4 DEF OtherTypes
<1>10. SameOwners
  <2>1. \A e \in Creations : owner[e].input = "taken" => owner'[e].a = owner[e].a
      BY <1>1, <1>2, <1>4 DEF OtherTypes
  <2> QED BY <1>9, <2>1 DEF SameOwners
<1>11. CallsFit'
  <2>1. \A e \in Runs : run[e].pc \in {"starting", "copied"} => run[e].c \in Creations
      BY <1>1, RunFence
  <2> QED BY <1>1, <1>2, <1>6, <1>7, <1>8, <1>9, <2>1 DEF CallsFit, NativesAreOurs
<1> QED BY <1>5, <1>10, <1>11 DEF Quietly

\* What a provider reports, and how it ends.
LEMMA ReportsQuiet ==
    ASSUME CreationConsistent, NativesConsistent, NEW c \in Creations,
           \/ ReportNative(c) \/ ReportInput(c) \/ ReportBoth(c) \/ HostEvidence(c)
           \/ (\E gone \in BOOLEAN : StreamEnds(c, gone)) \/ OwnerEnds(c)
    PROVE  Quietly
<1> DEFINE f == OwnerFence(c)
<1>1. OtherTypes /\ NativesAreOurs
    BY InductiveParts DEF NativesConsistent
<1>2. owner[c] \in OwnerRec /\ owner = [owner EXCEPT ![c] = owner[c]]
    BY <1>1, OwnerRecord
<1>3. f.c = c /\ f.a = owner[c].a
    BY DEF OwnerFence
<1>4. owner[c].input = "taken" => owner[c].native # NoNative
    BY <1>1 DEF NativesAreOurs
<1>5. CASE ReportInput(c) \/ ReportBoth(c) \/ HostEvidence(c)
  <2>1. /\ CanBindNative(f, owner[c].native)
        /\ \/ BindNative(f, owner[c].native)
           \/ ConfirmOwnedInput(f, owner[c].native) /\ owner[c].input = "taken"
        /\ owner[c].input = "taken" \/ owner[c].native # NoNative
        /\ UNCHANGED <<current, owner, run, adopted, onDisk>>
      BY <1>5 DEF ReportInput, ReportBoth, HostEvidence, CanConfirmOwnedInput
  <2> HIDE DEF f
  <2>2. Binds(f)
      BY <1>3, <1>4, <2>1 DEF Binds
  <2> QED BY <1>2, <2>1, <2>2, OwnerQuiet DEF RowsMove
<1>6. CASE ReportNative(c)
  <2> DEFINE o == [owner[c] EXCEPT !.named = TRUE]
  <2>1. /\ CanBindNative(f, owner[c].native) /\ BindNative(f, owner[c].native)
        /\ owner[c].native # NoNative /\ owner' = [owner EXCEPT ![c] = o]
        /\ UNCHANGED <<current, run, adopted, onDisk>>
      BY <1>6 DEF ReportNative
  <2>2. o.native = owner[c].native /\ o.a = owner[c].a /\ o.input = owner[c].input
      BY <1>2 DEF OwnerRec
  <2> HIDE DEF f, o
  <2>3. Binds(f)
      BY <1>3, <2>1 DEF Binds
  <2> QED BY <2>1, <2>2, <2>3, OwnerQuiet DEF RowsMove
<1>7. ASSUME NEW gone \in BOOLEAN, StreamEnds(c, gone)
      PROVE  Quietly
  <2> DEFINE life == IF gone THEN "gone" ELSE owner[c].life
             registered == owner[c].registered /\ ~gone
             o == [owner[c] EXCEPT !.watched = FALSE, !.life = life,
                                   !.registered = registered]
  <2>1. RecordOwnerLoss(f) /\ UNCHANGED <<current, claim, native, run, adopted, onDisk>>
      BY <1>7 DEF StreamEnds
  <2>2. owner' = [owner EXCEPT ![c] = o]
      BY <1>1, <1>7 DEF StreamEnds, OtherTypes
  <2> HIDE DEF life, registered
  <2>3. o.native = owner[c].native /\ o.a = owner[c].a /\ o.input = owner[c].input
      BY <1>2 DEF OwnerRec
  <2> HIDE DEF o, f
  <2>4. RowsMove
      BY <1>3, <2>1, FailureMoves
  <2> QED BY <2>1, <2>2, <2>3, <2>4, OwnerQuiet
<1>8. CASE OwnerEnds(c)
  <2> DEFINE o == [owner[c] EXCEPT !.life = "gone", !.registered = FALSE]
  <2>1. owner' = [owner EXCEPT ![c] = o] /\ RowsMove /\ UNCHANGED <<run, adopted, onDisk>>
      BY <1>1, <1>8 DEF OwnerEnds, OtherTypes, RowsMove, RowsStill, storeVars
  <2>2. o.native = owner[c].native /\ o.a = owner[c].a /\ o.input = owner[c].input
      BY <1>2 DEF OwnerRec
  <2> HIDE DEF o
  <2> QED BY <2>1, <2>2, OwnerQuiet
<1> QED BY <1>5, <1>6, <1>7, <1>8

\* A cancellation, a crash, a startup, and steps of nobody.
LEMMA ServerQuiet ==
    ASSUME CreationConsistent, NativesConsistent,
           \/ \E k \in DOMAIN queue : Cancel(k)
           \/ Crash \/ Restart \/ CompetingStartup \/ UNCHANGED vars
    PROVE  Quietly
<1>1. OtherTypes /\ NativesAreOurs
    BY InductiveParts DEF NativesConsistent
<1>2. ASSUME UNCHANGED <<run, owner>>
      PROVE  SameOwners /\ CallsFit'
    BY <1>1, <1>2 DEF SameOwners, CallsFit, NativesAreOurs
<1>3. CASE \E k \in DOMAIN queue : Cancel(k)
  <2>1. PICK k \in DOMAIN queue : Cancel(k)
      BY <1>3
  <2>2. queue[k].c \in Creations
    <3>1. queue \in Seq(Fence) /\ k \in 1..Len(queue)
        BY <1>1, <2>1, LenProperties DEF OtherTypes
    <3>2. queue[k] \in Fence
        BY <3>1, ElementOfSeq
    <3> QED BY <3>2 DEF Fence
  <2>3. RowsMove
      BY <2>1, <2>2 DEF Cancel, RowsMove, RowsStill, Relabels
  <2> QED BY <1>2, <2>1, <2>3 DEF Cancel, Quietly
<1>4. CASE Crash
  <2>1. RowsMove /\ UNCHANGED <<adopted, onDisk>>
      BY <1>4 DEF Crash, RowsMove, RowsStill, storeVars
  <2>2. \A d \in Runs : run'[d].pc = "off"
      BY <1>4 DEF Crash, Off
  <2>3. SameOwners
    <3> SUFFICES ASSUME NEW c \in Creations
                 PROVE  /\ owner'[c].native = owner[c].native
                        /\ owner'[c].input = owner[c].input
                        /\ owner'[c].a = owner[c].a
        BY DEF SameOwners
    <3>1. owner'[c] = [owner[c] EXCEPT !.watched = FALSE, !.registered = FALSE]
        BY <1>4 DEF Crash
    <3>2. owner[c] \in OwnerRec
        BY <1>1, OwnerRecord
    <3> QED BY <3>1, <3>2 DEF OwnerRec
  <2> QED BY <2>1, <2>2, <2>3 DEF Quietly, CallsFit
<1>5. CASE Restart
  <2>1. RowsMove
      BY <1>5 DEF Restart, RowsMove, Recovers
  <2> QED BY <1>2, <1>5, <2>1 DEF Restart, Quietly
<1>6. CASE CompetingStartup
  <2>1. RowsMove
      BY <1>6 DEF CompetingStartup, RowsMove, Recovers
  <2> QED BY <1>2, <1>6, <2>1 DEF CompetingStartup, Quietly, serverVars
<1>7. CASE UNCHANGED vars
  <2>1. RowsMove
      BY <1>7 DEF vars, storeVars, RowsMove, RowsStill
  <2> QED BY <1>2, <1>7, <2>1 DEF vars, storeVars, serverVars, Quietly
<1> QED BY <1>3, <1>4, <1>5, <1>6, <1>7

-----------------------------------------------------------------------------
(* Part 4.                                                                  *)

LEMMA InitNatives == Init => NativesConsistent
<1> SUFFICES ASSUME Init PROVE NativesConsistent
    OBVIOUS
<1>1. NativesAreOurs
    BY DEF Init, StoreInit, NativesAreOurs, NoOwner, Off
<1>2. AllocationCoversDoubt
    BY DEF Init, StoreInit, AllocationCoversDoubt, NoClaim, StateOf, Effective
<1>3. EvidenceIsTrue
    BY DEF Init, StoreInit, EvidenceIsTrue, Absent
<1> QED BY <1>1, <1>2, <1>3 DEF NativesConsistent

LEMMA StepNatives ==
    ASSUME CreationConsistent, NativesConsistent, [Next]_vars
    PROVE  NativesConsistent'
<1>1. ASSUME NEW d \in Runs, RunStep(d)
      PROVE  NativesConsistent'
    BY <1>1, CallStepQuiet, LaunchQuiet, OwnedStepsQuiet, MakeCopyNatives, QuietlyKeeps
    DEF RunStep
<1>2. ASSUME NEW c \in Creations, OwnerStep(c)
      PROVE  NativesConsistent'
    BY <1>2, OwnerNamesNatives, OwnerTakesInputNatives, ReportsQuiet, QuietlyKeeps
    DEF OwnerStep
<1> QED BY <1>1, <1>2, RequestQuiet, FilesNatives, ServerQuiet, QuietlyKeeps DEF Next

\* Natives, allocations and evidence stay consistent, whatever the calls, the
\* providers, discovery and restarts do.
THEOREM NativesStayConsistent == Spec => []NativesConsistent
<1>1. Init => NativesConsistent
    BY InitNatives
<1>2. CreationConsistent /\ NativesConsistent /\ [Next]_vars => NativesConsistent'
    BY StepNatives
<1> QED BY <1>1, <1>2, CreationInvariant, PTL DEF Spec

\* A native session of ours is never published as a stranger's, and no two
\* creations are bound to one (native_session_allocations, adoptDiscovered).
THEOREM NativesAreNotStolen == Spec => []NativeBelongsToItsSession
<1>1. NativesConsistent => NativeBelongsToItsSession
  <2> SUFFICES ASSUME NativesConsistent, NEW c \in Creations
               PROVE  /\ owner[c].native # NoNative => owner[c].native \notin adopted
                      /\ native[c] # NoNative =>
                            /\ native[c] = owner[c].native
                            /\ \A d \in Creations \ {c} : native[d] # native[c]
      BY DEF NativeBelongsToItsSession
  <2> QED BY DEF NativesConsistent, NativesAreOurs
<1> QED BY <1>1, NativesStayConsistent, PTL

\* A creation's allocation is held exactly while its launch may have made a
\* native session that is not bound yet (beginDispatch takes it, bindNative and
\* markFailed let it go).
THEOREM AllocationsCoverDoubt == Spec => []AllocationCoversDoubt
<1>1. NativesConsistent => AllocationCoversDoubt
    BY DEF NativesConsistent
<1> QED BY <1>1, NativesStayConsistent, PTL

\* A delivery recorded as consumed was consumed, of that attempt and by the
\* provider the session is bound to (markConsumed and its three callers).
THEOREM EvidenceStaysTrue == Spec => []EvidenceIsTrue
<1>1. NativesConsistent => EvidenceIsTrue
    BY DEF NativesConsistent
<1> QED BY <1>1, NativesStayConsistent, PTL
=============================================================================
