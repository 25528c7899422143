----------------------- MODULE SessionCreationProofs -----------------------
(***************************************************************************)
(* Proofs about durable session creation, for any creations, calls,        *)
(* natives and bounds.  Part 1: what each store operation does to the      *)
(* rows.  Part 2: each step of the dispatch keeps the inductive invariant. *)
(* Part 3: the invariants.  Part 4: the refinement of CreationLedger.      *)
(* Part 5: proof of consumption is final.                                  *)
(***************************************************************************)
EXTENDS SessionCreation, SequenceTheorems, TLAPS

-----------------------------------------------------------------------------
(* Part 1.  The rows, and what is seen of them: Now and Home.               *)

RowsOK ==
    /\ current \in [Creations -> 0..MaxAttempts]
    /\ attempt \in [Creations -> [AttemptNos -> AttemptRec]]
    /\ OnlyRefusedAreRetried
    /\ RowsAreConsistent

\* Rewriting the current row of one creation (update).
LEMMA UpdateKeepsRows ==
    ASSUME RowsOK, NEW f, f.c \in Creations, IsCurrent(f),
           NEW s \in States \ {"absent"}, NEW dl \in Deliveries,
           NEW g \in Generations, RowConsistent(s, dl, g),
           UNCHANGED current, Update(f, s, dl, g)
    PROVE  RowsOK' /\ Now' = [Now EXCEPT ![f.c] = s] /\ Home' = Home
<1> DEFINE r == [state |-> s, delivery |-> dl, gen |-> g, pid |-> Att(f).pid]
<1>1. f.a \in AttemptNos /\ f.a = current[f.c] /\ f.a # 0
    BY StoreAssumption DEF RowsOK, IsCurrent, AttemptNos
<1>2. r \in AttemptRec
    BY <1>1 DEF RowsOK, AttemptRec, Att
<1>3. /\ attempt' \in [Creations -> [AttemptNos -> AttemptRec]]
      /\ \A c \in Creations, a \in AttemptNos :
            attempt'[c][a] = IF c = f.c /\ a = f.a THEN r ELSE attempt[c][a]
    BY <1>1, <1>2 DEF RowsOK, Update
<1>4. r.state = s /\ r.delivery = dl /\ r.gen = g /\ r.pid = attempt[f.c][f.a].pid
    BY DEF Att
<1> HIDE DEF r
<1>5. RowsAreConsistent'
    BY <1>1, <1>3, <1>4 DEF RowsOK, RowsAreConsistent
<1>6. OnlyRefusedAreRetried'
    BY <1>1, <1>3 DEF RowsOK, OnlyRefusedAreRetried, Superseded, AttemptNos
<1>7. \A c \in Creations : current[c] # 0 => current[c] \in AttemptNos
    BY StoreAssumption DEF RowsOK, AttemptNos
<1>8. Now' = [Now EXCEPT ![f.c] = s]
  <2>1. \A c \in Creations :
           StateOf(c)' = IF c = f.c THEN s ELSE StateOf(c)
      BY <1>1, <1>3, <1>4, <1>7 DEF StateOf
  <2> QED BY <2>1 DEF Now
<1>9. Home' = Home
    BY <1>1, <1>3, <1>4, <1>7 DEF Home
<1> QED BY <1>3, <1>5, <1>6, <1>8, <1>9 DEF RowsOK

\* A new attempt of a creation (admit, retry).
LEMMA InsertKeepsRows ==
    ASSUME RowsOK, NEW c \in Creations, NEW p \in Pids,
           NEW s \in Pending \cup {"failed"}, current[c] < MaxAttempts,
           current[c] # 0 => StateOf(c) = "failed" /\ DeliveryOf(c) = "not-admitted",
           Insert(c, p, s)
    PROVE  /\ RowsOK' /\ Now' = [Now EXCEPT ![c] = s]
           /\ Home' = [Home EXCEPT ![c] = p]
           /\ current' = [current EXCEPT ![c] = @ + 1]
<1> DEFINE n == current[c] + 1
           r == [state |-> s, delivery |-> "not-admitted", gen |-> 0, pid |-> p]
<1>1. n \in AttemptNos /\ current[c] \in Nat /\ n # 0
    BY StoreAssumption DEF RowsOK, AttemptNos
<1>2. r \in AttemptRec /\ p \in 0..MaxLives
    BY StoreAssumption DEF AttemptRec, Pending, States, Deliveries, Generations, Pids
<1>3. Fresh(s, p) = r
    BY DEF Fresh
<1>4. /\ attempt' \in [Creations -> [AttemptNos -> AttemptRec]]
      /\ \A d \in Creations, a \in AttemptNos :
            attempt'[d][a] = IF d = c /\ a = n THEN r ELSE attempt[d][a]
    BY <1>1, <1>2, <1>3 DEF RowsOK, Insert
<1>5. /\ current' \in [Creations -> 0..MaxAttempts]
      /\ current' = [current EXCEPT ![c] = n]
    BY <1>1 DEF RowsOK, Insert, AttemptNos
<1>6. /\ r.state = s /\ r.delivery = "not-admitted" /\ r.gen = 0 /\ r.pid = p
      /\ RowConsistent(s, "not-admitted", 0) /\ s # "absent"
    BY DEF RowConsistent, Pending, Effective
<1> HIDE DEF r, n
<1>7. RowsAreConsistent'
  <2> SUFFICES ASSUME NEW d \in Creations, NEW a \in AttemptNos
               PROVE  /\ RowConsistent(attempt'[d][a].state, attempt'[d][a].delivery,
                                       attempt'[d][a].gen)
                      /\ a = current'[d] => attempt'[d][a].state # "absent"
      BY DEF RowsAreConsistent
  <2>1. CASE d = c /\ a = n
      BY <1>4, <1>6, <2>1
  <2>2. CASE ~(d = c /\ a = n)
    <3>1. attempt'[d][a] = attempt[d][a]
        BY <1>4, <2>2
    <3>2. a = current'[d] => a = current[d]
        BY <1>5, <2>2 DEF RowsOK
    <3> QED BY <3>1, <3>2 DEF RowsOK, RowsAreConsistent
  <2> QED BY <2>1, <2>2
<1>8. OnlyRefusedAreRetried'
  <2> SUFFICES ASSUME NEW d \in Creations, NEW a \in AttemptNos, a < current'[d]
               PROVE  attempt'[d][a].state = "failed"
                      /\ attempt'[d][a].delivery = "not-admitted"
      BY DEF OnlyRefusedAreRetried, Superseded
  <2>1. a \in Nat /\ a # 0 /\ current[d] \in Nat /\ n = current[c] + 1
      BY StoreAssumption DEF RowsOK, AttemptNos, n
  <2>2. ~(d = c /\ a = n) /\ (a < current[d] \/ (d = c /\ a = current[c]))
      BY <1>1, <1>5, <2>1 DEF RowsOK
  <2>3. attempt'[d][a] = attempt[d][a]
      BY <1>4, <2>2
  <2>4. CASE a < current[d]
      BY <2>3, <2>4 DEF RowsOK, OnlyRefusedAreRetried, Superseded
  <2>5. CASE d = c /\ a = current[c]
      BY <2>1, <2>3, <2>5 DEF StateOf, DeliveryOf
  <2> QED BY <2>2, <2>4, <2>5
<1>9. \A d \in Creations : current[d] # 0 => current[d] \in AttemptNos
    BY StoreAssumption DEF RowsOK, AttemptNos
<1>10. \A d \in Creations : d # c => current'[d] = current[d]
    BY <1>5 DEF RowsOK
<1>11. current'[c] = n /\ n # 0
    BY <1>1, <1>5 DEF RowsOK
<1>12. \A d \in Creations \ {c} : current[d] # 0 =>
          attempt'[d][current[d]] = attempt[d][current[d]]
    BY <1>4, <1>9
<1>13. attempt'[c][n] = r
    BY <1>1, <1>4
<1>14. Now' = [Now EXCEPT ![c] = s]
  <2>1. StateOf(c)' = s
      BY <1>6, <1>11, <1>13 DEF StateOf
  <2>2. \A d \in Creations \ {c} : StateOf(d)' = StateOf(d)
      BY <1>10, <1>12 DEF StateOf
  <2> QED BY <2>1, <2>2 DEF Now
<1>15. Home' = [Home EXCEPT ![c] = p]
  <2>1. Home'[c] = p
      BY <1>6, <1>11, <1>13 DEF Home
  <2>2. \A d \in Creations \ {c} : Home'[d] = Home[d]
      BY <1>10, <1>12 DEF Home
  <2> QED BY <2>1, <2>2 DEF Home
<1>16. current' = [current EXCEPT ![c] = @ + 1]
    BY DEF Insert
<1> QED BY <1>4, <1>5, <1>7, <1>8, <1>14, <1>15, <1>16 DEF RowsOK

\* Startup recovery refuses what waited and doubts what was dispatched, for
\* servers that are not alive (recoverOwnerLoss).
LEMMA RecoveryKeepsRows ==
    ASSUME RowsOK, NEW alive, UNCHANGED current, RecoverOwnerLoss(alive)
    PROVE  /\ RowsOK' /\ Home' = Home
           /\ \A c \in Creations :
                 \/ Now'[c] = Now[c]
                 \/ /\ Home[c] \notin alive
                    /\ \/ Now[c] \in Pending /\ Now'[c] = "failed"
                       \/ Now[c] \in Effective /\ Now'[c] = "uncertain"
<1> DEFINE new(c, a) == Recovered(c, a, alive)
<1>1. \A c \in Creations, a \in AttemptNos :
        /\ new(c, a) \in AttemptRec
        /\ new(c, a).pid = attempt[c][a].pid
        /\ a # current[c] => new(c, a) = attempt[c][a]
        /\ RowConsistent(new(c, a).state, new(c, a).delivery, new(c, a).gen)
        /\ attempt[c][a].state # "absent" => new(c, a).state # "absent"
        /\ \/ new(c, a).state = attempt[c][a].state
           \/ /\ attempt[c][a].pid \notin alive
              /\ \/ attempt[c][a].state \in Pending /\ new(c, a).state = "failed"
                 \/ attempt[c][a].state \in Effective /\ new(c, a).state = "uncertain"
  <2> SUFFICES ASSUME NEW c \in Creations, NEW a \in AttemptNos
               PROVE  /\ new(c, a) \in AttemptRec
                      /\ new(c, a).pid = attempt[c][a].pid
                      /\ a # current[c] => new(c, a) = attempt[c][a]
                      /\ RowConsistent(new(c, a).state, new(c, a).delivery, new(c, a).gen)
                      /\ attempt[c][a].state # "absent" => new(c, a).state # "absent"
                      /\ \/ new(c, a).state = attempt[c][a].state
                         \/ /\ attempt[c][a].pid \notin alive
                            /\ \/ attempt[c][a].state \in Pending /\ new(c, a).state = "failed"
                               \/ /\ attempt[c][a].state \in Effective
                                  /\ new(c, a).state = "uncertain"
      OBVIOUS
  <2> DEFINE r == attempt[c][a]
             settled == \/ r.delivery = "consumed"
                        \/ Intent[c] # "input" /\ r.state = "bound"
  <2>1. r \in AttemptRec /\ RowConsistent(r.state, r.delivery, r.gen)
      BY DEF RowsOK, RowsAreConsistent
  <2>2. new(c, a) = IF a # current[c] \/ r.pid \in alive THEN r
                    ELSE IF r.state \in Pending THEN [r EXCEPT !.state = "failed"]
                    ELSE IF r.state \in {"dispatching", "bound"} /\ ~settled
                         THEN [r EXCEPT !.state = "uncertain", !.delivery = "uncertain"]
                    ELSE r
      BY DEF Recovered
  <2> HIDE DEF r, settled, new
  <2>3. CASE new(c, a) = r
      BY <2>1, <2>3 DEF r
  <2>4. CASE /\ ~(a # current[c] \/ r.pid \in alive)
             /\ r.state \in Pending /\ new(c, a) = [r EXCEPT !.state = "failed"]
    <3>1. new(c, a) = [state |-> "failed", delivery |-> r.delivery, gen |-> r.gen,
                       pid |-> r.pid]
        BY <2>1, <2>4 DEF AttemptRec
    <3> QED BY <2>1, <2>4, <3>1 DEF AttemptRec, RowConsistent, Pending, Effective,
                                     States, r
  <2>5. CASE /\ ~(a # current[c] \/ r.pid \in alive)
             /\ r.state \in {"dispatching", "bound"}
             /\ new(c, a) = [r EXCEPT !.state = "uncertain", !.delivery = "uncertain"]
    <3>1. new(c, a) = [state |-> "uncertain", delivery |-> "uncertain", gen |-> r.gen,
                       pid |-> r.pid]
        BY <2>1, <2>5 DEF AttemptRec
    <3> QED BY <2>1, <2>5, <3>1 DEF AttemptRec, RowConsistent, Pending, Effective,
                                     States, Deliveries, r
  <2> QED BY <2>2, <2>3, <2>4, <2>5
<1> HIDE DEF new
<1>2. \A c \in Creations, a \in AttemptNos : attempt'[c][a] = new(c, a)
    BY DEF RecoverOwnerLoss, new
<1>3. attempt' \in [Creations -> [AttemptNos -> AttemptRec]]
  <2>1. attempt' = [c \in Creations |-> [a \in AttemptNos |-> new(c, a)]]
      BY DEF RecoverOwnerLoss, new
  <2> QED BY <1>1, <2>1
<1>4. RowsAreConsistent'
    BY <1>1, <1>2 DEF RowsOK, RowsAreConsistent
<1>5. OnlyRefusedAreRetried'
  <2>1. \A c \in Creations, a \in AttemptNos : a < current[c] => a # current[c]
      BY StoreAssumption DEF RowsOK, AttemptNos
  <2> QED BY <1>1, <1>2, <2>1 DEF RowsOK, OnlyRefusedAreRetried, Superseded
<1>6. \A c \in Creations : current[c] # 0 => current[c] \in AttemptNos
    BY StoreAssumption DEF RowsOK, AttemptNos
<1>7. Home' = Home
    BY <1>1, <1>2, <1>6 DEF Home
<1>8. ASSUME NEW c \in Creations
      PROVE  \/ StateOf(c)' = StateOf(c)
             \/ /\ Home[c] \notin alive
                /\ \/ StateOf(c) \in Pending /\ StateOf(c)' = "failed"
                   \/ StateOf(c) \in Effective /\ StateOf(c)' = "uncertain"
  <2>1. CASE current[c] = 0
      BY <2>1 DEF StateOf
  <2>2. CASE current[c] # 0
      BY <1>1, <1>2, <1>6, <2>2 DEF StateOf, Home
  <2> QED BY <2>1, <2>2
<1> QED BY <1>3, <1>4, <1>5, <1>7, <1>8 DEF RowsOK, Now

\* A call or callback whose fence f names the current attempt finds its state
\* in before and leaves one of after.
Sees(f, before, after) ==
    /\ f.a = current[f.c] /\ f.a # 0
    /\ Now[f.c] \in before
    /\ \E s \in after : Now' = [Now EXCEPT ![f.c] = s]

\* What a fence that passes assertCurrent knows of the row.
LEMMA CurrentFence ==
    ASSUME RowsOK, NEW f, f.c \in Creations, IsCurrent(f)
    PROVE  /\ f.a \in AttemptNos /\ f.a = current[f.c] /\ f.a # 0
           /\ Att(f) \in AttemptRec /\ Now[f.c] = Att(f).state
           /\ f.g = Att(f).gen
           /\ RowConsistent(Att(f).state, Att(f).delivery, f.g)
<1>1. f.a \in AttemptNos /\ f.a = current[f.c] /\ f.a # 0 /\ f.g = Att(f).gen
    BY StoreAssumption DEF RowsOK, IsCurrent, AttemptNos
<1>2. Att(f) \in AttemptRec /\ RowConsistent(Att(f).state, Att(f).delivery, f.g)
    BY <1>1 DEF RowsOK, RowsAreConsistent, Att
<1>3. Now[f.c] = Att(f).state
    BY <1>1 DEF Now, StateOf, Att
<1> QED BY <1>1, <1>2, <1>3

\* Refusing an attempt that waits.
LEMMA RefusalKeepsRows ==
    ASSUME RowsOK, NEW f, f.c \in Creations, UNCHANGED current,
           CanFailBeforeEffects(f), FailBeforeEffects(f)
    PROVE  /\ RowsOK' /\ Home' = Home
           /\ f.g = 0 /\ Sees(f, Pending, {"failed"})
<1>1. IsCurrent(f) /\ Att(f).state \in Pending
    BY DEF CanFailBeforeEffects
<1>2. /\ f.a = current[f.c] /\ f.a # 0 /\ Now[f.c] = Att(f).state
      /\ RowConsistent(Att(f).state, Att(f).delivery, f.g)
    BY <1>1, CurrentFence
<1>3. f.g = 0
    BY <1>1, <1>2 DEF RowConsistent
<1>4. RowConsistent("failed", "not-admitted", 0)
    BY DEF RowConsistent, Pending, Effective
<1>5. Update(f, "failed", "not-admitted", 0)
    BY <1>3 DEF FailBeforeEffects
<1>6. /\ "failed" \in States \ {"absent"} /\ "not-admitted" \in Deliveries
      /\ 0 \in Generations
    BY DEF States, Deliveries, Generations
<1>7. RowsOK' /\ Now' = [Now EXCEPT ![f.c] = "failed"] /\ Home' = Home
    BY <1>1, <1>4, <1>5, <1>6, UpdateKeepsRows
<1> QED BY <1>1, <1>2, <1>3, <1>7 DEF Sees

\* An attempt that waits is queued or refused; one that was dispatched without
\* effect is refused after all.
Waited(f) == f.g = 0 /\ Sees(f, Pending, {"queued", "failed"})
Withdrawn(f) == f.g = 1 /\ Sees(f, {"dispatching"}, {"failed"}) /\ launches[f.c] = 0

\* What RecordOwnerLoss and RecordFailure may do.
Kept(f) == f.g = 1 /\ Sees(f, Effective, {"bound", "uncertain"})
Refused(f) == f.g = 0 /\ Sees(f, Pending, {"failed"})
\* A refusal is one way to stop waiting.
LEMMA RefusedWaited ==
    ASSUME NEW f, Refused(f)
    PROVE  Waited(f)
BY DEF Refused, Waited, Sees

\* Recording the loss of an owner leaves the row or doubts it.
LEMMA OwnerLossKeepsRows ==
    ASSUME RowsOK, NEW f, f.c \in Creations, UNCHANGED current, RecordOwnerLoss(f)
    PROVE  RowsOK' /\ Home' = Home /\ (Now' = Now \/ Kept(f))
<1>1. CASE ~OwnerLossMatters(f)
  <2>1. UNCHANGED <<current, attempt>>
      BY <1>1 DEF RecordOwnerLoss
  <2> QED BY <2>1 DEF RowsOK, OnlyRefusedAreRetried, Superseded, RowsAreConsistent,
                      Home, Now, StateOf
<1>2. CASE OwnerLossMatters(f)
  <2>1. IsCurrent(f) /\ Att(f).state \in {"dispatching", "bound"}
      BY <1>2 DEF OwnerLossMatters
  <2>2. /\ f.a = current[f.c] /\ f.a # 0 /\ Now[f.c] = Att(f).state
        /\ RowConsistent(Att(f).state, Att(f).delivery, f.g)
      BY <2>1, CurrentFence
  <2>3. f.g = 1
      BY <2>1, <2>2 DEF RowConsistent, Effective
  <2>4. RowConsistent("uncertain", "uncertain", 1)
      BY DEF RowConsistent, Pending, Effective
  <2>5. Update(f, "uncertain", "uncertain", 1)
      BY <1>2, <2>3 DEF RecordOwnerLoss, MarkUncertain
  <2>6. "uncertain" \in States \ {"absent"} /\ "uncertain" \in Deliveries /\ 1 \in Generations
      BY DEF States, Deliveries, Generations
  <2>7. RowsOK' /\ Now' = [Now EXCEPT ![f.c] = "uncertain"] /\ Home' = Home
      BY <2>1, <2>4, <2>5, <2>6, UpdateKeepsRows
  <2> QED BY <2>1, <2>2, <2>3, <2>7 DEF Kept, Sees, Effective
<1> QED BY <1>1, <1>2

\* Recording a failure leaves the row, refuses it or doubts it.
LEMMA FailureKeepsRows ==
    ASSUME RowsOK, NEW f, f.c \in Creations, UNCHANGED current, RecordFailure(f)
    PROVE  RowsOK' /\ Home' = Home /\ (Now' = Now \/ Kept(f) \/ Refused(f))
<1>1. CASE CanFailBeforeEffects(f)
    BY <1>1, RefusalKeepsRows DEF RecordFailure, Refused
<1>2. CASE ~CanFailBeforeEffects(f)
    BY <1>2, OwnerLossKeepsRows DEF RecordFailure
<1> QED BY <1>1, <1>2

\* A native binding, or proof that the message was taken, keeps an attempt
\* among those that may have had an effect.
LEMMA BindingKeepsRows ==
    ASSUME RowsOK, claim \in [Creations -> [a : 0..MaxAttempts, g : Generations]],
           native \in [Creations -> Natives \cup {NoNative}],
           NEW f, f.c \in Creations, NEW n \in Natives \cup {NoNative},
           UNCHANGED current,
           CanBindNative(f, n), BindNative(f, n) \/ ConfirmOwnedInput(f, n)
    PROVE  /\ RowsOK' /\ Home' = Home
           /\ Kept(f)
           /\ claim' \in [Creations -> [a : 0..MaxAttempts, g : Generations]]
           /\ native' \in [Creations -> Natives \cup {NoNative}]
<1>1. IsCurrent(f) /\ Att(f).state \in Effective
    BY DEF CanBindNative
<1>2. /\ f.a = current[f.c] /\ f.a # 0 /\ Now[f.c] = Att(f).state
      /\ Att(f) \in AttemptRec
      /\ RowConsistent(Att(f).state, Att(f).delivery, f.g)
    BY <1>1, CurrentFence
<1>3. f.g = 1
    BY <1>1, <1>2 DEF RowConsistent
<1>4. ASSUME NEW s \in {"bound", "uncertain"}, NEW dl \in Deliveries,
             RowConsistent(s, dl, 1), Update(f, s, dl, f.g)
      PROVE  RowsOK' /\ Home' = Home /\ Sees(f, Effective, {"bound", "uncertain"})
  <2>1. s \in States \ {"absent"} /\ 1 \in Generations /\ Update(f, s, dl, 1)
      BY <1>3, <1>4 DEF States, Generations
  <2>2. RowsOK' /\ Now' = [Now EXCEPT ![f.c] = s] /\ Home' = Home
      BY <1>1, <1>4, <2>1, UpdateKeepsRows
  <2> QED BY <1>1, <1>2, <2>2 DEF Sees
<1>5. ASSUME BindNative(f, n)
      PROVE  RowsOK' /\ Home' = Home /\ Sees(f, Effective, {"bound", "uncertain"})
  <2> DEFINE s == IF Att(f).state = "uncertain" THEN "uncertain" ELSE "bound"
  <2>1. s \in {"bound", "uncertain"} /\ Att(f).delivery \in Deliveries
      BY <1>2 DEF AttemptRec
  <2>2. RowConsistent(s, Att(f).delivery, 1)
      BY <1>1, <1>2, <1>3 DEF RowConsistent, Pending, Effective
  <2>3. Update(f, s, Att(f).delivery, f.g)
      BY <1>5 DEF BindNative
  <2> HIDE DEF s
  <2> QED BY <1>4, <2>1, <2>2, <2>3
<1>6. ASSUME ConfirmOwnedInput(f, n)
      PROVE  RowsOK' /\ Home' = Home /\ Sees(f, Effective, {"bound", "uncertain"})
  <2>1. RowConsistent("bound", "consumed", 1) /\ "consumed" \in Deliveries
      BY DEF RowConsistent, Pending, Effective, Deliveries
  <2> QED BY <1>4, <1>6, <2>1 DEF ConfirmOwnedInput
<1>7. ApplyNativeBinding(f, n)
    BY DEF BindNative, ConfirmOwnedInput
<1>8. NoClaim \in [a : 0..MaxAttempts, g : Generations]
    BY StoreAssumption DEF NoClaim, Generations
<1>9. /\ claim' \in [Creations -> [a : 0..MaxAttempts, g : Generations]]
      /\ native' \in [Creations -> Natives \cup {NoNative}]
    BY <1>7, <1>8 DEF ApplyNativeBinding
<1> QED BY <1>3, <1>5, <1>6, <1>9 DEF Kept

-----------------------------------------------------------------------------
(* Part 2.  The server: calls, queue and owners.  Of the rows it needs only  *)
(* Now and Home.                                                            *)

OtherTypes ==
    /\ claim \in [Creations -> [a : 0..MaxAttempts, g : Generations]]
    /\ native \in [Creations -> Natives \cup {NoNative}]
    /\ adopted \subseteq Natives
    /\ answered \in [Creations -> [RetryKeys -> 0..MaxAttempts]]
    /\ up \in BOOLEAN
    /\ pid \in Pids
    /\ run \in [Runs -> RunRec]
    /\ queue \in Seq(Fence)
    /\ owner \in [Creations -> OwnerRec]
    /\ onDisk \subseteq Natives
    /\ launches \in [Creations -> Nat]

ServerInv ==
    /\ RunsHoldTheirFence
    /\ OneDispatcher
    /\ WorkIsThisServers
    /\ OwnersAreLaunched

\* The invariant, taken apart into rows, types and server.
LEMMA InductiveParts == CreationConsistent <=> RowsOK /\ OtherTypes /\ ServerInv
BY DEF CreationConsistent, TypeOK, StoreTypeOK, RowsOK, OtherTypes, ServerInv

\* And put together again after a step.
LEMMA InductivePartsNext ==
    RowsOK' /\ OtherTypes' /\ ServerInv' => CreationConsistent'
BY DEF CreationConsistent, TypeOK, StoreTypeOK, RowsOK, OtherTypes, ServerInv

\* A queue entry fit to be promoted.
Waiting(q) == q.a <= current[q.c] /\ q.g = 0 /\ Home[q.c] = pid

\* The current states are states.
LEMMA NowTypes == RowsOK => Now \in [Creations -> States]
BY StoreAssumption DEF Now, StateOf, RowsOK, AttemptRec, States, AttemptNos

\* Calls end, and the state of one attempt changes that no other call has
\* dispatched.
LEMMA ChangeKeepsServer ==
    ASSUME RowsOK, OtherTypes, ServerInv, up, UNCHANGED <<current, up, pid, launches>>,
           Home' = Home,
           \A e \in Runs : run'[e] = run[e] \/ run'[e] = Off,
           NEW f, f.c \in Creations,
           \/ Now' = Now
           \/ Waited(f)
           \/ /\ Kept(f) \/ Withdrawn(f)
              /\ \A e \in Runs : run[e].pc \in Dispatched /\ run[e].c = f.c =>
                                    run'[e] = Off,
           \A k \in DOMAIN queue' :
              Waiting(queue'[k]) \/ \E j \in DOMAIN queue : queue'[k] = queue[j],
           \A c \in Creations : launches[c] = 0 => owner'[c] = owner[c]
    PROVE  ServerInv'
<1> USE DEF OtherTypes, ServerInv
<1>1. Now \in [Creations -> States]
    BY NowTypes
<1>2. ASSUME NEW c \in Creations
      PROVE  \/ Now'[c] = Now[c]
             \/ c = f.c /\ Now[c] \in Pending /\ Now'[c] \notin Effective
             \/ /\ c = f.c /\ Now[c] \in Effective
                /\ \A e \in Runs : run[e].pc \in Dispatched /\ run[e].c = c =>
                                      run'[e] = Off
                /\ Now'[c] \in Effective \/ launches[c] = 0
  <2>1. CASE Now' = Now
      BY <2>1
  <2>2. CASE Waited(f)
      BY <1>1, <2>2 DEF Waited, Sees, Effective
  <2>3. CASE Kept(f) /\ \A e \in Runs : run[e].pc \in Dispatched /\ run[e].c = f.c =>
                                        run'[e] = Off
      BY <1>1, <2>3 DEF Kept, Sees, Effective
  <2>4. CASE Withdrawn(f) /\ \A e \in Runs : run[e].pc \in Dispatched /\ run[e].c = f.c =>
                                        run'[e] = Off
      BY <1>1, <2>4 DEF Withdrawn, Sees, Effective
  <2> QED BY <2>1, <2>2, <2>3, <2>4
<1>3. /\ BeforeEffect \subseteq Dispatched /\ AfterEffect \subseteq Dispatched
      /\ Off.pc = "off" /\ "off" \notin Dispatched
    BY DEF Dispatched, BeforeEffect, AfterEffect, Off
<1>4. RunsHoldTheirFence'
  <2> SUFFICES ASSUME NEW e \in Runs, run'[e] = run[e], run[e].pc # "off"
               PROVE  /\ run[e].pc # "off" => run[e].c \in Creations
                      /\ run[e].pc \notin {"off", "submitting"} =>
                            run[e].a \in 1..current[run[e].c]
                      /\ run[e].pc = "preflight" => run[e].g = 0
                      /\ run[e].pc \in Dispatched =>
                            /\ run[e].a = current[run[e].c] /\ run[e].g = 1
                            /\ Now'[run[e].c] \in Effective
                      /\ run[e].pc \in BeforeEffect =>
                            launches[run[e].c] = 0 /\ Now'[run[e].c] = "dispatching"
                      /\ run[e].pc \in AfterEffect => launches[run[e].c] = 1
    <3>1. \A e \in Runs : run'[e].pc # "off" => run'[e] = run[e] /\ run[e].pc # "off"
        BY <1>3
    <3>2. \A e \in Runs : run'[e].pc = "off" =>
              run'[e].pc \notin Dispatched /\ run'[e].pc # "preflight"
              /\ run'[e].pc \notin BeforeEffect /\ run'[e].pc \notin AfterEffect
        BY <1>3
    <3> QED BY <3>1, <3>2 DEF RunsHoldTheirFence
  <2>1. CASE run[e].pc \notin Dispatched
      BY <1>3, <2>1 DEF RunsHoldTheirFence
  <2>2. CASE run[e].pc \in Dispatched
    <3>1. run[e].c \in Creations /\ Now[run[e].c] \in Effective
        BY <2>2 DEF RunsHoldTheirFence
    <3>2. Now'[run[e].c] = Now[run[e].c]
        BY <1>2, <1>3, <2>2, <3>1 DEF Pending, Effective
    <3> QED BY <3>2 DEF RunsHoldTheirFence
  <2> QED BY <2>1, <2>2
<1>5. OneDispatcher'
  <2>1. \A e \in Runs : run'[e].pc \in Dispatched => run'[e] = run[e]
      BY <1>3
  <2> QED BY <2>1 DEF OneDispatcher
<1>6. WorkIsThisServers'
  <2>1. \A k \in DOMAIN queue' :
            /\ queue'[k].a <= current[queue'[k].c] /\ queue'[k].g = 0
            /\ Home[queue'[k].c] = pid
      BY DEF WorkIsThisServers, Waiting
  <2>2. \A e \in Runs : run'[e].pc # "off" /\ current[run'[e].c] # 0 =>
            Home[run'[e].c] = pid
      BY <1>3 DEF WorkIsThisServers
  <2> QED BY <2>1, <2>2 DEF WorkIsThisServers
<1>7. OwnersAreLaunched'
  <2>1. \A c \in Creations : \/ Now'[c] = Now[c] \/ Now[c] \in Pending
                                \/ Now'[c] \in Effective \/ launches[c] = 0
      BY <1>2
  <2>2. ASSUME NEW c \in Creations, launches[c] = 1
        PROVE  Now'[c] \in Effective
    <3>1. Now[c] \in Effective
        BY <2>2 DEF OwnersAreLaunched
    <3>2. Now[c] \notin Pending
        BY <3>1 DEF Pending, Effective
    <3>3. launches[c] # 0
        BY <2>2
    <3> QED BY <2>1, <3>1, <3>2, <3>3
  <2> QED BY <2>2 DEF OwnersAreLaunched
<1> QED BY <1>4, <1>5, <1>6, <1>7

\* A call ends; its attempt stays, is refused or may have had its effect.
LEMMA EndKeepsServer ==
    ASSUME RowsOK, OtherTypes, ServerInv, NEW d \in Runs, run[d].pc # "off",
           UNCHANGED <<current, up, pid, launches>>, Home' = Home, End(d),
           \/ Now' = Now
           \/ Waited(run[d])
           \/ /\ Kept(run[d]) \/ Withdrawn(run[d])
              /\ run[d].pc \in Dispatched \cup {"preflight"},
           \A k \in DOMAIN queue' :
              Waiting(queue'[k]) \/ \E j \in DOMAIN queue : queue'[k] = queue[j],
           \A c \in Creations : launches[c] = 0 => owner'[c] = owner[c]
    PROVE  ServerInv'
<1>1. up /\ run[d].c \in Creations
    BY DEF ServerInv, WorkIsThisServers, RunsHoldTheirFence
<1>2. run'[d] = Off /\ \A e \in Runs : run'[e] = run[e] \/ run'[e] = Off
    BY DEF End, OtherTypes
<1>3. run[d].g = 1 /\ run[d].pc \in Dispatched \cup {"preflight"} =>
        \A e \in Runs : run[e].pc \in Dispatched /\ run[e].c = run[d].c => run'[e] = Off
  <2> SUFFICES ASSUME run[d].g = 1, run[d].pc \in Dispatched \cup {"preflight"},
                      NEW e \in Runs, run[e].pc \in Dispatched, run[e].c = run[d].c
               PROVE  run'[e] = Off
      OBVIOUS
  <2>1. run[d].pc \in Dispatched
      BY DEF ServerInv, RunsHoldTheirFence
  <2>2. e = d
      BY <2>1 DEF ServerInv, OneDispatcher
  <2> QED BY <1>2, <2>2
<1>4. \/ Now' = Now
      \/ Waited(run[d])
      \/ /\ Kept(run[d]) \/ Withdrawn(run[d])
         /\ \A e \in Runs : run[e].pc \in Dispatched /\ run[e].c = run[d].c =>
                               run'[e] = Off
    BY <1>3 DEF Kept, Withdrawn
<1> QED BY <1>1, <1>2, <1>4, ChangeKeepsServer

\* What the owner of a launched creation does, or is told of it.
LEMMA OwnerKeepsServer ==
    ASSUME RowsOK, OtherTypes, ServerInv, NEW c \in Creations, owner[c] # NoOwner,
           UNCHANGED <<current, up, pid, queue, launches, run>>, Home' = Home,
           Now' = Now \/ Sees(OwnerFence(c), Effective, Effective),
           \A e \in Creations \ {c} : owner'[e] = owner[e]
    PROVE  ServerInv'
<1> USE DEF OtherTypes, ServerInv
<1>1. launches[c] = 1
    BY DEF OwnersAreLaunched
<1>2. Now \in [Creations -> States]
    BY NowTypes
<1>3. \A e \in Creations :
          Now'[e] = Now[e] \/ (e = c /\ Now[e] \in Effective /\ Now'[e] \in Effective)
    BY <1>2 DEF Sees, OwnerFence
<1>4. RunsHoldTheirFence'
    BY <1>1, <1>3 DEF RunsHoldTheirFence, Dispatched, BeforeEffect, AfterEffect
<1>5. OneDispatcher'
    BY DEF OneDispatcher
<1>6. WorkIsThisServers'
    BY DEF WorkIsThisServers
<1>7. OwnersAreLaunched'
    BY <1>1, <1>3 DEF OwnersAreLaunched
<1> QED BY <1>4, <1>5, <1>6, <1>7

\* A call moves on, or begins, over unchanged rows: a call past its dispatch
\* was past it before, and only such a call has the one effect.
LEMMA MoveKeepsServer ==
    ASSUME RowsOK, OtherTypes, ServerInv, NEW d \in Runs, NEW r \in RunRec,
           run' = [run EXCEPT ![d] = r], up,
           UNCHANGED <<current, up, pid>>, Home' = Home, Now' = Now,
           \A k \in DOMAIN queue' : \E j \in DOMAIN queue : queue'[k] = queue[j],
           r.pc # "off" => /\ r.c \in Creations
                           /\ current[r.c] # 0 => Home[r.c] = pid,
           r.pc \notin {"off", "submitting"} => r.a \in 1..current[r.c],
           r.pc = "preflight" => r.g = 0,
           r.pc \in Dispatched => /\ run[d].pc \in Dispatched
                                  /\ r.c = run[d].c /\ r.a = run[d].a /\ r.g = run[d].g,
           r.pc \in BeforeEffect => run[d].pc \in BeforeEffect,
           \/ launches' = launches /\ (r.pc \in AfterEffect => run[d].pc \in AfterEffect)
           \/ /\ run[d].pc \in BeforeEffect /\ r.pc \in AfterEffect
              /\ launches' = [launches EXCEPT ![r.c] = @ + 1],
           \A c \in Creations : launches'[c] = 0 => owner'[c] = owner[c]
    PROVE  ServerInv'
<1> USE DEF OtherTypes, ServerInv
<1>1. run'[d] = r /\ \A e \in Runs : e # d => run'[e] = run[e]
    OBVIOUS
<1>2. BeforeEffect \subseteq Dispatched /\ AfterEffect \subseteq Dispatched
      /\ BeforeEffect \cap AfterEffect = {} /\ "off" \notin Dispatched
      /\ "submitting" \notin Dispatched /\ "preflight" \notin Dispatched
    BY DEF Dispatched, BeforeEffect, AfterEffect
<1>3. OneDispatcher'
    BY <1>1 DEF OneDispatcher
<1>4. CASE launches' = launches /\ (r.pc \in AfterEffect => run[d].pc \in AfterEffect)
  <2>1. RunsHoldTheirFence'
    <3>1. \A e \in Runs : e # d => 
              /\ run'[e].pc # "off" => run'[e].c \in Creations
              /\ run'[e].pc \notin {"off", "submitting"} =>
                    run'[e].a \in 1..current[run'[e].c]
              /\ run'[e].pc = "preflight" => run'[e].g = 0
              /\ run'[e].pc \in Dispatched =>
                    /\ run'[e].a = current[run'[e].c] /\ run'[e].g = 1
                    /\ Now'[run'[e].c] \in Effective
              /\ run'[e].pc \in BeforeEffect =>
                    launches'[run'[e].c] = 0 /\ Now'[run'[e].c] = "dispatching"
              /\ run'[e].pc \in AfterEffect => launches'[run'[e].c] = 1
        BY <1>1, <1>4 DEF RunsHoldTheirFence
    <3>2. /\ r.pc \in Dispatched =>
                /\ r.a = current[r.c] /\ r.g = 1
                /\ Now'[r.c] \in Effective
          /\ r.pc \in BeforeEffect =>
                launches'[r.c] = 0 /\ Now'[r.c] = "dispatching"
          /\ r.pc \in AfterEffect => launches'[r.c] = 1
        BY <1>2, <1>4 DEF RunsHoldTheirFence
    <3> QED BY <1>1, <3>1, <3>2 DEF RunsHoldTheirFence
  <2>2. OwnersAreLaunched'
      BY <1>4 DEF OwnersAreLaunched
  <2>3. WorkIsThisServers'
      BY <1>1 DEF WorkIsThisServers
  <2> QED BY <1>3, <2>1, <2>2, <2>3
<1>5. CASE /\ run[d].pc \in BeforeEffect /\ r.pc \in AfterEffect
           /\ launches' = [launches EXCEPT ![r.c] = @ + 1]
  <2>1. r.c \in Creations /\ r.c = run[d].c /\ launches[r.c] = 0 /\ launches'[r.c] = 1
        /\ \A c \in Creations : c # r.c => launches'[c] = launches[c]
      BY <1>2, <1>5 DEF RunsHoldTheirFence
  <2>2. \A e \in Runs : e # d /\ run[e].pc \in Dispatched => run[e].c # r.c
      BY <1>2, <1>5, <2>1 DEF OneDispatcher
  <2>3. RunsHoldTheirFence'
    <3>1. \A e \in Runs : e # d => 
              /\ run'[e].pc # "off" => run'[e].c \in Creations
              /\ run'[e].pc \notin {"off", "submitting"} =>
                    run'[e].a \in 1..current[run'[e].c]
              /\ run'[e].pc = "preflight" => run'[e].g = 0
              /\ run'[e].pc \in Dispatched =>
                    /\ run'[e].a = current[run'[e].c] /\ run'[e].g = 1
                    /\ Now'[run'[e].c] \in Effective
        BY <1>1 DEF RunsHoldTheirFence
    <3>2. \A e \in Runs : e # d => 
              /\ run'[e].pc \in BeforeEffect =>
                    launches'[run'[e].c] = 0 /\ Now'[run'[e].c] = "dispatching"
              /\ run'[e].pc \in AfterEffect => launches'[run'[e].c] = 1
        BY <1>1, <1>2, <2>1, <2>2, <3>1 DEF RunsHoldTheirFence
    <3>3. /\ r.a = current[r.c] /\ r.g = 1 /\ Now'[r.c] \in Effective
          /\ launches'[r.c] = 1 /\ r.pc \notin BeforeEffect
        BY <1>2, <1>5, <2>1 DEF RunsHoldTheirFence
    <3> QED BY <1>1, <1>2, <3>1, <3>2, <3>3 DEF RunsHoldTheirFence
  <2>4. OwnersAreLaunched'
    <3>1. Now[r.c] \in Effective
        BY <1>2, <1>5, <2>1 DEF RunsHoldTheirFence
    <3> QED BY <2>1, <3>1 DEF OwnersAreLaunched
  <2>5. WorkIsThisServers'
      BY <1>1 DEF WorkIsThisServers
  <2> QED BY <1>3, <2>3, <2>4, <2>5
<1> QED BY <1>4, <1>5

\* Steps that touch no row leave all that is seen of them.
LEMMA RowsFrame ==
    ASSUME RowsOK, UNCHANGED <<current, attempt>>
    PROVE  RowsOK' /\ Now' = Now /\ Home' = Home
BY DEF RowsOK, OnlyRefusedAreRetried, Superseded, RowsAreConsistent, Now, StateOf, Home

\* A call's record and the fence it carries.
LEMMA RunFence ==
    ASSUME OtherTypes, ServerInv, NEW d \in Runs, run[d].pc # "off"
    PROVE  run[d] \in RunRec /\ run[d].c \in Creations
BY DEF OtherTypes, ServerInv, RunsHoldTheirFence

\* What a step to another pc keeps of a call's record.
LEMMA BecomeRecord ==
    ASSUME OtherTypes, NEW d \in Runs, NEW pc \in Pcs
    PROVE  /\ [run[d] EXCEPT !.pc = pc] \in RunRec
           /\ [run[d] EXCEPT !.pc = pc].pc = pc
           /\ [run[d] EXCEPT !.pc = pc].c = run[d].c
           /\ [run[d] EXCEPT !.pc = pc].a = run[d].a
           /\ [run[d] EXCEPT !.pc = pc].g = run[d].g
           /\ [run EXCEPT ![d].pc = pc] = [run EXCEPT ![d] = [run[d] EXCEPT !.pc = pc]]
BY DEF OtherTypes, RunRec

\* A call's new record keeps the type of the calls.
LEMMA RunTypes ==
    ASSUME OtherTypes, NEW d \in Runs, NEW r \in RunRec \cup {Off},
           run' = [run EXCEPT ![d] = r]
    PROVE  run' \in [Runs -> RunRec]
<1>1. Off \in RunRec
    BY StoreAssumption DEF Off, RunRec, Pcs, Generations
<1> QED BY <1>1 DEF OtherTypes

\* An owner's record stays one when a field of it changes.
LEMMA OwnerFields ==
    ASSUME NEW o \in OwnerRec, NEW life \in {"none", "live", "gone"},
           NEW n \in Natives \cup {NoNative},
           NEW input \in {"none", "offered", "taken"}, NEW b \in BOOLEAN
    PROVE  /\ [o EXCEPT !.life = life] \in OwnerRec
           /\ [o EXCEPT !.native = n] \in OwnerRec
           /\ [o EXCEPT !.input = input] \in OwnerRec
           /\ [o EXCEPT !.named = b] \in OwnerRec
           /\ [o EXCEPT !.watched = b] \in OwnerRec
           /\ [o EXCEPT !.registered = b] \in OwnerRec
BY DEF OwnerRec

\* An owner's new record keeps the type of the owners.
LEMMA OwnerTypes ==
    ASSUME OtherTypes, NEW c \in Creations, NEW o \in OwnerRec,
           owner' = [owner EXCEPT ![c] = o]
    PROVE  /\ owner' \in [Creations -> OwnerRec]
           /\ \A e \in Creations \ {c} : owner'[e] = owner[e]
BY DEF OtherTypes

-----------------------------------------------------------------------------
(* Calls that end.                                                          *)

\* A call that finds nothing to start ends.
LEMMA JoinsAnotherKeeps ==
    ASSUME CreationConsistent, NEW d \in Runs, JoinsAnother(d)
    PROVE  CreationConsistent'
<1>1. RowsOK /\ OtherTypes /\ ServerInv
    BY InductiveParts
<1>2. RowsOK' /\ Now' = Now /\ Home' = Home
    BY <1>1, RowsFrame DEF JoinsAnother, storeVars
<1>3. ServerInv'
    BY <1>1, <1>2, EndKeepsServer DEF JoinsAnother, storeVars
<1>4. OtherTypes'
    BY <1>1, RunTypes DEF JoinsAnother, storeVars, OtherTypes, End
<1> QED BY <1>2, <1>3, <1>4, InductivePartsNext

\* An acceptance that fails refuses what still waits.
LEMMA AcceptanceFailsKeeps ==
    ASSUME CreationConsistent, NEW d \in Runs, AcceptanceFails(d)
    PROVE  CreationConsistent'
<1>1. RowsOK /\ OtherTypes /\ ServerInv
    BY InductiveParts
<1>2. run[d].pc # "off" /\ run[d].c \in Creations
    BY <1>1, RunFence DEF AcceptanceFails
<1>3. RowsOK' /\ Home' = Home /\ (Now' = Now \/ Refused(run[d]))
  <2>1. CASE CanFailBeforeEffects(run[d])
      BY <1>1, <1>2, <2>1, RefusalKeepsRows DEF AcceptanceFails, Refused
  <2>2. CASE ~CanFailBeforeEffects(run[d])
      BY <1>1, <2>2, RowsFrame DEF AcceptanceFails
  <2> QED BY <2>1, <2>2
<1>4. ServerInv'
    BY <1>1, <1>2, <1>3, RefusedWaited, EndKeepsServer DEF AcceptanceFails
<1>5. OtherTypes'
    BY <1>1, RunTypes DEF AcceptanceFails, OtherTypes, End
<1> QED BY <1>3, <1>4, <1>5, InductivePartsNext

\* A failure before the start refuses or doubts the attempt.
LEMMA RunFailsKeeps ==
    ASSUME CreationConsistent, NEW d \in Runs, RunFails(d)
    PROVE  CreationConsistent'
<1>1. RowsOK /\ OtherTypes /\ ServerInv
    BY InductiveParts
<1>2. /\ run[d].pc # "off" /\ run[d].c \in Creations
      /\ run[d].pc \in Dispatched \cup {"preflight"}
    BY <1>1, RunFence DEF RunFails, Dispatched, BeforeEffect, AfterEffect
<1>3. RowsOK' /\ Home' = Home /\ (Now' = Now \/ Refused(run[d]) \/ Kept(run[d]))
    BY <1>1, <1>2, FailureKeepsRows DEF RunFails
<1>4. ServerInv'
    BY <1>1, <1>2, <1>3, RefusedWaited, EndKeepsServer DEF RunFails
<1>5. OtherTypes'
    BY <1>1, RunTypes DEF RunFails, OtherTypes, End
<1> QED BY <1>3, <1>4, <1>5, InductivePartsNext

\* A finished teardown records the failure.
LEMMA AbortEndsKeeps ==
    ASSUME CreationConsistent, NEW d \in Runs, AbortEnds(d)
    PROVE  CreationConsistent'
<1>1. RowsOK /\ OtherTypes /\ ServerInv
    BY InductiveParts
<1>2. /\ run[d].pc # "off" /\ run[d].c \in Creations
      /\ run[d].pc \in Dispatched \cup {"preflight"}
    BY <1>1, RunFence DEF AbortEnds, Dispatched, AfterEffect
<1>3. RowsOK' /\ Home' = Home /\ (Now' = Now \/ Refused(run[d]) \/ Kept(run[d]))
    BY <1>1, <1>2, FailureKeepsRows DEF AbortEnds
<1>4. ServerInv'
    BY <1>1, <1>2, <1>3, RefusedWaited, EndKeepsServer DEF AbortEnds
<1>5. OtherTypes'
    BY <1>1, RunTypes DEF AbortEnds, OtherTypes, End
<1> QED BY <1>3, <1>4, <1>5, InductivePartsNext

\* A start that failed is doubted, never refused.
LEMMA StartFailsKeeps ==
    ASSUME CreationConsistent, NEW d \in Runs, StartFails(d)
    PROVE  CreationConsistent'
<1>1. RowsOK /\ OtherTypes /\ ServerInv
    BY InductiveParts
<1>2. /\ run[d].pc # "off" /\ run[d].c \in Creations
      /\ run[d].pc \in Dispatched /\ run[d].pc \in AfterEffect
    BY <1>1, RunFence DEF StartFails, Dispatched, AfterEffect
<1>3. RowsOK' /\ Home' = Home /\ (Now' = Now \/ Refused(run[d]) \/ Kept(run[d]))
    BY <1>1, <1>2, FailureKeepsRows DEF StartFails
<1>4. launches[run[d].c] = 1
    BY <1>1, <1>2 DEF ServerInv, RunsHoldTheirFence
<1>5. \A c \in Creations : launches[c] = 0 => owner'[c] = owner[c]
    BY <1>1, <1>2, <1>4 DEF StartFails, OtherTypes
<1>6. ServerInv'
    BY <1>1, <1>2, <1>3, <1>5, RefusedWaited, EndKeepsServer DEF StartFails
<1>7. OtherTypes'
  <2>1. owner' \in [Creations -> OwnerRec]
    <3> DEFINE o == owner[run[d].c]
               life == IF run[d].c \in Hosted THEN o.life ELSE "gone"
    <3>1. o \in OwnerRec
        BY <1>1, <1>2 DEF OtherTypes
    <3>2. [o EXCEPT !.life = life] \in OwnerRec
        BY <3>1 DEF OwnerRec
    <3>3. owner' = [owner EXCEPT ![run[d].c] = [o EXCEPT !.life = life]]
        BY DEF StartFails
    <3> QED BY <1>1, <1>2, <3>2, <3>3, OwnerTypes
  <2> QED BY <1>1, <2>1, RunTypes DEF StartFails, OtherTypes, End
<1> QED BY <1>3, <1>6, <1>7, InductivePartsNext

\* A settled start registers its process and ends.
LEMMA SettleKeeps ==
    ASSUME CreationConsistent, NEW d \in Runs, Settle(d)
    PROVE  CreationConsistent'
<1>1. RowsOK /\ OtherTypes /\ ServerInv
    BY InductiveParts
<1>2. /\ run[d].pc # "off" /\ run[d].c \in Creations /\ run[d].pc \in AfterEffect
    BY <1>1, RunFence DEF Settle, AfterEffect
<1>3. RowsOK' /\ Home' = Home /\ Now' = Now
    BY <1>1, RowsFrame DEF Settle, storeVars
<1>4. launches[run[d].c] = 1
    BY <1>1, <1>2 DEF ServerInv, RunsHoldTheirFence
<1>5. \A c \in Creations : launches[c] = 0 => owner'[c] = owner[c]
    BY <1>1, <1>2, <1>4 DEF Settle, OtherTypes
<1>6. ServerInv'
    BY <1>1, <1>2, <1>3, <1>5, EndKeepsServer DEF Settle, storeVars
<1>7. OtherTypes'
  <2>1. owner' \in [Creations -> OwnerRec]
    <3> DEFINE o == owner[run[d].c]
    <3>1. o \in OwnerRec
        BY <1>1, <1>2 DEF OtherTypes
    <3>2. [o EXCEPT !.registered = TRUE] \in OwnerRec
        BY <3>1 DEF OwnerRec
    <3>3. owner' = [owner EXCEPT ![run[d].c] = [o EXCEPT !.registered = TRUE]]
        BY DEF Settle
    <3> QED BY <1>1, <1>2, <3>2, <3>3, OwnerTypes
  <2> QED BY <1>1, <2>1, RunTypes DEF Settle, OtherTypes, End, storeVars
<1> QED BY <1>3, <1>6, <1>7, InductivePartsNext

\* A finished copy is bound.
LEMMA BindCopyKeeps ==
    ASSUME CreationConsistent, NEW d \in Runs, BindCopy(d)
    PROVE  CreationConsistent'
<1> DEFINE n == owner[run[d].c].native
<1>1. RowsOK /\ OtherTypes /\ ServerInv
    BY InductiveParts
<1>2. /\ run[d].pc # "off" /\ run[d].c \in Creations /\ run[d].pc \in Dispatched
    BY <1>1, RunFence DEF BindCopy, AfterEffect, Dispatched
<1>3. n \in Natives \cup {NoNative}
    BY <1>1, <1>2 DEF OtherTypes, OwnerRec
<1>4. CanBindNative(run[d], n) /\ BindNative(run[d], n) /\ UNCHANGED current
    BY DEF BindCopy
<1> HIDE DEF n
<1>5. /\ RowsOK' /\ Home' = Home /\ Kept(run[d])
      /\ claim' \in [Creations -> [a : 0..MaxAttempts, g : Generations]]
      /\ native' \in [Creations -> Natives \cup {NoNative}]
  <2>1. /\ claim \in [Creations -> [a : 0..MaxAttempts, g : Generations]]
        /\ native \in [Creations -> Natives \cup {NoNative}]
      BY <1>1 DEF OtherTypes
  <2> QED BY <1>1, <1>2, <1>3, <1>4, <2>1, BindingKeepsRows
<1>6. ServerInv'
    BY <1>1, <1>2, <1>5, EndKeepsServer DEF BindCopy
<1>7. OtherTypes'
    BY <1>1, <1>5, RunTypes DEF BindCopy, OtherTypes, End
<1> QED BY <1>5, <1>6, <1>7, InductivePartsNext

-----------------------------------------------------------------------------
(* Calls that move on.                                                      *)

\* A server runs while any of its calls does.
LEMMA WorkNeedsServer ==
    ASSUME OtherTypes, ServerInv, NEW d \in Runs, run[d].pc # "off" \/ queue # <<>>
    PROVE  up
BY DEF OtherTypes, ServerInv, WorkIsThisServers

\* A request comes in.
LEMMA SubmitKeeps ==
    ASSUME CreationConsistent, NEW d \in Runs, NEW c \in Creations, Submit(d, c)
    PROVE  CreationConsistent'
<1> DEFINE r == [pc |-> "submitting", direct |-> FALSE, c |-> c, a |-> 0, g |-> 0]
<1>1. RowsOK /\ OtherTypes /\ ServerInv
    BY InductiveParts
<1>2. RowsOK' /\ Home' = Home /\ Now' = Now
    BY <1>1, RowsFrame DEF Submit, storeVars
<1>3. r.pc = "submitting" /\ r.c = c
    OBVIOUS
<1>4. r \in RunRec
    BY StoreAssumption DEF RunRec, Pcs, Generations
<1>5. run' = [run EXCEPT ![d] = r] /\ up /\ current[c] = 0
    BY DEF Submit
<1> HIDE DEF r
<1>6. ServerInv'
    BY <1>1, <1>2, <1>3, <1>4, <1>5, MoveKeepsServer
    DEF Submit, storeVars, Dispatched, BeforeEffect, AfterEffect
<1>7. OtherTypes'
    BY <1>1, <1>4, <1>5, RunTypes DEF Submit, OtherTypes, storeVars
<1> QED BY <1>2, <1>6, <1>7, InductivePartsNext

\* The head of the worker queue gets a worker, or is stale and dropped.
LEMMA PromoteKeeps ==
    ASSUME CreationConsistent, NEW d \in Runs, Promote(d)
    PROVE  CreationConsistent'
<1> DEFINE f == Head(queue)
           r == [pc |-> "preflight", direct |-> FALSE, c |-> f.c, a |-> f.a, g |-> f.g]
<1>1. RowsOK /\ OtherTypes /\ ServerInv
    BY InductiveParts
<1>2. RowsOK' /\ Home' = Home /\ Now' = Now
    BY <1>1, RowsFrame DEF Promote, storeVars
<1>3. queue \in Seq(Fence) /\ queue # <<>>
    BY <1>1 DEF OtherTypes, Promote
<1>4. /\ queue' = Tail(queue) /\ queue' \in Seq(Fence) /\ f \in Fence
      /\ 1 \in DOMAIN queue /\ f = queue[1]
      /\ \A k \in DOMAIN queue' : k + 1 \in DOMAIN queue /\ queue'[k] = queue[k + 1]
  <2>1. /\ Head(queue) = queue[1] /\ Len(queue) \in Nat \ {0}
        /\ Tail(queue) \in Seq(Fence) /\ Len(Tail(queue)) = Len(queue) - 1
        /\ \A k \in 1..Len(Tail(queue)) : Tail(queue)[k] = queue[k + 1]
      BY <1>3, HeadTailProperties, LenProperties, EmptySeq
  <2>2. DOMAIN queue = 1..Len(queue) /\ DOMAIN Tail(queue) = 1..Len(Tail(queue))
      BY <1>3, <2>1, LenProperties
  <2>3. queue' = Tail(queue)
      BY DEF Promote
  <2>4. queue[1] \in Fence
      BY <1>3, <2>1, ElementOfSeq
  <2> QED BY <2>1, <2>2, <2>3, <2>4
<1> HIDE DEF f
<1>5. up /\ UNCHANGED <<current, up, pid, owner, launches>>
    BY <1>1, <1>3, WorkNeedsServer DEF Promote, storeVars
<1>6. \A k \in DOMAIN queue' : \E j \in DOMAIN queue : queue'[k] = queue[j]
    BY <1>4
<1>7. /\ f.c \in Creations /\ f.a \in AttemptNos /\ f.g = 0 /\ f.a \in 1..current[f.c]
      /\ Home[f.c] = pid
  <2>1. f.c \in Creations /\ f.a \in AttemptNos
      BY <1>4 DEF Fence
  <2>2. f.a <= current[f.c] /\ f.g = 0 /\ Home[f.c] = pid
      BY <1>1, <1>4 DEF ServerInv, WorkIsThisServers
  <2> QED BY <1>1, <2>1, <2>2, StoreAssumption DEF RowsOK, AttemptNos
<1>8. r \in RunRec
    BY <1>7, StoreAssumption DEF RunRec, Pcs, Generations, AttemptNos
<1>9. r.pc = "preflight" /\ r.c = f.c /\ r.a = f.a /\ r.g = 0
    BY <1>7
<1>10. run' = (IF IsCurrent(f) THEN [run EXCEPT ![d] = r] ELSE run)
    BY DEF Promote, f
<1> HIDE DEF r
<1>11. CASE IsCurrent(f)
  <2>1. run' = [run EXCEPT ![d] = r]
      BY <1>10, <1>11
  <2>2. ServerInv'
      BY <1>1, <1>2, <1>5, <1>6, <1>7, <1>8, <1>9, <2>1, MoveKeepsServer
      DEF Dispatched, BeforeEffect, AfterEffect
  <2>3. OtherTypes'
      BY <1>1, <1>4, <1>8, <2>1, RunTypes DEF Promote, OtherTypes, storeVars
  <2> QED BY <1>2, <2>2, <2>3, InductivePartsNext
<1>12. CASE ~IsCurrent(f)
  <2>1. run' = [run EXCEPT ![d] = run[d]] /\ run[d] \in RunRec /\ run[d].pc = "off"
    <3>1. run \in [Runs -> RunRec] /\ run' = run
        BY <1>1, <1>10, <1>12 DEF OtherTypes
    <3>2. run[d].pc = "off"
        BY DEF Promote, Off
    <3> QED BY <3>1, <3>2
  <2>2. ServerInv'
      BY <1>1, <1>2, <1>5, <1>6, <2>1, MoveKeepsServer
      DEF Dispatched, BeforeEffect, AfterEffect
  <2>3. OtherTypes'
      BY <1>1, <1>4, <1>10, <1>12 DEF Promote, OtherTypes, storeVars
  <2> QED BY <1>2, <2>2, <2>3, InductivePartsNext
<1> QED BY <1>11, <1>12

\* A step of a call that changes no row and nothing but its pc and its owner.
LEMMA BecomeKeeps ==
    ASSUME CreationConsistent, NEW d \in Runs, NEW pc \in AfterEffect,
           run[d].pc \in Dispatched, run' = [run EXCEPT ![d].pc = pc],
           UNCHANGED <<storeVars, up, pid, queue>>, onDisk' \subseteq Natives,
           owner' \in [Creations -> OwnerRec],
           \A c \in Creations \ {run[d].c} : owner'[c] = owner[c],
           \/ run[d].pc \in AfterEffect /\ launches' = launches
           \/ /\ run[d].pc \in BeforeEffect
              /\ launches' = [launches EXCEPT ![run[d].c] = @ + 1]
    PROVE  CreationConsistent'
<1> DEFINE r == [run[d] EXCEPT !.pc = pc]
<1>1. RowsOK /\ OtherTypes /\ ServerInv
    BY InductiveParts
<1>2. RowsOK' /\ Home' = Home /\ Now' = Now /\ current' = current
    BY <1>1, RowsFrame DEF storeVars
<1>3. /\ r \in RunRec /\ r.pc = pc /\ r.c = run[d].c /\ r.a = run[d].a
      /\ r.g = run[d].g /\ run' = [run EXCEPT ![d] = r]
  <2>1. pc \in Pcs
      BY DEF AfterEffect, Pcs
  <2> QED BY <1>1, <2>1, BecomeRecord
<1> HIDE DEF r
<1>4. /\ run[d].pc \notin {"off", "submitting", "preflight"} /\ pc \in Dispatched
      /\ pc \notin BeforeEffect /\ pc \notin {"off", "submitting", "preflight"}
    BY DEF Dispatched, BeforeEffect, AfterEffect
<1>5. /\ r.c \in Creations /\ r.a \in 1..current[r.c]
      /\ current[r.c] # 0 => Home[r.c] = pid
      /\ launches[r.c] \in {0, 1} /\ (run[d].pc \in AfterEffect => launches[r.c] = 1)
      /\ (run[d].pc \in BeforeEffect => launches[r.c] = 0)
    BY <1>1, <1>3, <1>4
    DEF ServerInv, RunsHoldTheirFence, WorkIsThisServers, OwnersAreLaunched
<1>6. up
    BY <1>1, <1>4, WorkNeedsServer
<1>7. \A c \in Creations : launches'[c] = 0 => owner'[c] = owner[c]
  <2>1. launches'[r.c] = 1
      BY <1>1, <1>3, <1>5 DEF OtherTypes
  <2> QED BY <1>3, <2>1
<1>8. ServerInv'
  <2>1. \A k \in DOMAIN queue' : \E j \in DOMAIN queue : queue'[k] = queue[j]
      OBVIOUS
  <2>2. \/ launches' = launches /\ run[d].pc \in AfterEffect
        \/ /\ run[d].pc \in BeforeEffect /\ r.pc \in AfterEffect
           /\ launches' = [launches EXCEPT ![r.c] = @ + 1]
      BY <1>3
  <2> QED BY ZenonT(30), <1>1, <1>2, <1>3, <1>4, <1>5, <1>6, <1>7, <2>1, <2>2, MoveKeepsServer
<1>9. launches' \in [Creations -> Nat]
    BY <1>1, <1>3, <1>5 DEF OtherTypes
<1>10. OtherTypes'
    BY <1>1, <1>3, <1>9, RunTypes DEF OtherTypes, storeVars
<1> QED BY <1>2, <1>8, <1>10, InductivePartsNext

\* The steps of a call past its dispatch that change no row.
LEMMA AttachKeeps ==
    ASSUME CreationConsistent, NEW d \in Runs, Attach(d)
    PROVE  CreationConsistent'
<1> DEFINE c == run[d].c
           refused == Message(c) /\ ~MayTakeInput(run[d])
           o == [owner[c] EXCEPT
                   !.watched = TRUE, !.registered = refused,
                   !.input = IF Message(c) /\ ~refused THEN "offered" ELSE @]
<1>1. OtherTypes /\ ServerInv
    BY InductiveParts
<1>2. run[d].pc = "starting" /\ c \in Creations
    BY <1>1, RunFence DEF Attach
<1>3. o \in OwnerRec /\ owner' = [owner EXCEPT ![c] = o]
  <2>1. owner[c] \in OwnerRec
      BY <1>1, <1>2 DEF OtherTypes
  <2>2. refused \in BOOLEAN
      BY DEF Message, MayTakeInput, IsCurrent
  <2>3. owner' = [owner EXCEPT ![c] = o]
      BY <1>1, <1>2 DEF Attach, OtherTypes
  <2> HIDE DEF refused, c
  <2>4. o \in OwnerRec
      BY <2>1, <2>2 DEF OwnerRec
  <2> QED BY <2>3, <2>4
<1> HIDE DEF o, refused
<1>4. /\ owner' \in [Creations -> OwnerRec]
      /\ \A e \in Creations \ {c} : owner'[e] = owner[e]
    BY <1>1, <1>2, <1>3, OwnerTypes
<1>5. \E pc \in AfterEffect : run' = [run EXCEPT ![d].pc = pc]
    BY DEF Attach, Become, AfterEffect
<1>6. PICK pc \in AfterEffect : run' = [run EXCEPT ![d].pc = pc]
    BY <1>5
<1>7. run[d].pc \in Dispatched /\ run[d].pc \in AfterEffect
    BY <1>2 DEF Dispatched, AfterEffect
<1>8. UNCHANGED <<storeVars, up, pid, queue>> /\ launches' = launches /\ onDisk' \subseteq Natives
    BY <1>1 DEF Attach, OtherTypes
<1> QED BY <1>4, <1>6, <1>7, <1>8, BecomeKeeps

\* A start that does not settle is torn down.
LEMMA SettleFailsKeeps ==
    ASSUME CreationConsistent, NEW d \in Runs, SettleFails(d)
    PROVE  CreationConsistent'
<1> DEFINE c == run[d].c
           live == owner[c].life = "live"
           o == [owner[c] EXCEPT !.registered = live]
<1>1. OtherTypes /\ ServerInv
    BY InductiveParts
<1>2. run[d].pc = "settling" /\ c \in Creations
    BY <1>1, RunFence DEF SettleFails
<1>3. o \in OwnerRec /\ owner' = [owner EXCEPT ![c] = o]
  <2>1. owner[c] \in OwnerRec /\ live \in BOOLEAN
      BY <1>1, <1>2 DEF OtherTypes
  <2>2. owner' = [owner EXCEPT ![c] = o]
      BY DEF SettleFails
  <2> HIDE DEF live, c
  <2>3. o \in OwnerRec
      BY <2>1 DEF OwnerRec
  <2> QED BY <2>2, <2>3
<1> HIDE DEF o, live
<1>4. /\ owner' \in [Creations -> OwnerRec]
      /\ \A e \in Creations \ {c} : owner'[e] = owner[e]
    BY <1>1, <1>2, <1>3, OwnerTypes
<1>5. run' = [run EXCEPT ![d].pc = "aborting"] /\ "aborting" \in AfterEffect
    BY DEF SettleFails, Become, AfterEffect
<1>6. run[d].pc \in Dispatched /\ run[d].pc \in AfterEffect
    BY <1>2 DEF Dispatched, AfterEffect
<1>7. UNCHANGED <<storeVars, up, pid, queue>> /\ launches' = launches /\ onDisk' \subseteq Natives
    BY <1>1 DEF SettleFails, OtherTypes
<1> QED BY <1>4, <1>5, <1>6, <1>7, BecomeKeeps

\* The one effect: a provider started, or a copy written.
LEMMA LaunchProviderKeeps ==
    ASSUME CreationConsistent, NEW d \in Runs, LaunchProvider(d)
    PROVE  CreationConsistent'
<1> DEFINE c == run[d].c
           o == [NoOwner EXCEPT !.life = "live", !.a = run[d].a, !.g = run[d].g]
<1>1. OtherTypes /\ ServerInv
    BY InductiveParts
<1>2. run[d].pc = "launching" /\ c \in Creations /\ run[d] \in RunRec
    BY <1>1, RunFence DEF LaunchProvider
<1>3. o \in OwnerRec /\ owner' = [owner EXCEPT ![c] = o]
  <2>1. run[d].a \in 0..MaxAttempts /\ run[d].g \in Generations
      BY <1>2 DEF RunRec
  <2>2. owner' = [owner EXCEPT ![c] = o]
      BY DEF LaunchProvider
  <2>3. NoOwner \in OwnerRec
      BY StoreAssumption DEF NoOwner, OwnerRec, Generations
  <2> HIDE DEF c
  <2>4. o \in OwnerRec
      BY <2>1, <2>3 DEF OwnerRec
  <2> QED BY <2>2, <2>4
<1> HIDE DEF o
<1>4. /\ owner' \in [Creations -> OwnerRec]
      /\ \A e \in Creations \ {c} : owner'[e] = owner[e]
    BY <1>1, <1>2, <1>3, OwnerTypes
<1>5. run' = [run EXCEPT ![d].pc = "starting"] /\ "starting" \in AfterEffect
    BY DEF LaunchProvider, Become, AfterEffect
<1>6. run[d].pc \in Dispatched /\ run[d].pc \in BeforeEffect
    BY <1>2 DEF Dispatched, BeforeEffect
<1>7. /\ UNCHANGED <<storeVars, up, pid, queue>> /\ onDisk' \subseteq Natives
      /\ launches' = [launches EXCEPT ![c] = @ + 1]
    BY <1>1 DEF LaunchProvider, OtherTypes
<1> QED BY <1>4, <1>5, <1>6, <1>7, BecomeKeeps

\* The copy is written: the effect of a copy request.
LEMMA MakeCopyKeeps ==
    ASSUME CreationConsistent, NEW d \in Runs, NEW n \in Natives, MakeCopy(d, n)
    PROVE  CreationConsistent'
<1> DEFINE c == run[d].c
           o == [NoOwner EXCEPT !.life = "gone", !.a = run[d].a, !.g = run[d].g,
                                !.native = n]
<1>1. OtherTypes /\ ServerInv
    BY InductiveParts
<1>2. run[d].pc = "copying" /\ c \in Creations /\ run[d] \in RunRec
    BY <1>1, RunFence DEF MakeCopy
<1>3. o \in OwnerRec /\ owner' = [owner EXCEPT ![c] = o]
  <2>1. run[d].a \in 0..MaxAttempts /\ run[d].g \in Generations
      BY <1>2 DEF RunRec
  <2>2. owner' = [owner EXCEPT ![c] = o]
      BY DEF MakeCopy
  <2>3. NoOwner \in OwnerRec
      BY StoreAssumption DEF NoOwner, OwnerRec, Generations
  <2> HIDE DEF c
  <2>4. o \in OwnerRec
      BY <2>1, <2>3 DEF OwnerRec
  <2> QED BY <2>2, <2>4
<1> HIDE DEF o
<1>4. /\ owner' \in [Creations -> OwnerRec]
      /\ \A e \in Creations \ {c} : owner'[e] = owner[e]
    BY <1>1, <1>2, <1>3, OwnerTypes
<1>5. run' = [run EXCEPT ![d].pc = "copied"] /\ "copied" \in AfterEffect
    BY DEF MakeCopy, Become, AfterEffect
<1>6. run[d].pc \in Dispatched /\ run[d].pc \in BeforeEffect
    BY <1>2 DEF Dispatched, BeforeEffect
<1>7. /\ UNCHANGED <<storeVars, up, pid, queue>> /\ onDisk' \subseteq Natives
      /\ launches' = [launches EXCEPT ![c] = @ + 1]
    BY <1>1 DEF MakeCopy, OtherTypes
<1> QED BY <1>4, <1>5, <1>6, <1>7, BecomeKeeps

-----------------------------------------------------------------------------
(* Steps that make an attempt, dispatch it or give it up.                   *)

\* A new attempt, made by this server, and the call or entry that has it.
LEMMA InsertKeepsServer ==
    ASSUME RowsOK, OtherTypes, ServerInv, up, NEW c \in Creations,
           NEW s \in Pending \cup {"failed"}, Now[c] \in {"absent", "failed"},
           current' = [current EXCEPT ![c] = @ + 1],
           Now' = [Now EXCEPT ![c] = s], Home' = [Home EXCEPT ![c] = pid],
           UNCHANGED <<up, pid, owner, launches>>,
           \A e \in Runs : \/ run'[e] = run[e]
                           \/ /\ run'[e].pc \in {"accepted", "preflight"}
                              /\ run'[e].c = c /\ run'[e].g = 0
                              /\ run'[e].a = current[c] + 1,
           \A k \in DOMAIN queue' :
              \/ \E j \in DOMAIN queue : queue'[k] = queue[j]
              \/ queue'[k].c = c /\ queue'[k].a = current[c] + 1 /\ queue'[k].g = 0,
           queue' \in Seq(Fence)
    PROVE  ServerInv'
<1> USE DEF OtherTypes, ServerInv
<1>1. /\ Now \in [Creations -> States] /\ current \in [Creations -> Nat]
      /\ Home \in [Creations -> 0..MaxLives]
  <2>1. current \in [Creations -> Nat]
      BY StoreAssumption DEF RowsOK
  <2>2. \A e \in Creations : current[e] # 0 => attempt[e][current[e]] \in AttemptRec
      BY StoreAssumption DEF RowsOK, AttemptNos
  <2>3. Home \in [Creations -> 0..MaxLives]
      BY <2>2, StoreAssumption DEF Home, AttemptRec
  <2> QED BY <2>1, <2>3, NowTypes
<1>2. /\ \A e \in Creations : e # c => current'[e] = current[e] /\ Now'[e] = Now[e]
                                     /\ Home'[e] = Home[e]
      /\ current'[c] = current[c] + 1 /\ Now'[c] = s /\ Home'[c] = pid
    BY <1>1
<1>3. BeforeEffect \subseteq Dispatched /\ AfterEffect \subseteq Dispatched
      /\ "off" \notin Dispatched /\ "accepted" \notin Dispatched
      /\ "preflight" \notin Dispatched
    BY DEF Dispatched, BeforeEffect, AfterEffect
<1>4. Now[c] \notin Effective
    BY DEF Effective
<1>5. RunsHoldTheirFence'
  <2> SUFFICES ASSUME NEW e \in Runs
               PROVE  /\ run'[e].pc # "off" => run'[e].c \in Creations
                      /\ run'[e].pc \notin {"off", "submitting"} =>
                            run'[e].a \in 1..current'[run'[e].c]
                      /\ run'[e].pc = "preflight" => run'[e].g = 0
                      /\ run'[e].pc \in Dispatched =>
                            /\ run'[e].a = current'[run'[e].c] /\ run'[e].g = 1
                            /\ Now'[run'[e].c] \in Effective
                      /\ run'[e].pc \in BeforeEffect =>
                            launches'[run'[e].c] = 0 /\ Now'[run'[e].c] = "dispatching"
                      /\ run'[e].pc \in AfterEffect => launches'[run'[e].c] = 1
      BY DEF RunsHoldTheirFence
  <2>1. CASE run'[e] # run[e]
      BY <1>1, <1>2, <1>3, <2>1
  <2>2. CASE run'[e] = run[e] /\ run[e].pc \in Dispatched
    <3>1. run[e].c # c /\ run[e].c \in Creations
        BY <1>3, <1>4, <2>2 DEF RunsHoldTheirFence
    <3> QED BY <1>2, <2>2, <3>1 DEF RunsHoldTheirFence
  <2>3. CASE run'[e] = run[e] /\ run[e].pc \notin Dispatched
    <3>1. run[e].pc \notin {"off", "submitting"} =>
              run[e].a \in 1..current[run[e].c] /\ run[e].c \in Creations
        BY DEF RunsHoldTheirFence
    <3>2. \A x \in Creations : current[x] \in Nat /\ current'[x] \in Nat
                                /\ current[x] <= current'[x]
        BY <1>1, <1>2
    <3>3. run[e].pc \notin {"off", "submitting"} => run[e].a \in 1..current'[run[e].c]
        BY <3>1, <3>2
    <3> QED BY <1>3, <2>3, <3>3 DEF RunsHoldTheirFence
  <2> QED BY <2>1, <2>2, <2>3
<1>6. OneDispatcher'
  <2>1. \A e \in Runs : run'[e].pc \in Dispatched => run'[e] = run[e]
      BY <1>3
  <2> QED BY <2>1 DEF OneDispatcher
<1>7. WorkIsThisServers'
  <2>1. \A k \in DOMAIN queue' :
            /\ queue'[k].a <= current'[queue'[k].c] /\ queue'[k].g = 0
            /\ Home'[queue'[k].c] = pid
    <3> SUFFICES ASSUME NEW k \in DOMAIN queue'
                 PROVE  /\ queue'[k].a <= current'[queue'[k].c] /\ queue'[k].g = 0
                        /\ Home'[queue'[k].c] = pid
        OBVIOUS
    <3>1. CASE queue'[k].c = c /\ queue'[k].a = current[c] + 1 /\ queue'[k].g = 0
        BY <1>1, <1>2, <3>1
    <3>2. CASE \E j \in DOMAIN queue : queue'[k] = queue[j]
      <4>1. PICK j \in DOMAIN queue : queue'[k] = queue[j]
          BY <3>2
      <4>2. queue[j] \in Fence
          BY ElementOfSeq, LenProperties
      <4>3. queue[j].c \in Creations /\ queue[j].a \in Nat
          BY <4>2, StoreAssumption DEF Fence, AttemptNos
      <4>4. /\ queue[j].a <= current[queue[j].c] /\ queue[j].g = 0
            /\ Home[queue[j].c] = pid
          BY DEF WorkIsThisServers
      <4>5. current[queue[j].c] \in Nat
          BY <4>3 DEF RowsOK
      <4>6. /\ current[queue[j].c] <= current'[queue[j].c]
            /\ current'[queue[j].c] \in Nat
        <5>1. CASE queue[j].c = c
            BY <1>2, <4>5, <5>1
        <5>2. CASE queue[j].c # c
            BY <1>2, <4>3, <4>5, <5>2
        <5> QED BY <5>1, <5>2
      <4>7. Home'[queue[j].c] = pid
          BY <1>2, <4>3, <4>4
      <4> QED BY <4>1, <4>3, <4>4, <4>5, <4>6, <4>7
    <3> QED BY <3>1, <3>2
  <2>2. \A e \in Runs : run'[e].pc # "off" /\ current'[run'[e].c] # 0 =>
            Home'[run'[e].c] = pid
    <3> SUFFICES ASSUME NEW e \in Runs, run'[e].pc # "off", current'[run'[e].c] # 0
                 PROVE  Home'[run'[e].c] = pid
        OBVIOUS
    <3>1. CASE run'[e].c = c
        BY <1>2, <3>1
    <3>2. CASE run'[e].c # c
      <4>1. run'[e] = run[e] /\ run[e].c \in Creations
          BY <3>2 DEF RunsHoldTheirFence
      <4> QED BY <1>2, <3>2, <4>1 DEF WorkIsThisServers
    <3> QED BY <3>1, <3>2
  <2> QED BY <2>1, <2>2 DEF WorkIsThisServers
<1>8. OwnersAreLaunched'
    BY <1>2, <1>4 DEF OwnersAreLaunched
<1> QED BY <1>5, <1>6, <1>7, <1>8

\* Admission inserts the row or joins the one it finds.
LEMMA AdmitKeeps ==
    ASSUME CreationConsistent, NEW d \in Runs, Admit(d)
    PROVE  CreationConsistent'
<1> DEFINE c == run[d].c
           r == [pc |-> "accepted", direct |-> FALSE, c |-> c,
                 a |-> IF current[c] = 0 THEN 1 ELSE current[c], g |-> FenceOf(c).g]
<1>1. RowsOK /\ OtherTypes /\ ServerInv
    BY InductiveParts
<1>2. c \in Creations /\ run[d].pc = "submitting" /\ up
    BY <1>1, RunFence, WorkNeedsServer DEF Admit
<1>3. current[c] \in 0..MaxAttempts /\ MaxAttempts \in Nat \ {0}
    BY <1>1, <1>2, StoreAssumption DEF RowsOK
<1>4. FenceOf(c).g \in Generations /\ (current[c] = 0 => FenceOf(c).g = 0)
  <2>1. current[c] # 0 => attempt[c][current[c]].gen \in Generations
      BY <1>1, <1>2, <1>3 DEF RowsOK, AttemptNos, AttemptRec
  <2>2. FenceOf(c).g = IF current[c] = 0 THEN 0 ELSE attempt[c][current[c]].gen
      BY DEF FenceOf
  <2>3. 0 \in Generations
      BY DEF Generations
  <2> QED BY <2>1, <2>2, <2>3
<1>5. run' = [run EXCEPT ![d] = r]
    BY DEF Admit
<1>6. r \in RunRec
    BY <1>2, <1>3, <1>4 DEF RunRec, Pcs
<1>7. /\ r.pc = "accepted" /\ r.c = c /\ r.g = FenceOf(c).g
      /\ r.a = IF current[c] = 0 THEN 1 ELSE current[c]
    OBVIOUS
<1> HIDE DEF r
<1>8. CASE current[c] = 0
  <2>1. Insert(c, pid, "saved") /\ pid \in Pids /\ "saved" \in Pending \cup {"failed"}
      BY <1>1, <1>8 DEF Admit, OtherTypes, Pending
  <2>2. /\ RowsOK' /\ Now' = [Now EXCEPT ![c] = "saved"]
        /\ Home' = [Home EXCEPT ![c] = pid]
        /\ current' = [current EXCEPT ![c] = @ + 1]
      BY <1>1, <1>2, <1>3, <1>8, <2>1, InsertKeepsRows
  <2>3. Now[c] \in {"absent", "failed"}
      BY <1>2, <1>8 DEF Now, StateOf
  <2>4. \A e \in Runs : \/ run'[e] = run[e]
                        \/ /\ run'[e].pc \in {"accepted", "preflight"}
                           /\ run'[e].c = c /\ run'[e].g = 0
                           /\ run'[e].a = current[c] + 1
      BY <1>1, <1>4, <1>5, <1>7, <1>8 DEF OtherTypes
  <2>5. UNCHANGED <<up, pid, queue, owner, launches>> /\ queue' \in Seq(Fence)
      BY <1>1 DEF Admit, OtherTypes
  <2>6. ServerInv'
    <3>1. \A k \in DOMAIN queue' :
              \/ \E j \in DOMAIN queue : queue'[k] = queue[j]
              \/ queue'[k].c = c /\ queue'[k].a = current[c] + 1 /\ queue'[k].g = 0
        BY <2>5
    <3> HIDE DEF c
    <3> QED BY <1>1, <1>2, <2>1, <2>2, <2>3, <2>4, <2>5, <3>1, InsertKeepsServer
  <2>7. OtherTypes'
      BY <1>1, <1>5, <1>6, RunTypes DEF Admit, OtherTypes
  <2> QED BY <2>2, <2>6, <2>7, InductivePartsNext
<1>9. CASE current[c] # 0
  <2>1. UNCHANGED <<current, attempt, up, pid, queue, owner, launches>>
      BY <1>9 DEF Admit
  <2>2. RowsOK' /\ Now' = Now /\ Home' = Home
      BY <1>1, <2>1, RowsFrame
  <2>3. Home[c] = pid
      BY <1>1, <1>2, <1>9 DEF ServerInv, WorkIsThisServers
  <2>4. \A k \in DOMAIN queue' : \E j \in DOMAIN queue : queue'[k] = queue[j]
      BY <2>1
  <2>5. r.a \in 1..current[c] /\ r.pc \notin Dispatched /\ r.pc \notin BeforeEffect
        /\ r.pc \notin AfterEffect
      BY <1>3, <1>7, <1>9 DEF Dispatched, BeforeEffect, AfterEffect
  <2>6. ServerInv'
      BY <1>1, <1>2, <1>5, <1>6, <1>7, <2>1, <2>2, <2>3, <2>4, <2>5, MoveKeepsServer
  <2>7. OtherTypes'
      BY <1>1, <1>5, <1>6, RunTypes DEF Admit, OtherTypes
  <2> QED BY <2>2, <2>6, <2>7, InductivePartsNext
<1> QED BY <1>8, <1>9

\* A copy request is admitted and started at once.
LEMMA SubmitCopyKeeps ==
    ASSUME CreationConsistent, NEW d \in Runs, NEW c \in Creations, SubmitCopy(d, c)
    PROVE  CreationConsistent'
<1> DEFINE r == [pc |-> "preflight", direct |-> TRUE, c |-> c, a |-> 1, g |-> 0]
<1>1. RowsOK /\ OtherTypes /\ ServerInv
    BY InductiveParts
<1>2. /\ up /\ current[c] = 0 /\ Insert(c, pid, "saved")
      /\ run' = [run EXCEPT ![d] = r] /\ UNCHANGED <<up, pid, queue, owner, launches>>
    BY DEF SubmitCopy
<1>3. r \in RunRec
    BY StoreAssumption DEF RunRec, Pcs, Generations
<1>4. r.pc = "preflight" /\ r.c = c /\ r.a = 1 /\ r.g = 0
    OBVIOUS
<1> HIDE DEF r
<1>5. pid \in Pids /\ "saved" \in Pending \cup {"failed"} /\ current[c] < MaxAttempts
    BY <1>1, <1>2, StoreAssumption DEF OtherTypes, Pending
<1>6. /\ RowsOK' /\ Now' = [Now EXCEPT ![c] = "saved"]
      /\ Home' = [Home EXCEPT ![c] = pid]
      /\ current' = [current EXCEPT ![c] = @ + 1]
    BY <1>1, <1>2, <1>5, InsertKeepsRows
<1>7. Now[c] \in {"absent", "failed"}
    BY <1>2 DEF Now, StateOf
<1>8. \A e \in Runs : \/ run'[e] = run[e]
                      \/ /\ run'[e].pc \in {"accepted", "preflight"}
                         /\ run'[e].c = c /\ run'[e].g = 0
                         /\ run'[e].a = current[c] + 1
    BY <1>1, <1>2, <1>4 DEF OtherTypes
<1>9. /\ queue' \in Seq(Fence)
      /\ \A k \in DOMAIN queue' :
              \/ \E j \in DOMAIN queue : queue'[k] = queue[j]
              \/ queue'[k].c = c /\ queue'[k].a = current[c] + 1 /\ queue'[k].g = 0
    BY <1>1, <1>2 DEF OtherTypes
<1>10. ServerInv'
    BY <1>1, <1>2, <1>5, <1>6, <1>7, <1>8, <1>9, InsertKeepsServer
<1>11. OtherTypes'
    BY <1>1, <1>2, <1>3, RunTypes DEF SubmitCopy, OtherTypes
<1> QED BY <1>6, <1>10, <1>11, InductivePartsNext

\* Appending an entry to the queue.
LEMMA AppendQueue ==
    ASSUME queue \in Seq(Fence), NEW f \in Fence, queue' = Append(queue, f)
    PROVE  /\ queue' \in Seq(Fence)
           /\ \A k \in DOMAIN queue' :
                 queue'[k] = f \/ \E j \in DOMAIN queue : queue'[k] = queue[j]
<1>1. /\ Append(queue, f) \in Seq(Fence) /\ Len(Append(queue, f)) = Len(queue) + 1
      /\ \A k \in 1..Len(queue) : Append(queue, f)[k] = queue[k]
      /\ Append(queue, f)[Len(queue) + 1] = f
    BY AppendProperties
<1>2. Len(queue) \in Nat /\ DOMAIN queue = 1..Len(queue)
      /\ DOMAIN Append(queue, f) = 1..(Len(queue) + 1)
    BY <1>1, LenProperties
<1> QED BY <1>1, <1>2

\* Removing one: what is left was there before.
LEMMA RemoveAtElements ==
    ASSUME NEW S, NEW s \in Seq(S), NEW n \in 1..Len(s)
    PROVE  /\ RemoveAt(s, n) \in Seq(S)
           /\ \A k \in DOMAIN RemoveAt(s, n) :
                 \E j \in DOMAIN s : RemoveAt(s, n)[k] = s[j]
<1> DEFINE p == SubSeq(s, 1, n - 1)
           q == SubSeq(s, n + 1, Len(s))
<1>1. /\ Len(s) \in Nat /\ DOMAIN s = 1..Len(s)
      /\ \A k \in 1..Len(s) : s[k] \in S
    BY LenProperties, ElementOfSeq
<1>2. /\ p \in Seq(S) /\ Len(p) = n - 1
      /\ \A k \in 1..(n - 1) : p[k] = s[k]
    BY <1>1, SubSeqProperties
<1>3. /\ q \in Seq(S) /\ Len(q) = Len(s) - n
      /\ \A k \in 1..(Len(s) - n) : q[k] = s[n + k]
  <2>1. \A k \in (n + 1)..Len(s) : s[k] \in S
      BY <1>1
  <2>2. /\ q \in Seq(S)
        /\ Len(q) = IF n + 1 <= Len(s) THEN Len(s) - (n + 1) + 1 ELSE 0
        /\ \A k \in 1..(Len(s) - (n + 1) + 1) : q[k] = s[(n + 1) + k - 1]
      BY <1>1, <2>1, SubSeqProperties
  <2>3. \A k \in 1..(Len(s) - n) : (n + 1) + k - 1 = n + k
      BY <1>1
  <2> HIDE DEF q
  <2>4. Len(s) - (n + 1) + 1 = Len(s) - n /\ Len(q) = Len(s) - n
    <3>1. \A x \in Nat : \A y \in 1..x :
              x - (y + 1) + 1 = x - y /\ (y + 1 <= x \/ x - y = 0)
        OBVIOUS
    <3>2. Len(s) - (n + 1) + 1 = Len(s) - n /\ (n + 1 <= Len(s) \/ Len(s) - n = 0)
        BY <1>1, <3>1
    <3> QED BY <2>2, <3>2
  <2> QED BY <2>2, <2>3, <2>4
<1> HIDE DEF p, q
<1>4. /\ p \o q \in Seq(S) /\ Len(p \o q) = Len(p) + Len(q)
      /\ \A k \in 1..(Len(p) + Len(q)) :
            (p \o q)[k] = IF k <= Len(p) THEN p[k] ELSE q[k - Len(p)]
    BY <1>2, <1>3, ConcatProperties
<1>5. RemoveAt(s, n) = p \o q
    BY DEF RemoveAt, p, q
<1>6. DOMAIN (p \o q) = 1..Len(p \o q)
    BY <1>4, LenProperties
<1>7. ASSUME NEW k \in 1..(Len(p) + Len(q))
      PROVE  \E j \in DOMAIN s : (p \o q)[k] = s[j]
  <2>1. CASE k <= n - 1
    <3>1. (p \o q)[k] = s[k] /\ k \in DOMAIN s
        BY <1>1, <1>2, <1>3, <1>4, <2>1
    <3> QED BY <3>1
  <2>2. CASE k > n - 1
    <3>1. (p \o q)[k] = q[k - (n - 1)]
        BY <1>1, <1>2, <1>3, <1>4, <2>2
    <3>2. k - (n - 1) \in 1..(Len(s) - n) /\ n + (k - (n - 1)) = k + 1
        BY <1>1, <1>2, <1>3, <2>2
    <3>3. k + 1 \in DOMAIN s
        BY <1>1, <1>2, <1>3, <2>2
    <3> QED BY <1>3, <3>1, <3>2, <3>3
  <2>3. k \in Int /\ n \in Int
      BY <1>1, <1>2, <1>3
  <2> QED BY <2>1, <2>2, <2>3
<1> QED BY <1>4, <1>5, <1>6, <1>7

\* A retry makes the next attempt, and starts, queues or refuses it.
LEMMA RetryKeeps ==
    ASSUME CreationConsistent, NEW d \in Runs, NEW c \in Creations,
           NEW key \in RetryKeys, Retry(d, c, key)
    PROVE  CreationConsistent'
<1> DEFINE f == [c |-> c, a |-> current[c] + 1, g |-> 0]
           r == [pc |-> "preflight", direct |-> TRUE, c |-> f.c, a |-> f.a, g |-> f.g]
           s == IF ~AtCapacity THEN "saved" ELSE IF QueueFull THEN "failed" ELSE "queued"
<1>1. RowsOK /\ OtherTypes /\ ServerInv
    BY InductiveParts
<1>2. /\ up /\ CanRetry(c, key) /\ Insert(c, pid, s)
      /\ UNCHANGED <<claim, native, adopted, up, pid, owner, onDisk, launches>>
      /\ answered' = [answered EXCEPT ![c][key] = current[c]]
    BY DEF Retry
<1>3. /\ current[c] < MaxAttempts /\ current[c] \in 0..MaxAttempts
      /\ MaxAttempts \in Nat \ {0}
      /\ StateOf(c) = "failed" /\ DeliveryOf(c) = "not-admitted"
    BY <1>1, <1>2, StoreAssumption DEF RowsOK, CanRetry
<1>4. f \in Fence /\ f.c = c /\ f.a = current[c] + 1 /\ f.g = 0
    BY <1>3 DEF Fence, AttemptNos, Generations
<1>5. r \in RunRec /\ r.pc = "preflight" /\ r.c = c /\ r.a = current[c] + 1 /\ r.g = 0
    BY <1>3 DEF RunRec, Pcs, Generations
<1>6. \/ run' = run /\ (queue' = queue \/ queue' = Append(queue, f))
      \/ run' = [run EXCEPT ![d] = r] /\ queue' = queue
    BY DEF Retry
<1>7. s \in Pending \cup {"failed"} /\ pid \in Pids
    BY <1>1 DEF Pending, OtherTypes
<1> HIDE DEF f, r, s
<1>8. /\ RowsOK' /\ Now' = [Now EXCEPT ![c] = s]
      /\ Home' = [Home EXCEPT ![c] = pid]
      /\ current' = [current EXCEPT ![c] = @ + 1]
    BY <1>1, <1>2, <1>3, <1>7, InsertKeepsRows
<1>9. Now[c] \in {"absent", "failed"}
    BY <1>3 DEF Now
<1>10. \A e \in Runs : \/ run'[e] = run[e]
                       \/ /\ run'[e].pc \in {"accepted", "preflight"}
                          /\ run'[e].c = c /\ run'[e].g = 0
                          /\ run'[e].a = current[c] + 1
    BY <1>1, <1>5, <1>6 DEF OtherTypes
<1>11. /\ queue' \in Seq(Fence)
       /\ \A k \in DOMAIN queue' :
              \/ \E j \in DOMAIN queue : queue'[k] = queue[j]
              \/ queue'[k].c = c /\ queue'[k].a = current[c] + 1 /\ queue'[k].g = 0
  <2>1. queue \in Seq(Fence)
      BY <1>1 DEF OtherTypes
  <2>2. CASE queue' = queue
      BY <2>1, <2>2
  <2>3. CASE queue' = Append(queue, f)
      BY <1>4, <2>1, <2>3, AppendQueue
  <2> QED BY <1>6, <2>2, <2>3
<1>12. ServerInv'
    BY <1>1, <1>2, <1>7, <1>8, <1>9, <1>10, <1>11, InsertKeepsServer
<1>13. OtherTypes'
  <2>1. run' \in [Runs -> RunRec]
      BY <1>1, <1>5, <1>6, RunTypes DEF OtherTypes
  <2>2. answered' \in [Creations -> [RetryKeys -> 0..MaxAttempts]]
      BY <1>1, <1>2, <1>3 DEF OtherTypes
  <2> QED BY <1>1, <1>2, <1>11, <2>1, <2>2 DEF OtherTypes
<1> QED BY <1>8, <1>12, <1>13, InductivePartsNext

\* A saved attempt is started, queued or refused.
LEMMA StartSavedKeeps ==
    ASSUME CreationConsistent, NEW d \in Runs, StartSaved(d)
    PROVE  CreationConsistent'
<1> DEFINE f == [c |-> run[d].c, a |-> run[d].a, g |-> run[d].g]
           r == [pc |-> "preflight", direct |-> TRUE, c |-> f.c, a |-> f.a, g |-> f.g]
<1>1. RowsOK /\ OtherTypes /\ ServerInv
    BY InductiveParts
<1>2. /\ run[d].pc = "accepted" /\ run[d] \in RunRec /\ run[d].c \in Creations
      /\ CanFailBeforeEffects(f)
      /\ UNCHANGED <<current, claim, native, adopted, answered,
                     up, pid, owner, onDisk, launches>>
    BY <1>1, RunFence DEF StartSaved, NothingToStart
<1>3. \/ run' = [run EXCEPT ![d] = r] /\ UNCHANGED <<attempt, queue>>
      \/ End(d) /\ FailBeforeEffects(f) /\ UNCHANGED queue
      \/ /\ End(d) /\ Update(f, "queued", "not-admitted", f.g)
         /\ queue' = Append(queue, f)
    BY DEF StartSaved
<1>4. f.c = run[d].c /\ f.a = run[d].a /\ f.g = run[d].g
    OBVIOUS
<1>5. /\ IsCurrent(f) /\ Att(f).state \in Pending
      /\ f.a \in AttemptNos /\ f.a = current[f.c] /\ f.a # 0
      /\ Now[f.c] \in Pending /\ f.g = 0
  <2>1. IsCurrent(f) /\ Att(f).state \in Pending /\ f.c \in Creations
      BY <1>2 DEF CanFailBeforeEffects
  <2> HIDE DEF f
  <2>2. /\ f.a \in AttemptNos /\ f.a = current[f.c] /\ f.a # 0
        /\ Now[f.c] = Att(f).state /\ RowConsistent(Att(f).state, Att(f).delivery, f.g)
      BY <1>1, <2>1, CurrentFence
  <2> QED BY <2>1, <2>2 DEF RowConsistent
<1>6. f \in Fence
    BY <1>2, <1>4, <1>5 DEF Fence, Generations
<1>7. up /\ Home[f.c] = pid
  <2>1. run[d].pc # "off" /\ current[run[d].c] # 0
      BY <1>2, <1>4, <1>5
  <2> QED BY <1>1, <1>4, <2>1, WorkNeedsServer DEF ServerInv, WorkIsThisServers
<1>8. /\ r \in RunRec /\ r.pc = "preflight" /\ r.c = run[d].c /\ r.a = run[d].a
      /\ r.g = 0 /\ r.a \in 1..current[r.c]
  <2>1. run[d].a \in 1..current[run[d].c]
      BY <1>1, <1>2 DEF ServerInv, RunsHoldTheirFence
  <2>2. run[d].a \in 0..MaxAttempts /\ 0 \in Generations
      BY <1>2 DEF RunRec, Generations
  <2> QED BY <1>2, <1>4, <1>5, <2>1, <2>2 DEF RunRec, Pcs
<1> HIDE DEF f, r
<1>9. CASE run' = [run EXCEPT ![d] = r] /\ UNCHANGED <<attempt, queue>>
  <2>1. RowsOK' /\ Now' = Now /\ Home' = Home
      BY <1>1, <1>2, <1>9, RowsFrame
  <2>2. ServerInv'
      BY <1>1, <1>2, <1>4, <1>7, <1>8, <1>9, <2>1, MoveKeepsServer
      DEF Dispatched, BeforeEffect, AfterEffect
  <2>3. OtherTypes'
      BY <1>1, <1>2, <1>8, <1>9, RunTypes DEF OtherTypes
  <2> QED BY <2>1, <2>2, <2>3, InductivePartsNext
<1>10. CASE End(d) /\ FailBeforeEffects(f) /\ UNCHANGED queue
  <2>1. RowsOK' /\ Home' = Home /\ Refused(f)
      BY <1>1, <1>2, <1>4, <1>10, RefusalKeepsRows DEF Refused
  <2>2. Waited(run[d])
      BY <1>4, <2>1, RefusedWaited DEF Waited, Sees
  <2>3. ServerInv'
      BY <1>1, <1>2, <1>10, <2>1, <2>2, EndKeepsServer
  <2>4. OtherTypes'
      BY <1>1, <1>2, <1>10, RunTypes DEF OtherTypes, End
  <2> QED BY <2>1, <2>3, <2>4, InductivePartsNext
<1>11. CASE /\ End(d) /\ Update(f, "queued", "not-admitted", f.g)
            /\ queue' = Append(queue, f)
  <2>1. /\ RowConsistent("queued", "not-admitted", 0) /\ 0 \in Generations
        /\ "queued" \in States \ {"absent"} /\ "not-admitted" \in Deliveries
        /\ Update(f, "queued", "not-admitted", 0)
      BY <1>5, <1>11 DEF RowConsistent, Pending, Effective, States, Deliveries, Generations
  <2>2. RowsOK' /\ Now' = [Now EXCEPT ![f.c] = "queued"] /\ Home' = Home
      BY <1>1, <1>2, <1>4, <1>5, <2>1, UpdateKeepsRows
  <2>3. Waited(run[d])
      BY <1>4, <1>5, <2>2 DEF Waited, Sees
  <2>4. /\ queue' \in Seq(Fence)
        /\ \A k \in DOMAIN queue' :
              queue'[k] = f \/ \E j \in DOMAIN queue : queue'[k] = queue[j]
      BY <1>1, <1>6, <1>11, AppendQueue DEF OtherTypes
  <2>5. Waiting(f)
    <3>1. current[f.c] \in Nat
        BY <1>1, <1>2, <1>4, StoreAssumption DEF RowsOK
    <3> QED BY <1>5, <1>7, <3>1 DEF Waiting
  <2>6. ServerInv'
      BY <1>1, <1>2, <1>11, <2>2, <2>3, <2>4, <2>5, EndKeepsServer
  <2>7. OtherTypes'
      BY <1>1, <1>2, <1>11, <2>4, RunTypes DEF OtherTypes, End
  <2> QED BY <2>2, <2>6, <2>7, InductivePartsNext
<1> QED BY <1>3, <1>9, <1>10, <1>11

\* The dispatch itself: the one step that takes an attempt from waiting to
\* dispatched, under a new generation.
LEMMA DispatchKeeps ==
    ASSUME CreationConsistent, NEW d \in Runs, Dispatch(d)
    PROVE  CreationConsistent'
<1> DEFINE c == run[d].c
           pc == IF Intent[c] = "copy" THEN "copying" ELSE "launching"
           r == [run[d] EXCEPT !.pc = pc, !.g = 1]
<1>1. RowsOK /\ OtherTypes /\ ServerInv
    BY InductiveParts
<1>2. /\ run[d].pc = "preflight" /\ run[d] \in RunRec /\ c \in Creations
      /\ run[d].a \in 1..current[c] /\ run[d].g = 0
  <2>1. run[d].pc = "preflight"
      BY DEF Dispatch
  <2> QED BY <1>1, <2>1, RunFence DEF ServerInv, RunsHoldTheirFence
<1>3. /\ IsCurrent(run[d]) /\ Att(run[d]).state \in Pending
      /\ UNCHANGED <<current, native, adopted, answered,
                     up, pid, queue, owner, onDisk, launches>>
    BY DEF Dispatch, CanBeginDispatch
<1>4. /\ run[d].a \in AttemptNos /\ run[d].a = current[c] /\ run[d].a # 0
      /\ Now[c] \in Pending
    BY <1>1, <1>2, <1>3, CurrentFence
<1>5. RowsOK' /\ Now' = [Now EXCEPT ![c] = "dispatching"] /\ Home' = Home
  <2>1. /\ RowConsistent("dispatching", "not-admitted", 1) /\ 1 \in Generations
        /\ "dispatching" \in States \ {"absent"} /\ "not-admitted" \in Deliveries
      BY DEF RowConsistent, Pending, Effective, States, Deliveries, Generations
  <2>2. Update(run[d], "dispatching", "not-admitted", 1)
      BY <1>2 DEF Dispatch, BeginDispatch
  <2> QED BY <1>1, <1>2, <1>3, <2>1, <2>2, UpdateKeepsRows
<1>6. /\ r \in RunRec /\ r.pc = pc /\ r.c = c /\ r.a = run[d].a /\ r.g = 1
      /\ pc \in {"copying", "launching"} /\ run' = [run EXCEPT ![d] = r]
  <2>1. pc \in Pcs /\ pc \in {"copying", "launching"} /\ 1 \in Generations
      BY DEF Pcs, Generations
  <2>2. run' = [run EXCEPT ![d].pc = pc, ![d].g = @ + 1]
      BY DEF Dispatch
  <2> HIDE DEF pc
  <2>3. run' = [run EXCEPT ![d] = [run[d] EXCEPT !.pc = pc, !.g = @ + 1]]
      BY <1>1, <2>2 DEF OtherTypes
  <2>4. [run[d] EXCEPT !.pc = pc, !.g = @ + 1] = r
      BY <1>2
  <2>5. r \in RunRec /\ r.pc = pc /\ r.c = c /\ r.a = run[d].a /\ r.g = 1
      BY <1>2, <2>1 DEF RunRec
  <2> QED BY <2>1, <2>3, <2>4, <2>5
<1> HIDE DEF r, pc
<1>7. /\ Now \in [Creations -> States] /\ Now'[c] = "dispatching"
      /\ \A e \in Creations \ {c} : Now'[e] = Now[e]
    BY <1>1, <1>2, <1>5, NowTypes
<1>8. run'[d] = r /\ \A e \in Runs : e # d => run'[e] = run[e]
    BY <1>1, <1>6 DEF OtherTypes
<1>9. \A e \in Runs : run[e].pc \in Dispatched => run[e].c # c
  <2>1. \A e \in Runs : run[e].pc \in Dispatched => Now[run[e].c] \in Effective
      BY <1>1 DEF ServerInv, RunsHoldTheirFence
  <2> QED BY <1>4, <2>1 DEF Pending, Effective
<1>10. launches[c] = 0
    BY <1>1, <1>2, <1>4 DEF ServerInv, OwnersAreLaunched, Pending, Effective
<1>11. /\ BeforeEffect \subseteq Dispatched /\ AfterEffect \subseteq Dispatched
       /\ r.pc \in BeforeEffect /\ r.pc \notin AfterEffect
       /\ r.pc \notin {"off", "submitting", "preflight"}
    BY <1>6 DEF Dispatched, BeforeEffect, AfterEffect
<1>12. RunsHoldTheirFence'
  <2> SUFFICES ASSUME NEW e \in Runs
               PROVE  /\ run'[e].pc # "off" => run'[e].c \in Creations
                      /\ run'[e].pc \notin {"off", "submitting"} =>
                            run'[e].a \in 1..current'[run'[e].c]
                      /\ run'[e].pc = "preflight" => run'[e].g = 0
                      /\ run'[e].pc \in Dispatched =>
                            /\ run'[e].a = current'[run'[e].c] /\ run'[e].g = 1
                            /\ Now'[run'[e].c] \in Effective
                      /\ run'[e].pc \in BeforeEffect =>
                            launches'[run'[e].c] = 0 /\ Now'[run'[e].c] = "dispatching"
                      /\ run'[e].pc \in AfterEffect => launches'[run'[e].c] = 1
      BY DEF RunsHoldTheirFence
  <2>1. CASE e = d
      BY <1>2, <1>3, <1>4, <1>6, <1>7, <1>8, <1>10, <1>11, <2>1 DEF Effective
  <2>2. CASE e # d
    <3>1. run'[e] = run[e]
        BY <1>8, <2>2
    <3>2. CASE run[e].pc \in Dispatched
      <4>1. run[e].c # c /\ run[e].pc # "off"
          BY <1>9, <3>2 DEF Dispatched, BeforeEffect, AfterEffect
      <4>2. run[e].c \in Creations
          BY <1>1, <4>1, RunFence
      <4>3. Now'[run[e].c] = Now[run[e].c]
          BY <1>7, <4>1, <4>2
      <4> QED BY <1>1, <1>3, <3>1, <4>3 DEF ServerInv, RunsHoldTheirFence
    <3>3. CASE run[e].pc \notin Dispatched
        BY <1>1, <1>3, <1>11, <3>1, <3>3 DEF ServerInv, RunsHoldTheirFence
    <3> QED BY <3>2, <3>3
  <2> QED BY <2>1, <2>2
<1>13. OneDispatcher'
    BY <1>1, <1>6, <1>8, <1>9 DEF ServerInv, OneDispatcher
<1>14. WorkIsThisServers'
  <2>1. up
      BY <1>1, <1>2, WorkNeedsServer
  <2>2. \A e \in Runs : run'[e].pc # "off" /\ current[run'[e].c] # 0 =>
            Home[run'[e].c] = pid
      BY <1>1, <1>2, <1>6, <1>8 DEF ServerInv, WorkIsThisServers
  <2>3. \A k \in DOMAIN queue : queue[k].a <= current[queue[k].c] /\ queue[k].g = 0
                                /\ Home[queue[k].c] = pid
      BY <1>1 DEF ServerInv, WorkIsThisServers
  <2> QED BY <1>3, <1>5, <2>1, <2>2, <2>3 DEF WorkIsThisServers
<1>15. OwnersAreLaunched'
    BY <1>1, <1>3, <1>7, <1>10 DEF ServerInv, OwnersAreLaunched
<1>16. OtherTypes'
  <2>1. claim' = [claim EXCEPT ![c] = [a |-> run[d].a, g |-> 0 + 1]]
      BY <1>2 DEF Dispatch, BeginDispatch
  <2>2. [a |-> run[d].a, g |-> 0 + 1] \in [a : 0..MaxAttempts, g : Generations]
      BY <1>2 DEF RunRec, Generations
  <2> QED BY <1>1, <1>3, <1>6, <2>1, <2>2, RunTypes DEF OtherTypes
<1> QED BY <1>5, <1>12, <1>13, <1>14, <1>15, <1>16, InductivePartsNext DEF ServerInv

\* The router refuses a dispatched attempt before any effect.
LEMMA RouterRefusesKeeps ==
    ASSUME CreationConsistent, NEW d \in Runs, RouterRefuses(d)
    PROVE  CreationConsistent'
<1>1. RowsOK /\ OtherTypes /\ ServerInv
    BY InductiveParts
<1>2. /\ run[d].pc = "launching" /\ run[d].pc # "off" /\ run[d].c \in Creations
      /\ run[d].pc \in Dispatched /\ run[d].pc \in BeforeEffect
    BY <1>1, RunFence DEF RouterRefuses, Dispatched, BeforeEffect
<1>3. run[d].g = 1 /\ launches[run[d].c] = 0 /\ Now[run[d].c] = "dispatching"
    BY <1>1, <1>2 DEF ServerInv, RunsHoldTheirFence
<1>4. /\ IsCurrent(run[d]) /\ End(d) /\ Update(run[d], "failed", "not-admitted", 1)
      /\ claim' = [claim EXCEPT ![run[d].c] = NoClaim]
      /\ UNCHANGED <<current, native, adopted, answered,
                     up, pid, queue, owner, onDisk, launches>>
    BY <1>3 DEF RouterRefuses, CanFailBeforeProvider, FailBeforeProvider
<1>5. RowsOK' /\ Now' = [Now EXCEPT ![run[d].c] = "failed"] /\ Home' = Home
  <2>1. /\ RowConsistent("failed", "not-admitted", 1) /\ 1 \in Generations
        /\ "failed" \in States \ {"absent"} /\ "not-admitted" \in Deliveries
      BY DEF RowConsistent, Pending, Effective, States, Deliveries, Generations
  <2> QED BY <1>1, <1>2, <1>4, <2>1, UpdateKeepsRows
<1>6. Withdrawn(run[d])
  <2>1. run[d].a = current[run[d].c] /\ run[d].a # 0
      BY <1>4 DEF IsCurrent
  <2> QED BY <1>3, <1>5, <2>1 DEF Withdrawn, Sees
<1>7. ServerInv'
    BY <1>1, <1>2, <1>4, <1>5, <1>6, EndKeepsServer
<1>8. OtherTypes'
  <2>1. NoClaim \in [a : 0..MaxAttempts, g : Generations]
      BY StoreAssumption DEF NoClaim, Generations
  <2> QED BY <1>1, <1>4, <2>1, RunTypes DEF OtherTypes, End
<1> QED BY <1>5, <1>7, <1>8, InductivePartsNext

\* A queue entry is cancelled, and refused if it still waits.
LEMMA CancelKeeps ==
    ASSUME CreationConsistent, NEW k \in DOMAIN queue, Cancel(k)
    PROVE  CreationConsistent'
<1> DEFINE f == queue[k]
<1>1. RowsOK /\ OtherTypes /\ ServerInv
    BY InductiveParts
<1>2. queue \in Seq(Fence) /\ k \in 1..Len(queue) /\ queue # <<>>
    BY <1>1, LenProperties DEF OtherTypes
<1>3. f \in Fence /\ f.c \in Creations
  <2>1. queue[k] \in Fence
      BY <1>2, ElementOfSeq
  <2> QED BY <2>1 DEF Fence
<1>4. up
  <2>1. queue # <<>> /\ (~up => queue = <<>>)
      BY <1>1, <1>2 DEF ServerInv, WorkIsThisServers
  <2> QED BY <1>1, <2>1 DEF OtherTypes
<1>5. /\ queue' \in Seq(Fence)
      /\ \A i \in DOMAIN queue' : \E j \in DOMAIN queue : queue'[i] = queue[j]
    BY <1>2, RemoveAtElements DEF Cancel
<1>6. UNCHANGED <<current, claim, native, adopted, answered,
                  up, pid, run, owner, onDisk, launches>>
    BY DEF Cancel
<1>7. \/ CanFailBeforeEffects(f) /\ FailBeforeEffects(f)
      \/ UNCHANGED attempt
    BY DEF Cancel
<1> HIDE DEF f
<1>8. RowsOK' /\ Home' = Home /\ (Now' = Now \/ Waited(f))
  <2>1. CASE CanFailBeforeEffects(f) /\ FailBeforeEffects(f)
      BY <1>1, <1>3, <1>6, <2>1, RefusalKeepsRows, RefusedWaited DEF Refused
  <2>2. CASE UNCHANGED attempt
      BY <1>1, <1>6, <2>2, RowsFrame
  <2> QED BY <1>7, <2>1, <2>2
<1>9. ServerInv'
    BY <1>1, <1>3, <1>4, <1>5, <1>6, <1>8, ChangeKeepsServer
<1>10. OtherTypes'
    BY <1>1, <1>5, <1>6 DEF OtherTypes
<1> QED BY <1>8, <1>9, <1>10, InductivePartsNext

-----------------------------------------------------------------------------
(* The native side, and what it reports.                                    *)

\* An owner that lives or is watched was launched; NoOwner neither lives nor
\* is watched.
LEMMA OwnerSteps ==
    ASSUME CreationConsistent, NEW c \in Creations,
           owner[c].life = "live" \/ owner[c].watched,
           RowsOK', Home' = Home, Now' = Now \/ Kept(OwnerFence(c)),
           UNCHANGED <<current, adopted, answered, up, pid, run, queue, launches>>,
           claim' \in [Creations -> [a : 0..MaxAttempts, g : Generations]],
           native' \in [Creations -> Natives \cup {NoNative}],
           onDisk' \subseteq Natives,
           NEW o \in OwnerRec, owner' = [owner EXCEPT ![c] = o]
    PROVE  CreationConsistent'
<1>1. RowsOK /\ OtherTypes /\ ServerInv
    BY InductiveParts
<1>2. owner[c] # NoOwner
    BY DEF NoOwner
<1>3. /\ owner' \in [Creations -> OwnerRec]
      /\ \A e \in Creations \ {c} : owner'[e] = owner[e]
    BY <1>1, OwnerTypes
<1>4. Now' = Now \/ Sees(OwnerFence(c), Effective, Effective)
    BY DEF Kept, Sees, Effective
<1>5. ServerInv'
    BY <1>1, <1>2, <1>3, <1>4, OwnerKeepsServer
<1>6. OtherTypes'
    BY <1>1, <1>3 DEF OtherTypes
<1> QED BY <1>5, <1>6, InductivePartsNext

\* The record of an owner, and the fence it carries.
LEMMA OwnerRecord ==
    ASSUME OtherTypes, NEW c \in Creations
    PROVE  /\ owner[c] \in OwnerRec /\ owner[c].native \in Natives \cup {NoNative}
           /\ OwnerFence(c).c = c
           /\ owner = [owner EXCEPT ![c] = owner[c]]
BY DEF OtherTypes, OwnerRec, OwnerFence

\* The provider makes its native session.
LEMMA OwnerNamesKeeps ==
    ASSUME CreationConsistent, NEW c \in Creations, NEW n \in Natives, OwnerNames(c, n)
    PROVE  CreationConsistent'
<1> DEFINE o == [owner[c] EXCEPT !.native = n]
<1>1. RowsOK /\ OtherTypes /\ ServerInv
    BY InductiveParts
<1>2. o \in OwnerRec
    BY <1>1, OwnerRecord, OwnerFields
<1>3. owner' = [owner EXCEPT ![c] = o] /\ owner[c].life = "live"
    BY DEF OwnerNames
<1>4. onDisk' \subseteq Natives
    BY <1>1 DEF OwnerNames, OtherTypes
<1>5. UNCHANGED <<storeVars, up, pid, run, queue, launches>>
    BY DEF OwnerNames
<1> HIDE DEF o
<1>6. RowsOK' /\ Home' = Home /\ Now' = Now
    BY <1>1, <1>5, RowsFrame DEF storeVars
<1>7. /\ claim' \in [Creations -> [a : 0..MaxAttempts, g : Generations]]
      /\ native' \in [Creations -> Natives \cup {NoNative}]
    BY <1>1, <1>5 DEF OtherTypes, storeVars
<1> QED BY <1>2, <1>3, <1>4, <1>5, <1>6, <1>7, OwnerSteps DEF storeVars

\* The provider takes the message.
LEMMA OwnerTakesInputKeeps ==
    ASSUME CreationConsistent, NEW c \in Creations, OwnerTakesInput(c)
    PROVE  CreationConsistent'
<1> DEFINE o == [owner[c] EXCEPT !.input = "taken"]
<1>1. RowsOK /\ OtherTypes /\ ServerInv
    BY InductiveParts
<1>2. o \in OwnerRec
  <2>1. owner[c] \in OwnerRec
      BY <1>1, OwnerRecord
  <2> QED BY <2>1 DEF OwnerRec
<1>3. owner' = [owner EXCEPT ![c] = o] /\ owner[c].life = "live"
    BY DEF OwnerTakesInput
<1>4. UNCHANGED <<storeVars, up, pid, run, queue, onDisk, launches>>
    BY DEF OwnerTakesInput
<1> HIDE DEF o
<1>5. RowsOK' /\ Home' = Home /\ Now' = Now
    BY <1>1, <1>4, RowsFrame DEF storeVars
<1>6. /\ claim' \in [Creations -> [a : 0..MaxAttempts, g : Generations]]
      /\ native' \in [Creations -> Natives \cup {NoNative}]
      /\ onDisk' \subseteq Natives
    BY <1>1, <1>4 DEF OtherTypes, storeVars
<1> QED BY <1>2, <1>3, <1>4, <1>5, <1>6, OwnerSteps DEF storeVars

\* A report binds the owner's native, or proves that it took the message.
LEMMA ReportKeeps ==
    ASSUME CreationConsistent, NEW c \in Creations,
           owner[c].life = "live" \/ owner[c].watched,
           CanBindNative(OwnerFence(c), owner[c].native),
           \/ BindNative(OwnerFence(c), owner[c].native)
           \/ ConfirmOwnedInput(OwnerFence(c), owner[c].native),
           NEW o \in OwnerRec, owner' = [owner EXCEPT ![c] = o],
           UNCHANGED <<current, adopted, answered, up, pid, run, queue, onDisk, launches>>
    PROVE  CreationConsistent'
<1> DEFINE f == OwnerFence(c)
           n == owner[c].native
<1>1. RowsOK /\ OtherTypes /\ ServerInv
    BY InductiveParts
<1>2. n \in Natives \cup {NoNative} /\ f.c = c
    BY <1>1, OwnerRecord
<1>3. CanBindNative(f, n) /\ (BindNative(f, n) \/ ConfirmOwnedInput(f, n))
    OBVIOUS
<1>4. /\ claim \in [Creations -> [a : 0..MaxAttempts, g : Generations]]
      /\ native \in [Creations -> Natives \cup {NoNative}]
      /\ onDisk' \subseteq Natives
    BY <1>1 DEF OtherTypes
<1> HIDE DEF f, n
<1>5. /\ RowsOK' /\ Home' = Home /\ Kept(f)
      /\ claim' \in [Creations -> [a : 0..MaxAttempts, g : Generations]]
      /\ native' \in [Creations -> Natives \cup {NoNative}]
    BY <1>1, <1>2, <1>3, <1>4, BindingKeepsRows
<1> QED BY <1>4, <1>5, OwnerSteps DEF f

\* The four ways in which a native id or a consumption is reported.
LEMMA ReportsKeep ==
    ASSUME CreationConsistent, NEW c \in Creations,
           ReportNative(c) \/ ReportInput(c) \/ ReportBoth(c) \/ HostEvidence(c)
    PROVE  CreationConsistent'
<1>1. RowsOK /\ OtherTypes /\ ServerInv
    BY InductiveParts
<1>2. owner[c] \in OwnerRec /\ owner = [owner EXCEPT ![c] = owner[c]]
    BY <1>1, OwnerRecord
<1>3. CASE ReportNative(c)
  <2>1. [owner[c] EXCEPT !.named = TRUE] \in OwnerRec
      BY <1>2, OwnerFields
  <2>2. owner' = [owner EXCEPT ![c] = [owner[c] EXCEPT !.named = TRUE]]
      BY <1>3 DEF ReportNative
  <2> QED BY <1>3, <2>1, <2>2, ReportKeeps DEF ReportNative
<1>4. CASE ReportInput(c)
  <2>1. owner' = [owner EXCEPT ![c] = owner[c]]
      BY <1>2, <1>4 DEF ReportInput
  <2> QED BY <1>2, <1>4, <2>1, ReportKeeps DEF ReportInput, CanConfirmOwnedInput
<1>5. CASE ReportBoth(c)
  <2>1. owner' = [owner EXCEPT ![c] = owner[c]]
      BY <1>2, <1>5 DEF ReportBoth
  <2> QED BY <1>2, <1>5, <2>1, ReportKeeps DEF ReportBoth, CanConfirmOwnedInput
<1>6. CASE HostEvidence(c)
  <2>1. owner' = [owner EXCEPT ![c] = owner[c]]
      BY <1>2, <1>6 DEF HostEvidence
  <2> QED BY <1>2, <1>6, <2>1, ReportKeeps DEF HostEvidence, CanConfirmOwnedInput
<1> QED BY <1>3, <1>4, <1>5, <1>6

\* The provider's stream ends; its owner is lost to this server.
LEMMA StreamEndsKeeps ==
    ASSUME CreationConsistent, NEW c \in Creations, NEW gone \in BOOLEAN,
           StreamEnds(c, gone)
    PROVE  CreationConsistent'
<1> DEFINE life == IF gone THEN "gone" ELSE owner[c].life
           registered == owner[c].registered /\ ~gone
           o == [owner[c] EXCEPT !.watched = FALSE, !.life = life,
                                 !.registered = registered]
<1>1. RowsOK /\ OtherTypes /\ ServerInv
    BY InductiveParts
<1>2. owner[c] \in OwnerRec /\ OwnerFence(c).c = c
    BY <1>1, OwnerRecord
<1>3. owner' = [owner EXCEPT ![c] = o]
    BY <1>1 DEF StreamEnds, OtherTypes
<1>4. /\ owner[c].watched /\ RecordOwnerLoss(OwnerFence(c))
      /\ UNCHANGED <<current, claim, native, adopted, answered,
                     up, pid, run, queue, onDisk, launches>>
    BY DEF StreamEnds
<1>5. life \in {"none", "live", "gone"} /\ registered \in BOOLEAN
    BY <1>2 DEF OwnerRec
<1> HIDE DEF life, registered
<1>6. o \in OwnerRec
    BY <1>2, <1>5 DEF OwnerRec
<1> HIDE DEF o
<1>7. RowsOK' /\ Home' = Home /\ (Now' = Now \/ Kept(OwnerFence(c)))
  <2> DEFINE f == OwnerFence(c)
  <2>1. f.c \in Creations /\ RecordOwnerLoss(f)
      BY <1>2, <1>4
  <2> HIDE DEF f
  <2>2. RowsOK' /\ Home' = Home /\ (Now' = Now \/ Kept(f))
      BY <1>1, <1>4, <2>1, OwnerLossKeepsRows
  <2> QED BY <2>2 DEF f
<1>8. /\ claim' \in [Creations -> [a : 0..MaxAttempts, g : Generations]]
      /\ native' \in [Creations -> Natives \cup {NoNative}]
      /\ onDisk' \subseteq Natives
    BY <1>1, <1>4 DEF OtherTypes
<1> QED BY <1>3, <1>4, <1>6, <1>7, <1>8, OwnerSteps

\* An unwatched provider ends.
LEMMA OwnerEndsKeeps ==
    ASSUME CreationConsistent, NEW c \in Creations, OwnerEnds(c)
    PROVE  CreationConsistent'
<1> DEFINE o == [owner[c] EXCEPT !.life = "gone", !.registered = FALSE]
<1>1. RowsOK /\ OtherTypes /\ ServerInv
    BY InductiveParts
<1>2. o \in OwnerRec
  <2>1. owner[c] \in OwnerRec
      BY <1>1, OwnerRecord
  <2> QED BY <2>1 DEF OwnerRec
<1>3. owner' = [owner EXCEPT ![c] = o] /\ owner[c].life = "live"
    BY <1>1 DEF OwnerEnds, OtherTypes
<1>4. UNCHANGED <<storeVars, up, pid, run, queue, onDisk, launches>>
    BY DEF OwnerEnds
<1> HIDE DEF o
<1>5. RowsOK' /\ Home' = Home /\ Now' = Now
    BY <1>1, <1>4, RowsFrame DEF storeVars
<1>6. /\ claim' \in [Creations -> [a : 0..MaxAttempts, g : Generations]]
      /\ native' \in [Creations -> Natives \cup {NoNative}]
      /\ onDisk' \subseteq Natives
    BY <1>1, <1>4 DEF OtherTypes, storeVars
<1> QED BY <1>2, <1>3, <1>4, <1>5, <1>6, OwnerSteps DEF storeVars

-----------------------------------------------------------------------------
(* Native files made elsewhere, and the server process.                     *)

\* Steps that touch neither rows nor server.
LEMMA ServerFrame ==
    ASSUME ServerInv, Now' = Now, Home' = Home,
           UNCHANGED <<current, up, pid, run, queue, owner, launches>>
    PROVE  ServerInv'
<1>1. RunsHoldTheirFence'
    BY DEF ServerInv, RunsHoldTheirFence
<1>2. OneDispatcher'
    BY DEF ServerInv, OneDispatcher
<1>3. WorkIsThisServers'
    BY DEF ServerInv, WorkIsThisServers
<1>4. OwnersAreLaunched'
    BY DEF ServerInv, OwnersAreLaunched
<1> QED BY <1>1, <1>2, <1>3, <1>4 DEF ServerInv

\* Native files appear and are discovered.
LEMMA FilesKeep ==
    ASSUME CreationConsistent, NEW n \in Natives, ExternalNative(n) \/ Discover(n)
    PROVE  CreationConsistent'
<1>1. RowsOK /\ OtherTypes /\ ServerInv
    BY InductiveParts
<1>2. UNCHANGED <<current, attempt, up, pid, run, queue, owner, launches>>
    BY DEF ExternalNative, Discover, storeVars, serverVars
<1>3. RowsOK' /\ Home' = Home /\ Now' = Now
    BY <1>1, <1>2, RowsFrame
<1>4. ServerInv'
    BY <1>1, <1>2, <1>3, ServerFrame
<1>5. OtherTypes'
    BY <1>1 DEF ExternalNative, Discover, Adopt, storeVars, serverVars, OtherTypes
<1> QED BY <1>3, <1>4, <1>5, InductivePartsNext

\* Stuttering.
LEMMA StutterKeeps ==
    ASSUME CreationConsistent, UNCHANGED vars
    PROVE  CreationConsistent'
<1>1. RowsOK /\ OtherTypes /\ ServerInv
    BY InductiveParts
<1>2. UNCHANGED <<current, attempt, up, pid, run, queue, owner, launches>>
    BY DEF vars, storeVars, serverVars
<1>3. RowsOK' /\ Home' = Home /\ Now' = Now
    BY <1>1, <1>2, RowsFrame
<1>4. ServerInv'
    BY <1>1, <1>2, <1>3, ServerFrame
<1>5. OtherTypes'
    BY <1>1 DEF vars, storeVars, serverVars, OtherTypes
<1> QED BY <1>3, <1>4, <1>5, InductivePartsNext

\* A server without calls and without queue holds what it must.
LEMMA IdleServer ==
    ASSUME OtherTypes', run' = [d \in Runs |-> Off], queue' = <<>>,
           ~up' => pid' < MaxLives
    PROVE  RunsHoldTheirFence' /\ OneDispatcher' /\ WorkIsThisServers'
<1>1. \A d \in Runs : run'[d].pc = "off"
    BY DEF Off
<1>2. /\ "off" \notin Dispatched /\ "off" \notin BeforeEffect
      /\ "off" \notin AfterEffect
    BY DEF Dispatched, BeforeEffect, AfterEffect
<1>3. RunsHoldTheirFence'
    BY <1>1, <1>2 DEF RunsHoldTheirFence
<1>4. OneDispatcher'
    BY <1>1, <1>2 DEF OneDispatcher
<1>5. WorkIsThisServers'
  <2>1. DOMAIN queue' = {}
      OBVIOUS
  <2> QED BY <1>1, <2>1 DEF WorkIsThisServers
<1> QED BY <1>3, <1>4, <1>5

\* A crash loses every call and the queue.
LEMMA CrashKeeps ==
    ASSUME CreationConsistent, Crash
    PROVE  CreationConsistent'
<1>1. RowsOK /\ OtherTypes /\ ServerInv
    BY InductiveParts
<1>2. /\ pid < MaxLives /\ up' = FALSE /\ run' = [d \in Runs |-> Off]
      /\ queue' = <<>> /\ UNCHANGED <<storeVars, pid, onDisk, launches>>
    BY DEF Crash
<1>3. RowsOK' /\ Home' = Home /\ Now' = Now
    BY <1>1, <1>2, RowsFrame DEF storeVars
<1>4. ASSUME NEW c \in Creations
      PROVE  /\ owner'[c] \in OwnerRec
             /\ owner[c] = NoOwner => owner'[c] = NoOwner
  <2>1. owner[c] \in OwnerRec
      BY <1>1, OwnerRecord
  <2>2. owner'[c] = [owner[c] EXCEPT !.watched = FALSE, !.registered = FALSE]
      BY DEF Crash
  <2>3. owner'[c] \in OwnerRec
      BY <2>1, <2>2 DEF OwnerRec
  <2>4. owner[c] = NoOwner => owner'[c] = NoOwner
    <3> SUFFICES ASSUME owner[c] = NoOwner
                 PROVE  owner'[c] = NoOwner
        OBVIOUS
    <3>1. owner'[c] = [[NoOwner EXCEPT !.watched = FALSE] EXCEPT !.registered = FALSE]
        BY <2>2
    <3>2. NoOwner \in OwnerRec /\ NoOwner.watched = FALSE /\ NoOwner.registered = FALSE
        BY <2>1 DEF NoOwner
    <3>3. ASSUME NEW w \in OwnerRec
          PROVE  /\ [w EXCEPT !.watched = w.watched] = w
                 /\ [w EXCEPT !.registered = w.registered] = w
        BY DEF OwnerRec
    <3> QED BY <3>1, <3>2, <3>3
  <2> QED BY <2>3, <2>4
<1>5. OtherTypes'
  <2>1. owner' \in [Creations -> OwnerRec]
    <3>1. \E o : owner' = [c \in Creations |-> o[c]]
      <4> DEFINE o == [c \in Creations |->
                         [owner[c] EXCEPT !.watched = FALSE, !.registered = FALSE]]
      <4>1. owner' = o
          BY DEF Crash
      <4>2. o = [c \in Creations |-> o[c]]
          OBVIOUS
      <4> HIDE DEF o
      <4> QED BY <4>1, <4>2
    <3> QED BY <1>4, <3>1
  <2>2. run' \in [Runs -> RunRec]
    <3>1. Off \in RunRec
        BY StoreAssumption DEF Off, RunRec, Pcs, Generations
    <3> QED BY <1>2, <3>1
  <2>3. queue' \in Seq(Fence)
      BY <1>2
  <2> QED BY <1>1, <1>2, <2>1, <2>2, <2>3 DEF OtherTypes, storeVars
<1>6. RunsHoldTheirFence' /\ OneDispatcher' /\ WorkIsThisServers'
    BY <1>2, <1>5, IdleServer
<1>7. OwnersAreLaunched'
    BY <1>1, <1>2, <1>3, <1>4 DEF ServerInv, OwnersAreLaunched
<1> QED BY <1>3, <1>5, <1>6, <1>7, InductivePartsNext DEF ServerInv

\* Recovery leaves what was launched among the attempts that may have had an
\* effect.
LEMMA RecoveryKeepsOwners ==
    ASSUME ServerInv, NEW alive, UNCHANGED <<owner, launches>>,
           \A c \in Creations :
              \/ Now'[c] = Now[c]
              \/ /\ Home[c] \notin alive
                 /\ \/ Now[c] \in Pending /\ Now'[c] = "failed"
                    \/ Now[c] \in Effective /\ Now'[c] = "uncertain"
    PROVE  OwnersAreLaunched'
BY DEF ServerInv, OwnersAreLaunched, Pending, Effective

\* A restart recovers what the dead server left.
LEMMA RestartKeeps ==
    ASSUME CreationConsistent, Restart
    PROVE  CreationConsistent'
<1>1. RowsOK /\ OtherTypes /\ ServerInv
    BY InductiveParts
<1>2. /\ ~up /\ up' = TRUE
      /\ UNCHANGED <<current, claim, native, adopted, answered,
                     run, queue, owner, onDisk, launches>>
    BY DEF Restart
<1>3. PICK p \in IF PidReuse THEN 1..(pid + 1) ELSE {pid + 1} :
          pid' = p /\ \E alive \in Alive(p) : RecoverOwnerLoss(alive)
    BY DEF Restart
<1>4. PICK alive : RecoverOwnerLoss(alive)
    BY <1>3
<1>5. /\ RowsOK' /\ Home' = Home
      /\ \A c \in Creations :
            \/ Now'[c] = Now[c]
            \/ /\ Home[c] \notin alive
               /\ \/ Now[c] \in Pending /\ Now'[c] = "failed"
                  \/ Now[c] \in Effective /\ Now'[c] = "uncertain"
    BY <1>1, <1>2, <1>4, RecoveryKeepsRows
<1>6. pid < MaxLives /\ queue = <<>> /\ \A d \in Runs : run[d].pc = "off"
    BY <1>1, <1>2 DEF ServerInv, WorkIsThisServers
<1>7. pid' \in Pids
    BY <1>1, <1>3, <1>6, StoreAssumption DEF OtherTypes, Pids
<1>8. OtherTypes'
    BY <1>1, <1>2, <1>7 DEF OtherTypes
<1>9. OwnersAreLaunched'
    BY <1>1, <1>2, <1>5, RecoveryKeepsOwners
<1>10. /\ "off" \notin Dispatched /\ "off" \notin BeforeEffect
       /\ "off" \notin AfterEffect
    BY DEF Dispatched, BeforeEffect, AfterEffect
<1>11. RunsHoldTheirFence'
    BY <1>2, <1>6, <1>10 DEF RunsHoldTheirFence
<1>12. OneDispatcher'
    BY <1>2, <1>6, <1>10 DEF OneDispatcher
<1>13. WorkIsThisServers'
  <2>1. DOMAIN queue' = {}
      BY <1>2, <1>6
  <2> QED BY <1>2, <1>6, <2>1 DEF WorkIsThisServers
<1> QED BY <1>5, <1>8, <1>9, <1>11, <1>12, <1>13, InductivePartsNext DEF ServerInv

\* The recovery of a competing server spares the attempts of the running one,
\* whose pid is alive.
LEMMA CompetingStartupKeeps ==
    ASSUME CreationConsistent, CompetingStartup
    PROVE  CreationConsistent'
<1>1. RowsOK /\ OtherTypes /\ ServerInv
    BY InductiveParts
<1>2. /\ up /\ UNCHANGED <<current, claim, native, adopted, answered, serverVars>>
    BY DEF CompetingStartup
<1>3. PICK alive \in Alive(pid) : RecoverOwnerLoss(alive)
    BY DEF CompetingStartup
<1>4. pid \in alive
    BY <1>3 DEF Alive
<1>5. /\ RowsOK' /\ Home' = Home
      /\ \A c \in Creations :
            \/ Now'[c] = Now[c]
            \/ /\ Home[c] \notin alive
               /\ \/ Now[c] \in Pending /\ Now'[c] = "failed"
                  \/ Now[c] \in Effective /\ Now'[c] = "uncertain"
    BY <1>1, <1>2, <1>3, RecoveryKeepsRows
<1>6. OtherTypes'
    BY <1>1, <1>2 DEF OtherTypes, serverVars
<1>7. OwnersAreLaunched'
    BY <1>1, <1>2, <1>5, RecoveryKeepsOwners DEF serverVars
<1>8. ASSUME NEW d \in Runs, run[d].pc \in Dispatched
      PROVE  Now'[run[d].c] = Now[run[d].c]
  <2>1. run[d].pc \notin {"off", "submitting"}
      BY <1>8 DEF Dispatched, BeforeEffect, AfterEffect
  <2>2. run[d].c \in Creations /\ current[run[d].c] # 0
    <3>1. run[d].c \in Creations /\ run[d].a \in 1..current[run[d].c]
        BY <1>1, <2>1 DEF ServerInv, RunsHoldTheirFence
    <3>2. current[run[d].c] \in Nat
        BY <1>1, <3>1, StoreAssumption DEF RowsOK
    <3> QED BY <3>1, <3>2
  <2>3. Home[run[d].c] = pid
      BY <1>1, <2>1, <2>2 DEF ServerInv, WorkIsThisServers
  <2> QED BY <1>4, <1>5, <2>2, <2>3
<1>9. BeforeEffect \subseteq Dispatched
    BY DEF Dispatched
<1>10. RunsHoldTheirFence'
    BY <1>1, <1>2, <1>8, <1>9 DEF ServerInv, RunsHoldTheirFence, serverVars
<1>11. OneDispatcher'
    BY <1>1, <1>2 DEF ServerInv, OneDispatcher, serverVars
<1>12. WorkIsThisServers'
    BY <1>1, <1>2, <1>5 DEF ServerInv, WorkIsThisServers, serverVars
<1> QED BY <1>5, <1>6, <1>7, <1>10, <1>11, <1>12, InductivePartsNext DEF ServerInv

-----------------------------------------------------------------------------
(* Part 3.  The invariants.                                                 *)

\* The initial states.
LEMMA InitInductive ==
    ASSUME Init
    PROVE  CreationConsistent
<1>1. Absent \in AttemptRec /\ NoClaim \in [a : 0..MaxAttempts, g : Generations]
      /\ Off \in RunRec /\ NoOwner \in OwnerRec /\ 1 \in Pids
      /\ RowConsistent("absent", "not-admitted", 0)
  <2>1. Absent \in AttemptRec
      BY StoreAssumption DEF Absent, AttemptRec, States, Deliveries, Generations
  <2>2. NoClaim \in [a : 0..MaxAttempts, g : Generations]
      BY StoreAssumption DEF NoClaim, Generations
  <2>3. Off \in RunRec
      BY StoreAssumption DEF Off, RunRec, Pcs, Generations
  <2>4. NoOwner \in OwnerRec
      BY StoreAssumption DEF NoOwner, OwnerRec, Generations
  <2>5. 1 \in Pids
      BY StoreAssumption DEF Pids
  <2>6. RowConsistent("absent", "not-admitted", 0)
      BY DEF RowConsistent, Pending, Effective
  <2> QED BY <2>1, <2>2, <2>3, <2>4, <2>5, <2>6
<1>2. /\ current = [c \in Creations |-> 0]
      /\ attempt = [c \in Creations |-> [a \in AttemptNos |-> Absent]]
      /\ Absent.state = "absent" /\ Absent.delivery = "not-admitted" /\ Absent.gen = 0
    BY DEF Init, StoreInit, Absent
<1>3. RowsOK
  <2>1. \A a \in AttemptNos : ~(a < 0) /\ a # 0
      BY StoreAssumption DEF AttemptNos
  <2>2. /\ current \in [Creations -> 0..MaxAttempts]
        /\ attempt \in [Creations -> [AttemptNos -> AttemptRec]]
      BY <1>1, <1>2, StoreAssumption
  <2>3. OnlyRefusedAreRetried
      BY <1>2, <2>1 DEF OnlyRefusedAreRetried, Superseded
  <2>4. RowsAreConsistent
      BY <1>1, <1>2, <2>1 DEF RowsAreConsistent
  <2> QED BY <2>2, <2>3, <2>4 DEF RowsOK
<1>4. OtherTypes
  <2>1. /\ claim \in [Creations -> [a : 0..MaxAttempts, g : Generations]]
        /\ native \in [Creations -> Natives \cup {NoNative}]
        /\ answered \in [Creations -> [RetryKeys -> 0..MaxAttempts]]
        /\ adopted \subseteq Natives
      BY <1>1, StoreAssumption DEF Init, StoreInit
  <2>2. /\ up \in BOOLEAN /\ pid \in Pids /\ run \in [Runs -> RunRec]
        /\ queue \in Seq(Fence) /\ owner \in [Creations -> OwnerRec]
        /\ onDisk \subseteq Natives /\ launches \in [Creations -> Nat]
      BY <1>1 DEF Init
  <2> QED BY <2>1, <2>2 DEF OtherTypes
<1>5. ServerInv
  <2>1. \A d \in Runs : run[d].pc = "off"
      BY DEF Init, Off
  <2>2. /\ "off" \notin Dispatched /\ "off" \notin BeforeEffect
        /\ "off" \notin AfterEffect
      BY DEF Dispatched, BeforeEffect, AfterEffect
  <2>3. RunsHoldTheirFence
      BY <2>1, <2>2 DEF RunsHoldTheirFence
  <2>4. OneDispatcher
      BY <2>1, <2>2 DEF OneDispatcher
  <2>5. WorkIsThisServers
    <3>1. DOMAIN queue = {} /\ up = TRUE
        BY DEF Init
    <3> QED BY <2>1, <3>1 DEF WorkIsThisServers
  <2>6. OwnersAreLaunched
    <3>1. \A c \in Creations : launches[c] = 0 /\ owner[c] = NoOwner
        BY DEF Init
    <3>2. 0 # 1 /\ 0 \in {0, 1}
        OBVIOUS
    <3> QED BY <3>1, <3>2 DEF OwnersAreLaunched
  <2> QED BY <2>3, <2>4, <2>5, <2>6 DEF ServerInv
<1> QED BY <1>3, <1>4, <1>5, InductiveParts

\* The steps of a call.
LEMMA RunStepKeeps ==
    ASSUME CreationConsistent, NEW d \in Runs, RunStep(d)
    PROVE  CreationConsistent'
<1>1. CASE Admit(d) BY <1>1, AdmitKeeps
<1>2. CASE AcceptanceFails(d) BY <1>2, AcceptanceFailsKeeps
<1>3. CASE JoinsAnother(d) BY <1>3, JoinsAnotherKeeps
<1>4. CASE StartSaved(d) BY <1>4, StartSavedKeeps
<1>5. CASE RunFails(d) BY <1>5, RunFailsKeeps
<1>6. CASE Dispatch(d) BY <1>6, DispatchKeeps
<1>7. CASE RouterRefuses(d) BY <1>7, RouterRefusesKeeps
<1>8. CASE LaunchProvider(d) BY <1>8, LaunchProviderKeeps
<1>9. CASE StartFails(d) BY <1>9, StartFailsKeeps
<1>10. CASE Attach(d) BY <1>10, AttachKeeps
<1>11. CASE Settle(d) BY <1>11, SettleKeeps
<1>12. CASE SettleFails(d) BY <1>12, SettleFailsKeeps
<1>13. CASE AbortEnds(d) BY <1>13, AbortEndsKeeps
<1>14. CASE \E n \in Natives : MakeCopy(d, n) BY <1>14, MakeCopyKeeps
<1>15. CASE BindCopy(d) BY <1>15, BindCopyKeeps
<1> QED BY <1>1, <1>2, <1>3, <1>4, <1>5, <1>6, <1>7, <1>8, <1>9, <1>10, <1>11,
           <1>12, <1>13, <1>14, <1>15 DEF RunStep

\* Every step.
LEMMA StepInductive ==
    ASSUME CreationConsistent, [Next]_vars
    PROVE  CreationConsistent'
<1>1. CASE \E d \in Runs : RunStep(d)
    BY <1>1, RunStepKeeps
<1>2. CASE \E d \in Runs : Promote(d)
    BY <1>2, PromoteKeeps
<1>3. CASE \E d \in Runs, c \in Creations :
              \/ Submit(d, c) \/ SubmitCopy(d, c)
              \/ \E key \in RetryKeys : Retry(d, c, key)
    BY <1>3, SubmitKeeps, SubmitCopyKeeps, RetryKeeps
<1>4. CASE \E k \in DOMAIN queue : Cancel(k)
    BY <1>4, CancelKeeps
<1>5. CASE \E c \in Creations : OwnerStep(c)
    BY <1>5, OwnerNamesKeeps, OwnerTakesInputKeeps, ReportsKeep, StreamEndsKeeps,
       OwnerEndsKeeps DEF OwnerStep
<1>6. CASE \E n \in Natives : ExternalNative(n) \/ Discover(n)
    BY <1>6, FilesKeep
<1>7. CASE Crash BY <1>7, CrashKeeps
<1>8. CASE Restart BY <1>8, RestartKeeps
<1>9. CASE CompetingStartup BY <1>9, CompetingStartupKeeps
<1>10. CASE UNCHANGED vars BY <1>10, StutterKeeps
<1> QED BY <1>1, <1>2, <1>3, <1>4, <1>5, <1>6, <1>7, <1>8, <1>9, <1>10 DEF Next

\* The inductive invariant: what every call past its dispatch, every queue
\* entry, every row and every owner keeps, for any number of creations, calls,
\* attempts and restarts.
THEOREM CreationInvariant == Spec => []CreationConsistent
<1>1. Init => CreationConsistent
    BY InitInductive
<1>2. CreationConsistent /\ [Next]_vars => CreationConsistent'
    BY StepInductive
<1> QED BY <1>1, <1>2, PTL DEF Spec

\* Every variable keeps its type.
THEOREM TypesHold == Spec => []TypeOK
<1>1. CreationConsistent => TypeOK
    BY DEF CreationConsistent
<1> QED BY <1>1, CreationInvariant, PTL

\* Never replay: a creation has at most one native effect over all its
\* attempts, retries, promotions, callers and restarts, and an attempt that
\* waits, or is refused and may be retried, has had none.
THEOREM NoReplay == Spec => []NeverReplayed
<1>1. CreationConsistent => NeverReplayed
  <2> SUFFICES ASSUME CreationConsistent, NEW c \in Creations
               PROVE  /\ launches[c] <= 1
                      /\ StateOf(c) \in {"saved", "queued", "failed"} => launches[c] = 0
      BY DEF NeverReplayed
  <2>1. /\ launches[c] \in {0, 1}
        /\ launches[c] = 1 => StateOf(c) \in Effective
      BY DEF CreationConsistent, OwnersAreLaunched, Now
  <2> QED BY <2>1 DEF Effective
<1> QED BY <1>1, CreationInvariant, PTL

\* Only attempts refused before any effect are superseded, and they stay so.
THEOREM RetriesAreSafe == Spec => []OnlyRefusedAreRetried
<1>1. CreationConsistent => OnlyRefusedAreRetried
    BY DEF CreationConsistent
<1> QED BY <1>1, CreationInvariant, PTL

-----------------------------------------------------------------------------
(* Part 4.  Durable creation implements the ledger.  What a step does to    *)
(* the rows and to the effects has one of five shapes.                      *)

Untouched == UNCHANGED <<current, attempt>>

\* One attempt is rewritten under a current fence.
Rewrites(f) ==
    /\ f.c \in Creations
    /\ UNCHANGED current
    /\ \/ CanFailBeforeEffects(f) /\ FailBeforeEffects(f)
       \/ CanFailBeforeEffects(f) /\ Update(f, "queued", "not-admitted", f.g)
       \/ CanBeginDispatch(f) /\ BeginDispatch(f)
       \/ CanFailBeforeProvider(f) /\ FailBeforeProvider(f) /\ launches[f.c] = 0
       \/ OwnerLossMatters(f) /\ MarkUncertain(f)
       \/ /\ launches[f.c] = 1
          /\ \E n \in Natives \cup {NoNative} :
                CanBindNative(f, n) /\ (BindNative(f, n) \/ ConfirmOwnedInput(f, n))

NewAttempt(c) ==
    /\ \E s \in Pending \cup {"failed"}, p \in Pids : Insert(c, p, s)
    /\ current[c] # 0 => StateOf(c) = "failed" /\ DeliveryOf(c) = "not-admitted"
    /\ current[c] < MaxAttempts

Recovers == UNCHANGED current /\ \E alive : RecoverOwnerLoss(alive)

Quiet ==
    \/ Untouched
    \/ \E f : Rewrites(f)
    \/ \E c \in Creations : NewAttempt(c)
    \/ Recovers

Effect(d) ==
    /\ Untouched
    /\ run[d].pc \in BeforeEffect
    /\ launches' = [launches EXCEPT ![run[d].c] = @ + 1]

\* Failures and losses, where they change a row, rewrite it.
LEMMA LossShape ==
    ASSUME NEW f, f.c \in Creations, UNCHANGED current, RecordOwnerLoss(f)
    PROVE  Untouched \/ Rewrites(f)
BY DEF RecordOwnerLoss, Rewrites, Untouched

\* Recording a failure rewrites one attempt, or nothing.
LEMMA FailureShape ==
    ASSUME NEW f, f.c \in Creations, UNCHANGED current, RecordFailure(f)
    PROVE  Untouched \/ Rewrites(f)
<1>1. CASE CanFailBeforeEffects(f)
    BY <1>1 DEF RecordFailure, Rewrites
<1>2. CASE ~CanFailBeforeEffects(f)
    BY <1>2, LossShape DEF RecordFailure
<1> QED BY <1>1, <1>2

\* A call's step is one effect, or quiet.
LEMMA RunStepShape ==
    ASSUME CreationConsistent, NEW d \in Runs, RunStep(d)
    PROVE  Effect(d) \/ (Quiet /\ launches' = launches)
<1>1. RowsOK /\ OtherTypes /\ ServerInv
    BY InductiveParts
<1>2. run[d].pc # "off" => run[d].c \in Creations
    BY <1>1, RunFence
<1>3. CASE Admit(d)
  <2>1. run[d].c \in Creations
      BY <1>2, <1>3 DEF Admit
  <2>2. CASE current[run[d].c] = 0
    <3>1. Insert(run[d].c, pid, "saved") /\ launches' = launches
        BY <1>3, <2>2 DEF Admit
    <3>2. pid \in Pids /\ "saved" \in Pending \cup {"failed"} /\ 0 < MaxAttempts
        BY <1>1, StoreAssumption DEF OtherTypes, Pending
    <3>3. NewAttempt(run[d].c)
        BY <2>2, <3>1, <3>2 DEF NewAttempt
    <3> QED BY <2>1, <3>1, <3>3 DEF Quiet
  <2>3. CASE current[run[d].c] # 0
      BY <1>3, <2>3 DEF Admit, Quiet, Untouched
  <2> QED BY <2>2, <2>3
<1>4. CASE AcceptanceFails(d)
  <2>1. run[d].c \in Creations
      BY <1>2, <1>4 DEF AcceptanceFails
  <2>2. Untouched \/ Rewrites(run[d])
      BY <1>4, <2>1 DEF AcceptanceFails, Untouched, Rewrites
  <2> QED BY <1>4, <2>2 DEF AcceptanceFails, Quiet
<1>5. CASE JoinsAnother(d)
    BY <1>5 DEF JoinsAnother, Quiet, Untouched, storeVars
<1>6. CASE StartSaved(d)
  <2> DEFINE f == [c |-> run[d].c, a |-> run[d].a, g |-> run[d].g]
  <2>1. f.c \in Creations
      BY <1>2, <1>6 DEF StartSaved
  <2>2. /\ CanFailBeforeEffects(f) /\ UNCHANGED current /\ launches' = launches
        /\ UNCHANGED attempt \/ FailBeforeEffects(f)
           \/ Update(f, "queued", "not-admitted", f.g)
      BY <1>6 DEF StartSaved, NothingToStart
  <2> HIDE DEF f
  <2>3. Untouched \/ Rewrites(f)
      BY <2>1, <2>2 DEF Untouched, Rewrites
  <2> QED BY <2>2, <2>3 DEF Quiet
<1>7. CASE RunFails(d)
  <2>1. Untouched \/ Rewrites(run[d])
      BY <1>2, <1>7, FailureShape DEF RunFails
  <2> QED BY <1>7, <2>1 DEF RunFails, Quiet
<1>8. CASE Dispatch(d)
  <2>1. Rewrites(run[d])
      BY <1>2, <1>8 DEF Dispatch, Rewrites
  <2> QED BY <1>8, <2>1 DEF Dispatch, Quiet
<1>9. CASE RouterRefuses(d)
  <2>1. launches[run[d].c] = 0
      BY <1>1, <1>9 DEF RouterRefuses, ServerInv, RunsHoldTheirFence, BeforeEffect
  <2>2. Rewrites(run[d])
      BY <1>2, <1>9, <2>1 DEF RouterRefuses, Rewrites
  <2> QED BY <1>9, <2>2 DEF RouterRefuses, Quiet
<1>10. CASE LaunchProvider(d)
    BY <1>10 DEF LaunchProvider, Effect, Untouched, BeforeEffect, storeVars
<1>11. CASE StartFails(d)
  <2>1. Untouched \/ Rewrites(run[d])
      BY <1>2, <1>11, FailureShape DEF StartFails
  <2> QED BY <1>11, <2>1 DEF StartFails, Quiet
<1>12. CASE Attach(d) \/ Settle(d) \/ SettleFails(d)
    BY <1>12 DEF Attach, Settle, SettleFails, Quiet, Untouched, storeVars
<1>13. CASE AbortEnds(d)
  <2>1. Untouched \/ Rewrites(run[d])
      BY <1>2, <1>13, FailureShape DEF AbortEnds
  <2> QED BY <1>13, <2>1 DEF AbortEnds, Quiet
<1>14. CASE \E n \in Natives : MakeCopy(d, n)
    BY <1>14 DEF MakeCopy, Effect, Untouched, BeforeEffect, storeVars
<1>15. CASE BindCopy(d)
  <2> DEFINE n == owner[run[d].c].native
  <2>1. run[d].c \in Creations
      BY <1>2, <1>15 DEF BindCopy
  <2>2. n \in Natives \cup {NoNative}
      BY <1>1, <2>1, OwnerRecord
  <2>3. launches[run[d].c] = 1
      BY <1>1, <1>15 DEF BindCopy, ServerInv, RunsHoldTheirFence, AfterEffect
  <2>4. /\ CanBindNative(run[d], n) /\ BindNative(run[d], n)
        /\ UNCHANGED current /\ launches' = launches
      BY <1>15 DEF BindCopy
  <2> HIDE DEF n
  <2>5. Rewrites(run[d])
      BY <2>1, <2>2, <2>3, <2>4 DEF Rewrites
  <2> QED BY <2>4, <2>5 DEF Quiet
<1> QED BY <1>3, <1>4, <1>5, <1>6, <1>7, <1>8, <1>9, <1>10, <1>11, <1>12, <1>13,
           <1>14, <1>15 DEF RunStep

\* The native side's steps are quiet: they report effects, they make none.
LEMMA OwnerStepShape ==
    ASSUME CreationConsistent, NEW c \in Creations, OwnerStep(c)
    PROVE  Quiet /\ launches' = launches
<1> DEFINE f == OwnerFence(c)
           n == owner[c].native
<1>1. RowsOK /\ OtherTypes /\ ServerInv
    BY InductiveParts
<1>2. n \in Natives \cup {NoNative} /\ f.c = c
    BY <1>1, OwnerRecord
<1>3. owner[c] # NoOwner => launches[c] = 1
    BY <1>1 DEF ServerInv, OwnersAreLaunched
<1>4. owner[c].life = "live" \/ owner[c].watched => owner[c] # NoOwner
    BY DEF NoOwner
<1>5. CASE ReportNative(c) \/ ReportInput(c) \/ ReportBoth(c) \/ HostEvidence(c)
  <2>1. /\ CanBindNative(f, n) /\ (BindNative(f, n) \/ ConfirmOwnedInput(f, n))
        /\ owner[c].life = "live" \/ owner[c].watched
        /\ UNCHANGED current /\ launches' = launches
      BY <1>5 DEF ReportNative, ReportInput, ReportBoth, HostEvidence,
                  CanConfirmOwnedInput
  <2>2. launches[f.c] = 1
      BY <1>2, <1>3, <1>4, <2>1
  <2> HIDE DEF f, n
  <2>3. Rewrites(f)
      BY <1>2, <2>1, <2>2 DEF Rewrites
  <2> QED BY <2>1, <2>3 DEF Quiet
<1>6. CASE \E gone \in BOOLEAN : StreamEnds(c, gone)
  <2>1. RecordOwnerLoss(f) /\ UNCHANGED current /\ launches' = launches
      BY <1>6 DEF StreamEnds
  <2> HIDE DEF f
  <2>2. Untouched \/ Rewrites(f)
      BY <1>2, <2>1, LossShape
  <2> QED BY <2>1, <2>2 DEF Quiet
<1>7. CASE \/ \E m \in Natives : OwnerNames(c, m)
           \/ OwnerTakesInput(c) \/ OwnerEnds(c)
    BY <1>7 DEF OwnerNames, OwnerTakesInput, OwnerEnds, Quiet, Untouched, storeVars
<1> QED BY <1>5, <1>6, <1>7 DEF OwnerStep

\* Every step is one effect or quiet.
LEMMA StepShape ==
    ASSUME CreationConsistent, [Next]_vars
    PROVE  (\E d \in Runs : Effect(d)) \/ (Quiet /\ launches' = launches)
<1>1. RowsOK /\ OtherTypes /\ ServerInv
    BY InductiveParts
<1>2. pid \in Pids /\ MaxAttempts \in Nat \ {0}
    BY <1>1, StoreAssumption DEF OtherTypes
<1>3. CASE \E d \in Runs : RunStep(d)
    BY <1>3, RunStepShape
<1>4. CASE \E d \in Runs : Promote(d)
    BY <1>4 DEF Promote, Quiet, Untouched, storeVars
<1>5. CASE \E d \in Runs, c \in Creations : Submit(d, c)
    BY <1>5 DEF Submit, Quiet, Untouched, storeVars
<1>6. CASE \E d \in Runs, c \in Creations : SubmitCopy(d, c)
  <2>1. PICK d \in Runs, c \in Creations : SubmitCopy(d, c)
      BY <1>6
  <2>2. /\ Insert(c, pid, "saved") /\ current[c] = 0 /\ launches' = launches
        /\ "saved" \in Pending \cup {"failed"} /\ 0 < MaxAttempts
      BY <1>2, <2>1 DEF SubmitCopy, Pending
  <2>3. NewAttempt(c)
      BY <1>2, <2>2 DEF NewAttempt
  <2> QED BY <2>2, <2>3 DEF Quiet
<1>7. CASE \E d \in Runs, c \in Creations, key \in RetryKeys : Retry(d, c, key)
  <2>1. PICK d \in Runs, c \in Creations, key \in RetryKeys : Retry(d, c, key)
      BY <1>7
  <2> DEFINE s == IF ~AtCapacity THEN "saved" ELSE IF QueueFull THEN "failed" ELSE "queued"
  <2>2. /\ Insert(c, pid, s) /\ CanRetry(c, key) /\ launches' = launches
        /\ s \in Pending \cup {"failed"}
      BY <2>1 DEF Retry, Pending
  <2> HIDE DEF s
  <2>3. NewAttempt(c)
      BY <1>2, <2>2 DEF NewAttempt, CanRetry
  <2> QED BY <2>2, <2>3 DEF Quiet
<1>8. CASE \E k \in DOMAIN queue : Cancel(k)
  <2>1. PICK k \in DOMAIN queue : Cancel(k)
      BY <1>8
  <2>2. queue[k] \in Fence
    <3>1. queue \in Seq(Fence) /\ k \in 1..Len(queue)
        BY <1>1, LenProperties DEF OtherTypes
    <3> QED BY <3>1, ElementOfSeq
  <2>3. queue[k].c \in Creations
      BY <2>2 DEF Fence
  <2>4. Untouched \/ Rewrites(queue[k])
      BY <2>1, <2>3 DEF Cancel, Untouched, Rewrites
  <2> QED BY <2>1, <2>4 DEF Cancel, Quiet
<1>9. CASE \E c \in Creations : OwnerStep(c)
    BY <1>9, OwnerStepShape
<1>10. CASE \E n \in Natives : ExternalNative(n) \/ Discover(n)
    BY <1>10 DEF ExternalNative, Discover, Quiet, Untouched, storeVars, serverVars
<1>11. CASE Crash
    BY <1>11 DEF Crash, Quiet, Untouched, storeVars
<1>12. CASE Restart
    BY <1>12 DEF Restart, Quiet, Recovers
<1>13. CASE CompetingStartup
    BY <1>13 DEF CompetingStartup, Quiet, Recovers, serverVars
<1>14. CASE UNCHANGED vars
    BY <1>14 DEF vars, storeVars, serverVars, Quiet, Untouched
<1> QED BY <1>3, <1>4, <1>5, <1>6, <1>7, <1>8, <1>9, <1>10, <1>11, <1>12, <1>13,
           <1>14 DEF Next

\* What the ledger reads of a creation: the state s and delivery dl of its
\* current attempt, whether it asks for a message, and its l effects.
CardPhase(s, dl, m, l) ==
    IF s = "absent" THEN "none"
    ELSE IF dl = "consumed" \/ (~m /\ s = "bound") THEN "settled"
    ELSE IF s = "failed" THEN "refused"
    ELSE IF s = "uncertain" THEN "doubtful"
    ELSE IF l = 0 THEN "open" ELSE "offered"

\* The ways in which they change; none of them is a second effect.
CardMove(s, dl, m, l, s2, dl2, l2) ==
    \/ s2 = s /\ dl2 = dl /\ l2 = l
    \/ s2 = s /\ s = "dispatching" /\ dl2 = dl /\ dl = "not-admitted" /\ l = 0 /\ l2 = 1
    \/ /\ l2 = l /\ l = 0 /\ dl2 = "not-admitted" /\ dl = "not-admitted"
       /\ \/ s \in {"absent", "failed"} /\ s2 \in {"saved", "queued", "failed"}
          \/ s \in {"saved", "queued"} /\ s2 \in {"queued", "failed", "dispatching"}
          \/ s = "dispatching" /\ s2 = "failed"
    \/ /\ l2 = l /\ s2 = "uncertain" /\ dl2 = "uncertain"
       /\ s \in {"dispatching", "bound"} /\ dl # "consumed" /\ ~(~m /\ s = "bound")
    \/ /\ l2 = l /\ l = 1 /\ s \in Effective
       /\ \/ s2 = "bound" /\ dl2 = "consumed"
          \/ s2 = (IF s = "uncertain" THEN "uncertain" ELSE "bound") /\ dl2 = dl

\* Each of those changes is a move of the ledger, an offer, or none.
LEMMA MovesAreLedgers ==
    ASSUME NEW s, NEW dl, NEW m, NEW l, NEW s2, NEW dl2, NEW l2,
           s = "uncertain" => dl # "consumed", s = "dispatching" => dl # "consumed",
           CardMove(s, dl, m, l, s2, dl2, l2)
    PROVE  LET p == CardPhase(s, dl, m, l)
               q == CardPhase(s2, dl2, m, l2)
           IN  \/ q = p /\ l2 = l
               \/ <<p, q>> \in Ledger!Moves /\ l2 = l
               \/ p = "open" /\ q = "offered" /\ l = 0 /\ l2 = 1
<1> DEFINE p == CardPhase(s, dl, m, l)
           q == CardPhase(s2, dl2, m, l2)
<1>1. CASE s2 = s /\ dl2 = dl /\ l2 = l
    BY <1>1
<1>2. CASE s2 = s /\ s = "dispatching" /\ dl2 = dl /\ dl = "not-admitted" /\ l = 0 /\ l2 = 1
    BY <1>2 DEF CardPhase
<1>3. ASSUME l2 = l, l = 0, dl2 = "not-admitted", dl = "not-admitted",
             \/ s \in {"absent", "failed"} /\ s2 \in {"saved", "queued", "failed"}
             \/ s \in {"saved", "queued"} /\ s2 \in {"queued", "failed", "dispatching"}
             \/ s = "dispatching" /\ s2 = "failed"
      PROVE  q = p \/ <<p, q>> \in Ledger!Moves
  <2>1. \/ p \in {"none", "refused"} /\ q \in {"open", "refused"}
        \/ p = "open" /\ q \in {"open", "refused"}
      BY <1>3 DEF CardPhase
  <2> QED BY <2>1 DEF Ledger!Moves
<1>4. ASSUME l2 = l, s2 = "uncertain", dl2 = "uncertain",
             s \in {"dispatching", "bound"}, dl # "consumed", ~(~m /\ s = "bound")
      PROVE  <<p, q>> \in Ledger!Moves
  <2>1. p \in {"open", "offered"} /\ q = "doubtful"
      BY <1>4 DEF CardPhase
  <2> QED BY <2>1 DEF Ledger!Moves
<1>5. ASSUME l2 = l, l = 1, s \in Effective,
             \/ s2 = "bound" /\ dl2 = "consumed"
             \/ s2 = (IF s = "uncertain" THEN "uncertain" ELSE "bound") /\ dl2 = dl
      PROVE  q = p \/ <<p, q>> \in Ledger!Moves
  <2>1. \/ q = p
        \/ p \in {"offered", "doubtful"} /\ q = "settled"
      BY <1>5 DEF CardPhase, Effective
  <2> QED BY <2>1 DEF Ledger!Moves
<1> QED BY <1>1, <1>2, <1>3, <1>4, <1>5 DEF CardMove

\* The moves of one creation's current attempt.
Advances(c) ==
    CardMove(StateOf(c), DeliveryOf(c), Message(c), launches[c],
             StateOf(c)', DeliveryOf(c)', launches'[c])

\* What an attempt's state says of its delivery and of its effects.
LEMMA CardFacts ==
    ASSUME CreationConsistent, NEW c \in Creations
    PROVE  /\ launches[c] \in {0, 1}
           /\ StateOf(c) \notin Effective => launches[c] = 0
           /\ StateOf(c) = "absent" <=> current[c] = 0
           /\ StateOf(c) \in {"absent", "saved", "queued", "failed", "dispatching"} =>
                 DeliveryOf(c) = "not-admitted"
           /\ StateOf(c) = "uncertain" => DeliveryOf(c) = "uncertain"
           /\ StateOf(c) \in States
           /\ PhaseOf(c) = CardPhase(StateOf(c), DeliveryOf(c), Message(c), launches[c])
<1>1. RowsOK /\ OtherTypes /\ ServerInv
    BY InductiveParts
<1>2. launches[c] \in {0, 1} /\ (StateOf(c) \notin Effective => launches[c] = 0)
    BY <1>1 DEF ServerInv, OwnersAreLaunched, Now
<1>3. CASE current[c] = 0
  <2>1. StateOf(c) = "absent" /\ DeliveryOf(c) = "not-admitted"
      BY <1>3 DEF StateOf, DeliveryOf
  <2> QED BY <1>2, <1>3, <2>1 DEF PhaseOf, CardPhase, States
<1>4. CASE current[c] # 0
  <2> DEFINE r == attempt[c][current[c]]
  <2>1. current[c] \in AttemptNos
      BY <1>1, <1>4, StoreAssumption DEF RowsOK, AttemptNos
  <2>2. /\ r \in AttemptRec /\ RowConsistent(r.state, r.delivery, r.gen)
        /\ r.state # "absent"
      BY <1>1, <2>1 DEF RowsOK, RowsAreConsistent
  <2>3. StateOf(c) = r.state /\ DeliveryOf(c) = r.delivery
      BY <1>4 DEF StateOf, DeliveryOf
  <2>4. r.state \in States
      BY <2>2 DEF AttemptRec
  <2> HIDE DEF r
  <2>5. /\ StateOf(c) \in {"absent", "saved", "queued", "failed", "dispatching"} =>
              DeliveryOf(c) = "not-admitted"
        /\ StateOf(c) = "uncertain" => DeliveryOf(c) = "uncertain"
        /\ StateOf(c) # "absent"
      BY <2>2, <2>3 DEF RowConsistent, Pending
  <2>6. PhaseOf(c) = CardPhase(StateOf(c), DeliveryOf(c), Message(c), launches[c])
      BY <1>4, <2>5 DEF PhaseOf, CardPhase
  <2> QED BY <1>2, <1>4, <2>3, <2>4, <2>5, <2>6
<1> QED BY <1>3, <1>4

PhasesAreCards ==
    \A c \in Creations :
        PhaseOf(c) = CardPhase(StateOf(c), DeliveryOf(c), Message(c), launches[c])

\* A row that is not touched reads the same.
LEMMA UntouchedRow ==
    ASSUME Untouched, NEW c \in Creations
    PROVE  StateOf(c)' = StateOf(c) /\ DeliveryOf(c)' = DeliveryOf(c)
BY DEF Untouched, StateOf, DeliveryOf

\* An effect is the first of a dispatched attempt.
LEMMA EffectAdvances ==
    ASSUME CreationConsistent, NEW d \in Runs, Effect(d), NEW c \in Creations
    PROVE  Advances(c)
<1>1. RowsOK /\ OtherTypes /\ ServerInv
    BY InductiveParts
<1>2. StateOf(c)' = StateOf(c) /\ DeliveryOf(c)' = DeliveryOf(c)
    BY UntouchedRow DEF Effect
<1>3. CASE c = run[d].c
  <2>1. launches[c] = 0 /\ StateOf(c) = "dispatching" /\ launches'[c] = 1
    <3>1. launches[c] = 0 /\ Now[c] = "dispatching"
        BY <1>1, <1>3 DEF Effect, ServerInv, RunsHoldTheirFence
    <3>2. launches' = [launches EXCEPT ![c] = @ + 1] /\ launches \in [Creations -> Nat]
        BY <1>1, <1>3 DEF Effect, OtherTypes
    <3> QED BY <3>1, <3>2 DEF Now
  <2>2. DeliveryOf(c) = "not-admitted"
      BY <2>1, CardFacts
  <2> QED BY <1>2, <2>1, <2>2 DEF Advances, CardMove
<1>4. CASE c # run[d].c
  <2>1. launches'[c] = launches[c]
      BY <1>1, <1>4 DEF Effect, OtherTypes
  <2> QED BY <1>2, <2>1 DEF Advances, CardMove
<1> QED BY <1>3, <1>4

\* The row an update rewrites, and the others.
LEMMA UpdateRow ==
    ASSUME RowsOK, NEW f, f.c \in Creations, IsCurrent(f), UNCHANGED current,
           NEW s, NEW dl, NEW g, Update(f, s, dl, g), NEW c \in Creations
    PROVE  IF c = f.c
           THEN /\ StateOf(c) = Att(f).state /\ DeliveryOf(c) = Att(f).delivery
                /\ StateOf(c)' = s /\ DeliveryOf(c)' = dl
           ELSE StateOf(c)' = StateOf(c) /\ DeliveryOf(c)' = DeliveryOf(c)
<1> DEFINE r == [state |-> s, delivery |-> dl, gen |-> g, pid |-> Att(f).pid]
<1>1. f.a \in AttemptNos /\ f.a = current[f.c] /\ f.a # 0
    BY StoreAssumption DEF RowsOK, IsCurrent, AttemptNos
<1>2. attempt' = [attempt EXCEPT ![f.c][f.a] = r]
    BY DEF Update
<1>3. r.state = s /\ r.delivery = dl
    OBVIOUS
<1> HIDE DEF r
<1>4. CASE c = f.c
  <2>1. attempt'[c][f.a] = r
      BY <1>1, <1>2, <1>4 DEF RowsOK
  <2> QED BY <1>1, <1>3, <1>4, <2>1 DEF StateOf, DeliveryOf, Att
<1>5. CASE c # f.c
  <2>1. attempt'[c] = attempt[c]
      BY <1>2, <1>5 DEF RowsOK
  <2> QED BY <1>5, <2>1 DEF StateOf, DeliveryOf
<1> QED BY <1>4, <1>5

\* Rewriting an attempt.
LEMMA RewriteAdvances ==
    ASSUME CreationConsistent, NEW f, Rewrites(f), launches' = launches,
           NEW c \in Creations
    PROVE  Advances(c)
<1>1. RowsOK /\ OtherTypes /\ ServerInv
    BY InductiveParts
<1>2. f.c \in Creations /\ UNCHANGED current
    BY DEF Rewrites
<1>3. ASSUME IsCurrent(f), NEW s, NEW dl, NEW g, Update(f, s, dl, g),
             (/\ f.c = c
              /\ StateOf(f.c) = Att(f).state
              /\ DeliveryOf(f.c) = Att(f).delivery)
                => CardMove(StateOf(f.c), DeliveryOf(f.c), Message(f.c),
                            launches[f.c], s, dl, launches[f.c])
      PROVE  Advances(c)
  <2>1. IF c = f.c
        THEN /\ StateOf(c) = Att(f).state /\ DeliveryOf(c) = Att(f).delivery
             /\ StateOf(c)' = s /\ DeliveryOf(c)' = dl
        ELSE StateOf(c)' = StateOf(c) /\ DeliveryOf(c)' = DeliveryOf(c)
      BY <1>1, <1>2, <1>3, UpdateRow
  <2>2. CASE c = f.c
      BY <1>3, <2>1, <2>2 DEF Advances
  <2>3. CASE c # f.c
      BY <2>1, <2>3 DEF Advances, CardMove
  <2> QED BY <2>2, <2>3
<1>4. /\ StateOf(f.c) \notin Effective => launches[f.c] = 0
      /\ StateOf(f.c) \in {"saved", "queued", "dispatching"} =>
            DeliveryOf(f.c) = "not-admitted"
    BY <1>2, CardFacts
<1>5. ASSUME IsCurrent(f), Att(f).state \in Pending,
             NEW s \in {"failed", "queued", "dispatching"}, NEW g,
             Update(f, s, "not-admitted", g)
      PROVE  Advances(c)
  <2>1. StateOf(f.c) \in {"saved", "queued"} =>
            CardMove(StateOf(f.c), DeliveryOf(f.c), Message(f.c), launches[f.c],
                     s, "not-admitted", launches[f.c])
      BY <1>4, <1>5 DEF CardMove, Effective
  <2> QED BY <1>3, <1>5, <2>1 DEF Pending
<1>6. CASE CanFailBeforeEffects(f) /\ FailBeforeEffects(f)
    BY <1>5, <1>6 DEF CanFailBeforeEffects, FailBeforeEffects
<1>7. CASE CanFailBeforeEffects(f) /\ Update(f, "queued", "not-admitted", f.g)
    BY <1>5, <1>7 DEF CanFailBeforeEffects
<1>8. CASE CanBeginDispatch(f) /\ BeginDispatch(f)
    BY <1>5, <1>8 DEF CanBeginDispatch, BeginDispatch
<1>9. CASE CanFailBeforeProvider(f) /\ FailBeforeProvider(f) /\ launches[f.c] = 0
  <2>1. StateOf(f.c) = "dispatching" =>
            CardMove(StateOf(f.c), DeliveryOf(f.c), Message(f.c), launches[f.c],
                     "failed", "not-admitted", launches[f.c])
      BY <1>4, <1>9 DEF CardMove
  <2>2. /\ IsCurrent(f) /\ Att(f).state = "dispatching"
        /\ Update(f, "failed", "not-admitted", f.g)
      BY <1>9 DEF CanFailBeforeProvider, FailBeforeProvider
  <2> QED BY <1>3, <2>1, <2>2
<1>10. CASE OwnerLossMatters(f) /\ MarkUncertain(f)
  <2>1. /\ StateOf(f.c) \in {"dispatching", "bound"} /\ DeliveryOf(f.c) # "consumed"
        /\ ~(~Message(f.c) /\ StateOf(f.c) = "bound")
        => CardMove(StateOf(f.c), DeliveryOf(f.c), Message(f.c), launches[f.c],
                    "uncertain", "uncertain", launches[f.c])
      BY DEF CardMove
  <2>2. /\ IsCurrent(f) /\ Att(f).state \in {"dispatching", "bound"}
        /\ Att(f).delivery # "consumed" /\ ~(~Message(f.c) /\ Att(f).state = "bound")
        /\ Update(f, "uncertain", "uncertain", f.g)
      BY <1>10 DEF OwnerLossMatters, MarkUncertain, Message
  <2> QED BY <1>3, <2>1, <2>2
<1>11. CASE /\ launches[f.c] = 1
            /\ \E n \in Natives \cup {NoNative} :
                  CanBindNative(f, n) /\ (BindNative(f, n) \/ ConfirmOwnedInput(f, n))
  <2>1. PICK n \in Natives \cup {NoNative} :
              CanBindNative(f, n) /\ (BindNative(f, n) \/ ConfirmOwnedInput(f, n))
      BY <1>11
  <2>2. IsCurrent(f) /\ Att(f).state \in Effective
      BY <2>1 DEF CanBindNative
  <2> DEFINE s == IF Att(f).state = "uncertain" THEN "uncertain" ELSE "bound"
  <2>3. \/ Update(f, s, Att(f).delivery, f.g)
        \/ Update(f, "bound", "consumed", f.g)
      BY <2>1 DEF BindNative, ConfirmOwnedInput
  <2>4. StateOf(f.c) = Att(f).state /\ DeliveryOf(f.c) = Att(f).delivery =>
           /\ CardMove(StateOf(f.c), DeliveryOf(f.c), Message(f.c), launches[f.c],
                       s, Att(f).delivery, launches[f.c])
           /\ CardMove(StateOf(f.c), DeliveryOf(f.c), Message(f.c), launches[f.c],
                       "bound", "consumed", launches[f.c])
      BY <1>11, <2>2 DEF CardMove
  <2> HIDE DEF s
  <2>5. CASE Update(f, s, Att(f).delivery, f.g)
      BY <1>3, <2>2, <2>4, <2>5
  <2>6. CASE Update(f, "bound", "consumed", f.g)
      BY <1>3, <2>2, <2>4, <2>6
  <2> QED BY <2>3, <2>5, <2>6
<1> QED BY <1>6, <1>7, <1>8, <1>9, <1>10, <1>11 DEF Rewrites

\* Making one.
LEMMA NewAttemptAdvances ==
    ASSUME CreationConsistent, NEW b \in Creations, NewAttempt(b),
           launches' = launches, NEW c \in Creations
    PROVE  Advances(c)
<1>1. RowsOK
    BY InductiveParts
<1>2. PICK s \in Pending \cup {"failed"}, p \in Pids : Insert(b, p, s)
    BY DEF NewAttempt
<1>3. /\ current' = [current EXCEPT ![b] = @ + 1]
      /\ attempt' = [attempt EXCEPT ![b][current[b] + 1] = Fresh(s, p)]
    BY <1>2 DEF Insert
<1>4. CASE c # b
  <2>1. current'[c] = current[c] /\ attempt'[c] = attempt[c]
      BY <1>1, <1>3, <1>4 DEF RowsOK
  <2>2. StateOf(c)' = StateOf(c) /\ DeliveryOf(c)' = DeliveryOf(c)
      BY <2>1 DEF StateOf, DeliveryOf
  <2> QED BY <2>2 DEF Advances, CardMove
<1>5. CASE c = b
  <2>1. /\ current[c] + 1 \in AttemptNos /\ current[c] + 1 # 0
        /\ current'[c] = current[c] + 1
      BY <1>1, <1>3, <1>5, StoreAssumption DEF NewAttempt, RowsOK, AttemptNos
  <2>2. attempt'[c][current[c] + 1] = Fresh(s, p)
      BY <1>1, <1>3, <1>5, <2>1 DEF RowsOK
  <2>3. Fresh(s, p).state = s /\ Fresh(s, p).delivery = "not-admitted"
      BY DEF Fresh
  <2>4. StateOf(c)' = s /\ DeliveryOf(c)' = "not-admitted"
      BY <2>1, <2>2, <2>3 DEF StateOf, DeliveryOf
  <2>5. StateOf(c) \in {"absent", "failed"}
      BY <1>5 DEF NewAttempt, StateOf
  <2>6. launches[c] = 0 /\ DeliveryOf(c) = "not-admitted"
      BY <2>5, CardFacts DEF Effective
  <2>7. s \in {"saved", "queued", "failed"}
      BY <1>2 DEF Pending
  <2> QED BY <2>4, <2>5, <2>6, <2>7 DEF Advances, CardMove
<1> QED BY <1>4, <1>5

\* Recovering them all.
LEMMA RecoveryAdvances ==
    ASSUME CreationConsistent, Recovers, launches' = launches, NEW c \in Creations
    PROVE  Advances(c)
<1>1. RowsOK
    BY InductiveParts
<1>2. PICK alive : RecoverOwnerLoss(alive)
    BY DEF Recovers
<1>3. current' = current
    BY DEF Recovers
<1>4. CASE current[c] = 0
  <2>1. StateOf(c)' = StateOf(c) /\ DeliveryOf(c)' = DeliveryOf(c)
      BY <1>3, <1>4 DEF StateOf, DeliveryOf
  <2> QED BY <2>1 DEF Advances, CardMove
<1>5. CASE current[c] # 0
  <2> DEFINE a == current[c]
             r == attempt[c][a]
             settled == \/ r.delivery = "consumed"
                        \/ Intent[c] # "input" /\ r.state = "bound"
  <2>1. a \in AttemptNos
      BY <1>1, <1>5, StoreAssumption DEF RowsOK, AttemptNos
  <2>2. /\ StateOf(c) = r.state /\ DeliveryOf(c) = r.delivery
        /\ StateOf(c)' = attempt'[c][a].state
        /\ DeliveryOf(c)' = attempt'[c][a].delivery
      BY <1>3, <1>5 DEF StateOf, DeliveryOf
  <2>3. attempt'[c][a] = Recovered(c, a, alive)
      BY <1>2, <2>1 DEF RecoverOwnerLoss
  <2>4. Recovered(c, a, alive) =
            IF a # current[c] \/ r.pid \in alive THEN r
            ELSE IF r.state \in Pending THEN [r EXCEPT !.state = "failed"]
            ELSE IF r.state \in {"dispatching", "bound"} /\ ~settled
                 THEN [r EXCEPT !.state = "uncertain", !.delivery = "uncertain"]
            ELSE r
      BY DEF Recovered
  <2>5. settled <=> \/ DeliveryOf(c) = "consumed"
                    \/ ~Message(c) /\ StateOf(c) = "bound"
      BY <2>2 DEF Message
  <2>6. r \in AttemptRec
      BY <1>1, <2>1 DEF RowsOK
  <2> HIDE DEF r, settled, a
  <2>7. CASE attempt'[c][a] = r
      BY <2>2, <2>7 DEF Advances, CardMove
  <2>8. CASE r.state \in Pending /\ attempt'[c][a] = [r EXCEPT !.state = "failed"]
    <3>1. StateOf(c)' = "failed" /\ DeliveryOf(c)' = DeliveryOf(c)
        BY <2>2, <2>6, <2>8 DEF AttemptRec
    <3>2. StateOf(c) \in {"saved", "queued"} /\ launches[c] = 0
          /\ DeliveryOf(c) = "not-admitted"
        BY <2>2, <2>8, CardFacts DEF Pending, Effective
    <3> QED BY <3>1, <3>2 DEF Advances, CardMove
  <2>9. CASE /\ r.state \in {"dispatching", "bound"} /\ ~settled
             /\ attempt'[c][a] = [r EXCEPT !.state = "uncertain", !.delivery = "uncertain"]
    <3>1. StateOf(c)' = "uncertain" /\ DeliveryOf(c)' = "uncertain"
        BY <2>2, <2>6, <2>9 DEF AttemptRec
    <3>2. /\ StateOf(c) \in {"dispatching", "bound"} /\ DeliveryOf(c) # "consumed"
          /\ ~(~Message(c) /\ StateOf(c) = "bound")
        BY <2>2, <2>5, <2>9
    <3> QED BY <3>1, <3>2 DEF Advances, CardMove
  <2> QED BY <2>3, <2>4, <2>7, <2>8, <2>9
<1> QED BY <1>4, <1>5

\* So every step advances every creation as the ledger allows.
LEMMA StepAdvances ==
    ASSUME CreationConsistent, [Next]_vars, NEW c \in Creations
    PROVE  Advances(c)
<1>1. CASE \E d \in Runs : Effect(d)
    BY <1>1, EffectAdvances
<1>2. CASE Quiet /\ launches' = launches
  <2>1. CASE Untouched
      BY <1>2, <2>1, UntouchedRow DEF Advances, CardMove
  <2>2. CASE \E f : Rewrites(f)
      BY <1>2, <2>2, RewriteAdvances
  <2>3. CASE \E b \in Creations : NewAttempt(b)
      BY <1>2, <2>3, NewAttemptAdvances
  <2>4. CASE Recovers
      BY <1>2, <2>4, RecoveryAdvances
  <2> QED BY <1>2, <2>1, <2>2, <2>3, <2>4 DEF Quiet
<1> QED BY <1>1, <1>2, StepShape

\* Durable creation implements the ledger: each creation is offered to a
\* provider at most once, refused only if nothing was offered, and an outcome
\* in doubt is never reopened, only found to be settled.
THEOREM CreationRefinesLedger == Spec => ImplementsLedger
<1> DEFINE cards == [c \in Creations |-> PhaseOf(c)]
<1>1. Init => Ledger!LedgerInit
  <2> SUFFICES ASSUME Init
               PROVE  cards = [c \in Creations |-> "none"]
      BY DEF Init, Ledger!LedgerInit
  <2>1. \A c \in Creations : PhaseOf(c) = "none"
      BY DEF Init, StoreInit, PhaseOf
  <2> QED BY <2>1
<1>2. CreationConsistent' => PhasesAreCards'
  <2>1. CreationConsistent => PhasesAreCards
      BY CardFacts DEF PhasesAreCards
  <2> QED BY <2>1, PTL
<1>3. CreationConsistent /\ CreationConsistent' /\ [Next]_vars
        => [Ledger!LedgerNext]_<<cards, launches>>
  <2> SUFFICES ASSUME CreationConsistent, CreationConsistent', [Next]_vars
               PROVE  Ledger!LedgerNext
      OBVIOUS
  <2> SUFFICES ASSUME NEW c \in Creations
               PROVE  Ledger!Keeps(c) \/ Ledger!Moved(c) \/ Ledger!Offered(c)
      BY DEF Ledger!LedgerNext
  <2>1. Advances(c)
      BY StepAdvances
  <2>2. /\ PhaseOf(c) = CardPhase(StateOf(c), DeliveryOf(c), Message(c), launches[c])
        /\ StateOf(c) = "uncertain" => DeliveryOf(c) # "consumed"
        /\ StateOf(c) = "dispatching" => DeliveryOf(c) # "consumed"
      BY CardFacts
  <2>3. PhaseOf(c)' = CardPhase(StateOf(c)', DeliveryOf(c)', Message(c), launches'[c])
      BY <1>2 DEF PhasesAreCards, CardPhase, Message
  <2>4. cards[c] = PhaseOf(c) /\ cards'[c] = PhaseOf(c)'
      OBVIOUS
  <2>5. \/ PhaseOf(c)' = PhaseOf(c) /\ launches'[c] = launches[c]
        \/ <<PhaseOf(c), PhaseOf(c)'>> \in Ledger!Moves /\ launches'[c] = launches[c]
        \/ /\ PhaseOf(c) = "open" /\ PhaseOf(c)' = "offered"
           /\ launches[c] = 0 /\ launches'[c] = 1
      BY <2>1, <2>2, <2>3, MovesAreLedgers DEF Advances
  <2> QED BY <2>4, <2>5 DEF Ledger!Keeps, Ledger!Moved, Ledger!Offered
<1> QED BY <1>1, <1>3, CreationInvariant, PTL DEF Spec, ImplementsLedger, Ledger!LedgerSpec

-----------------------------------------------------------------------------
(* Part 5.  Proof of consumption is final.                                  *)

\* Rows that no attempt uses yet say nothing of a consumption.
NothingAhead ==
    \A c \in Creations, a \in AttemptNos :
        a > current[c] => attempt[c][a].delivery # "consumed"

ProofKept(c, a) ==
    /\ attempt[c][a].delivery = "consumed" => attempt'[c][a].delivery = "consumed"
    /\ a > current'[c] => attempt'[c][a].delivery # "consumed"

\* A rewrite keeps the proof: refusals and losses meet no consumed attempt.
LEMMA RewriteKeepsProof ==
    ASSUME CreationConsistent, NothingAhead, NEW f, Rewrites(f),
           NEW c \in Creations, NEW a \in AttemptNos
    PROVE  ProofKept(c, a)
<1>1. RowsOK
    BY InductiveParts
<1>2. f.c \in Creations /\ UNCHANGED current /\ IsCurrent(f)
    BY DEF Rewrites, CanFailBeforeEffects, CanBeginDispatch, CanFailBeforeProvider,
           OwnerLossMatters, CanBindNative
<1>3. f.a \in AttemptNos /\ f.a = current[f.c] /\ f.a # 0 /\ Att(f) \in AttemptRec
      /\ RowConsistent(Att(f).state, Att(f).delivery, f.g)
    BY <1>1, <1>2, CurrentFence
<1>4. PICK s \in {"failed", "queued", "dispatching", "uncertain", "bound"},
           dl \in Deliveries, g \in {f.g, f.g + 1} :
          /\ Update(f, s, dl, g)
          /\ Att(f).delivery = "consumed" => dl = "consumed"
  <2>1. Att(f).delivery = "consumed" => Att(f).state = "bound"
      BY <1>3 DEF RowConsistent
  <2>2. Att(f).delivery \in Deliveries
      BY <1>3 DEF AttemptRec
  <2>3. "not-admitted" \in Deliveries /\ "uncertain" \in Deliveries
        /\ "consumed" \in Deliveries
      BY DEF Deliveries
  <2>4. CASE CanFailBeforeEffects(f) /\ FailBeforeEffects(f)
      BY <2>1, <2>3, <2>4 DEF CanFailBeforeEffects, FailBeforeEffects, Pending
  <2>5. CASE CanFailBeforeEffects(f) /\ Update(f, "queued", "not-admitted", f.g)
      BY <2>1, <2>3, <2>5 DEF CanFailBeforeEffects, Pending
  <2>6. CASE CanBeginDispatch(f) /\ BeginDispatch(f)
      BY <2>1, <2>3, <2>6 DEF CanBeginDispatch, BeginDispatch, Pending
  <2>7. CASE CanFailBeforeProvider(f) /\ FailBeforeProvider(f)
      BY <2>1, <2>3, <2>7 DEF CanFailBeforeProvider, FailBeforeProvider
  <2>8. CASE OwnerLossMatters(f) /\ MarkUncertain(f)
      BY <2>3, <2>8 DEF OwnerLossMatters, MarkUncertain
  <2>9. CASE \E n \in Natives \cup {NoNative} :
                BindNative(f, n) \/ ConfirmOwnedInput(f, n)
      BY <2>2, <2>3, <2>9 DEF BindNative, ConfirmOwnedInput
  <2> QED BY <2>4, <2>5, <2>6, <2>7, <2>8, <2>9 DEF Rewrites
<1> DEFINE r == [state |-> s, delivery |-> dl, gen |-> g, pid |-> Att(f).pid]
<1>5. attempt' = [attempt EXCEPT ![f.c][f.a] = r] /\ r.delivery = dl
    BY <1>4 DEF Update
<1> HIDE DEF r
<1>6. CASE c = f.c /\ a = f.a
  <2>1. attempt'[c][a] = r /\ attempt[c][a] = Att(f)
      BY <1>1, <1>3, <1>5, <1>6 DEF RowsOK, Att
  <2>2. ~(a > current'[c])
      BY <1>2, <1>3, <1>6, StoreAssumption DEF AttemptNos
  <2> QED BY <1>4, <1>5, <2>1, <2>2 DEF ProofKept
<1>7. CASE ~(c = f.c /\ a = f.a)
  <2>1. attempt'[c][a] = attempt[c][a]
      BY <1>1, <1>3, <1>5, <1>7 DEF RowsOK
  <2> QED BY <1>2, <2>1 DEF ProofKept, NothingAhead
<1> QED BY <1>6, <1>7

\* A new attempt is made in a row that said nothing.
LEMMA NewAttemptKeepsProof ==
    ASSUME CreationConsistent, NothingAhead, NEW b \in Creations, NewAttempt(b),
           NEW c \in Creations, NEW a \in AttemptNos
    PROVE  ProofKept(c, a)
<1>1. RowsOK
    BY InductiveParts
<1>2. PICK s \in Pending \cup {"failed"}, p \in Pids : Insert(b, p, s)
    BY DEF NewAttempt
<1>3. /\ current' = [current EXCEPT ![b] = @ + 1]
      /\ attempt' = [attempt EXCEPT ![b][current[b] + 1] = Fresh(s, p)]
      /\ Fresh(s, p).delivery = "not-admitted"
    BY <1>2 DEF Insert, Fresh
<1>4. current[b] + 1 \in AttemptNos /\ current[b] + 1 > current[b]
    BY <1>1, StoreAssumption DEF NewAttempt, RowsOK, AttemptNos
<1>5. a > current'[c] => a > current[c]
  <2>1. current[c] \in Nat /\ a \in Nat /\ current'[c] \in {current[c], current[c] + 1}
      BY <1>1, <1>3, StoreAssumption DEF RowsOK, AttemptNos
  <2> QED BY <2>1
<1>6. CASE c = b /\ a = current[b] + 1
  <2>1. attempt'[c][a] = Fresh(s, p) /\ attempt[c][a].delivery # "consumed"
      BY <1>1, <1>3, <1>4, <1>6 DEF RowsOK, NothingAhead
  <2> QED BY <1>3, <2>1 DEF ProofKept
<1>7. CASE ~(c = b /\ a = current[b] + 1)
  <2>1. attempt'[c][a] = attempt[c][a]
      BY <1>1, <1>3, <1>4, <1>7 DEF RowsOK
  <2> QED BY <1>5, <2>1 DEF ProofKept, NothingAhead
<1> QED BY <1>6, <1>7

\* Recovery spares what is settled.
LEMMA RecoveryKeepsProof ==
    ASSUME CreationConsistent, NothingAhead, Recovers,
           NEW c \in Creations, NEW a \in AttemptNos
    PROVE  ProofKept(c, a)
<1> DEFINE r == attempt[c][a]
           settled == \/ r.delivery = "consumed"
                      \/ Intent[c] # "input" /\ r.state = "bound"
<1>1. RowsOK /\ current' = current
    BY InductiveParts DEF Recovers
<1>2. PICK alive : RecoverOwnerLoss(alive)
    BY DEF Recovers
<1>3. attempt'[c][a] =
          IF a # current[c] \/ r.pid \in alive THEN r
          ELSE IF r.state \in Pending THEN [r EXCEPT !.state = "failed"]
          ELSE IF r.state \in {"dispatching", "bound"} /\ ~settled
               THEN [r EXCEPT !.state = "uncertain", !.delivery = "uncertain"]
          ELSE r
    BY <1>2 DEF RecoverOwnerLoss, Recovered
<1>4. r \in AttemptRec /\ (r.delivery = "consumed" => settled)
      /\ (a > current[c] => a # current[c] /\ r.delivery # "consumed")
    BY <1>1, StoreAssumption DEF RowsOK, NothingAhead, AttemptNos
<1> HIDE DEF r, settled
<1>5. CASE attempt'[c][a] = r
    BY <1>1, <1>4, <1>5 DEF ProofKept, r
<1>6. CASE a = current[c] /\ r.state \in Pending
           /\ attempt'[c][a] = [r EXCEPT !.state = "failed"]
  <2>1. attempt'[c][a].delivery = r.delivery
      BY <1>4, <1>6 DEF AttemptRec
  <2> QED BY <1>1, <1>4, <1>6, <2>1 DEF ProofKept, r
<1>7. CASE a = current[c] /\ ~settled
           /\ attempt'[c][a] = [r EXCEPT !.state = "uncertain", !.delivery = "uncertain"]
  <2>1. attempt'[c][a].delivery = "uncertain"
      BY <1>4, <1>7 DEF AttemptRec
  <2>2. r.delivery # "consumed"
      BY <1>4, <1>7
  <2> QED BY <2>1, <2>2 DEF ProofKept, r
<1> QED BY <1>3, <1>5, <1>6, <1>7

\* Every step keeps it.
LEMMA StepKeepsProof ==
    ASSUME CreationConsistent, NothingAhead, [Next]_vars,
           NEW c \in Creations, NEW a \in AttemptNos
    PROVE  ProofKept(c, a)
<1>1. CASE Untouched
    BY <1>1 DEF Untouched, ProofKept, NothingAhead
<1>2. CASE \E f : Rewrites(f)
    BY <1>2, RewriteKeepsProof
<1>3. CASE \E b \in Creations : NewAttempt(b)
    BY <1>3, NewAttemptKeepsProof
<1>4. CASE Recovers
    BY <1>4, RecoveryKeepsProof
<1> QED BY <1>1, <1>2, <1>3, <1>4, StepShape DEF Quiet, Effect

\* Proof that a message was taken is final, for every attempt: no loss of an
\* owner, no restart, no late binding and no retry takes it back.
THEOREM ProofIsFinal == Spec => ConsumedIsFinal
<1>1. Init => NothingAhead
    BY DEF Init, StoreInit, NothingAhead, Absent
<1>2. CreationConsistent /\ NothingAhead /\ [Next]_vars =>
        /\ NothingAhead'
        /\ \A c \in Creations, a \in AttemptNos :
              attempt[c][a].delivery = "consumed" =>
                  attempt'[c][a].delivery = "consumed"
    BY StepKeepsProof DEF ProofKept, NothingAhead
<1> QED BY <1>1, <1>2, CreationInvariant, PTL DEF Spec, ConsumedIsFinal
=============================================================================
