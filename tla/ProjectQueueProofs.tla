------------------------ MODULE ProjectQueueProofs ------------------------
(***************************************************************************)
(* Proofs about the Project Queue, for any projects, items, commands and   *)
(* bounds.  Part 1: what the sequence operations do to a project's order.  *)
(* Part 2: each mutation keeps the store consistent.  Part 3: each action  *)
(* of the scheduler keeps the inductive invariant.  Part 4: the theorems.  *)
(***************************************************************************)
EXTENDS ProjectQueue, SequenceTheorems, WellFoundedInduction, TLAPS

-----------------------------------------------------------------------------
(* Part 1.  s lists the set S, each element once.                           *)

\* Index finds the place of a listed item (findProjectItemIndex).
LEMMA IndexFinds ==
    ASSUME NEW s, NEW S, Listing(s, S), NEW i \in S
    PROVE  Index(s, i) \in 1..Len(s) /\ s[Index(s, i)] = i
<1>1. DOMAIN s = 1..Len(s)
    BY DEF Listing
<1>2. PICK k \in DOMAIN s : s[k] = i
    BY <1>1 DEF Listing
<1> QED BY <1>1, <1>2 DEF Index

\* Splicing one element out shifts the later ones down.
LEMMA RemoveAtElements ==
    ASSUME NEW s \in Seq(Items), NEW n \in 1..Len(s)
    PROVE  /\ RemoveAt(s, n) \in Seq(Items)
           /\ Len(RemoveAt(s, n)) = Len(s) - 1
           /\ \A k \in 1..(Len(s) - 1) :
                 RemoveAt(s, n)[k] = IF k < n THEN s[k] ELSE s[k + 1]
<1> DEFINE a == SubSeq(s, 1, n - 1)
           b == SubSeq(s, n + 1, Len(s))
<1>1. Len(s) \in Nat /\ \A k \in 1..Len(s) : s[k] \in Items
    BY LenProperties, ElementOfSeq
<1>2. /\ a \in Seq(Items) /\ Len(a) = n - 1
      /\ \A k \in 1..(n - 1) : a[k] = s[k]
    BY <1>1, SubSeqProperties
<1>3. /\ b \in Seq(Items) /\ Len(b) = Len(s) - n
      /\ \A k \in 1..(Len(s) - n) : b[k] = s[k + n]
  <2>1. \A k \in (n + 1)..Len(s) : s[k] \in Items
      BY <1>1
  <2>2. /\ b \in Seq(Items)
        /\ Len(b) = IF n + 1 <= Len(s) THEN Len(s) - (n + 1) + 1 ELSE 0
        /\ \A k \in 1..(Len(s) - (n + 1) + 1) : b[k] = s[(n + 1) + k - 1]
      BY <1>1, <2>1, SubSeqProperties
  <2> QED BY <1>1, <2>2
<1> HIDE DEF a, b
<1>4. /\ a \o b \in Seq(Items) /\ Len(a \o b) = Len(a) + Len(b)
      /\ \A k \in 1..(Len(a) + Len(b)) :
            (a \o b)[k] = IF k <= Len(a) THEN a[k] ELSE b[k - Len(a)]
    BY <1>2, <1>3, ConcatProperties
<1>5. RemoveAt(s, n) = a \o b
    BY DEF RemoveAt, a, b
<1>6. ASSUME NEW k \in 1..(Len(s) - 1)
      PROVE  (a \o b)[k] = IF k < n THEN s[k] ELSE s[k + 1]
  <2>1. CASE k < n
      BY <1>1, <1>2, <1>3, <1>4, <2>1
  <2>2. CASE k >= n
    <3>1. (a \o b)[k] = b[k - (n - 1)]
        BY <1>1, <1>2, <1>3, <1>4, <2>2
    <3>2. k - (n - 1) \in 1..(Len(s) - n) /\ (k - (n - 1)) + n = k + 1
        BY <1>1, <2>2
    <3> QED BY <1>3, <2>2, <3>1, <3>2
  <2>3. k \in Int /\ n \in Int /\ (k < n \/ k >= n)
      BY <1>1
  <2> QED BY <2>1, <2>2, <2>3
<1>7. Len(a \o b) = Len(s) - 1
    BY <1>1, <1>2, <1>3, <1>4
<1> QED BY <1>4, <1>5, <1>6, <1>7

\* Splicing an item out leaves a listing of the others (Without).
LEMMA WithoutLists ==
    ASSUME NEW s, NEW S, Listing(s, S), NEW i \in S
    PROVE  Listing(Without(s, i), S \ {i})
<1> DEFINE n == Index(s, i)
           w == RemoveAt(s, n)
<1>1. n \in 1..Len(s) /\ s[n] = i
    BY IndexFinds
<1>2. s \in Seq(Items) /\ Len(s) \in Nat
    BY DEF Listing
<1>3. /\ w \in Seq(Items)
      /\ Len(w) = Len(s) - 1
      /\ \A k \in 1..(Len(s) - 1) : w[k] = IF k < n THEN s[k] ELSE s[k + 1]
    BY <1>1, <1>2, RemoveAtElements
<1>4. \A k, l \in 1..Len(s) : s[k] = s[l] => k = l
    BY DEF Listing
<1> HIDE DEF n, w
<1>5. \A k \in 1..Len(w) : w[k] \in S \ {i}
  <2> TAKE k \in 1..Len(w)
  <2>1. CASE k < n
      BY <1>1, <1>2, <1>3, <1>4, <2>1 DEF Listing
  <2>2. CASE k >= n
      BY SMTT(30), <1>1, <1>2, <1>3, <1>4, <2>2 DEF Listing
  <2> QED BY <1>1, <1>2, <1>3, <2>1, <2>2
<1>6. \A j \in S \ {i} : \E k \in 1..Len(w) : w[k] = j
  <2> TAKE j \in S \ {i}
  <2>1. PICK k \in 1..Len(s) : s[k] = j
      BY DEF Listing
  <2>2. CASE k < n
    <3>1. k \in 1..Len(w) /\ w[k] = j
        BY <1>1, <1>2, <1>3, <2>1, <2>2
    <3> QED BY <3>1
  <2>3. CASE k > n
    <3>1. k - 1 \in 1..Len(w) /\ w[k - 1] = j
        BY <1>1, <1>2, <1>3, <2>1, <2>3
    <3> QED BY <3>1
  <2> QED BY <1>1, <1>2, <2>1, <2>2, <2>3
<1>7. \A k, l \in 1..Len(w) : w[k] = w[l] => k = l
  <2> TAKE k, l \in 1..Len(w)
  <2> HAVE w[k] = w[l]
  <2> DEFINE up(q) == IF q < n THEN q ELSE q + 1
  <2>1. /\ up(k) \in 1..Len(s) /\ w[k] = s[up(k)]
        /\ up(l) \in 1..Len(s) /\ w[l] = s[up(l)]
      BY <1>1, <1>2, <1>3
  <2>2. up(k) = up(l)
      BY <1>4, <2>1
  <2> QED BY <1>1, <1>2, <2>2
<1> QED BY <1>3, <1>5, <1>6, <1>7 DEF Without, Listing, n, w

\* Inserting shifts the elements from its place on up.
LEMMA InsertAtElements ==
    ASSUME NEW s \in Seq(Items), NEW n \in 1..(Len(s) + 1), NEW i \in Items
    PROVE  /\ InsertAt(s, n, i) \in Seq(Items)
           /\ Len(InsertAt(s, n, i)) = Len(s) + 1
           /\ \A k \in 1..(Len(s) + 1) :
                 InsertAt(s, n, i)[k] = IF k < n THEN s[k]
                                        ELSE IF k = n THEN i ELSE s[k - 1]
<1> DEFINE a == SubSeq(s, 1, n - 1)
           m == <<i>>
           b == SubSeq(s, n, Len(s))
<1>1. Len(s) \in Nat /\ \A k \in 1..Len(s) : s[k] \in Items
    BY LenProperties, ElementOfSeq
<1>2. /\ a \in Seq(Items) /\ Len(a) = n - 1
      /\ \A k \in 1..(n - 1) : a[k] = s[k]
  <2>1. \A k \in 1..(n - 1) : s[k] \in Items
      BY <1>1
  <2> QED BY <1>1, <2>1, SubSeqProperties
<1>3. /\ b \in Seq(Items) /\ Len(b) = Len(s) - n + 1
      /\ \A k \in 1..(Len(s) - n + 1) : b[k] = s[n + k - 1]
  <2>1. \A k \in n..Len(s) : s[k] \in Items
      BY <1>1
  <2> QED BY <1>1, <2>1, SubSeqProperties
<1>4. m \in Seq(Items) /\ Len(m) = 1 /\ m[1] = i
    OBVIOUS
<1> HIDE DEF a, b, m
<1>5. /\ a \o m \in Seq(Items) /\ Len(a \o m) = n
      /\ \A k \in 1..n : (a \o m)[k] = IF k < n THEN s[k] ELSE i
  <2>1. /\ a \o m \in Seq(Items) /\ Len(a \o m) = Len(a) + Len(m)
        /\ \A k \in 1..(Len(a) + Len(m)) :
              (a \o m)[k] = IF k <= Len(a) THEN a[k] ELSE m[k - Len(a)]
      BY <1>2, <1>4, ConcatProperties
  <2> QED BY <1>1, <1>2, <1>4, <2>1
<1> DEFINE c == a \o m
<1> HIDE DEF c
<1>6. /\ c \o b \in Seq(Items)
      /\ Len(c \o b) = Len(c) + Len(b)
      /\ \A k \in 1..(Len(c) + Len(b)) :
            (c \o b)[k] = IF k <= Len(c) THEN c[k] ELSE b[k - Len(c)]
  <2>1. c \in Seq(Items)
      BY <1>5 DEF c
  <2> QED BY <1>3, <2>1, ConcatProperties
<1>7. InsertAt(s, n, i) = c \o b
    BY DEF InsertAt, a, b, c, m
<1>8. ASSUME NEW k \in 1..(Len(s) + 1)
      PROVE  (c \o b)[k] = IF k < n THEN s[k]
                                   ELSE IF k = n THEN i ELSE s[k - 1]
  <2>1. CASE k <= n
      BY <1>1, <1>3, <1>5, <1>6, <2>1 DEF c
  <2>2. CASE k > n
    <3>1. (c \o b)[k] = b[k - n]
        BY <1>1, <1>3, <1>5, <1>6, <2>2 DEF c
    <3>2. k - n \in 1..(Len(s) - n + 1) /\ n + (k - n) - 1 = k - 1
        BY <1>1, <2>2
    <3> QED BY <1>3, <2>2, <3>1, <3>2
  <2>3. k \in Int /\ n \in Int /\ (k <= n \/ k > n)
      BY <1>1
  <2> QED BY <2>1, <2>2, <2>3
<1>9. Len(c \o b) = Len(s) + 1
    BY <1>1, <1>3, <1>5, <1>6 DEF c
<1> QED BY <1>6, <1>7, <1>8, <1>9

\* Inserting an item that was not listed leaves a listing (moveItemToTop).
LEMMA InsertLists ==
    ASSUME NEW s, NEW S, Listing(s, S), NEW i \in Items, i \notin S,
           NEW n \in 1..(Len(s) + 1)
    PROVE  Listing(InsertAt(s, n, i), S \cup {i})
<1> DEFINE u == InsertAt(s, n, i)
<1>1. s \in Seq(Items) /\ Len(s) \in Nat /\ n \in Nat
    BY DEF Listing
<1>2. /\ u \in Seq(Items)
      /\ Len(u) = Len(s) + 1
      /\ \A k \in 1..(Len(s) + 1) :
            u[k] = IF k < n THEN s[k] ELSE IF k = n THEN i ELSE s[k - 1]
  <2>1. s \in Seq(Items) /\ n \in 1..(Len(s) + 1) /\ i \in Items
      BY <1>1
  <2>2. u \in Seq(Items)
      BY <2>1, InsertAtElements
  <2>3. Len(u) = Len(s) + 1
      BY <2>1, InsertAtElements
  <2>4. ASSUME NEW k \in 1..(Len(s) + 1)
        PROVE  u[k] = IF k < n THEN s[k] ELSE IF k = n THEN i ELSE s[k - 1]
      BY <2>1, InsertAtElements
  <2> QED BY <2>2, <2>3, <2>4
<1>3. \A k, l \in 1..Len(s) : s[k] = s[l] => k = l
    BY DEF Listing
<1>4. \A k \in 1..Len(s) : s[k] \in S
    BY DEF Listing
<1> HIDE DEF u
<1>5. \A k \in 1..Len(u) : u[k] \in S \cup {i}
  <2> TAKE k \in 1..Len(u)
  <2>1. CASE k < n
      BY <1>1, <1>2, <1>4, <2>1
  <2>2. CASE k = n
      BY <1>1, <1>2, <2>2
  <2>3. CASE k > n
      BY <1>1, <1>2, <1>4, <2>3
  <2> QED BY <1>1, <1>2, <2>1, <2>2, <2>3
<1>6. \A j \in S \cup {i} : \E k \in 1..Len(u) : u[k] = j
  <2> TAKE j \in S \cup {i}
  <2>1. CASE j = i
      BY <1>1, <1>2, <2>1
  <2>2. CASE j \in S
    <3>1. PICK k \in 1..Len(s) : s[k] = j
        BY <2>2 DEF Listing
    <3>2. CASE k < n
        BY <1>1, <1>2, <3>1, <3>2
    <3>3. CASE k >= n
      <4>1. k + 1 \in 1..Len(u) /\ u[k + 1] = j
          BY <1>1, <1>2, <3>1, <3>3
      <4> QED BY <4>1
    <3> QED BY <1>1, <3>1, <3>2, <3>3
  <2> QED BY <2>1, <2>2
<1>7. \A k, l \in 1..Len(u) : u[k] = u[l] => k = l
  <2> TAKE k, l \in 1..Len(u)
  <2> HAVE u[k] = u[l]
  <2> DEFINE down(q) == IF q < n THEN q ELSE q - 1
  <2>1. /\ k # n => down(k) \in 1..Len(s) /\ u[k] = s[down(k)] /\ u[k] \in S
        /\ l # n => down(l) \in 1..Len(s) /\ u[l] = s[down(l)] /\ u[l] \in S
      BY <1>1, <1>2, <1>4
  <2>2. k = n <=> l = n
      BY <1>1, <1>2, <2>1
  <2>3. k # n => down(k) = down(l)
      BY <1>3, <2>1, <2>2
  <2> QED BY <1>1, <1>2, <2>2, <2>3
<1> QED BY <1>2, <1>5, <1>6, <1>7 DEF Listing, u

\* Putting an item that was not listed first, or last.
LEMMA ConsLists ==
    ASSUME NEW s, NEW S, Listing(s, S), NEW i \in Items, i \notin S
    PROVE  Listing(<<i>> \o s, S \cup {i})
<1>1. s \in Seq(Items) /\ Len(s) \in Nat
    BY DEF Listing
<1>2. InsertAt(s, 1, i) = <<i>> \o s
  <2>1. SubSeq(s, 1, 1 - 1) = << >> /\ SubSeq(s, 1, Len(s)) = s
      BY <1>1, SubSeqEmpty, SubSeqFull
  <2>2. << >> \o <<i>> = <<i>>
      BY ConcatEmptySeq
  <2> QED BY <2>1, <2>2 DEF InsertAt
<1>3. Listing(InsertAt(s, 1, i), S \cup {i})
  <2>1. 1 \in 1..(Len(s) + 1)
      BY <1>1
  <2> QED BY <2>1, InsertLists
<1> QED BY <1>2, <1>3

LEMMA AppendLists ==
    ASSUME NEW s, NEW S, Listing(s, S), NEW i \in Items, i \notin S
    PROVE  Listing(Append(s, i), S \cup {i})
<1>1. s \in Seq(Items) /\ Len(s) \in Nat
    BY DEF Listing
<1>2. InsertAt(s, Len(s) + 1, i) = Append(s, i)
  <2>1. /\ SubSeq(s, 1, (Len(s) + 1) - 1) = s
        /\ SubSeq(s, Len(s) + 1, Len(s)) = << >>
      BY <1>1, SubSeqEmpty, SubSeqFull
  <2>2. (s \o <<i>>) \o << >> = s \o <<i>> /\ Append(s, i) = s \o <<i>>
      BY <1>1, ConcatEmptySeq, ConcatProperties, AppendIsConcat
  <2> QED BY <2>1, <2>2 DEF InsertAt
<1>3. Listing(InsertAt(s, Len(s) + 1, i), S \cup {i})
  <2>1. Len(s) + 1 \in 1..(Len(s) + 1)
      BY <1>1
  <2> QED BY <2>1, InsertLists
<1> QED BY <1>2, <1>3

-----------------------------------------------------------------------------
(* Part 2.  The store.                                                      *)

\* A listing entails what QueueWellFormed says of a state.
LEMMA StateOKWellFormed ==
    ASSUME NEW m, StateOK(m)
    PROVE  WellFormed(m)
<1>1. \A p \in Projects : Listing(m.order[p], Here(m, p))
    BY DEF StateOK
<1>2. ASSUME NEW p \in Projects
      PROVE  DOMAIN m.order[p] = 1..Len(m.order[p])
    BY <1>1 DEF Listing
<1>3. ASSUME NEW p \in Projects, NEW k \in DOMAIN m.order[p]
      PROVE  LET i == m.order[p][k]
             IN  /\ ProjectOf[i] = p
                 /\ m.rec[i].status # "absent"
                 /\ \A l \in DOMAIN m.order[p] : m.order[p][l] = i => l = k
    BY <1>1, <1>2 DEF Listing, Here
<1>4. ASSUME NEW i \in Present(m)
      PROVE  \E k \in DOMAIN m.order[ProjectOf[i]] : m.order[ProjectOf[i]][k] = i
  <2>1. ProjectOf[i] \in Projects /\ i \in Here(m, ProjectOf[i])
      BY ServiceAssumption DEF Present, Here
  <2> QED BY <1>1, <1>2, <2>1 DEF Listing
<1> QED BY <1>3, <1>4 DEF WellFormed

LEMMA EmptyStateOK == StateOK(EmptyState)
<1>1. Absent \in ItemRec
    BY ServiceAssumption DEF Absent, ItemRec, Statuses, Targets
<1>2. EmptyState \in QueueState
    BY <1>1 DEF EmptyState, QueueState, Pauses
<1>3. \A i \in Items : EmptyState.rec[i] = Absent
    BY DEF EmptyState
<1>4. Counted(EmptyState)
    BY <1>3, ServiceAssumption DEF Counted, Absent
<1>5. \A p \in Projects : EmptyState.order[p] = << >> /\ Here(EmptyState, p) = {}
    BY <1>3 DEF EmptyState, Here, Absent
<1>6. Listing(<< >>, {})
    BY EmptySeq DEF Listing
<1> QED BY <1>2, <1>4, <1>5, <1>6 DEF StateOK, EmptyState

\* A change of the items' records that adds and removes none.
LEMMA RewriteOK ==
    ASSUME NEW m, StateOK(m), NEW n \in QueueState, n.order = m.order, Counted(n),
           \A j \in Items : n.rec[j].status = "absent" <=> m.rec[j].status = "absent",
           n.paused \in {m.paused, "no"}
    PROVE  StateOK(n)
<1>1. \A p \in Projects : Here(n, p) = Here(m, p)
    BY DEF Here
<1> QED BY <1>1 DEF StateOK

\* reconcileCreationAssociations changes associations only.
LEMMA ReconciledOK ==
    ASSUME NEW m, StateOK(m), creation \in [Items -> CreationRec]
    PROVE  /\ StateOK(Reconciled(m))
           /\ Reconciled(m).order = m.order /\ Reconciled(m).paused = m.paused
           /\ \A j \in Items : /\ Reconciled(m).rec[j] \in ItemRec
                               /\ Reconciled(m).rec[j].status = m.rec[j].status
                               /\ Reconciled(m).rec[j].fails = m.rec[j].fails
                               /\ Reconciled(m).rec[j].retryId = m.rec[j].retryId
<1> DEFINE n == Reconciled(m)
<1>1. m \in QueueState /\ Counted(m)
    BY DEF StateOK
<1>2. \A j \in Items : m.rec[j] \in ItemRec
    BY <1>1 DEF QueueState
<1>3. /\ n.order = m.order /\ n.paused = m.paused
      /\ \A j \in Items : n.rec[j] = IF m.rec[j].status # "absent" /\ creation[j].state # "none"
                                      THEN [m.rec[j] EXCEPT !.assoc = TRUE]
                                      ELSE m.rec[j]
    BY <1>1 DEF Reconciled, QueueState
<1>4. \A j \in Items : /\ n.rec[j] \in ItemRec
                        /\ n.rec[j].status = m.rec[j].status
                        /\ n.rec[j].fails = m.rec[j].fails
                        /\ n.rec[j].retryId = m.rec[j].retryId
    BY ZenonT(30), <1>2, <1>3 DEF ItemRec
<1>5. n \in QueueState
    BY <1>1, <1>4 DEF Reconciled, QueueState
<1>6. Counted(n)
    BY <1>1, <1>4 DEF Counted
<1> QED BY <1>3, <1>4, <1>5, <1>6, RewriteOK

\* Replacing one order, and at most one record, of a consistent queue.
LEMMA ReorderOK ==
    ASSUME NEW m, StateOK(m), NEW n \in QueueState, Counted(n), NEW i \in Items,
           NEW s, n.order = [m.order EXCEPT ![ProjectOf[i]] = s],
           SameStatus(m, n, i), Listing(s, Here(n, ProjectOf[i])),
           n.paused # "no" => \E j \in Items : n.rec[j].status # "absent"
    PROVE  StateOK(n)
<1>1. ProjectOf[i] \in Projects /\ m.order \in [Projects -> Seq(Items)]
    BY ServiceAssumption DEF StateOK, QueueState
<1>2. ASSUME NEW p \in Projects
      PROVE  Listing(n.order[p], Here(n, p))
  <2>1. CASE p = ProjectOf[i]
      BY <1>1, <2>1
  <2>2. CASE p # ProjectOf[i]
    <3>1. Here(n, p) = Here(m, p)
        BY <2>2 DEF Here, SameStatus
    <3> QED BY <1>1, <2>2, <3>1 DEF StateOK
  <2> QED BY <2>1, <2>2
<1> QED BY <1>2 DEF StateOK

\* Removing an item, with clearDispatchPauseIfEmpty.
LEMMA DropOK ==
    ASSUME NEW m, StateOK(m), NEW i \in Items, m.rec[i].status # "absent"
    PROVE  /\ StateOK(Drop(m, i))
           /\ SameStatus(m, Drop(m, i), i)
<1> DEFINE p == ProjectOf[i]
           s == Without(m.order[p], i)
           d == [m EXCEPT !.order[p] = Without(@, i), !.rec[i] = Absent]
           n == Drop(m, i)
<1>1. /\ p \in Projects /\ m \in QueueState
      /\ m.order \in [Projects -> Seq(Items)] /\ m.rec \in [Items -> ItemRec]
    BY ServiceAssumption DEF StateOK, QueueState
<1>2. Listing(s, Here(m, p) \ {i})
    BY <1>1, WithoutLists DEF StateOK, Here
<1>3. Absent \in ItemRec /\ Absent.status = "absent" /\ Absent.fails = 0
    BY ServiceAssumption DEF Absent, ItemRec, Statuses, Targets
<1>4. /\ d.order = [m.order EXCEPT ![p] = s]
      /\ d.rec = [m.rec EXCEPT ![i] = Absent]
      /\ d.paused = m.paused
    BY <1>1 DEF QueueState
<1>5. d \in QueueState
    BY <1>1, <1>2, <1>3 DEF QueueState, Listing
<1>6. n = d \/ n = [d EXCEPT !.paused = "no"]
    BY DEF Drop, ClearPauseIfEmpty
<1>7. n.paused # "no" => \E j \in Items : n.rec[j].status # "absent"
    BY <1>1, <1>5 DEF Drop, ClearPauseIfEmpty, Present, QueueState
<1> HIDE DEF n, d, s
<1>8. n \in QueueState /\ n.order = d.order /\ n.rec = d.rec
    BY <1>5, <1>6 DEF QueueState, Pauses
<1>9. SameStatus(m, n, i)
    BY <1>1, <1>4, <1>8 DEF SameStatus
<1>10. Here(n, p) = Here(m, p) \ {i}
    BY <1>1, <1>3, <1>4, <1>8 DEF Here
<1>11. Counted(n)
    BY <1>1, <1>3, <1>4, <1>8, ServiceAssumption DEF StateOK, Counted
<1>12. StateOK(n)
    BY <1>2, <1>4, <1>7, <1>8, <1>9, <1>10, <1>11, ReorderOK
<1> QED BY <1>9, <1>12 DEF n

\* Moving an item within its project.
LEMMA ToHeadOK ==
    ASSUME NEW m, StateOK(m), NEW i \in Items, m.rec[i].status # "absent"
    PROVE  StateOK(ToHead(m, i)) /\ ToHead(m, i).rec = m.rec
<1> DEFINE p == ProjectOf[i]
           w == Without(m.order[p], i)
           s == <<i>> \o w
           n == ToHead(m, i)
<1>1. /\ p \in Projects /\ m \in QueueState
      /\ m.order \in [Projects -> Seq(Items)] /\ m.rec \in [Items -> ItemRec]
    BY ServiceAssumption DEF StateOK, QueueState
<1>2. i \in Here(m, p) /\ Listing(m.order[p], Here(m, p))
    BY <1>1 DEF StateOK, Here
<1>3. Listing(s, Here(m, p))
  <2>1. Listing(w, Here(m, p) \ {i})
      BY <1>2, WithoutLists
  <2>2. Listing(s, (Here(m, p) \ {i}) \cup {i})
      BY <2>1, ConsLists
  <2>3. (Here(m, p) \ {i}) \cup {i} = Here(m, p)
      BY <1>2
  <2> QED BY <2>2, <2>3
<1>4. /\ n.order = [m.order EXCEPT ![p] = s]
      /\ n.rec = m.rec /\ n.paused = m.paused
    BY <1>1 DEF ToHead, QueueState
<1>5. n \in QueueState
    BY <1>1, <1>3 DEF ToHead, QueueState, Listing
<1> HIDE DEF n, s
<1>6. Counted(n) /\ SameStatus(m, n, i) /\ Here(n, p) = Here(m, p)
    BY <1>4 DEF StateOK, Counted, SameStatus, Here
<1>7. n.paused # "no" => \E j \in Items : n.rec[j].status # "absent"
    BY <1>4 DEF StateOK
<1> QED BY <1>3, <1>4, <1>5, <1>6, <1>7, ReorderOK DEF n

\* A nonempty set of positions has a smallest one.
LEMMA SmallestIndex ==
    ASSUME NEW T, T # {}, NEW b \in Nat, T \subseteq 1..b
    PROVE  \E k \in T : \A l \in T : k <= l
<1>1. T \subseteq Nat
    OBVIOUS
<1>2. PICK k \in T : \A l \in T : ~(<<l, k>> \in OpToRel(<, Nat))
    BY <1>1, NatLessThanWellFounded, WFMin
<1>3. ASSUME NEW l \in T
      PROVE  k <= l
  <2>1. ~(l < k)
      BY <1>1, <1>2 DEF OpToRel
  <2> QED BY <1>1, <2>1
<1> QED BY <1>3

LEMMA ToTopOK ==
    ASSUME NEW m, StateOK(m), NEW i \in Items, m.rec[i].status # "absent"
    PROVE  StateOK(ToTop(m, i)) /\ ToTop(m, i).rec = m.rec
<1> DEFINE p == ProjectOf[i]
           w == Without(m.order[p], i)
           free == Movable(m, w)
           at == IF free = {} THEN Len(w) + 1
                 ELSE CHOOSE k \in free : \A l \in free : k <= l
           s == InsertAt(w, at, i)
           n == ToTop(m, i)
<1>1. /\ p \in Projects /\ m \in QueueState
      /\ m.order \in [Projects -> Seq(Items)] /\ m.rec \in [Items -> ItemRec]
    BY ServiceAssumption DEF StateOK, QueueState
<1>2. i \in Here(m, p) /\ Listing(m.order[p], Here(m, p))
    BY <1>1 DEF StateOK, Here
<1>3. Listing(w, Here(m, p) \ {i})
    BY <1>2, WithoutLists
<1>4. at \in 1..(Len(w) + 1)
  <2>1. w \in Seq(Items) /\ Len(w) \in Nat /\ DOMAIN w = 1..Len(w)
      BY <1>3, LenProperties DEF Listing
  <2>2. free \subseteq 1..Len(w)
      BY <2>1 DEF Movable
  <2>3. CASE free = {}
      BY <2>1, <2>3
  <2>4. CASE free # {}
    <3>1. \E k \in free : \A l \in free : k <= l
        BY <2>1, <2>2, <2>4, SmallestIndex
    <3>2. at \in free
        BY <2>4, <3>1
    <3> QED BY <2>1, <2>2, <3>2
  <2> QED BY <2>3, <2>4
<1>5. Listing(s, Here(m, p))
  <2> HIDE DEF at, w
  <2>2. Listing(s, (Here(m, p) \ {i}) \cup {i})
      BY <1>3, <1>4, InsertLists
  <2>3. (Here(m, p) \ {i}) \cup {i} = Here(m, p)
      BY <1>2
  <2> QED BY <2>2, <2>3
<1>6. n = [m EXCEPT !.order[p] = s]
    BY DEF ToTop
<1> HIDE DEF n, s
<1>7. /\ n.order = [m.order EXCEPT ![p] = s]
      /\ n.rec = m.rec /\ n.paused = m.paused
    BY <1>1, <1>6 DEF QueueState
<1>8. n \in QueueState
    BY <1>1, <1>5, <1>6 DEF QueueState, Listing
<1>9. Counted(n) /\ SameStatus(m, n, i) /\ Here(n, p) = Here(m, p)
    BY <1>7 DEF StateOK, Counted, SameStatus, Here
<1>10. n.paused # "no" => \E j \in Items : n.rec[j].status # "absent"
    BY <1>7 DEF StateOK
<1> QED BY <1>5, <1>7, <1>8, <1>9, <1>10, ReorderOK DEF n

\* Replacing the record of an item that stays, and resuming.
LEMMA RecordOK ==
    ASSUME NEW m, StateOK(m), NEW i \in Items, m.rec[i].status # "absent",
           NEW r \in ItemRec, r.status # "absent",
           r.status # "failed" => r.fails < MaxStartupFailures
    PROVE  LET n == [m EXCEPT !.rec[i] = r]
           IN  /\ StateOK(n) /\ SameStatus(m, n, i) /\ n.rec[i] = r
               /\ n.order = m.order /\ n.paused = m.paused
<1> DEFINE n == [m EXCEPT !.rec[i] = r]
<1>1. m \in QueueState
    BY DEF StateOK
<1>2. /\ n \in QueueState /\ n.order = m.order /\ n.paused = m.paused
      /\ n.rec = [m.rec EXCEPT ![i] = r] /\ m.rec \in [Items -> ItemRec]
    BY <1>1 DEF QueueState
<1> HIDE DEF n
<1>3. /\ n.rec[i] = r /\ SameStatus(m, n, i)
      /\ \A j \in Items : n.rec[j].status = "absent" <=> m.rec[j].status = "absent"
    BY <1>2 DEF SameStatus
<1>4. Counted(n)
    BY <1>2 DEF StateOK, Counted
<1>5. StateOK(n)
    BY <1>2, <1>3, <1>4, RewriteOK
<1> QED BY <1>2, <1>3, <1>5 DEF n

LEMMA ResumeOK ==
    ASSUME NEW m, StateOK(m)
    PROVE  LET n == [m EXCEPT !.paused = "no"]
           IN  StateOK(n) /\ n.rec = m.rec /\ n.order = m.order
<1> DEFINE n == [m EXCEPT !.paused = "no"]
<1>1. n \in QueueState /\ n.rec = m.rec /\ n.order = m.order /\ n.paused = "no"
    BY DEF StateOK, QueueState, Pauses
<1> HIDE DEF n
<1>2. Counted(n)
    BY <1>1 DEF StateOK, Counted
<1>3. StateOK(n)
    BY <1>1, <1>2, RewriteOK
<1> QED BY <1>1, <1>3 DEF n

\* What opening a mutation on item i does.
Effect(op, i, by) ==
    /\ StoreInv'
    /\ pend'.op = op /\ pend'.item = i /\ pend'.by = by
    /\ UNCHANGED <<disk, creation>>
    /\ SameStatus(mem, mem', i)

LEMMA OpenOK ==
    ASSUME StoreInv, NEW m, StateOK(m), NEW op \in Ops \ {"create", "update"},
           NEW i \in Items \cup {None}, NEW by \in {"user", "promote", "run"},
           NEW resumed \in BOOLEAN, NEW undo \in QueueState, SameStatus(mem, m, i),
           Open(m, op, i, by, resumed, undo)
    PROVE  Effect(op, i, by) /\ mem' = m
<1>1. /\ mem' = m /\ disk' = disk /\ creation' = creation
      /\ pend' = Mutation(op, i, by, resumed, undo)
    BY DEF Open
<1>2. pend' \in Pendings /\ pend'.op = op /\ pend'.item = i /\ pend'.by = by
    BY <1>1 DEF Mutation, Pendings
<1>3. ServiceTypeOK'
    BY <1>1, <1>2 DEF StoreInv, ServiceTypeOK, StateOK
<1>4. UndoOK'
    BY <1>2 DEF UndoOK
<1>5. StateOK(mem)' /\ StateOK(disk)'
    BY <1>1 DEF StoreInv, StateOK, Counted, Here, Listing
<1> QED BY <1>1, <1>2, <1>3, <1>4, <1>5 DEF Effect, StoreInv

\* Item actions other than an edit.
LEMMA ItemActionOK ==
    ASSUME StoreInv, NEW m, StateOK(m), NEW op \in Ops \ {"create", "update"},
           NEW i \in Items, SameStatus(mem, m, i), ItemAction(m, op, i)
    PROVE  Effect(op, i, "user") /\ mem'.rec = m.rec
<1> DEFINE n == [m EXCEPT !.paused = "no"]
<1>1. StateOK(n) /\ n.rec = m.rec
    BY ResumeOK
<1>2. EmptyState \in QueueState
    BY EmptyStateOK DEF StateOK
<1>3. SameStatus(mem, n, i)
    BY <1>1 DEF SameStatus
<1>4. Open(n, op, i, "user", Paused, EmptyState)
    BY DEF ItemAction
<1>5. Paused \in BOOLEAN
    BY DEF Paused
<1> HIDE DEF n
<1> QED BY <1>1, <1>2, <1>3, <1>4, <1>5, OpenOK

\* The typing facts the lemmas below start from.
LEMMA StoreFacts ==
    ASSUME StoreInv, NEW i \in Items
    PROVE  /\ StateOK(mem) /\ mem \in QueueState
           /\ mem.rec[i] \in ItemRec /\ mem.rec[i].fails \in Nat
           /\ creation \in [Items -> CreationRec]
           /\ StateOK(Reconciled(mem)) /\ Reconciled(mem) \in QueueState
           /\ Reconciled(mem).rec[i] \in ItemRec
           /\ Reconciled(mem).rec[i].status = mem.rec[i].status
           /\ Reconciled(mem).rec[i].fails = mem.rec[i].fails
           /\ SameStatus(mem, Reconciled(mem), i)
           /\ Reconciled(mem).order = mem.order
           /\ Reconciled(mem).paused = mem.paused
<1>1. StateOK(mem) /\ creation \in [Items -> CreationRec]
    BY DEF StoreInv, ServiceTypeOK
<1>2. mem \in QueueState /\ mem.rec[i] \in ItemRec
    BY <1>1 DEF StateOK, QueueState
<1>3. mem.rec[i].fails \in Nat
    BY <1>2, ServiceAssumption DEF ItemRec
<1> QED BY <1>1, <1>2, <1>3, ReconciledOK DEF SameStatus, StateOK

\* The record a user action leaves: queued, with its failures forgotten.
LEMMA FreshRecord ==
    ASSUME NEW q \in ItemRec, NEW target \in Targets, NEW id \in 0..MaxRetries
    PROVE  LET r == [q EXCEPT !.status = "queued", !.fails = 0, !.target = target]
               u == [q EXCEPT !.status = "queued", !.fails = 0, !.retryId = id]
               c == [Absent EXCEPT !.status = "queued", !.target = target]
           IN  /\ r \in ItemRec /\ r.status = "queued" /\ r.fails = 0
               /\ u \in ItemRec /\ u.status = "queued" /\ u.fails = 0
               /\ c \in ItemRec /\ c.status = "queued" /\ c.fails = 0
<1>1. 0 \in 0..MaxStartupFailures /\ 0 \in 0..MaxRetries
    BY ServiceAssumption
<1>2. LET r == [q EXCEPT !.status = "queued", !.fails = 0, !.target = target]
      IN  r \in ItemRec /\ r.status = "queued" /\ r.fails = 0
    BY <1>1 DEF ItemRec, Statuses
<1>3. LET u == [q EXCEPT !.status = "queued", !.fails = 0, !.retryId = id]
      IN  u \in ItemRec /\ u.status = "queued" /\ u.fails = 0
    BY <1>1 DEF ItemRec, Statuses
<1>4. LET c == [Absent EXCEPT !.status = "queued", !.target = target]
      IN  c \in ItemRec /\ c.status = "queued" /\ c.fails = 0
    BY <1>1 DEF Absent, ItemRec, Statuses, Targets
<1> QED BY <1>2, <1>3, <1>4

\* createItem: the new id is not queued yet.
LEMMA CreateOK ==
    ASSUME StoreInv, NEW i \in Items, Status(i) = "absent", NEW target \in Targets,
           DoCreate(i, target)
    PROVE  Effect("create", i, "user") /\ Status(i)' = "queued"
<1> DEFINE p == ProjectOf[i]
           s == Append(mem.order[p], i)
           r == [Absent EXCEPT !.status = "queued", !.target = target]
           n == [mem EXCEPT !.order[p] = Append(@, i), !.rec[i] = r]
<1>1. /\ p \in Projects /\ StateOK(mem) /\ mem \in QueueState
      /\ mem.order \in [Projects -> Seq(Items)] /\ mem.rec \in [Items -> ItemRec]
    BY ServiceAssumption, StoreFacts DEF QueueState
<1>2. r \in ItemRec /\ r.status = "queued" /\ r.fails = 0
  <2>1. mem.rec[i] \in ItemRec /\ 0 \in 0..MaxRetries
      BY StoreFacts, ServiceAssumption
  <2> QED BY <2>1, FreshRecord
<1>3. /\ n.order = [mem.order EXCEPT ![p] = s]
      /\ n.rec = [mem.rec EXCEPT ![i] = r] /\ n.paused = mem.paused
    BY <1>1 DEF QueueState
<1>4. Listing(s, Here(mem, p) \cup {i})
    BY <1>1, AppendLists DEF StateOK, Here, Status
<1>5. n \in QueueState
    BY <1>1, <1>2, <1>4 DEF QueueState, Listing
<1>6. Unlocked /\ Open(n, "create", i, "user", FALSE, mem)
    BY DEF DoCreate
<1> HIDE DEF n, s, r
<1>7. SameStatus(mem, n, i) /\ SameStatus(n, mem, i) /\ n.rec[i] = r
    BY <1>1, <1>3 DEF SameStatus
<1>8. Here(n, p) = Here(mem, p) \cup {i}
    BY <1>1, <1>2, <1>3 DEF Here
<1>9. Counted(n)
    BY <1>1, <1>2, <1>3, ServiceAssumption DEF StateOK, Counted
<1>10. StateOK(n)
  <2>1. n.order = [mem.order EXCEPT ![ProjectOf[i]] = s]
      BY <1>3
  <2>2. Listing(s, Here(n, ProjectOf[i]))
      BY <1>4, <1>8
  <2>3. n.paused # "no" => \E j \in Items : n.rec[j].status # "absent"
      BY <1>2, <1>7
  <2>4. StateOK(mem) /\ n \in QueueState /\ Counted(n) /\ SameStatus(mem, n, i)
      BY <1>1, <1>5, <1>7, <1>9
  <2> HIDE DEF p
  <2> QED BY <2>1, <2>2, <2>3, <2>4, ReorderOK
<1>11. /\ mem' = n /\ disk' = disk /\ creation' = creation
       /\ pend' = Mutation("create", i, "user", FALSE, mem)
    BY <1>6 DEF Open
<1>12. pend' \in Pendings /\ pend'.op = "create" /\ pend'.item = i
         /\ pend'.by = "user" /\ pend'.undo = mem
    BY <1>1, <1>11 DEF Mutation, Pendings, Ops
<1>13. ServiceTypeOK'
    BY <1>5, <1>11, <1>12 DEF StoreInv, ServiceTypeOK
<1>14. StateOK(mem') /\ StateOK(disk') /\ StateOK(pend'.undo)
    BY <1>1, <1>10, <1>11, <1>12 DEF StoreInv
<1>15. /\ mem'.rec[i].status = "queued" /\ pend'.undo.rec[i].status = "absent"
       /\ SameStatus(mem', pend'.undo, i) /\ SameStatus(mem, mem', i)
    BY <1>2, <1>7, <1>11, <1>12 DEF Status
<1>16. UndoOK'
    BY <1>12, <1>14, <1>15 DEF UndoOK, StateOK, Counted, Here, Listing, SameStatus
<1>17. StoreInv'
    BY <1>13, <1>14, <1>16 DEF StoreInv, StateOK, Counted, Here, Listing
<1> QED BY <1>11, <1>12, <1>15, <1>17 DEF Effect, Status

\* updateItem.
LEMMA UpdateOK ==
    ASSUME StoreInv, NEW i \in Items, NEW target \in Targets, DoUpdate(i, target)
    PROVE  /\ Effect("update", i, "user")
           /\ Status(i) \in {"queued", "failed"} /\ Status(i)' = "queued"
<1> DEFINE m == Reconciled(mem)
           r == [m.rec[i] EXCEPT !.status = "queued", !.fails = 0, !.target = target]
           n == [m EXCEPT !.rec[i] = r]
           o == [n EXCEPT !.paused = "no"]
<1>1. /\ StateOK(m) /\ m \in QueueState /\ m.rec[i] \in ItemRec
      /\ m.rec[i].status = mem.rec[i].status
      /\ SameStatus(mem, m, i)
    BY StoreFacts
<1>2. r \in ItemRec /\ r.status = "queued" /\ r.fails = 0
  <2>1. 0 \in 0..MaxRetries
      BY ServiceAssumption
  <2> QED BY <1>1, <2>1, FreshRecord
<1>3. Status(i) \in {"queued", "failed"}
    BY DEF DoUpdate
<1>4. StateOK(n) /\ SameStatus(m, n, i) /\ n.rec[i] = r
  <2>1. /\ StateOK(m) /\ m.rec[i].status # "absent" /\ r \in ItemRec
        /\ r.status # "absent"
        /\ r.status # "failed" => r.fails < MaxStartupFailures
      BY <1>1, <1>2, <1>3, ServiceAssumption DEF Status
  <2> HIDE DEF m, r
  <2> QED BY <2>1, RecordOK
<1>5. StateOK(o) /\ o.rec = n.rec
    BY <1>4, ResumeOK
<1>6. Open(o, "update", i, "user", Paused, m)
  <2>1. n = [m EXCEPT !.rec[i].status = "queued", !.rec[i].fails = 0,
                      !.rec[i].target = target]
      BY <1>1 DEF QueueState
  <2> QED BY <2>1 DEF DoUpdate, ItemAction
<1> HIDE DEF m, n, o, r
<1>7. /\ mem' = o /\ disk' = disk /\ creation' = creation
      /\ pend' = Mutation("update", i, "user", Paused, m)
    BY <1>6 DEF Open
<1>8. /\ pend' \in Pendings /\ pend'.op = "update" /\ pend'.item = i
      /\ pend'.by = "user" /\ pend'.undo = m
    BY <1>1, <1>7 DEF Mutation, Pendings, Ops, Paused
<1>9. ServiceTypeOK'
    BY <1>5, <1>7, <1>8 DEF StoreInv, ServiceTypeOK, StateOK
<1>10. StateOK(mem') /\ StateOK(disk') /\ StateOK(pend'.undo)
    BY <1>1, <1>5, <1>7, <1>8 DEF StoreInv
<1>11. /\ mem'.rec[i].status = "queued" /\ pend'.undo.rec[i].status # "dispatching"
       /\ SameStatus(mem', pend'.undo, i) /\ SameStatus(mem, mem', i)
    BY <1>1, <1>2, <1>3, <1>4, <1>5, <1>7, <1>8 DEF Status, SameStatus
<1>12. UndoOK'
    BY <1>8, <1>10, <1>11 DEF UndoOK, StateOK, Counted, Here, Listing, SameStatus
<1>13. StoreInv'
    BY <1>9, <1>10, <1>12 DEF StoreInv, StateOK, Counted, Here, Listing
<1> QED BY <1>3, <1>7, <1>8, <1>11, <1>13 DEF Effect, Status

\* The other item actions of the user.
LEMMA DeleteOK ==
    ASSUME StoreInv, NEW i \in Items, DoDelete(i)
    PROVE  Effect("delete", i, "user") /\ Status(i) \in {"queued", "failed"}
<1> DEFINE m == Reconciled(mem)
           n == Drop(m, i)
<1>1. Status(i) \in {"queued", "failed"} /\ ItemAction(n, "delete", i)
    BY DEF DoDelete
<1>2. StateOK(m) /\ m.rec[i].status # "absent" /\ SameStatus(mem, m, i)
    BY <1>1, StoreFacts DEF Status
<1> HIDE DEF m
<1>3. StateOK(n) /\ SameStatus(mem, n, i)
    BY <1>2, DropOK DEF SameStatus
<1>4. "delete" \in Ops \ {"create", "update"}
    BY DEF Ops
<1> HIDE DEF n
<1> QED BY <1>1, <1>3, <1>4, ItemActionOK

LEMMA RetryOK ==
    ASSUME StoreInv, NEW i \in Items, NEW id \in 0..MaxRetries, DoRetry(i, id)
    PROVE  Effect("retry", i, "user") /\ Status(i) \in {"queued", "failed"}
<1> DEFINE m == Reconciled(mem)
           r == [m.rec[i] EXCEPT !.status = "queued", !.fails = 0, !.retryId = id]
           n == [m EXCEPT !.rec[i] = r]
<1>1. /\ StateOK(m) /\ m \in QueueState /\ m.rec[i] \in ItemRec
      /\ m.rec[i].status = mem.rec[i].status /\ SameStatus(mem, m, i)
    BY StoreFacts
<1>2. r \in ItemRec /\ r.status = "queued" /\ r.fails = 0
  <2>1. "new" \in Targets
      BY DEF Targets
  <2> QED BY <1>1, <2>1, FreshRecord
<1>3. Status(i) \in {"queued", "failed"} /\ ItemAction(n, "retry", i)
  <2>1. n = [m EXCEPT !.rec[i].status = "queued", !.rec[i].fails = 0,
                      !.rec[i].retryId = id]
      BY <1>1 DEF QueueState
  <2> QED BY <2>1 DEF DoRetry
<1>4. StateOK(n) /\ SameStatus(m, n, i)
  <2>1. /\ StateOK(m) /\ m.rec[i].status # "absent" /\ r \in ItemRec
        /\ r.status # "absent"
        /\ r.status # "failed" => r.fails < MaxStartupFailures
      BY <1>1, <1>2, <1>3, ServiceAssumption DEF Status
  <2> HIDE DEF m, r
  <2> QED BY <2>1, RecordOK
<1>5. "retry" \in Ops \ {"create", "update"} /\ SameStatus(mem, n, i)
    BY <1>1, <1>4 DEF Ops, SameStatus
<1> HIDE DEF n
<1> QED BY <1>3, <1>4, <1>5, ItemActionOK

LEMMA MoveToTopOK ==
    ASSUME StoreInv, NEW i \in Items, DoMoveToTop(i)
    PROVE  /\ Effect("reorder", i, "user") \/ Effect("resume", i, "user")
           /\ mem'.rec[i].status = mem.rec[i].status
<1> DEFINE m == Reconciled(mem)
           n == ToTop(m, i)
<1>1. /\ Status(i) \in {"queued", "failed"}
      /\ ItemAction(n, "reorder", i) \/ ItemAction(m, "resume", i)
    BY DEF DoMoveToTop
<1>2. /\ StateOK(m) /\ m.rec[i].status = mem.rec[i].status
      /\ m.rec[i].status # "absent" /\ SameStatus(mem, m, i)
    BY <1>1, StoreFacts DEF Status
<1> HIDE DEF m
<1>3. StateOK(n) /\ n.rec = m.rec
    BY <1>2, ToTopOK
<1>4. SameStatus(mem, n, i)
    BY <1>2, <1>3 DEF SameStatus
<1>5. {"reorder", "resume"} \subseteq Ops \ {"create", "update"}
    BY DEF Ops
<1> HIDE DEF n
<1>6. CASE ItemAction(n, "reorder", i)
    BY <1>2, <1>3, <1>4, <1>5, <1>6, ItemActionOK
<1>7. CASE ItemAction(m, "resume", i)
    BY <1>2, <1>5, <1>7, ItemActionOK
<1> QED BY <1>1, <1>6, <1>7

\* The mutations of a run.
LEMMA RunOpenOK ==
    ASSUME StoreInv, NEW m, StateOK(m), NEW op \in Ops \ {"create", "update"},
           NEW i \in Items, SameStatus(mem, m, i), OpenForRun(m, op, i)
    PROVE  Effect(op, i, "run") /\ mem' = m
<1>1. EmptyState \in QueueState
    BY EmptyStateOK DEF StateOK
<1>2. Open(m, op, i, "run", FALSE, EmptyState)
    BY DEF OpenForRun
<1> QED BY <1>1, <1>2, OpenOK

LEMMA MarkedOK ==
    ASSUME StoreInv, NEW i \in Items, mem.rec[i].status # "absent",
           NEW status \in {"queued", "dispatching", "failed"},
           status # "failed" => mem.rec[i].fails < MaxStartupFailures
    PROVE  /\ StateOK(Marked(i, status)) /\ SameStatus(mem, Marked(i, status), i)
           /\ Marked(i, status).rec[i].status = status
           /\ Marked(i, status).rec[i].fails = mem.rec[i].fails
           /\ Marked(i, status).rec[i] \in ItemRec
           /\ Marked(i, status) \in QueueState
<1> DEFINE m == Reconciled(mem)
           r == [m.rec[i] EXCEPT !.status = status]
           n == [m EXCEPT !.rec[i] = r]
<1>1. /\ StateOK(m) /\ m \in QueueState /\ m.rec[i] \in ItemRec
      /\ m.rec[i].status = mem.rec[i].status /\ SameStatus(mem, m, i)
      /\ m.rec[i].fails = mem.rec[i].fails
    BY StoreFacts
<1>2. r \in ItemRec /\ r.status = status /\ r.fails = mem.rec[i].fails
    BY <1>1 DEF ItemRec, Statuses
<1>3. Marked(i, status) = n
    BY <1>1 DEF Marked, QueueState
<1>4. StateOK(n) /\ SameStatus(m, n, i) /\ n.rec[i] = r
  <2>1. /\ StateOK(m) /\ m.rec[i].status # "absent" /\ r \in ItemRec
        /\ r.status # "absent"
        /\ r.status # "failed" => r.fails < MaxStartupFailures
      BY <1>1, <1>2
  <2> HIDE DEF m, r
  <2> QED BY <2>1, RecordOK
<1> HIDE DEF m, n, r
<1>5. n \in QueueState /\ SameStatus(mem, n, i)
    BY <1>1, <1>4 DEF StateOK, SameStatus
<1> QED BY <1>2, <1>3, <1>4, <1>5

LEMMA ClaimOK ==
    ASSUME StoreInv, NEW i \in Items, Status(i) = "queued", DoClaim(i)
    PROVE  Effect("claim", i, "run") /\ Status(i)' = "dispatching"
<1>1. mem.rec[i].status = "queued" /\ mem.rec[i].fails < MaxStartupFailures
    BY StoreFacts DEF Status, StateOK, Counted
<1>2. "claim" \in Ops \ {"create", "update"}
    BY DEF Ops
<1> QED BY <1>1, <1>2, MarkedOK, RunOpenOK DEF DoClaim, Status

LEMMA ReleaseOK ==
    ASSUME StoreInv, NEW i \in Items, Status(i) = "dispatching", DoRelease(i)
    PROVE  Effect("release", i, "run")
<1>1. mem.rec[i].status = "dispatching" /\ mem.rec[i].fails < MaxStartupFailures
    BY StoreFacts DEF Status, StateOK, Counted
<1>2. "release" \in Ops \ {"create", "update"}
    BY DEF Ops
<1> QED BY <1>1, <1>2, MarkedOK, RunOpenOK DEF DoRelease, Status

LEMMA FailOK ==
    ASSUME StoreInv, NEW i \in Items, Status(i) # "absent", DoFail(i)
    PROVE  Effect("fail", i, "run")
<1>1. "fail" \in Ops \ {"create", "update"}
    BY DEF Ops
<1> QED BY <1>1, MarkedOK, RunOpenOK DEF DoFail, Status

LEMMA CompleteOK ==
    ASSUME StoreInv, NEW i \in Items, Status(i) = "dispatching", DoComplete(i)
    PROVE  Effect("complete", i, "run")
<1> DEFINE m == Reconciled(mem)
           n == Drop(m, i)
<1>1. StateOK(m) /\ m.rec[i].status # "absent" /\ SameStatus(mem, m, i)
    BY StoreFacts DEF Status
<1> HIDE DEF m
<1>2. StateOK(n) /\ SameStatus(mem, n, i)
    BY <1>1, DropOK DEF SameStatus
<1>3. "complete" \in Ops \ {"create", "update"} /\ OpenForRun(n, "complete", i)
    BY DEF Ops, DoComplete, m
<1> HIDE DEF n
<1> QED BY <1>2, <1>3, RunOpenOK

LEMMA StartupFailureOK ==
    ASSUME StoreInv, NEW i \in Items, Status(i) = "dispatching", DoStartupFailure(i)
    PROVE  Effect("startupFail", i, "run") /\ Status(i)' \in {"queued", "failed"}
<1> DEFINE fails == mem.rec[i].fails + 1
           status == IF fails >= MaxStartupFailures THEN "failed" ELSE "queued"
           m == Marked(i, status)
           r == [m.rec[i] EXCEPT !.fails = fails]
           n == [m EXCEPT !.rec[i] = r]
           o == ToHead(n, i)
<1>1. /\ mem.rec[i].status = "dispatching" /\ mem.rec[i].fails \in Nat
      /\ mem.rec[i].fails < MaxStartupFailures
    BY StoreFacts DEF Status, StateOK, Counted
<1>2. /\ fails \in 0..MaxStartupFailures
      /\ status = "failed" \/ (status = "queued" /\ fails < MaxStartupFailures)
    BY <1>1, ServiceAssumption
<1>3. /\ StateOK(m) /\ SameStatus(mem, m, i) /\ m.rec[i].status = status
      /\ m.rec[i] \in ItemRec /\ m \in QueueState
  <2>1. status \in {"queued", "dispatching", "failed"} /\ mem.rec[i].status # "absent"
      BY <1>1, <1>2
  <2>2. status # "failed" => mem.rec[i].fails < MaxStartupFailures
      BY <1>1
  <2> HIDE DEF status
  <2> QED BY <2>1, <2>2, MarkedOK
<1>4. OpenForRun(o, "startupFail", i)
  <2>1. n = [m EXCEPT !.rec[i].fails = fails]
      BY <1>3 DEF QueueState
  <2> QED BY <2>1 DEF DoStartupFailure
<1> HIDE DEF m, status
<1>5. r \in ItemRec /\ r.status = status /\ r.fails = fails
    BY <1>2, <1>3 DEF ItemRec
<1> HIDE DEF fails
<1>6. StateOK(n) /\ SameStatus(m, n, i) /\ n.rec[i] = r
  <2>1. /\ StateOK(m) /\ m.rec[i].status # "absent" /\ r \in ItemRec
        /\ r.status # "absent"
        /\ r.status # "failed" => r.fails < MaxStartupFailures
      BY <1>2, <1>3, <1>5
  <2> HIDE DEF r
  <2> QED BY <2>1, RecordOK
<1>7. n.rec[i].status = status
    BY <1>5, <1>6
<1> HIDE DEF n, r
<1>8. StateOK(o) /\ o.rec = n.rec
    BY <1>2, <1>6, <1>7, ToHeadOK
<1>9. SameStatus(mem, o, i)
    BY <1>3, <1>6, <1>8 DEF SameStatus
<1>10. "startupFail" \in Ops \ {"create", "update"}
    BY DEF Ops
<1> HIDE DEF o
<1> QED BY <1>2, <1>4, <1>7, <1>8, <1>9, <1>10, RunOpenOK DEF Status

LEMMA AssociateOK ==
    ASSUME StoreInv, NEW i \in Items, Status(i) = "dispatching", DoAssociate(i)
    PROVE  Effect("associate", i, "run") /\ Status(i)' = "dispatching"
<1> DEFINE r == [mem.rec[i] EXCEPT !.assoc = TRUE]
           n == [mem EXCEPT !.rec[i] = r]
<1>1. /\ StateOK(mem) /\ mem \in QueueState /\ mem.rec[i] \in ItemRec
      /\ mem.rec[i].status = "dispatching"
      /\ mem.rec[i].fails < MaxStartupFailures
    BY StoreFacts DEF Status, StateOK, Counted
<1>2. /\ r \in ItemRec /\ r.status = "dispatching"
      /\ r.fails < MaxStartupFailures
    BY <1>1 DEF ItemRec
<1>3. OpenForRun(n, "associate", i)
  <2>1. n = [mem EXCEPT !.rec[i].assoc = TRUE]
      BY <1>1 DEF QueueState
  <2> QED BY <2>1 DEF DoAssociate
<1>4. StateOK(n) /\ SameStatus(mem, n, i) /\ n.rec[i] = r
  <2> HIDE DEF r
  <2>1. mem.rec[i].status # "absent" /\ r.status # "absent"
      BY <1>1, <1>2
  <2> QED BY <1>1, <1>2, <2>1, RecordOK
<1>5. "associate" \in Ops \ {"create", "update"}
    BY DEF Ops
<1> HIDE DEF n, r
<1>6. Effect("associate", i, "run") /\ mem' = n
    BY <1>3, <1>4, <1>5, RunOpenOK
<1> QED BY <1>2, <1>4, <1>6 DEF Status

\* pauseDispatch refuses an empty queue.
LEMMA PauseOK ==
    ASSUME StoreInv, NEW reason \in {"manual", "restart"}, DoPause(reason)
    PROVE  Effect("pause", None, "user") /\ mem'.rec = mem.rec
<1> DEFINE n == [mem EXCEPT !.paused = reason]
<1>1. StateOK(mem) /\ mem \in QueueState
    BY DEF StoreInv, StateOK
<1>2. /\ n \in QueueState /\ n.rec = mem.rec /\ n.order = mem.order
      /\ \A p \in Projects : Here(n, p) = Here(mem, p)
    BY <1>1 DEF QueueState, Pauses, Here
<1>3. \E i \in Items : n.rec[i].status # "absent"
    BY <1>2 DEF DoPause, Present
<1>4. Open(n, "pause", None, "user", FALSE, EmptyState)
    BY DEF DoPause
<1> HIDE DEF n
<1>5. StateOK(n)
    BY <1>1, <1>2, <1>3 DEF StateOK, Counted
<1>6. "pause" \in Ops \ {"create", "update"} /\ SameStatus(mem, n, None)
        /\ EmptyState \in QueueState
    BY <1>2, EmptyStateOK DEF Ops, SameStatus, StateOK
<1>7. Effect("pause", None, "user") /\ mem' = n
    BY <1>4, <1>5, <1>6, OpenOK
<1> QED BY <1>2, <1>7

LEMMA ResumeDispatchOK ==
    ASSUME StoreInv, NEW by \in {"user", "promote"}, DoResume(by)
    PROVE  Effect("resume", None, by) /\ mem'.rec = mem.rec
<1> DEFINE n == [mem EXCEPT !.paused = "no"]
<1>1. StateOK(n) /\ n.rec = mem.rec
    BY ResumeOK DEF StoreInv
<1>2. Open(n, "resume", None, by, FALSE, EmptyState)
    BY DEF DoResume
<1> HIDE DEF n
<1>3. "resume" \in Ops \ {"create", "update"} /\ SameStatus(mem, n, None)
        /\ EmptyState \in QueueState
    BY <1>1, EmptyStateOK DEF Ops, SameStatus, StateOK
<1>4. Effect("resume", None, by) /\ mem' = n
    BY <1>1, <1>2, <1>3, OpenOK
<1> QED BY <1>1, <1>4

\* What a closed mutation leaves.
LEMMA NoMutationOK == NoMutation \in Pendings /\ NoMutation.op = "none" /\ NoMutation.by = "user"
    BY EmptyStateOK DEF NoMutation, Mutation, Pendings, Ops, StateOK

LEMMA ClosedOK ==
    ASSUME pend' = NoMutation, StateOK(mem'), StateOK(disk'),
           creation' \in [Items -> CreationRec]
    PROVE  StoreInv'
<1>1. ServiceTypeOK'
    BY NoMutationOK DEF ServiceTypeOK, StateOK
<1>2. UndoOK'
    BY NoMutationOK DEF UndoOK
<1>3. StateOK(mem)' /\ StateOK(disk)'
    BY DEF StateOK, Counted, Here, Listing
<1> QED BY <1>1, <1>2, <1>3 DEF StoreInv

LEMMA SaveDoneOK ==
    ASSUME StoreInv, SaveDone, creation' = creation
    PROVE  StoreInv' /\ mem' = mem /\ disk' = mem /\ pend' = NoMutation
<1>1. mem' = mem /\ disk' = mem /\ pend' = NoMutation
    BY DEF SaveDone
<1>2. StateOK(mem) /\ creation \in [Items -> CreationRec]
    BY DEF StoreInv, ServiceTypeOK
<1> QED BY <1>1, <1>2, ClosedOK

\* A rollback takes no claim away: the item it restores was not claimed.
LEMMA SaveFailedOK ==
    ASSUME StoreInv, SaveFailed, creation' = creation
    PROVE  /\ StoreInv' /\ disk' = disk /\ pend' = NoMutation
           /\ \A i \in Items : mem.rec[i].status = "dispatching"
                                 => mem'.rec[i].status = "dispatching"
           /\ Present(mem') \subseteq Present(mem)
           /\ pend.op \notin {"create", "update"} => mem' = mem
<1>1. /\ mem' = IF pend.op \in {"create", "update"} THEN pend.undo ELSE mem
      /\ disk' = disk /\ pend' = NoMutation
    BY DEF SaveFailed
<1>2. StateOK(mem) /\ StateOK(disk) /\ creation \in [Items -> CreationRec]
    BY DEF StoreInv, ServiceTypeOK
<1>3. CASE pend.op \in {"create", "update"}
  <2>1. /\ StateOK(pend.undo) /\ pend.item \in Items
        /\ mem.rec[pend.item].status = "queued"
        /\ SameStatus(mem, pend.undo, pend.item)
      BY <1>3 DEF StoreInv, UndoOK
  <2>2. StoreInv'
      BY <1>1, <1>2, <1>3, <2>1, ClosedOK
  <2> QED BY <1>1, <1>3, <2>1, <2>2 DEF SameStatus, Present
<1>4. CASE pend.op \notin {"create", "update"}
    BY <1>1, <1>2, <1>4, ClosedOK
<1> QED BY <1>3, <1>4

\* initialize, from either file a crash may leave.
LEMMA ReloadedOK ==
    ASSUME NEW m, StateOK(m)
    PROVE  StateOK(Reloaded(m)) /\ Present(Reloaded(m)) = Present(m)
<1> DEFINE n == Reloaded(m)
<1>1. m \in QueueState /\ Counted(m) /\ \A i \in Items : m.rec[i] \in ItemRec
    BY DEF StateOK, QueueState
<1>2. /\ n.order = m.order
      /\ \A i \in Items : n.rec[i] = IF m.rec[i].status = "dispatching"
                                     THEN [m.rec[i] EXCEPT !.status = "queued"]
                                     ELSE m.rec[i]
      /\ n.paused = IF Present(m) = {} THEN "no"
                    ELSE IF m.paused = "no" THEN "restart" ELSE m.paused
    BY <1>1 DEF Reloaded, QueueState
<1>3. \A i \in Items : /\ n.rec[i] \in ItemRec /\ n.rec[i].fails = m.rec[i].fails
                       /\ n.rec[i].status = "failed" <=> m.rec[i].status = "failed"
                       /\ n.rec[i].status = "absent" <=> m.rec[i].status = "absent"
    BY ZenonT(30), <1>1, <1>2 DEF ItemRec, Statuses
<1>4. n \in QueueState
    BY <1>1, <1>3 DEF Reloaded, QueueState, Pauses
<1> HIDE DEF n
<1>5. Counted(n) /\ Present(n) = Present(m) /\ \A p \in Projects : Here(n, p) = Here(m, p)
    BY <1>1, <1>3 DEF Counted, Present, Here
<1>6. n.paused # "no" => \E i \in Items : n.rec[i].status # "absent"
    BY <1>2, <1>3 DEF Present
<1>7. StateOK(n)
    BY <1>2, <1>4, <1>5, <1>6 DEF StateOK
<1> QED BY <1>5, <1>7 DEF n

LEMMA InitializeOK ==
    ASSUME StoreInv, NEW image \in CrashImages, NEW saved \in BOOLEAN,
           Initialize(image, saved), creation' \in [Items -> CreationRec]
    PROVE  /\ StoreInv' /\ pend' = NoMutation
           /\ Present(mem') \cup Present(disk') \subseteq Present(image)
           /\ image \in {mem, disk}
<1>1. image \in {mem, disk}
    BY DEF CrashImages
<1>2. StateOK(image) /\ creation \in [Items -> CreationRec]
    BY <1>1 DEF StoreInv, ServiceTypeOK
<1> DEFINE r == Reloaded(image)
           loaded == Reconciled(r)
<1>3. StateOK(r) /\ Present(r) = Present(image)
    BY <1>2, ReloadedOK
<1>4. /\ mem' = loaded \/ mem' = EmptyState
      /\ disk' = r \/ disk' = image
      /\ pend' = NoMutation
    BY DEF Initialize
<1> HIDE DEF r
<1>5. StateOK(loaded) /\ Present(loaded) = Present(r)
    BY <1>2, <1>3, ReconciledOK DEF Present
<1>6. Present(EmptyState) = {}
    BY DEF Present, EmptyState, Absent
<1> HIDE DEF loaded
<1>7. StateOK(mem') /\ StateOK(disk')
    BY <1>2, <1>3, <1>4, <1>5, EmptyStateOK
<1>8. Present(mem') \cup Present(disk') \subseteq Present(image)
    BY <1>3, <1>4, <1>5, <1>6 DEF Present
<1> QED BY <1>1, <1>4, <1>7, <1>8, ClosedOK
-----------------------------------------------------------------------------
(* Part 3.  The scheduler: what each kind of step keeps.                    *)

\* The run of p moves on and the store's states stay.
LEMMA RunMoves ==
    ASSUME Inductive, NEW p \in Projects, NEW r \in Runs,
           run' = [run EXCEPT ![p] = r],
           UNCHANGED <<mem, disk, pend, created>>,
           creation' \in [Items -> CreationRec],
           promo'.on => promo'.project \in Projects,
           run[p].pc # "saving", r.pc # "saving",
           r.want # None => ProjectOf[r.want] = p,
           r.pc \notin UnclaimedPcs =>
              run[p].pc \notin UnclaimedPcs /\ r.item = run[p].item,
           r.pc \in ClaimPcs => run[p].pc \in ClaimPcs
    PROVE  Consistent'
<1>1. /\ run \in [Projects -> Runs] /\ StoreInv /\ CreatedOK /\ PendingOK
      /\ RunsOK /\ ClaimHeld
    BY DEF Inductive, Consistent, TypeOK, SchedTypeOK
<1>2. run'[p] = r /\ \A q \in Projects : q # p => run'[q] = run[q]
    BY <1>1
<1>3. StoreInv'
    BY SMTT(30), <1>1 DEF StoreInv, ServiceTypeOK, UndoOK, StateOK, Counted, Here, Listing,
                SameStatus
<1>4. CreatedOK'
    BY <1>1 DEF CreatedOK, Present
<1>5. PendingOK'
  <2>1. pend.by = "run" => pend.item \in Items /\ ProjectOf[pend.item] \in Projects
      BY <1>1, ServiceAssumption DEF PendingOK
  <2> QED BY <1>1, <1>2, <2>1 DEF PendingOK
<1>6. RunsOK'
    BY <1>1, <1>2 DEF RunsOK
<1>7. ClaimHeld'
  <2>1. ASSUME NEW q \in Projects, HoldsClaim(q)'
        PROVE  HoldsClaim(q) /\ run'[q].item = run[q].item
    <3>1. CASE q = p
      <4>1. r.pc \in ClaimPcs
          BY <1>2, <2>1, <3>1 DEF HoldsClaim
      <4>2. r.pc \notin UnclaimedPcs
          BY <4>1 DEF ClaimPcs, UnclaimedPcs
      <4> QED BY <1>2, <3>1, <4>1, <4>2 DEF HoldsClaim
    <3>2. CASE q # p
        BY <1>2, <2>1, <3>2 DEF HoldsClaim
    <3> QED BY <3>1, <3>2
  <2>2. ASSUME NEW q \in Projects, HoldsClaim(q)
        PROVE  /\ run[q].item # None /\ ProjectOf[run[q].item] = q
               /\ mem.rec[run[q].item].status = "dispatching"
      BY <1>1, <2>2 DEF ClaimHeld, Status
  <2> QED BY <2>1, <2>2 DEF ClaimHeld, Status
<1> QED BY <1>3, <1>4, <1>5, <1>6, <1>7 DEF Consistent

\* No run and no state of the store changes.
LEMMA NothingMoves ==
    ASSUME Inductive, UNCHANGED <<mem, disk, pend, created, run>>,
           creation' \in [Items -> CreationRec],
           promo'.on => promo'.project \in Projects
    PROVE  Consistent'
<1>1. StoreInv /\ CreatedOK /\ PendingOK /\ RunsOK /\ ClaimHeld
    BY DEF Inductive, Consistent
<1>2. StoreInv'
    BY SMTT(30), <1>1 DEF StoreInv, ServiceTypeOK, UndoOK, StateOK, Counted, Here, Listing,
                SameStatus
<1>3. CreatedOK' /\ PendingOK' /\ RunsOK'
    BY <1>1 DEF CreatedOK, Present, PendingOK, RunsOK
<1>4. ClaimHeld'
    BY <1>1 DEF ClaimHeld, HoldsClaim, Status
<1> QED BY <1>2, <1>3, <1>4 DEF Consistent

\* While no mutation is pending, no run waits for one.
LEMMA UnlockedIdle ==
    ASSUME Inductive, Unlocked
    PROVE  \A p \in Projects : run[p].pc # "saving"
    BY DEF Inductive, Consistent, PendingOK, Unlocked

\* A user or a promotion opens a mutation: of no item, or of one no run holds.
LEMMA UserOpens ==
    ASSUME Inductive, Unlocked, NEW i \in Items \cup {None}, NEW op,
           NEW by \in {"user", "promote"}, Effect(op, i, by),
           op \notin {"pause", "resume"} => i \in Items,
           i \in Items => Status(i) # "dispatching" /\ i \in created',
           created \subseteq created', run' = run,
           promo'.on => promo'.project \in Projects
    PROVE  Consistent'
<1>1. /\ StoreInv /\ CreatedOK /\ PendingOK /\ RunsOK /\ ClaimHeld
      /\ \A p \in Projects : run[p].pc # "saving"
    BY UnlockedIdle DEF Inductive, Consistent
<1>2. /\ StoreInv' /\ disk' = disk /\ SameStatus(mem, mem', i)
      /\ pend'.op = op /\ pend'.item = i /\ pend'.by = by
    BY DEF Effect
<1>3. CreatedOK'
    BY <1>1, <1>2 DEF CreatedOK, Present, SameStatus
<1>4. PendingOK'
    BY <1>1, <1>2 DEF PendingOK
<1>5. RunsOK'
    BY <1>1 DEF RunsOK
<1>6. ClaimHeld'
  <2>1. ASSUME NEW p \in Projects, HoldsClaim(p)'
        PROVE  /\ run[p].item # None /\ ProjectOf[run[p].item] = p
               /\ mem'.rec[run[p].item].status = "dispatching"
    <3>1. run[p].pc \in ClaimPcs
        BY <1>1, <2>1 DEF HoldsClaim
    <3>2. run[p].item \in Items
        BY <1>1, <3>1 DEF RunsOK, ClaimPcs, UnclaimedPcs
    <3>3. /\ run[p].item # None /\ ProjectOf[run[p].item] = p
          /\ mem.rec[run[p].item].status = "dispatching"
        BY <1>1, <3>1 DEF ClaimHeld, HoldsClaim, Status
    <3> QED BY <1>2, <3>2, <3>3 DEF SameStatus, Status
  <2> QED BY <2>1 DEF ClaimHeld, Status
<1> QED BY <1>2, <1>3, <1>4, <1>5, <1>6 DEF Consistent

\* The run of p opens a mutation of an item of its project.
LEMMA RunOpens ==
    ASSUME Inductive, Unlocked, NEW p \in Projects, NEW i \in Items,
           ProjectOf[i] = p, Status(i) # "absent",
           NEW op \in Ops \ {"none", "pause", "resume", "create", "update"},
           Effect(op, i, "run"), Mutate(p, i),
           op \in {"claim", "associate"} => Status(i)' = "dispatching"
    PROVE  Consistent'
<1>1. /\ StoreInv /\ CreatedOK /\ PendingOK /\ RunsOK /\ ClaimHeld
      /\ \A q \in Projects : run[q].pc # "saving"
      /\ run \in [Projects -> Runs]
    BY UnlockedIdle DEF Inductive, Consistent, TypeOK, SchedTypeOK
<1>2. /\ StoreInv' /\ disk' = disk /\ SameStatus(mem, mem', i)
      /\ pend'.op = op /\ pend'.item = i /\ pend'.by = "run"
    BY DEF Effect
<1>3. /\ run' = [run EXCEPT ![p].pc = "saving", ![p].item = i]
      /\ promo' = promo /\ created' = created
    BY DEF Mutate, RunFrame
<1>4. /\ run'[p].pc = "saving" /\ run'[p].item = i /\ run'[p].want = run[p].want
      /\ \A q \in Projects : q # p => run'[q] = run[q]
    BY <1>1, <1>3 DEF Runs
<1>5. CreatedOK'
    BY <1>1, <1>2, <1>3 DEF CreatedOK, Present, SameStatus, Status
<1>6. PendingOK'
    BY <1>1, <1>2, <1>4 DEF PendingOK, Ops
<1>7. RunsOK'
    BY <1>1, <1>3, <1>4 DEF RunsOK
<1>8. ClaimHeld'
  <2>1. ASSUME NEW q \in Projects, HoldsClaim(q)', q # p
        PROVE  /\ run'[q].item # None /\ ProjectOf[run'[q].item] = q
               /\ mem'.rec[run'[q].item].status = "dispatching"
    <3>1. run[q].pc \in ClaimPcs
        BY <1>1, <1>4, <2>1 DEF HoldsClaim
    <3>2. run[q].item \in Items /\ ProjectOf[run[q].item] = q
        BY <1>1, <3>1 DEF RunsOK, ClaimPcs, UnclaimedPcs
    <3>3. run[q].item # None /\ mem.rec[run[q].item].status = "dispatching"
        BY <1>1, <3>1 DEF ClaimHeld, HoldsClaim, Status
    <3> QED BY <1>2, <1>4, <2>1, <3>2, <3>3 DEF SameStatus
  <2>2. ASSUME HoldsClaim(p)'
        PROVE  mem'.rec[i].status = "dispatching"
      BY <1>2, <1>4, <2>2 DEF HoldsClaim, ClaimPcs, Status
  <2>3. i # None
      BY ServiceAssumption
  <2> QED BY <1>4, <2>1, <2>2, <2>3 DEF ClaimHeld, Status
<1> QED BY <1>2, <1>5, <1>6, <1>7, <1>8 DEF Consistent

\* The pending save settles, and the run that awaits it goes on at pc.
LEMMA MutationCloses ==
    ASSUME Inductive, ~Unlocked, StoreInv', pend' = NoMutation,
           disk' \in {mem, disk}, created' = created,
           \A i \in Items : mem.rec[i].status = "dispatching"
                              => mem'.rec[i].status = "dispatching",
           Present(mem') \subseteq Present(mem),
           NEW pc \in Pcs \ (UnclaimedPcs \cup {"saving"}), Awaiting(pc),
           pc \in ClaimPcs => pend.op \in {"claim", "associate"} \/ pc = "refused",
           pc = "refused" => pend.op = "associate",
           promo' \in {promo, NoPromo}
    PROVE  Consistent'
<1>1. /\ CreatedOK /\ PendingOK /\ RunsOK /\ ClaimHeld
      /\ run \in [Projects -> Runs]
    BY DEF Inductive, Consistent, TypeOK, SchedTypeOK
<1>2. ASSUME NEW q \in Projects
      PROVE  /\ run'[q].item = run[q].item /\ run'[q].want = run[q].want
             /\ \/ run'[q].pc = run[q].pc /\ run[q].pc # "saving"
                \/ run[q].pc = "saving" /\ run'[q].pc = pc
  <2>1. run[q].pc = "saving" <=> pend.by = "run" /\ q = ProjectOf[pend.item]
      BY <1>1 DEF PendingOK, RunsOK, UnclaimedPcs
  <2> QED BY <1>1, <2>1 DEF Awaiting, Runs
<1>3. CreatedOK'
    BY <1>1 DEF CreatedOK, Present
<1>4. PendingOK'
    BY <1>2, NoMutationOK DEF PendingOK
<1>5. RunsOK'
  <2>1. NoPromo.on = FALSE
      BY DEF NoPromo
  <2> QED BY <1>1, <1>2, <2>1 DEF RunsOK, UnclaimedPcs
<1>6. ClaimHeld'
  <2>1. ASSUME NEW q \in Projects, HoldsClaim(q)'
        PROVE  /\ run[q].item \in Items /\ HoldsClaim(q)
    <3>1. run'[q].pc # "saving"
        BY <1>2
    <3>2. run'[q].pc \in ClaimPcs
        BY <2>1, <3>1 DEF HoldsClaim
    <3> QED BY <1>1, <1>2, <3>2 DEF HoldsClaim, RunsOK, UnclaimedPcs, ClaimPcs
  <2> QED BY <1>1, <1>2, <2>1 DEF ClaimHeld, Status
<1> QED BY <1>3, <1>4, <1>5, <1>6 DEF Consistent
-----------------------------------------------------------------------------
(* The types of what the helpers of the scheduler leave.                    *)

LEMMA RunTypes ==
    ASSUME TypeOK, NEW p \in Projects
    PROVE  /\ run \in [Projects -> Runs] /\ run[p] \in Runs
           /\ \A pc \in Pcs : /\ [run[p] EXCEPT !.pc = pc] \in Runs
                              /\ [run EXCEPT ![p].pc = pc]
                                   = [run EXCEPT ![p] = [run[p] EXCEPT !.pc = pc]]
           /\ NoRun \in Runs
<1>1. run \in [Projects -> Runs] /\ run[p] \in Runs
    BY DEF TypeOK, SchedTypeOK
<1>2. NoRun \in Runs
    BY DEF NoRun, Runs, Pcs, Creations
<1>3. \A pc \in Pcs : [run[p] EXCEPT !.pc = pc] \in Runs
    BY <1>1 DEF Runs
<1>4. \A pc : [run EXCEPT ![p].pc = pc] = [run EXCEPT ![p] = [run[p] EXCEPT !.pc = pc]]
    BY <1>1
<1> QED BY <1>1, <1>2, <1>3, <1>4

LEMMA AnnounceTypes ==
    ASSUME TypeOK, NEW sched \in SUBSET Projects, NEW disarm, Announce(sched, disarm)
    PROVE  /\ timer' \subseteq Projects /\ snap' \in [Projects -> Snaps]
           /\ aborted' \subseteq Projects
<1>1. timer \subseteq Projects /\ snap \in [Projects -> Snaps] /\ aborted \subseteq Projects
    BY DEF TypeOK, SchedTypeOK, ReadyTypeOK
<1>2. NoSnap \in Snaps
    BY DEF NoSnap, Snaps
<1> QED BY <1>1, <1>2 DEF Announce, Armed

LEMMA WithItemsTypes == WithItems \subseteq Projects
    BY ServiceAssumption DEF WithItems, Present

LEMMA OnQueueChangedTypes ==
    ASSUME TypeOK, PendingOK, ~Unlocked, OnQueueChanged
    PROVE  /\ timer' \subseteq Projects /\ snap' \in [Projects -> Snaps]
           /\ aborted' \subseteq Projects
<1> DEFINE own == {ProjectOf[pend.item]}
           others == IF pend.resumed THEN WithItems \ own ELSE {}
<1>1. /\ timer \subseteq Projects /\ snap \in [Projects -> Snaps] /\ aborted \subseteq Projects
      /\ WithItems \subseteq Projects
    BY WithItemsTypes DEF TypeOK, SchedTypeOK, ReadyTypeOK
<1>2. CASE pend.op = "pause"
    BY <1>1, <1>2 DEF OnQueueChanged, PauseAll
<1>3. CASE pend.op = "resume"
    BY <1>1, <1>3, AnnounceTypes DEF OnQueueChanged
<1>4. CASE pend.op \notin {"pause", "resume"}
  <2>1. own \subseteq Projects /\ others \subseteq Projects /\ own \cup others \subseteq Projects
      BY <1>1, <1>4, ServiceAssumption DEF PendingOK, Unlocked
  <2>2. Announce(own \cup others, {}) \/ Announce(others, own)
      BY <1>4 DEF OnQueueChanged
  <2> HIDE DEF own, others
  <2> QED BY <2>1, <2>2, AnnounceTypes
<1> QED BY <1>2, <1>3, <1>4

LEMMA EndRunTypes ==
    ASSUME TypeOK, NEW p \in Projects, NEW retry, NEW s \in [Projects -> Snaps],
           EndRun(p, retry, s)
    PROVE  /\ run' = [run EXCEPT ![p] = NoRun]
           /\ timer' \subseteq Projects /\ snap' \in [Projects -> Snaps]
           /\ aborted' \subseteq Projects /\ blocked' \subseteq Projects
<1>1. timer \subseteq Projects /\ aborted \subseteq Projects /\ blocked \subseteq Projects
    BY DEF TypeOK, SchedTypeOK, ReadyTypeOK, HistTypeOK
<1>2. NoSnap \in Snaps
    BY DEF NoSnap, Snaps
<1> QED BY <1>1, <1>2 DEF EndRun

\* A run that ends, or that moves on without a mutation.
LEMMA RunEndsOK ==
    ASSUME Inductive, NEW p \in Projects, NEW retry, NEW s \in [Projects -> Snaps],
           EndRun(p, retry, s), UNCHANGED <<mem, disk, pend, created, promo>>,
           creation' \in [Items -> CreationRec], run[p].pc # "saving"
    PROVE  Consistent'
<1>1. run' = [run EXCEPT ![p] = NoRun] /\ NoRun \in Runs
    BY EndRunTypes, RunTypes DEF Inductive
<1>2. NoRun.pc = "off" /\ NoRun.want = None
    BY DEF NoRun
<1>3. promo'.on => promo'.project \in Projects
    BY DEF Inductive, Consistent, RunsOK
<1> HIDE DEF NoRun
<1> QED BY <1>1, <1>2, <1>3, RunMoves DEF UnclaimedPcs, ClaimPcs

LEMMA RunGoesOK ==
    ASSUME Inductive, NEW p \in Projects, NEW r \in Runs, run' = [run EXCEPT ![p] = r],
           UNCHANGED <<mem, disk, pend, created, promo>>,
           creation' \in [Items -> CreationRec], run[p].pc # "saving", r.pc # "saving",
           r.want = run[p].want, r.item = run[p].item,
           r.pc \notin UnclaimedPcs => run[p].pc \notin UnclaimedPcs,
           r.pc \in ClaimPcs => run[p].pc \in ClaimPcs
    PROVE  Consistent'
<1>1. promo'.on => promo'.project \in Projects
    BY DEF Inductive, Consistent, RunsOK
<1>2. r.want # None => ProjectOf[r.want] = p
    BY DEF Inductive, Consistent, RunsOK
<1> QED BY <1>1, <1>2, RunMoves

\* What the other variables of a run's step are.
LEMMA RunFrameTypes ==
    ASSUME Inductive, Consistent', RunFrame, run' \in [Projects -> Runs],
           timer' \subseteq Projects, snap' \in [Projects -> Snaps],
           aborted' \subseteq Projects, blocked' \subseteq Projects,
           sent' \in [Items -> Nat], late' \in [Items -> 0..MaxLateFailures]
    PROVE  Inductive'
<1>1. SchedTypeOK' /\ ReadyTypeOK'
    BY DEF Inductive, TypeOK, SchedTypeOK, ReadyTypeOK, RunFrame
<1>2. EnvTypeOK'
    BY DEF Inductive, TypeOK, EnvTypeOK, RunFrame, envVars
<1>3. HistTypeOK'
    BY DEF Inductive, TypeOK, HistTypeOK, RunFrame
<1> QED BY <1>1, <1>2, <1>3 DEF Inductive, TypeOK, Consistent, StoreInv

\* A run that ends, that goes on to pc, that opens a mutation.
LEMMA SettleKeeps ==
    ASSUME Inductive, NEW p \in Projects, NEW retry, Settle(p, retry),
           run[p].pc # "saving", UNCHANGED <<serviceVars, sent, late>>, RunFrame
    PROVE  Inductive'
<1>1. /\ EndRun(p, retry, snap) /\ snap \in [Projects -> Snaps]
      /\ creation \in [Items -> CreationRec] /\ sent \in [Items -> Nat]
      /\ late \in [Items -> 0..MaxLateFailures]
      /\ run \in [Projects -> Runs] /\ NoRun \in Runs
    BY RunTypes DEF Settle, Inductive, TypeOK, ServiceTypeOK, ReadyTypeOK, HistTypeOK
<1>2. Consistent'
    BY <1>1, RunEndsOK DEF RunFrame, serviceVars
<1>3. /\ run' = [run EXCEPT ![p] = NoRun]
      /\ timer' \subseteq Projects /\ snap' \in [Projects -> Snaps]
      /\ aborted' \subseteq Projects /\ blocked' \subseteq Projects
    BY <1>1, EndRunTypes DEF Inductive
<1> QED BY <1>1, <1>2, <1>3, RunFrameTypes

LEMMA GoesKeeps ==
    ASSUME Inductive, NEW p \in Projects, NEW r \in Runs, run' = [run EXCEPT ![p] = r],
           UNCHANGED <<mem, disk, pend, timer, aborted, blocked>>, RunFrame,
           snap' \in [Projects -> Snaps], sent' \in [Items -> Nat],
           late' \in [Items -> 0..MaxLateFailures],
           creation' \in [Items -> CreationRec], run[p].pc # "saving", r.pc # "saving",
           r.want = run[p].want, r.item = run[p].item,
           r.pc \notin UnclaimedPcs => run[p].pc \notin UnclaimedPcs,
           r.pc \in ClaimPcs => run[p].pc \in ClaimPcs
    PROVE  Inductive'
<1>1. Consistent'
    BY RunGoesOK DEF RunFrame
<1>2. run \in [Projects -> Runs]
    BY RunTypes DEF Inductive
<1>3. timer' \subseteq Projects /\ aborted' \subseteq Projects /\ blocked' \subseteq Projects
    BY DEF Inductive, TypeOK, SchedTypeOK, ReadyTypeOK, HistTypeOK
<1> QED BY <1>1, <1>2, <1>3, RunFrameTypes

LEMMA GotoKeeps ==
    ASSUME Inductive, NEW p \in Projects, NEW pc \in Pcs \ {"saving"}, Goto(p, pc),
           UNCHANGED <<mem, disk, pend>>, RunFrame, sent' \in [Items -> Nat],
           late' \in [Items -> 0..MaxLateFailures],
           creation' \in [Items -> CreationRec], run[p].pc # "saving",
           pc \notin UnclaimedPcs => run[p].pc \notin UnclaimedPcs,
           pc \in ClaimPcs => run[p].pc \in ClaimPcs
    PROVE  Inductive'
<1> DEFINE r == [run[p] EXCEPT !.pc = pc]
<1>1. r \in Runs /\ run[p] \in Runs /\ run' = [run EXCEPT ![p] = r]
      /\ UNCHANGED <<timer, snap, aborted, blocked>> /\ snap \in [Projects -> Snaps]
    BY RunTypes DEF Inductive, Goto, TypeOK, ReadyTypeOK
<1>2. r.pc = pc /\ r.want = run[p].want /\ r.item = run[p].item
    BY <1>1 DEF Runs
<1> HIDE DEF r
<1> QED BY <1>1, <1>2, GoesKeeps

LEMMA MutateKeeps ==
    ASSUME Inductive, Unlocked, NEW p \in Projects, NEW i \in Items,
           ProjectOf[i] = p, Status(i) # "absent",
           NEW op \in Ops \ {"none", "pause", "resume", "create", "update"},
           Effect(op, i, "run"), Mutate(p, i),
           op \in {"claim", "associate"} => Status(i)' = "dispatching"
    PROVE  Inductive'
<1>1. Consistent' /\ RunFrame /\ UNCHANGED <<timer, snap, aborted, blocked, sent, late>>
    BY RunOpens DEF Mutate
<1>2. run' \in [Projects -> Runs]
  <2>1. run' = [run EXCEPT ![p].pc = "saving", ![p].item = i]
      BY DEF Mutate
  <2> DEFINE r == [run[p] EXCEPT !.pc = "saving", !.item = i]
  <2>2. run \in [Projects -> Runs] /\ run[p] \in Runs /\ "saving" \in Pcs
      BY RunTypes DEF Inductive, Pcs
  <2>3. r \in Runs
      BY <2>2 DEF Runs
  <2>4. run' = [run EXCEPT ![p] = r]
      BY <2>1, <2>2 DEF Runs
  <2> HIDE DEF r
  <2> QED BY <2>2, <2>3, <2>4
<1>3. /\ timer \subseteq Projects /\ snap \in [Projects -> Snaps]
      /\ aborted \subseteq Projects /\ blocked \subseteq Projects
      /\ sent \in [Items -> Nat] /\ late \in [Items -> 0..MaxLateFailures]
    BY DEF Inductive, TypeOK, SchedTypeOK, ReadyTypeOK, HistTypeOK
<1> QED BY <1>1, <1>2, <1>3, RunFrameTypes
-----------------------------------------------------------------------------
(* Each action of a run.                                                    *)

\* What every step of a run starts from.
LEMMA RunFacts ==
    ASSUME Inductive, NEW p \in Projects
    PROVE  /\ run[p] \in Runs /\ StoreInv
           /\ creation \in [Items -> CreationRec]
           /\ sent \in [Items -> Nat] /\ late \in [Items -> 0..MaxLateFailures]
           /\ snap \in [Projects -> Snaps]
           /\ command \in Commands \cup {None}
           /\ run[p].pc \notin UnclaimedPcs =>
                 run[p].item \in Items /\ ProjectOf[run[p].item] = p
           /\ run[p].pc \in ClaimPcs => Status(run[p].item) = "dispatching"
<1>1. TypeOK /\ StoreInv /\ RunsOK /\ ClaimHeld
    BY DEF Inductive, Consistent
<1>2. run[p] \in Runs
    BY <1>1, RunTypes
<1> QED BY <1>1, <1>2 DEF TypeOK, ServiceTypeOK, ReadyTypeOK, HistTypeOK, RunsOK,
            ClaimHeld, HoldsClaim

LEMMA IdleCheckedKeeps ==
    ASSUME Inductive, NEW p \in Projects, IdleChecked(p)
    PROVE  Inductive'
<1>1. /\ run[p].pc = "idle" /\ UNCHANGED <<serviceVars, sent, late>> /\ RunFrame
      /\ \/ Settle(p, TRUE)
         \/ Goto(p, "claim")
         \/ /\ run' = [run EXCEPT ![p].pc = "ready", ![p].key = command]
            /\ snap' = [snap EXCEPT ![p].key = command]
            /\ UNCHANGED <<timer, aborted, blocked>>
    BY DEF IdleChecked
<1>2. CASE Settle(p, TRUE)
    BY <1>1, <1>2, SettleKeeps
<1>3. CASE Goto(p, "claim")
  <2>1. "claim" \in Pcs \ {"saving"} /\ "claim" \in UnclaimedPcs /\ "claim" \notin ClaimPcs
      BY DEF Pcs, UnclaimedPcs, ClaimPcs
  <2> QED BY <1>1, <1>3, <2>1, RunFacts, GotoKeeps DEF serviceVars
<1>4. CASE /\ run' = [run EXCEPT ![p].pc = "ready", ![p].key = command]
           /\ snap' = [snap EXCEPT ![p].key = command]
           /\ UNCHANGED <<timer, aborted, blocked>>
  <2> DEFINE r == [run[p] EXCEPT !.pc = "ready", !.key = command]
  <2>1. run[p] \in Runs /\ command \in Commands \cup {None} /\ snap \in [Projects -> Snaps]
      BY RunFacts
  <2>2. /\ r \in Runs /\ r.pc = "ready" /\ r.want = run[p].want
        /\ r.item = run[p].item /\ run' = [run EXCEPT ![p] = r]
    <3>1. /\ r \in Runs /\ r.pc = "ready" /\ r.want = run[p].want
          /\ r.item = run[p].item
        BY <2>1 DEF Runs, Pcs
    <3>2. run' = [run EXCEPT ![p] = r]
        BY <1>4, RunTypes DEF Inductive
    <3> QED BY <3>1, <3>2
  <2>3. snap' \in [Projects -> Snaps]
      BY <1>4, <2>1 DEF Snaps
  <2> HIDE DEF r
  <2>4. "ready" \in UnclaimedPcs /\ "ready" \notin ClaimPcs
      BY DEF UnclaimedPcs, ClaimPcs
  <2>5. /\ sent' \in [Items -> Nat] /\ late' \in [Items -> 0..MaxLateFailures]
        /\ creation' \in [Items -> CreationRec]
        /\ UNCHANGED <<mem, disk, pend, timer, aborted, blocked>> /\ RunFrame
        /\ run[p].pc \notin {"saving"} \cup ClaimPcs
      BY <1>1, <1>4, RunFacts DEF serviceVars, ClaimPcs
  <2> QED BY <1>1, <2>2, <2>3, <2>4, <2>5, GoesKeeps
<1> QED BY <1>1, <1>2, <1>3, <1>4

LEMMA ReadinessCheckedKeeps ==
    ASSUME Inductive, NEW p \in Projects, NEW ok \in BOOLEAN, ReadinessChecked(p, ok)
    PROVE  Inductive'
<1> DEFINE known == [snap EXCEPT ![p] = [key |-> run[p].key, ok |-> ok]]
<1>1. /\ run[p].pc = "ready"
      /\ \/ \E retry \in BOOLEAN : EndRun(p, retry, snap)
         \/ EndRun(p, TRUE, known)
         \/ /\ run' = [run EXCEPT ![p].pc = "claim"]
            /\ snap' = known
            /\ UNCHANGED <<timer, aborted, blocked>>
      /\ proved' \in {proved, proved \cup {p}}
      /\ UNCHANGED <<serviceVars, promo, disposed, command, envVars, counters, backlog>>
    BY DEF ReadinessChecked, Settle
<1>2. /\ run[p] \in Runs /\ snap \in [Projects -> Snaps] /\ run \in [Projects -> Runs]
      /\ creation \in [Items -> CreationRec] /\ NoRun \in Runs
    BY RunFacts, RunTypes DEF Inductive
<1>3. known \in [Projects -> Snaps]
    BY <1>2 DEF Snaps, Runs
<1>4. UNCHANGED <<mem, disk, pend, creation, created, promo, disposed>>
    BY <1>1 DEF serviceVars, counters
<1>5. /\ Consistent' /\ run' \in [Projects -> Runs]
      /\ timer' \subseteq Projects /\ snap' \in [Projects -> Snaps]
      /\ aborted' \subseteq Projects /\ blocked' \subseteq Projects
  <2>1. ASSUME NEW retry, NEW s \in [Projects -> Snaps], EndRun(p, retry, s)
        PROVE  /\ Consistent' /\ run' \in [Projects -> Runs]
               /\ timer' \subseteq Projects /\ snap' \in [Projects -> Snaps]
               /\ aborted' \subseteq Projects /\ blocked' \subseteq Projects
    <3>1. Consistent'
        BY <1>1, <1>2, <1>4, <2>1, RunEndsOK
    <3> QED BY <1>2, <2>1, <3>1, EndRunTypes DEF Inductive
  <2>2. CASE /\ run' = [run EXCEPT ![p].pc = "claim"]
             /\ snap' = known
             /\ UNCHANGED <<timer, aborted, blocked>>
    <3> DEFINE r == [run[p] EXCEPT !.pc = "claim"]
    <3>1. /\ r \in Runs /\ r.pc = "claim" /\ r.want = run[p].want
          /\ r.item = run[p].item /\ run' = [run EXCEPT ![p] = r]
        BY <1>2, <2>2 DEF Runs, Pcs
    <3> HIDE DEF r
    <3>2. "claim" \in UnclaimedPcs /\ "claim" \notin ClaimPcs
        BY DEF UnclaimedPcs, ClaimPcs
    <3>3. Consistent'
        BY <1>1, <1>2, <1>4, <3>1, <3>2, RunGoesOK
    <3> QED BY <1>2, <1>3, <2>2, <3>1, <3>3
              DEF Inductive, TypeOK, SchedTypeOK, ReadyTypeOK, HistTypeOK
  <2> HIDE DEF known
  <2> QED BY <1>1, <1>2, <1>3, <2>1, <2>2
<1>6. SchedTypeOK' /\ ReadyTypeOK' /\ EnvTypeOK' /\ HistTypeOK'
  <2>1. SchedTypeOK' /\ ReadyTypeOK'
      BY <1>1, <1>5 DEF Inductive, TypeOK, SchedTypeOK, ReadyTypeOK
  <2>2. EnvTypeOK' /\ HistTypeOK'
      BY <1>1, <1>5 DEF Inductive, TypeOK, EnvTypeOK, HistTypeOK, envVars, counters
  <2> QED BY <2>1, <2>2
<1> QED BY <1>5, <1>6 DEF Inductive, TypeOK, Consistent, StoreInv

\* claimDispatchableItem finds a queued item of the run's project.
LEMMA ClaimableFound ==
    ASSUME Inductive, NEW p \in Projects, Claimable(p, run[p].want) # None
    PROVE  LET c == Claimable(p, run[p].want)
           IN  c \in Items /\ ProjectOf[c] = p /\ Status(c) = "queued"
<1> DEFINE c == Claimable(p, run[p].want)
<1>1. StoreInv /\ run[p] \in Runs
    BY RunFacts
<1>2. Status(c) = "queued"
    BY DEF Claimable
<1>3. CASE run[p].want # None
    BY <1>1, <1>2, <1>3 DEF Claimable, Inductive, Consistent, RunsOK, Runs
<1>4. CASE run[p].want = None
  <2>1. QueueOf(p) # << >> /\ c = QueueOf(p)[1]
      BY <1>4 DEF Claimable
  <2>2. Listing(mem.order[p], Here(mem, p))
      BY <1>1 DEF StoreInv, StateOK
  <2>3. 1 \in 1..Len(mem.order[p])
      BY <2>1, <2>2, EmptySeq DEF Listing, QueueOf
  <2> QED BY <1>2, <2>1, <2>2, <2>3 DEF Listing, Here, QueueOf
<1> QED BY <1>2, <1>3, <1>4

LEMMA ClaimItemKeeps ==
    ASSUME Inductive, NEW p \in Projects, ClaimItem(p)
    PROVE  Inductive'
<1> DEFINE c == Claimable(p, run[p].want)
<1>1. /\ run[p].pc = "claim"
      /\ \/ c # None /\ DoClaim(c) /\ Mutate(p, c)
         \/ Settle(p, FALSE) /\ UNCHANGED <<serviceVars, sent, late>> /\ RunFrame
    BY DEF ClaimItem
<1>2. CASE Settle(p, FALSE) /\ UNCHANGED <<serviceVars, sent, late>> /\ RunFrame
    BY <1>1, <1>2, SettleKeeps
<1>3. CASE c # None /\ DoClaim(c) /\ Mutate(p, c)
  <2>1. c \in Items /\ ProjectOf[c] = p /\ Status(c) = "queued" /\ StoreInv
      BY <1>3, ClaimableFound, RunFacts
  <2> HIDE DEF c
  <2> PICK i \in Items : i = c
      BY <2>1
  <2>2. Effect("claim", i, "run") /\ Status(i)' = "dispatching"
      BY <1>3, <2>1, ClaimOK
  <2>3. "claim" \in Ops \ {"none", "pause", "resume", "create", "update"} /\ Unlocked
      BY <1>3 DEF Ops, DoClaim
  <2>4. Status(i) # "absent" /\ ProjectOf[i] = p /\ Mutate(p, i)
      BY <1>3, <2>1
  <2> QED BY <2>2, <2>3, <2>4, MutateKeeps
<1> QED BY <1>1, <1>2, <1>3

LEMMA BeginDispatchKeeps ==
    ASSUME Inductive, NEW p \in Projects, run[p].pc \in ClaimPcs, BeginDispatch(p),
           UNCHANGED <<serviceVars, timer, snap, aborted, blocked, sent, late>>, RunFrame
    PROVE  Inductive'
<1>1. /\ run[p] \in Runs /\ run \in [Projects -> Runs] /\ snap \in [Projects -> Snaps]
      /\ creation \in [Items -> CreationRec] /\ sent \in [Items -> Nat]
      /\ late \in [Items -> 0..MaxLateFailures]
      /\ run[p].item \in Items
  <2>1. run[p].pc \notin UnclaimedPcs
      BY DEF ClaimPcs, UnclaimedPcs
  <2> QED BY <2>1, RunFacts, RunTypes DEF Inductive
<1>2. PICK pc \in {"fail", "launch", "admit", "assoc"} :
         run' = [run EXCEPT ![p].seen = creation[run[p].item].state, ![p].pc = pc]
  <2> DEFINE i == run[p].item
             state == creation[i].state
             pc == IF mem.rec[i].assoc /\ (mem.rec[i].target = "existing" \/ state = "none")
                   THEN "fail"
                   ELSE IF mem.rec[i].target = "existing" THEN "launch"
                   ELSE IF state = "none" THEN "admit"
                   ELSE "assoc"
  <2>1. run' = [run EXCEPT ![p].seen = state, ![p].pc = pc]
      BY DEF BeginDispatch
  <2>2. pc \in {"fail", "launch", "admit", "assoc"}
      OBVIOUS
  <2> HIDE DEF pc
  <2> QED BY <2>1, <2>2
<1> DEFINE r == [run[p] EXCEPT !.seen = creation[run[p].item].state, !.pc = pc]
<1>3. /\ r \in Runs /\ r.pc = pc /\ r.want = run[p].want /\ r.item = run[p].item
  <2>1. creation[run[p].item].state \in Creations /\ pc \in Pcs
      BY <1>1 DEF CreationRec, Pcs
  <2> QED BY <1>1, <2>1 DEF Runs
<1>4. run' = [run EXCEPT ![p] = r]
    BY <1>1, <1>2
<1> HIDE DEF r
<1>5. run[p].pc # "saving" /\ run[p].pc \notin UnclaimedPcs
    BY DEF ClaimPcs, UnclaimedPcs
<1> QED BY <1>1, <1>3, <1>4, <1>5, GoesKeeps DEF serviceVars

LEMMA ClaimedKeeps ==
    ASSUME Inductive, NEW p \in Projects, Claimed(p)
    PROVE  Inductive'
<1>1. /\ run[p].pc = "claimed" /\ run[p].pc \in ClaimPcs
      /\ UNCHANGED <<serviceVars, timer, snap, aborted, blocked, sent, late>> /\ RunFrame
      /\ \/ BeginDispatch(p)
         \/ run' = [run EXCEPT ![p].pc = "recheck", ![p].busy = p \in turn \cup ext]
    BY DEF Claimed, ClaimPcs
<1>2. CASE BeginDispatch(p)
    BY <1>1, <1>2, BeginDispatchKeeps
<1>3. CASE run' = [run EXCEPT ![p].pc = "recheck", ![p].busy = p \in turn \cup ext]
  <2> DEFINE busy == p \in turn \cup ext
             r == [run[p] EXCEPT !.pc = "recheck", !.busy = busy]
  <2>1. run[p] \in Runs /\ run \in [Projects -> Runs] /\ busy \in BOOLEAN
      BY RunFacts, RunTypes DEF Inductive
  <2> HIDE DEF busy
  <2>2. r \in Runs /\ r.pc = "recheck" /\ r.want = run[p].want /\ r.item = run[p].item
      BY <2>1 DEF Runs, Pcs
  <2>3. run' = [run EXCEPT ![p] = r]
      BY <1>3, <2>1 DEF busy
  <2> HIDE DEF r
  <2>4. run[p].pc \notin UnclaimedPcs
      BY <1>1 DEF UnclaimedPcs
  <2> QED BY <1>1, <2>2, <2>3, <2>4, RunFacts, GoesKeeps DEF serviceVars
<1> QED BY <1>1, <1>2, <1>3

LEMMA RecheckedKeeps ==
    ASSUME Inductive, NEW p \in Projects, Rechecked(p)
    PROVE  Inductive'
<1>1. /\ run[p].pc = "recheck" /\ run[p].pc \in ClaimPcs
      /\ UNCHANGED <<serviceVars, timer, snap, aborted, blocked, sent, late>> /\ RunFrame
      /\ BeginDispatch(p) \/ run' = [run EXCEPT ![p].pc = "release"]
    BY DEF Rechecked, ClaimPcs
<1>2. CASE BeginDispatch(p)
    BY <1>1, <1>2, BeginDispatchKeeps
<1>3. CASE run' = [run EXCEPT ![p].pc = "release"]
  <2>1. Goto(p, "release")
      BY <1>1, <1>3 DEF Goto
  <2>2. /\ "release" \in Pcs \ {"saving"} /\ run[p].pc \notin UnclaimedPcs
      BY <1>1 DEF Pcs, UnclaimedPcs
  <2> QED BY <1>1, <2>1, <2>2, RunFacts, GotoKeeps DEF serviceVars
<1> QED BY <1>1, <1>2, <1>3

\* The awaits of a dispatch: the run of p goes on to pc without a mutation.
LEMMA DispatchGoes ==
    ASSUME Inductive, NEW p \in Projects, run[p].pc \in ClaimPcs,
           NEW pc \in {"complete", "startupFail", "fail", "assoc", "refused", "launch"},
           Goto(p, pc), UNCHANGED <<mem, disk, pend>>, RunFrame,
           sent' \in [Items -> Nat], late' \in [Items -> 0..MaxLateFailures],
           creation' \in [Items -> CreationRec]
    PROVE  Inductive'
<1>1. pc \in Pcs \ {"saving"} /\ run[p].pc # "saving" /\ run[p].pc \notin UnclaimedPcs
    BY DEF Pcs, ClaimPcs, UnclaimedPcs
<1> QED BY <1>1, GotoKeeps

\* Settling the creation of the item of p.
LEMMA CreationTypes ==
    ASSUME creation \in [Items -> CreationRec], NEW i, NEW s \in Creations
    PROVE  [creation EXCEPT ![i].state = s] \in [Items -> CreationRec]
    BY DEF CreationRec

LEMMA CreationNames == {"open", "failed", "uncertain"} \subseteq Creations
    BY DEF Creations

LEMMA LaunchExistingKeeps ==
    ASSUME Inductive, NEW p \in Projects, LaunchExisting(p)
    PROVE  Inductive'
<1>1. /\ run[p].pc = "launch" /\ run[p].pc \in ClaimPcs
      /\ UNCHANGED serviceVars /\ RunFrame
      /\ sent' \in {sent, [sent EXCEPT ![run[p].item] = @ + 1]}
      /\ \/ UNCHANGED late
         \/ /\ \A j \in Items : late[j] < MaxLateFailures
            /\ late' = [late EXCEPT ![run[p].item] = @ + 1]
      /\ Goto(p, "complete") \/ Goto(p, "startupFail") \/ Goto(p, "fail")
    BY DEF LaunchExisting, Deliver, ClaimPcs
<1>2. /\ sent' \in [Items -> Nat] /\ late' \in [Items -> 0..MaxLateFailures]
      /\ creation' \in [Items -> CreationRec]
  <2>1. /\ sent \in [Items -> Nat] /\ late \in [Items -> 0..MaxLateFailures]
        /\ creation \in [Items -> CreationRec] /\ MaxLateFailures \in Nat
      BY RunFacts, SchedulerAssumption
  <2>2. late' \in [Items -> 0..MaxLateFailures]
      BY <1>1, <2>1
  <2> QED BY <1>1, <2>1, <2>2 DEF serviceVars
<1> QED BY <1>1, <1>2, DispatchGoes DEF serviceVars

LEMMA AdmitCreationKeeps ==
    ASSUME Inductive, NEW p \in Projects, AdmitCreation(p)
    PROVE  Inductive'
<1>1. /\ run[p].pc \in ClaimPcs /\ UNCHANGED <<mem, disk, pend, sent, late>> /\ RunFrame
      /\ creation' \in {creation, [creation EXCEPT ![run[p].item].state = "open"]}
      /\ Goto(p, "assoc") \/ Goto(p, "fail")
    BY DEF AdmitCreation, ClaimPcs
<1>2. /\ sent' \in [Items -> Nat] /\ late' \in [Items -> 0..MaxLateFailures]
      /\ creation' \in [Items -> CreationRec]
    BY <1>1, RunFacts, CreationTypes, CreationNames
<1> QED BY <1>1, <1>2, DispatchGoes

LEMMA RefusedKeeps ==
    ASSUME Inductive, NEW p \in Projects, Refused(p)
    PROVE  Inductive'
<1>1. /\ run[p].pc \in ClaimPcs /\ UNCHANGED <<mem, disk, pend, sent, late>> /\ RunFrame
      /\ creation' \in {creation, [creation EXCEPT ![run[p].item].state = "failed"]}
      /\ Goto(p, "fail")
    BY DEF Refused, ClaimPcs
<1>2. /\ sent' \in [Items -> Nat] /\ late' \in [Items -> 0..MaxLateFailures]
      /\ creation' \in [Items -> CreationRec]
    BY <1>1, RunFacts, CreationTypes, CreationNames
<1> QED BY <1>1, <1>2, DispatchGoes

LEMMA AssociatedKeeps ==
    ASSUME Inductive, NEW p \in Projects, Associated(p)
    PROVE  Inductive'
<1> DEFINE i == run[p].item
           id == mem.rec[i].retryId
           redone == [creation EXCEPT ![i] = [state |-> "open", spent |-> id]]
<1>1. /\ run[p].pc = "associated" /\ run[p].pc \in ClaimPcs
      /\ UNCHANGED <<mem, disk, pend, sent, late>> /\ RunFrame
      /\ creation' \in {creation, redone}
      /\ Goto(p, "launch") \/ Goto(p, "complete") \/ Goto(p, "fail")
    BY DEF Associated, ClaimPcs
<1>2. i \in Items
    BY <1>1, RunFacts DEF UnclaimedPcs
<1>3. id \in 0..MaxRetries
  <2>1. mem.rec[i] \in ItemRec
      BY <1>2, RunFacts, StoreFacts
  <2> QED BY <2>1 DEF ItemRec
<1>4. redone \in [Items -> CreationRec]
    BY <1>3, RunFacts DEF CreationRec, Creations
<1>5. /\ sent' \in [Items -> Nat] /\ late' \in [Items -> 0..MaxLateFailures]
      /\ creation' \in [Items -> CreationRec]
    BY <1>1, <1>4, RunFacts
<1> QED BY <1>1, <1>5, DispatchGoes

LEMMA LaunchNewKeeps ==
    ASSUME Inductive, NEW p \in Projects, LaunchNew(p)
    PROVE  Inductive'
<1>1. /\ run[p].pc \in ClaimPcs /\ UNCHANGED <<mem, disk, pend, sent, late>> /\ RunFrame
      /\ \/ Goto(p, "complete") /\ creation' = creation
         \/ /\ Goto(p, "fail")
            /\ \E s \in {"failed", "uncertain", creation[run[p].item].state} :
                  creation' = [creation EXCEPT ![run[p].item].state = s]
    BY DEF LaunchNew, ClaimPcs
<1>2. run[p].item \in Items
    BY <1>1, RunFacts DEF UnclaimedPcs, ClaimPcs
<1>3. creation[run[p].item].state \in Creations
    BY <1>2, RunFacts DEF CreationRec
<1>4. /\ sent' \in [Items -> Nat] /\ late' \in [Items -> 0..MaxLateFailures]
      /\ creation' \in [Items -> CreationRec]
    BY <1>1, <1>3, RunFacts, CreationTypes, CreationNames
<1> QED BY <1>1, <1>4, DispatchGoes

LEMMA AssociateItemKeeps ==
    ASSUME Inductive, NEW p \in Projects, AssociateItem(p)
    PROVE  Inductive'
<1>1. run[p].pc = "assoc" /\ run[p].pc \in ClaimPcs /\ run[p].pc \notin UnclaimedPcs
    BY DEF AssociateItem, ClaimPcs, UnclaimedPcs
<1>2. PICK i \in Items : i = run[p].item
    BY <1>1, RunFacts
<1>3. StoreInv /\ ProjectOf[i] = p /\ Status(i) = "dispatching"
    BY <1>1, <1>2, RunFacts
<1>4. CASE DoAssociate(i) /\ Mutate(p, i)
  <2>1. Effect("associate", i, "run") /\ Status(i)' = "dispatching"
      BY <1>3, <1>4, AssociateOK
  <2>2. "associate" \in Ops \ {"none", "pause", "resume", "create", "update"} /\ Unlocked
      BY <1>4 DEF Ops, DoAssociate
  <2> QED BY <1>3, <1>4, <2>1, <2>2, MutateKeeps
<1>5. CASE Goto(p, "refused") /\ UNCHANGED <<serviceVars, sent, late>> /\ RunFrame
    BY <1>1, <1>5, RunFacts, DispatchGoes DEF serviceVars
<1> QED BY <1>2, <1>4, <1>5 DEF AssociateItem

\* The mutations that end a dispatch.
LEMMA RunEndingsKeep ==
    ASSUME Inductive, NEW p \in Projects,
           CompleteItem(p) \/ ReleaseItem(p) \/ StartupFailure(p)
    PROVE  Inductive'
<1>1. run[p].pc \in ClaimPcs /\ run[p].pc \notin UnclaimedPcs
    BY DEF CompleteItem, ReleaseItem, StartupFailure, ClaimPcs, UnclaimedPcs
<1>2. PICK i \in Items : i = run[p].item
    BY <1>1, RunFacts
<1>3. StoreInv /\ ProjectOf[i] = p /\ Status(i) = "dispatching"
    BY <1>1, <1>2, RunFacts
<1>4. /\ DoComplete(i) \/ DoRelease(i) \/ DoStartupFailure(i)
      /\ Mutate(p, i) /\ Unlocked
    BY <1>2 DEF CompleteItem, ReleaseItem, StartupFailure, DoComplete, DoRelease,
                DoStartupFailure
<1>5. PICK op \in {"complete", "release", "startupFail"} : Effect(op, i, "run")
    BY <1>3, <1>4, CompleteOK, ReleaseOK, StartupFailureOK
<1>6. op \in Ops \ {"none", "pause", "resume", "create", "update"}
    BY DEF Ops
<1> QED BY <1>3, <1>4, <1>5, <1>6, MutateKeeps

LEMMA FailItemKeeps ==
    ASSUME Inductive, NEW p \in Projects, FailItem(p)
    PROVE  Inductive'
<1>1. run[p].pc = "fail" /\ run[p].pc \notin UnclaimedPcs
    BY DEF FailItem, UnclaimedPcs
<1>2. PICK i \in Items : i = run[p].item
    BY <1>1, RunFacts
<1>3. StoreInv /\ ProjectOf[i] = p
    BY <1>1, <1>2, RunFacts
<1>4. CASE Status(i) # "absent" /\ DoFail(i) /\ Mutate(p, i)
  <2>1. Effect("fail", i, "run")
      BY <1>3, <1>4, FailOK
  <2>2. "fail" \in Ops \ {"none", "pause", "resume", "create", "update"} /\ Unlocked
      BY <1>4 DEF Ops, DoFail
  <2> QED BY <1>3, <1>4, <2>1, <2>2, MutateKeeps
<1>5. CASE Settle(p, FALSE) /\ UNCHANGED <<serviceVars, sent, late>> /\ RunFrame
    BY <1>1, <1>5, SettleKeeps
<1> QED BY <1>2, <1>4, <1>5 DEF FailItem

LEMMA RunEndsKeeps ==
    ASSUME Inductive, NEW p \in Projects, RunEnds(p)
    PROVE  Inductive'
<1>1. run[p].pc # "saving" /\ UNCHANGED <<serviceVars, sent, late>> /\ RunFrame
    BY DEF RunEnds
<1>2. \E retry \in BOOLEAN : Settle(p, retry)
    BY DEF RunEnds
<1> QED BY <1>1, <1>2, SettleKeeps

LEMMA RunStepKeeps ==
    ASSUME Inductive, NEW p \in Projects, RunStep(p)
    PROVE  Inductive'
    BY IdleCheckedKeeps, ReadinessCheckedKeeps, ClaimItemKeeps, ClaimedKeeps,
       RecheckedKeeps, LaunchExistingKeeps, LaunchNewKeeps, AdmitCreationKeeps,
       AssociateItemKeeps, RefusedKeeps, AssociatedKeeps, RunEndingsKeep,
       FailItemKeeps, RunEndsKeeps DEF RunStep
-----------------------------------------------------------------------------
(* Starting a run.                                                          *)

LEMMA StartRunOK ==
    ASSUME Inductive, NEW p \in Projects, NEW i \in Items \cup {None},
           NEW auto \in BOOLEAN, NEW force \in BOOLEAN, StartRun(p, i, auto, force),
           UNCHANGED serviceVars, created' = created,
           promo'.on => promo'.project \in Projects
    PROVE  Consistent' /\ run' \in [Projects -> Runs] /\ timer' \subseteq Projects
<1>1. /\ run \in [Projects -> Runs] /\ run[p] \in Runs /\ NoRun \in Runs
      /\ timer \subseteq Projects /\ creation \in [Items -> CreationRec]
      /\ command \in Commands \cup {None}
    BY RunTypes, RunFacts DEF Inductive, TypeOK, SchedTypeOK
<1> DEFINE pc == IF force THEN "claim" ELSE "idle"
           busy == p \in turn \cup ext /\ ~force
           key == IF force THEN command ELSE None
           r == [NoRun EXCEPT !.pc = pc, !.want = i, !.auto = auto,
                              !.force = force, !.busy = busy, !.key = key]
<1>2. timer' \subseteq Projects
    BY <1>1 DEF StartRun
<1>3. \/ run' = run
      \/ /\ run' = [run EXCEPT ![p] = r] /\ run[p].pc = "off"
         /\ i # None => ProjectOf[i] = p
    BY DEF StartRun, InFlight, Runnable
<1>4. pc \in {"claim", "idle"} /\ busy \in BOOLEAN /\ key \in Commands \cup {None}
    BY <1>1
<1> HIDE DEF pc, busy, key
<1>5. r \in Runs /\ r.pc = pc /\ r.want = i
  <2>1. pc \in Pcs
      BY <1>4 DEF Pcs
  <2> QED BY ZenonT(30), <1>1, <1>4, <2>1 DEF Runs
<1> HIDE DEF r
<1>6. CASE run' = run
    BY <1>1, <1>2, <1>6, NothingMoves DEF serviceVars
<1>7. CASE /\ run' = [run EXCEPT ![p] = r] /\ run[p].pc = "off"
           /\ i # None => ProjectOf[i] = p
  <2>1. r.pc \in UnclaimedPcs /\ r.pc \notin ClaimPcs /\ r.pc # "saving"
      BY <1>4, <1>5 DEF UnclaimedPcs, ClaimPcs
  <2>2. Consistent'
      BY <1>1, <1>5, <1>7, <2>1, RunMoves DEF serviceVars
  <2> QED BY <1>1, <1>2, <1>5, <1>7, <2>2
<1> QED BY <1>3, <1>6, <1>7

LEMMA TimerFiresKeeps ==
    ASSUME Inductive, NEW p \in Projects, TimerFires(p)
    PROVE  Inductive'
<1>1. /\ StartRun(p, None, TRUE, FALSE)
      /\ UNCHANGED <<serviceVars, promo, disposed, readyVars, envVars, histVars>>
    BY DEF TimerFires
<1>2. promo'.on => promo'.project \in Projects
    BY <1>1 DEF Inductive, Consistent, RunsOK
<1>3. Consistent' /\ run' \in [Projects -> Runs] /\ timer' \subseteq Projects
    BY <1>1, <1>2, StartRunOK DEF histVars, counters
<1>4. SchedTypeOK' /\ ReadyTypeOK'
    BY <1>1, <1>3 DEF Inductive, TypeOK, SchedTypeOK, ReadyTypeOK, readyVars
<1>5. EnvTypeOK' /\ HistTypeOK'
    BY <1>1 DEF Inductive, TypeOK, EnvTypeOK, HistTypeOK, envVars, histVars, counters
<1> QED BY <1>3, <1>4, <1>5 DEF Inductive, TypeOK, Consistent, StoreInv

LEMMA PromoteResumedKeeps ==
    ASSUME Inductive, PromoteResumed
    PROVE  Inductive'
<1>1. /\ promo.on /\ promo' = NoPromo
      /\ StartRun(promo.project, promo.want, FALSE, promo.force)
      /\ blocked' \in {blocked, blocked \ {promo.project}}
      /\ UNCHANGED <<serviceVars, disposed, readyVars, envVars, counters, backlog,
                     proved>>
    BY DEF PromoteResumed, StartNow
<1>2. promo \in Promos /\ promo.project \in Projects /\ promo.force \in BOOLEAN
        /\ promo.want \in Items \cup {None}
    BY <1>1 DEF Inductive, TypeOK, SchedTypeOK, Consistent, RunsOK, Promos
<1>3. NoPromo \in Promos /\ NoPromo.on = FALSE
    BY DEF NoPromo, Promos
<1>4. Consistent' /\ run' \in [Projects -> Runs] /\ timer' \subseteq Projects
    BY <1>1, <1>2, <1>3, StartRunOK DEF counters
<1>5. SchedTypeOK' /\ ReadyTypeOK'
    BY <1>1, <1>3, <1>4 DEF Inductive, TypeOK, SchedTypeOK, ReadyTypeOK, readyVars
<1>6. EnvTypeOK' /\ HistTypeOK'
    BY <1>1 DEF Inductive, TypeOK, EnvTypeOK, HistTypeOK, envVars, counters
<1> QED BY <1>4, <1>5, <1>6 DEF Inductive, TypeOK, Consistent, StoreInv

LEMMA PromoteNowKeeps ==
    ASSUME Inductive, NEW p \in Projects, NEW i \in Promotable, NEW force \in Forcible,
           PromoteNow(p, i, force)
    PROVE  Inductive'
<1>1. i \in Items \cup {None} /\ force \in BOOLEAN
    BY SchedulerAssumption
<1> DEFINE on == [on |-> TRUE, project |-> p, want |-> i, force |-> force]
<1>2. /\ \/ DoResume("promote") /\ promo' = on /\ UNCHANGED <<timer, run>>
         \/ StartRun(p, i, FALSE, force) /\ UNCHANGED <<serviceVars, promo>>
      /\ backlog' = {} /\ blocked' \in {blocked, blocked \ {p}}
      /\ UNCHANGED <<disposed, readyVars, envVars, counters, proved>>
    BY DEF PromoteNow, StartNow
<1>3. on \in Promos /\ on.project = p
    BY <1>1 DEF Promos
<1>4. Consistent' /\ run' \in [Projects -> Runs] /\ timer' \subseteq Projects /\ promo' \in Promos
  <2>1. CASE DoResume("promote") /\ promo' = on /\ UNCHANGED <<timer, run>>
    <3>1. StoreInv /\ run \in [Projects -> Runs] /\ timer \subseteq Projects
        BY DEF Inductive, Consistent, TypeOK, SchedTypeOK
    <3>2. Effect("resume", None, "promote")
        BY <2>1, <3>1, ResumeDispatchOK
    <3>3. None \notin Items /\ Unlocked /\ created' = created
        BY <1>2, <2>1, ServiceAssumption DEF DoResume, counters
    <3> HIDE DEF on
    <3>4. Consistent'
        BY <1>3, <2>1, <3>2, <3>3, UserOpens
    <3> QED BY <1>3, <2>1, <3>1, <3>4
  <2>2. CASE StartRun(p, i, FALSE, force) /\ UNCHANGED <<serviceVars, promo>>
    <3>1. (promo'.on => promo'.project \in Projects) /\ promo \in Promos
        BY <2>2 DEF Inductive, Consistent, RunsOK, TypeOK, SchedTypeOK
    <3> QED BY <1>1, <1>2, <2>2, <3>1, StartRunOK DEF counters
  <2> QED BY <1>2, <2>1, <2>2
<1> HIDE DEF on
<1>5. SchedTypeOK' /\ ReadyTypeOK'
    BY <1>2, <1>4 DEF Inductive, TypeOK, SchedTypeOK, ReadyTypeOK, readyVars
<1>6. EnvTypeOK' /\ HistTypeOK'
    BY <1>2 DEF Inductive, TypeOK, EnvTypeOK, HistTypeOK, envVars, counters
<1> QED BY <1>4, <1>5, <1>6 DEF Inductive, TypeOK, Consistent, StoreInv

-----------------------------------------------------------------------------
(* The users' mutations.                                                    *)

LEMMA UserTypes ==
    ASSUME Inductive, Consistent', UserFrame, created' \subseteq Items,
           retries' \in [Items -> 0..MaxRetries], backlog' \subseteq Items
    PROVE  Inductive'
<1>1. SchedTypeOK' /\ ReadyTypeOK'
    BY DEF Inductive, TypeOK, SchedTypeOK, ReadyTypeOK, UserFrame, schedVars, readyVars
<1>2. EnvTypeOK' /\ HistTypeOK'
    BY DEF Inductive, TypeOK, EnvTypeOK, HistTypeOK, UserFrame, envVars
<1> QED BY <1>1, <1>2 DEF Inductive, TypeOK, Consistent, StoreInv

\* What a user's step starts from.
LEMMA UserFacts ==
    ASSUME Inductive, UserFrame
    PROVE  /\ StoreInv /\ CreatedOK /\ run' = run
           /\ promo'.on => promo'.project \in Projects
           /\ created \subseteq Items /\ retries \in [Items -> 0..MaxRetries]
           /\ backlog \subseteq Items
           /\ \A i \in Items : Status(i) # "absent" => i \in created
    BY DEF Inductive, TypeOK, HistTypeOK, Consistent, RunsOK, UserFrame, schedVars,
           CreatedOK, Present, Status

LEMMA CreateItemKeeps ==
    ASSUME Inductive, NEW i \in Items, NEW target \in Targets, CreateItem(i, target)
    PROVE  Inductive'
<1>1. /\ i \notin created /\ DoCreate(i, target) /\ created' = created \cup {i}
      /\ UNCHANGED <<retries, backlog>> /\ UserFrame
    BY DEF CreateItem
<1>2. Status(i) = "absent"
    BY <1>1, UserFacts
<1>3. Effect("create", i, "user")
    BY <1>1, <1>2, UserFacts, CreateOK
<1>4. Consistent'
    BY <1>1, <1>2, <1>3, UserFacts, UserOpens DEF DoCreate
<1> QED BY <1>1, <1>4, UserFacts, UserTypes

\* An action on an item that is not being dispatched.
LEMMA ItemActionKeeps ==
    ASSUME Inductive, Unlocked, NEW i \in Items, Status(i) \in {"queued", "failed"}, NEW op,
           Effect(op, i, "user"), UserFrame, created' = created,
           retries' \in [Items -> 0..MaxRetries], backlog' = {}
    PROVE  Inductive'
<1>1. Consistent'
    BY UserFacts, UserOpens
<1> QED BY <1>1, UserFacts, UserTypes

LEMMA ItemActionsKeep ==
    ASSUME Inductive, NEW i \in Items,
           \/ \E target \in Targets : UpdateItem(i, target)
           \/ DeleteItem(i) \/ MoveItemToTop(i) \/ RetryItem(i)
    PROVE  Inductive'
<1>1. CASE \E target \in Targets : UpdateItem(i, target)
  <2>1. PICK target \in Targets : UpdateItem(i, target)
      BY <1>1
  <2>2. /\ DoUpdate(i, target) /\ backlog' = {} /\ UNCHANGED <<created, retries>>
        /\ UserFrame /\ Unlocked
      BY <2>1 DEF UpdateItem, DoUpdate
  <2>3. Effect("update", i, "user") /\ Status(i) \in {"queued", "failed"}
      BY <2>2, UserFacts, UpdateOK
  <2> QED BY <2>2, <2>3, UserFacts, ItemActionKeeps
<1>2. CASE DeleteItem(i)
  <2>1. /\ DoDelete(i) /\ backlog' = {} /\ UNCHANGED <<created, retries>>
        /\ UserFrame /\ Unlocked
      BY <1>2 DEF DeleteItem, DoDelete
  <2>2. Effect("delete", i, "user") /\ Status(i) \in {"queued", "failed"}
      BY <2>1, UserFacts, DeleteOK
  <2> QED BY <2>1, <2>2, UserFacts, ItemActionKeeps
<1>3. CASE MoveItemToTop(i)
  <2>1. /\ DoMoveToTop(i) /\ backlog' = {} /\ UNCHANGED <<created, retries>>
        /\ UserFrame /\ Unlocked /\ Status(i) \in {"queued", "failed"}
      BY <1>3 DEF MoveItemToTop, DoMoveToTop
  <2>2. PICK op \in {"reorder", "resume"} : Effect(op, i, "user")
      BY <2>1, UserFacts, MoveToTopOK
  <2> QED BY <2>1, <2>2, UserFacts, ItemActionKeeps
<1>4. CASE RetryItem(i)
  <2>1. /\ retries[i] < MaxRetries /\ retries' = [retries EXCEPT ![i] = @ + 1]
        /\ DoRetry(i, retries[i] + 1) /\ backlog' = {} /\ created' = created
        /\ UserFrame /\ Unlocked
      BY <1>4 DEF RetryItem, DoRetry
  <2>2. /\ retries[i] + 1 \in 0..MaxRetries
        /\ retries' \in [Items -> 0..MaxRetries]
      BY <2>1, UserFacts, ServiceAssumption
  <2>3. Effect("retry", i, "user") /\ Status(i) \in {"queued", "failed"}
      BY <2>1, <2>2, UserFacts, RetryOK
  <2> QED BY <2>1, <2>2, <2>3, ItemActionKeeps
<1> QED BY <1>1, <1>2, <1>3, <1>4

LEMMA PausesKeep ==
    ASSUME Inductive,
           ResumeDispatch \/ \E reason \in Pausable : PauseDispatch(reason)
    PROVE  Inductive'
<1>1. /\ UserFrame /\ UNCHANGED <<created, retries>> /\ backlog' \in {backlog, {}}
      /\ DoResume("user") \/ \E reason \in {"manual", "restart"} : DoPause(reason)
    BY SchedulerAssumption DEF ResumeDispatch, PauseDispatch
<1>2. Unlocked /\ \E op \in {"pause", "resume"} : Effect(op, None, "user")
    BY <1>1, UserFacts, ResumeDispatchOK, PauseOK DEF DoResume, DoPause
<1>3. Consistent'
    BY <1>1, <1>2, UserFacts, UserOpens, ServiceAssumption
<1> QED BY <1>1, <1>3, UserFacts, UserTypes

LEMMA UserStepKeeps ==
    ASSUME Inductive, UserStep
    PROVE  Inductive'
    BY SchedulerAssumption, CreateItemKeeps, ItemActionsKeep, PausesKeep,
       PromoteNowKeeps DEF UserStep
-----------------------------------------------------------------------------
(* The pending save.                                                        *)

\* A save settles the caller's run and touches no run but that one.
LEMMA AwaitingTypes ==
    ASSUME Inductive, NEW pc \in Pcs, Awaiting(pc)
    PROVE  run' \in [Projects -> Runs]
<1>1. run \in [Projects -> Runs]
    BY DEF Inductive, TypeOK, SchedTypeOK
<1>2. CASE pend.by = "run"
  <2>1. pend.item \in Items /\ ProjectOf[pend.item] \in Projects
      BY <1>2, ServiceAssumption DEF Inductive, Consistent, PendingOK
  <2>2. run' = [run EXCEPT ![ProjectOf[pend.item]].pc = pc]
      BY <1>2 DEF Awaiting
  <2>3. PICK p \in Projects : p = ProjectOf[pend.item]
      BY <2>1
  <2> QED BY <2>2, <2>3, RunTypes DEF Inductive
<1>3. CASE pend.by # "run"
    BY <1>1, <1>3 DEF Awaiting
<1> QED BY <1>2, <1>3

LEMMA SaveSucceedsKeeps ==
    ASSUME Inductive, SaveSucceeds
    PROVE  Inductive'
<1> DEFINE pc == CASE pend.op = "claim"     -> "claimed"
                   [] pend.op = "associate" -> "associated"
                   [] pend.op = "release"   -> "released"
                   [] pend.op = "startupFail" /\ Status(pend.item) = "queued" ->
                        "released"
                   [] OTHER                 -> "done"
<1>1. /\ SaveDone /\ OnQueueChanged /\ Awaiting(pc)
      /\ UNCHANGED <<creation, promo, disposed, command, envVars, histVars>>
    BY DEF SaveSucceeds
<1>2. /\ pc \in {"claimed", "associated", "released", "done"}
      /\ pc \in ClaimPcs => pend.op \in {"claim", "associate"}
    BY DEF ClaimPcs
<1> HIDE DEF pc
<1>3. pc \in Pcs \ (UnclaimedPcs \cup {"saving"}) /\ pc # "refused"
    BY <1>2 DEF Pcs, UnclaimedPcs
<1>4. StoreInv' /\ mem' = mem /\ disk' = mem /\ pend' = NoMutation /\ ~Unlocked
    BY <1>1, SaveDoneOK DEF Inductive, Consistent, SaveDone
<1>5. created' = created /\ promo' = promo
    BY <1>1 DEF histVars, counters
<1>6. Consistent'
  <2>1. Present(mem') \subseteq Present(mem)
      BY <1>4
  <2> QED BY <1>1, <1>2, <1>3, <1>4, <1>5, <2>1, MutationCloses
<1>7. run' \in [Projects -> Runs]
    BY <1>1, <1>3, AwaitingTypes
<1>8. /\ timer' \subseteq Projects /\ snap' \in [Projects -> Snaps]
      /\ aborted' \subseteq Projects
    BY <1>1, <1>4, OnQueueChangedTypes DEF Inductive, Consistent
<1>9. SchedTypeOK' /\ ReadyTypeOK'
    BY <1>1, <1>7, <1>8 DEF Inductive, TypeOK, SchedTypeOK, ReadyTypeOK
<1>10. EnvTypeOK' /\ HistTypeOK'
    BY <1>1 DEF Inductive, TypeOK, EnvTypeOK, HistTypeOK, envVars, histVars, counters
<1> QED BY <1>6, <1>9, <1>10 DEF Inductive, TypeOK, Consistent, StoreInv

LEMMA FailureKeeps ==
    ASSUME Inductive, SaveFails \/ CleanupFails
    PROVE  Inductive'
<1>1. /\ Failure /\ promo' \in {promo, NoPromo}
      /\ SaveFailed \/ SaveDone
    BY DEF SaveFails, CleanupFails
<1>2. /\ saveFailures < MaxSaveFailures /\ saveFailures' = saveFailures + 1
      /\ Awaiting(OnFailure)
      /\ UNCHANGED <<creation, timer, disposed, readyVars, envVars, sent, late,
                     crashes, created, retries, backlog, proved>>
      /\ blocked' \subseteq blocked
    BY <1>1 DEF Failure
<1> DEFINE pc == OnFailure
<1>3. /\ pc \in {"fail", "refused", "done"}
      /\ pc = "refused" => pend.op = "associate"
    BY DEF OnFailure
<1> HIDE DEF pc
<1>4. /\ pc \in Pcs \ (UnclaimedPcs \cup {"saving"})
      /\ pc \in ClaimPcs => pc = "refused"
    BY <1>3 DEF Pcs, UnclaimedPcs, ClaimPcs
<1>5. /\ StoreInv' /\ pend' = NoMutation /\ disk' \in {mem, disk} /\ ~Unlocked
      /\ \A i \in Items : mem.rec[i].status = "dispatching"
                            => mem'.rec[i].status = "dispatching"
      /\ Present(mem') \subseteq Present(mem)
  <2>1. StoreInv /\ creation' = creation
      BY <1>2 DEF Inductive, Consistent
  <2>2. CASE SaveFailed
      BY <2>1, <2>2, SaveFailedOK DEF SaveFailed
  <2>3. CASE SaveDone
      BY <2>1, <2>3, SaveDoneOK DEF SaveDone
  <2> QED BY <1>1, <2>2, <2>3
<1>6. Awaiting(pc) /\ created' = created
    BY <1>2 DEF pc
<1>7. Consistent'
    BY <1>1, <1>3, <1>4, <1>5, <1>6, MutationCloses
<1>8. run' \in [Projects -> Runs]
    BY <1>4, <1>6, AwaitingTypes
<1>9. NoPromo \in Promos
    BY DEF NoPromo, Promos
<1>10. SchedTypeOK' /\ ReadyTypeOK'
    BY <1>1, <1>2, <1>8, <1>9 DEF Inductive, TypeOK, SchedTypeOK, ReadyTypeOK, readyVars
<1>11. EnvTypeOK' /\ HistTypeOK'
  <2>1. saveFailures + 1 \in 0..MaxSaveFailures
      BY <1>2, SchedulerAssumption DEF Inductive, TypeOK, HistTypeOK
  <2> QED BY <1>2, <2>1 DEF Inductive, TypeOK, EnvTypeOK, HistTypeOK, envVars
<1> QED BY <1>7, <1>10, <1>11 DEF Inductive, TypeOK, Consistent, StoreInv

-----------------------------------------------------------------------------
(* The rest of the server.                                                  *)

\* Steps that leave the runs, the store and the history alone.
LEMMA ServerTypes ==
    ASSUME Inductive, UNCHANGED <<mem, disk, pend, run, promo, histVars>>,
           creation' \in [Items -> CreationRec], timer' \subseteq Projects,
           disposed' \in BOOLEAN, ReadyTypeOK', EnvTypeOK'
    PROVE  Inductive'
<1>1. created' = created /\ (promo'.on => promo'.project \in Projects)
    BY DEF Inductive, Consistent, RunsOK, histVars, counters
<1>2. Consistent'
    BY <1>1, NothingMoves
<1>3. SchedTypeOK' /\ HistTypeOK'
    BY DEF Inductive, TypeOK, SchedTypeOK, HistTypeOK, histVars, counters
<1> QED BY <1>2, <1>3 DEF Inductive, TypeOK, Consistent, StoreInv

LEMMA EnvKeeps ==
    ASSUME Inductive, EnvFrame, timer' \subseteq Projects, snap' \in [Projects -> Snaps],
           aborted' \subseteq Projects, EnvTypeOK'
    PROVE  Inductive'
<1>1. /\ UNCHANGED <<mem, disk, pend, creation, run, promo, disposed, command, histVars>>
      /\ creation \in [Items -> CreationRec] /\ disposed \in BOOLEAN
      /\ command \in Commands \cup {None}
    BY DEF EnvFrame, serviceVars, Inductive, TypeOK, ServiceTypeOK, SchedTypeOK, ReadyTypeOK
<1>2. ReadyTypeOK'
    BY <1>1 DEF ReadyTypeOK
<1> QED BY <1>1, <1>2, ServerTypes

LEMMA WorkKeeps ==
    ASSUME Inductive, NEW p \in Projects,
           \/ TurnStarts(p) \/ TurnEnds(p) \/ ExternalStarts(p) \/ ExternalDecays(p)
           \/ ReserveUserStart(p) \/ ReleaseUserStart(p)
    PROVE  Inductive'
<1>1. /\ timer \subseteq Projects /\ snap \in [Projects -> Snaps] /\ aborted \subseteq Projects
      /\ TypeOK /\ EnvTypeOK
    BY DEF Inductive, TypeOK, SchedTypeOK, ReadyTypeOK
<1>2. /\ EnvFrame
      /\ \/ Announce({p}, {})
         \/ timer' \subseteq timer /\ UNCHANGED <<snap, aborted>>
    BY DEF TurnStarts, TurnEnds, ExternalStarts, ExternalDecays, ReserveUserStart,
           ReleaseUserStart, Schedule
<1>3. /\ timer' \subseteq Projects /\ snap' \in [Projects -> Snaps]
      /\ aborted' \subseteq Projects
    BY <1>1, <1>2, AnnounceTypes
<1>4. EnvTypeOK'
  <2>1. /\ turn' \subseteq turn \cup {p} /\ ext' \subseteq ext \cup {p} /\ held' = held
        /\ \/ resv' = resv
           \/ resv[p] < MaxReservations /\ resv' = [resv EXCEPT ![p] = @ + 1]
           \/ resv[p] > 0 /\ resv' = [resv EXCEPT ![p] = @ - 1]
      BY DEF TurnStarts, TurnEnds, ExternalStarts, ExternalDecays, ReserveUserStart,
             ReleaseUserStart
  <2>2. resv' \in [Projects -> 0..MaxReservations]
      BY <1>1, <2>1, SchedulerAssumption DEF EnvTypeOK
  <2> QED BY <1>1, <2>1, <2>2 DEF EnvTypeOK
<1> QED BY <1>2, <1>3, <1>4, EnvKeeps

LEMMA HoldsKeep ==
    ASSUME Inductive,
           \/ \E i \in Items : HoldAutomation(i) \/ LiftHold(i)
           \/ ServerActivity
    PROVE  Inductive'
<1>1. /\ timer \subseteq Projects /\ snap \in [Projects -> Snaps] /\ aborted \subseteq Projects
      /\ EnvTypeOK
    BY DEF Inductive, TypeOK, SchedTypeOK, ReadyTypeOK
<1>2. /\ EnvFrame /\ UNCHANGED <<snap, aborted, turn, ext, resv>>
      /\ held' \subseteq Items
      /\ timer' \subseteq timer \cup DispatchableSet
    BY <1>1 DEF HoldAutomation, LiftHold, ServerActivity, Armed, envVars, EnvTypeOK
<1>3. DispatchableSet \subseteq Projects
    BY DEF DispatchableSet
<1> QED BY <1>1, <1>2, <1>3, EnvKeeps DEF EnvTypeOK

LEMMA SetCommandKeeps ==
    ASSUME Inductive, NEW c \in Commands \cup {None}, SetCommand(c)
    PROVE  Inductive'
<1>1. /\ command' = c /\ UNCHANGED <<serviceVars, run, promo, disposed, envVars, counters,
                                     backlog, blocked>>
      /\ aborted' \subseteq aborted \cup Projects
      /\ snap' = [p \in Projects |-> [snap[p] EXCEPT !.key = None]]
      /\ timer' \subseteq timer \cup Projects
      /\ proved' = {}
    BY DEF SetCommand, Armed, DispatchableSet
<1>2. /\ timer' \subseteq Projects /\ ReadyTypeOK'
    BY <1>1 DEF Inductive, TypeOK, SchedTypeOK, ReadyTypeOK, Snaps
<1>3. EnvTypeOK' /\ SchedTypeOK' /\ HistTypeOK'
    BY <1>1, <1>2 DEF Inductive, TypeOK, EnvTypeOK, SchedTypeOK, HistTypeOK, envVars,
                      counters
<1>4. Consistent'
    BY <1>1, NothingMoves DEF Inductive, TypeOK, ServiceTypeOK, Consistent, RunsOK,
                              serviceVars, counters
<1> QED BY <1>2, <1>3, <1>4 DEF Inductive, TypeOK, Consistent, StoreInv

LEMMA CreationAdvancesKeeps ==
    ASSUME Inductive, NEW i \in Items, CreationAdvances(i)
    PROVE  Inductive'
<1>1. /\ UNCHANGED <<mem, disk, pend, schedVars, readyVars, envVars, histVars>>
      /\ \E s \in Advances[creation[i].state] :
            creation' = [creation EXCEPT ![i].state = s]
      /\ creation \in [Items -> CreationRec]
    BY DEF CreationAdvances, Inductive, TypeOK, ServiceTypeOK
<1>2. Advances[creation[i].state] \subseteq Creations
  <2>1. creation[i].state \in Creations
      BY <1>1 DEF CreationRec
  <2> QED BY <2>1 DEF Advances, Creations
<1>3. creation' \in [Items -> CreationRec]
    BY <1>1, <1>2, CreationTypes
<1>4. /\ timer' \subseteq Projects /\ disposed' \in BOOLEAN /\ ReadyTypeOK' /\ EnvTypeOK'
    BY <1>1 DEF Inductive, TypeOK, SchedTypeOK, ReadyTypeOK, EnvTypeOK, schedVars,
                readyVars, envVars
<1> QED BY <1>1, <1>3, <1>4, ServerTypes DEF schedVars

LEMMA DisposeKeeps ==
    ASSUME Inductive, Dispose
    PROVE  Inductive'
<1>1. /\ timer' = {} /\ disposed' = TRUE /\ resv' = [p \in Projects |-> 0]
      /\ aborted' \subseteq aborted \cup Projects
      /\ UNCHANGED <<serviceVars, run, promo, command, snap, turn, ext, held, histVars>>
    BY DEF Dispose
<1>2. ReadyTypeOK' /\ EnvTypeOK' /\ creation \in [Items -> CreationRec]
    BY <1>1, SchedulerAssumption DEF Inductive, TypeOK, ReadyTypeOK, EnvTypeOK, ServiceTypeOK
<1> QED BY <1>1, <1>2, ServerTypes DEF serviceVars

LEMMA RestartKeeps ==
    ASSUME Inductive, NEW image \in CrashImages, NEW saved \in BOOLEAN,
           Restart(image, saved)
    PROVE  Inductive'
<1>1. /\ crashes < MaxCrashes /\ crashes' = crashes + 1
      /\ saved \/ saveFailures < MaxSaveFailures
      /\ saveFailures' = IF saved THEN saveFailures ELSE saveFailures + 1
      /\ Initialize(image, saved) /\ creation' \in OwnerLost
      /\ timer' = {} /\ run' = [p \in Projects |-> NoRun] /\ promo' = NoPromo
      /\ disposed' = FALSE /\ snap' = [p \in Projects |-> NoSnap] /\ aborted' = {}
      /\ turn' = {} /\ resv' = [p \in Projects |-> 0] /\ backlog' = Present(mem')
      /\ blocked' = {} /\ proved' = {}
      /\ UNCHANGED <<command, ext, held, sent, late, created, retries>>
    BY DEF Restart, Present
<1>2. creation' \in [Items -> CreationRec]
    BY <1>1 DEF OwnerLost
<1>3. /\ StoreInv' /\ pend' = NoMutation
      /\ Present(mem') \cup Present(disk') \subseteq Present(mem) \cup Present(disk)
    BY <1>1, <1>2, InitializeOK DEF Inductive, Consistent
<1>4. /\ \A p \in Projects : run'[p] = NoRun
      /\ NoRun.pc = "off" /\ NoRun.want = None /\ NoPromo.on = FALSE
    BY <1>1 DEF NoRun, NoPromo
<1>5. CreatedOK'
    BY <1>1, <1>3 DEF Inductive, Consistent, CreatedOK, Present
<1>6. PendingOK' /\ RunsOK' /\ ClaimHeld'
    BY <1>1, <1>3, <1>4, NoMutationOK DEF PendingOK, RunsOK, ClaimHeld, HoldsClaim,
                                          UnclaimedPcs, ClaimPcs
<1>7. SchedTypeOK' /\ ReadyTypeOK' /\ EnvTypeOK'
  <2>1. NoSnap \in Snaps /\ NoPromo \in Promos /\ NoRun \in Runs
      BY DEF NoSnap, Snaps, NoPromo, Promos, NoRun, Runs, Pcs, Creations
  <2>2. SchedTypeOK'
      BY <1>1, <2>1 DEF SchedTypeOK
  <2>3. ReadyTypeOK' /\ EnvTypeOK'
      BY <1>1, <2>1, SchedulerAssumption DEF Inductive, TypeOK, ReadyTypeOK, EnvTypeOK
  <2> QED BY <2>2, <2>3
<1>8. HistTypeOK'
  <2>1. crashes' \in 0..MaxCrashes /\ saveFailures' \in 0..MaxSaveFailures
      BY <1>1, SchedulerAssumption DEF Inductive, TypeOK, HistTypeOK
  <2>2. backlog' \subseteq Items
      BY <1>1 DEF Present
  <2> QED BY <1>1, <2>1, <2>2 DEF Inductive, TypeOK, HistTypeOK
<1> QED BY <1>3, <1>5, <1>6, <1>7, <1>8 DEF Inductive, TypeOK, Consistent, StoreInv

-----------------------------------------------------------------------------
(* Part 4.  The theorems.                                                   *)

LEMMA InitInductive ==
    ASSUME Init
    PROVE  Inductive
<1>1. /\ mem = EmptyState /\ disk = EmptyState /\ pend = NoMutation
      /\ creation = [i \in Items |-> [state |-> "none", spent |-> 0]]
      /\ run = [p \in Projects |-> NoRun] /\ promo = NoPromo
    BY DEF Init, ServiceInit
<1>2. StoreInv
  <2>1. creation \in [Items -> CreationRec]
      BY <1>1, ServiceAssumption DEF CreationRec, Creations
  <2>2. StateOK(mem) /\ StateOK(disk)
      BY <1>1, EmptyStateOK
  <2> QED BY <1>1, <2>1, <2>2, NoMutationOK DEF StoreInv, ServiceTypeOK, StateOK, UndoOK
<1>3. /\ \A p \in Projects : run[p] = NoRun
      /\ NoRun.pc = "off" /\ NoRun.want = None /\ NoPromo.on = FALSE
    BY <1>1 DEF NoRun, NoPromo
<1>4. Present(mem) = {} /\ Present(disk) = {}
    BY <1>1 DEF Present, EmptyState, Absent
<1>5. CreatedOK /\ PendingOK /\ RunsOK /\ ClaimHeld
    BY <1>1, <1>3, <1>4, NoMutationOK DEF CreatedOK, PendingOK, RunsOK, ClaimHeld,
                                          HoldsClaim, UnclaimedPcs, ClaimPcs
<1>6. SchedTypeOK /\ ReadyTypeOK /\ EnvTypeOK /\ HistTypeOK
  <2>1. NoSnap \in Snaps /\ NoPromo \in Promos /\ NoRun \in Runs
      BY DEF NoSnap, Snaps, NoPromo, Promos, NoRun, Runs, Pcs, Creations
  <2>2. SchedTypeOK /\ ReadyTypeOK
      BY <2>1 DEF Init, SchedTypeOK, ReadyTypeOK
  <2>3. EnvTypeOK
      BY SchedulerAssumption DEF Init, EnvTypeOK
  <2>4. HistTypeOK
      BY ServiceAssumption, SchedulerAssumption DEF Init, HistTypeOK
  <2> QED BY <2>2, <2>3, <2>4
<1> QED BY <1>2, <1>5, <1>6 DEF Inductive, TypeOK, Consistent, StoreInv

LEMMA StutterKeeps ==
    ASSUME Inductive, UNCHANGED vars
    PROVE  Inductive'
<1>1. UNCHANGED <<mem, disk, pend, creation, timer, run, promo, disposed, readyVars,
                  envVars, histVars>>
    BY DEF vars, serviceVars, schedVars
<1>2. /\ creation \in [Items -> CreationRec] /\ timer \subseteq Projects
      /\ disposed \in BOOLEAN /\ ReadyTypeOK /\ EnvTypeOK
    BY DEF Inductive, TypeOK, ServiceTypeOK, SchedTypeOK
<1>3. ReadyTypeOK' /\ EnvTypeOK'
    BY <1>1, <1>2 DEF ReadyTypeOK, EnvTypeOK, readyVars, envVars
<1> QED BY <1>1, <1>2, <1>3, ServerTypes

LEMMA ServerStepKeeps ==
    ASSUME Inductive, ServerStep
    PROVE  Inductive'
    BY WorkKeeps, HoldsKeep, DisposeKeeps, SetCommandKeeps, CreationAdvancesKeeps,
       RestartKeeps DEF ServerStep

\* The invariant TLC checks as Inductive holds of every instance: whatever
\* users, runs, failing saves and crashes interleave, the store's memory and
\* file stay consistent and each claim stays with its run.
THEOREM InductiveInvariant == Spec => []Inductive
<1>1. Init => Inductive
    BY InitInductive
<1>2. Inductive /\ [Next]_vars => Inductive'
  <2> SUFFICES ASSUME Inductive, [Next]_vars
               PROVE  Inductive'
      OBVIOUS
  <2>1. CASE \E p \in Projects : TimerFires(p) \/ RunStep(p)
      BY <2>1, TimerFiresKeeps, RunStepKeeps
  <2>2. CASE PromoteResumed
      BY <2>2, PromoteResumedKeeps
  <2>3. CASE SaveStep
      BY <2>3, SaveSucceedsKeeps, FailureKeeps DEF SaveStep
  <2>4. CASE UserStep
      BY <2>4, UserStepKeeps
  <2>5. CASE ServerStep
      BY <2>5, ServerStepKeeps
  <2>6. CASE UNCHANGED vars
      BY <2>6, StutterKeeps
  <2> QED BY <2>1, <2>2, <2>3, <2>4, <2>5, <2>6 DEF Next
<1> QED BY <1>1, <1>2, PTL DEF Spec

\* The variables keep their types.
THEOREM TypeCorrect == Spec => []TypeOK
<1>1. Inductive => TypeOK
    BY DEF Inductive
<1> QED BY <1>1, InductiveInvariant, PTL

\* No splice, rollback or restart loses an item, lists it twice or leaves a
\* removed one behind (the orders kept by ProjectQueueService).
THEOREM QueuesStayWellFormed == Spec => []QueueWellFormed
<1>1. Inductive => QueueWellFormed
    BY StateOKWellFormed DEF Inductive, Consistent, StoreInv, QueueWellFormed
<1> QED BY <1>1, InductiveInvariant, PTL

\* An empty queue is running, in memory and in the file
\* (clearDispatchPauseIfEmpty and its callers).
THEOREM EmptyQueuesRun == Spec => []EmptyQueueRuns
<1>1. Inductive => EmptyQueueRuns
    BY DEF Inductive, Consistent, StoreInv, StateOK, EmptyQueueRuns, Present
<1> QED BY <1>1, InductiveInvariant, PTL

\* An item stays with the run that claimed it until that run gives it up
\* (runProjectNow between claimDispatchableItem and the end of its try).
THEOREM ClaimsAreHeld == Spec => []ClaimHeld
<1>1. Inductive => ClaimHeld
    BY DEF Inductive, Consistent
<1> QED BY <1>1, InductiveInvariant, PTL
=============================================================================
