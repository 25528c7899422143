-------------------------- MODULE MCProjectQueue --------------------------
(***************************************************************************)
(* Small instances of the Project Queue for TLC.                           *)
(***************************************************************************)
EXTENDS ProjectQueue, TLC

CONSTANTS p1, p2, i1, i2, cmd

\* Both items in one project, or one in each.
OneProject == [i \in Items |-> p1]
ItemEach == [i \in Items |-> IF i = i1 THEN p1 ELSE p2]

ItemSymmetry == Permutations(Items)

\* Projects exchanged together with their items.
PairSymmetry ==
    {f \in Permutations(Projects \cup Items) :
        \A i \in Items : f[i] \in Items /\ f[ProjectOf[i]] = ProjectOf[f[i]]}
=============================================================================
