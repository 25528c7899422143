------------------------- MODULE MCSessionCreation -------------------------
(***************************************************************************)
(* Small instances of durable session creation for TLC.                    *)
(***************************************************************************)
EXTENDS SessionCreation, TLC

CONSTANTS c1, c2, c3, n1, n2, s1, s2, r1, r2, r3

\* What the requests ask for.
AllInput == [c \in Creations |-> "input"]
InputAndCopy == [c \in Creations |-> IF c = c1 THEN "input" ELSE "copy"]
OneScope == [c \in Creations |-> s1]
NativesInOneScope == [n \in Natives |-> s1]

CallSymmetry == Permutations(Runs)
CreationSymmetry == Permutations(Runs) \cup Permutations(Creations)
=============================================================================
