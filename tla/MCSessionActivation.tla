------------------------ MODULE MCSessionActivation -------------------------
(* TLC instances of the activation of a session.                            *)
EXTENDS SessionActivation

CONSTANTS c1, c2, p1, p2
=============================================================================
