-------------------------- MODULE MCRemoteAccess ---------------------------
(***************************************************************************)
(* Small instances of remote access for TLC.                               *)
(***************************************************************************)
EXTENDS RemoteAccess, TLC

CONSTANTS w1, w2, f1, f2

PhoneSymmetry == Permutations(PhoneSockets)
=============================================================================
