--------------------------- MODULE MCLocalStream ---------------------------
(***************************************************************************)
(* Small instances of the local stream for TLC.                            *)
(***************************************************************************)
EXTENDS LocalStream

CONSTANTS s1, s2, s3, s4, s5, i1, i2
=============================================================================
