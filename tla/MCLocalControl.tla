--------------------------- MODULE MCLocalControl ---------------------------
(* A small instance of LocalControl for TLC: a baseline and an accepted      *)
(* runtime.                                                                  *)
EXTENDS LocalControl

CONSTANTS baseline, accepted, c1, c2

MCCandidateOf == [r \in {accepted} |-> c2]
=============================================================================
