--------------------------- MODULE MCReleaseState ---------------------------
(* A small instance of ReleaseState for TLC: a candidate of the old state   *)
(* contract and one of the new, whose acceptance has executed the move from *)
(* old to new.  Nothing has executed the way back, so it must be refused.   *)
EXTENDS ReleaseState

CONSTANTS c1, c2, old, new

MCStateContract == [c \in {c1, c2} |-> IF c = c1 THEN old ELSE new]
MCTransitions == [c \in {c1, c2} |-> IF c = c2 THEN {<<old, new>>} ELSE {}]
=============================================================================
