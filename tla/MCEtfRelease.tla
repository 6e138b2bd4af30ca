---------------------------- MODULE MCEtfRelease ----------------------------
(* Two ETF runtimes for TLC: one of the old state contract and one of the   *)
(* new, whose acceptance lets the new follow the old.  Nothing lets the old *)
(* follow the new.  Both are accepted at first; the owner may refuse the    *)
(* new one, or accept for a root what was reviewed for the other.           *)
EXTENDS EtfRelease, TLC

CONSTANTS r1, r2, s1, s2, old, new, good, bad

FirstDocument == [stack |-> s1, contract |-> old, evidence |-> good, passed |-> TRUE,
                  transitions |-> {}]
SecondDocument == [stack |-> s2, contract |-> new, evidence |-> good, passed |-> TRUE,
                   transitions |-> {<<old, new>>}]
Revoked == [SecondDocument EXCEPT !.passed = FALSE]

MCDocument == {FirstDocument, SecondDocument, Revoked}

Fresh(d) == [acceptance |-> d, evidence |-> d.evidence, receipt |-> d.stack, packages |-> d.stack]

\* The new runtime is installed, or its packages are and the receipt is yet to come.
MCInit ==
    /\ Init
    /\ disk[r1] = Fresh(FirstDocument)
    /\ disk[r2] \in {Fresh(SecondDocument), [Fresh(SecondDocument) EXCEPT !.receipt = s1]}

MCSpec == MCInit /\ [][Next]_vars

Symmetry == Permutations(Controller)
=============================================================================
