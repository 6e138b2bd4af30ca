-------------------------- MODULE MCM7Certification --------------------------
(***************************************************************************)
(* M7Certification on one project with two kinds of evidence and two runs. *)
(***************************************************************************)
EXTENDS M7Certification, TLC

CONSTANTS kit, data, domestic, r1, r2, c1, c2, v1, v2

MCProjectOrder == <<kit>>
MCEvidenceOrder == <<data, domestic>>
MCRequired == [p \in {kit} |-> <<data, domestic>>]
MCProjectOf == [r \in {r1, r2} |-> kit]
MCEvidence == {[label |-> data, commit |-> c1, passes |-> TRUE],
               [label |-> domestic, commit |-> c1, passes |-> TRUE],
               [label |-> data, commit |-> c1, passes |-> FALSE]}
MCHeadOf == [r \in {r1, r2} |-> IF r = r1 THEN c1 ELSE c2]

\* Later on: a run that failed has been started again, and the second attempt has
\* uploaded its evidence and succeeded.
Later ==
    /\ run = [r \in Run |-> IF r = r1 THEN [attempt |-> 2, status |-> "success", jobs |-> "success"]
                                     ELSE [attempt |-> 0, status |-> "failure", jobs |-> "failure"]]
    /\ uploads = [i \in 1..2 |-> LET l == MCEvidenceOrder[i] IN
           [run |-> r1, attempt |-> 2, label |-> l,
            body |-> [label |-> l, commit |-> c1, passes |-> TRUE]]]
    /\ succeeded = {<<r1, 2>>} /\ starts = 2

\* One validation from the beginning, or two later on.
MCInit ==
    \/ Init /\ calls = 1
    \/ /\ Later /\ gone = {} /\ changes = 0 /\ calls = 0 /\ certificate = {}
       /\ local = [l \in Label |-> {[label |-> l, commit |-> c1, passes |-> TRUE]}]
       /\ certifier = [c \in Certifier |-> Idle]

\* Certifiers differ in nothing but their names, and there is no liveness here.
MCSymmetry == Permutations({v1, v2})

MCSpec == MCInit /\ [][Next]_vars
=============================================================================
