-------------------------- MODULE MCStackManifest --------------------------
(* StackManifest over three projects.                                      *)
EXTENDS StackManifest

MCProject == 1..3
MCName == 0..3
MCLayer == <<1, 1, 2>>

Chain == <<{}, {1}, {1, 2}>>
Required == [p \in Project |-> {r.on : r \in repo[p].work.requires}]

\* Every graph is tried with one quiet call; one of them with people at work, and
\* with two calls.
MCInit ==
    /\ Init
    /\ \/ calls = MaxCalls - 1 /\ moves = MaxMoves
       \/ Required = Chain /\ calls = MaxCalls - 1 /\ moves = 0
       \/ Required = Chain /\ calls = MaxCalls - 2 /\ moves = MaxMoves

MCSpec == MCInit /\ [][Next]_vars
=============================================================================
