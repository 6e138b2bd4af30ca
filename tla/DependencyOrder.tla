-------------------------- MODULE DependencyOrder --------------------------
(***************************************************************************)
(* The cycle detection of a stack manifest, step by step: count for every  *)
(* node what it still waits for, take the nodes that wait for nothing, and *)
(* compare the number of nodes taken with the number there are.            *)
(***************************************************************************)
EXTENDS Naturals, FiniteSets

CONSTANTS
    Project,        \* the nodes of the graph
    Name            \* what a node may depend on: nodes, and names outside

ASSUME DependencyOrderAssumption == IsFiniteSet(Project) /\ Project \subseteq Name

VARIABLES
    nodes,          \* the argument: for each node the names it depends on
    indegree,       \* for each node how many nodes it still waits for
    ready,          \* nodes that wait for nothing and are not yet taken
    visited,        \* how many nodes have been taken
    seen,           \* history: the nodes that have been taken
    verdict         \* "none", "counting", "taking", or "cycle" or "order"

orderVars == <<nodes, indegree, ready, visited, seen, verdict>>

OrderInit ==
    /\ nodes = [p \in Project |-> {}]
    /\ indegree = [p \in Project |-> 0]
    /\ ready = {}
    /\ visited = 0
    /\ seen = {}
    /\ verdict = "none"

Start(graph) ==
    /\ nodes' = graph
    /\ verdict' = "counting"
    /\ UNCHANGED <<indegree, ready, visited, seen>>

\* Mutated form: a name outside the graph is waited for like a node.
CountEverything ==
    /\ verdict = "counting"
    /\ indegree' = [p \in Project |-> Cardinality(nodes[p])]
    /\ ready' = {p \in Project : nodes[p] = {}}
    /\ visited' = 0 /\ seen' = {} /\ verdict' = "taking"
    /\ UNCHANGED nodes

\* Names outside the graph do not count.
Count ==
    /\ verdict = "counting"
    /\ indegree' = [p \in Project |-> Cardinality(nodes[p] \cap Project)]
    /\ ready' = {p \in Project : nodes[p] \cap Project = {}}
    /\ visited' = 0 /\ seen' = {} /\ verdict' = "taking"
    /\ UNCHANGED nodes

Dependents(p) == {q \in Project : p \in nodes[q]}

\* Mutated form: the node stays in the queue.
TakeAgain(p) ==
    LET fewer == [q \in Project |-> indegree[q] - (IF q \in Dependents(p) THEN 1 ELSE 0)] IN
    /\ verdict = "taking" /\ p \in ready
    /\ indegree' = fewer
    /\ ready' = ready \cup {q \in Dependents(p) : fewer[q] = 0}
    /\ visited' = visited + 1
    /\ seen' = seen \cup {p}
    /\ UNCHANGED <<nodes, verdict>>

\* One node is taken and its dependents wait for one less.  The code takes the
\* first by name; here it is any, as the verdict does not depend on the order.
Take(p) ==
    LET fewer == [q \in Project |-> indegree[q] - (IF q \in Dependents(p) THEN 1 ELSE 0)] IN
    /\ verdict = "taking" /\ p \in ready
    /\ indegree' = fewer
    /\ ready' = (ready \ {p}) \cup {q \in Dependents(p) : fewer[q] = 0}
    /\ visited' = visited + 1
    /\ seen' = seen \cup {p}
    /\ UNCHANGED <<nodes, verdict>>

Conclude ==
    /\ verdict = "taking" /\ ready = {}
    /\ verdict' = IF visited # Cardinality(Project) THEN "cycle" ELSE "order"
    /\ UNCHANGED <<nodes, indegree, ready, visited, seen>>

OrderStep == Count \/ (\E p \in Project : Take(p)) \/ Conclude

OrderNext == (\E graph \in [Project -> SUBSET Name] : Start(graph)) \/ OrderStep

OrderSpec == OrderInit /\ [][OrderNext]_orderVars

-----------------------------------------------------------------------------
Verdict == {"none", "counting", "taking", "cycle", "order"}

\* Type invariant of the detection.
OrderTypeOK ==
    /\ nodes \in [Project -> SUBSET Name]
    /\ indegree \in [Project -> Nat]
    /\ ready \subseteq Project
    /\ visited \in Nat
    /\ seen \subseteq Project
    /\ verdict \in Verdict

\* A set of nodes each of which depends on one of the set.  A finite graph has a
\* cycle exactly if it has a knot.
Knot(S) == S # {} /\ \A p \in S : nodes[p] \cap S # {}

\* The verdict says that there is a knot exactly if there is one, with self
\* dependencies and dependencies on unknown names in the graph.
VerdictRight ==
    /\ verdict = "cycle" => \E S \in SUBSET Project : Knot(S)
    /\ verdict = "order" => ~ \E S \in SUBSET Project : Knot(S)

\* A walk of n steps in a set of nodes, each to one that the last depends on.
WalksIn(S, n) == {w \in [0..n -> S] : \A i \in 0..(n-1) : w[i + 1] \in nodes[w[i]]}

\* Some node depends on itself, directly or through at most all other nodes.
Circular == \E n \in 1..Cardinality(Project) : \E w \in WalksIn(Project, n) : w[0] = w[n]

\* "Internal dependency DAG contains a cycle" is said of a graph exactly if one
\* of its nodes depends on itself in one step or several.
VerdictMatchesReference == verdict \in {"cycle", "order"} => (verdict = "cycle" <=> Circular)
=============================================================================
