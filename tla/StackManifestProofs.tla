------------------------- MODULE StackManifestProofs -------------------------
(***************************************************************************)
(* What DependencyOrder and StackManifest guarantee for any number of      *)
(* projects, writers, commits and calls.                                   *)
(*                                                                         *)
(* The cycle detection is right for every finite graph: a node that has    *)
(* been taken waits for nothing that has not, so no knot ever contains a   *)
(* taken node; and when nothing is ready, the nodes left over are a knot   *)
(* themselves.                                                             *)
(*                                                                         *)
(* On top of it: the graph that is counted is the one of the draft that is *)
(* validated (Checked), so a ready draft has no knot, and its records stay *)
(* as they were validated up to the publication (Sealed); calls have       *)
(* numbers of their own (CallsDistinct), so what is linked is the whole    *)
(* temporary file of the call (Whole), and once a file is there nothing    *)
(* replaces it (Stays).                                                    *)
(***************************************************************************)
EXTENDS StackManifest, FiniteSetTheorems, WellFoundedInduction, TLAPS

-----------------------------------------------------------------------------
(* The cycle detection.                                                    *)

\* What a node still waits for.
Waits(p) == (nodes[p] \cap Project) \ seen

Counted == verdict \in {"taking", "cycle", "order"}

DegreesExact == Counted => \A p \in Project : indegree[p] = Cardinality(Waits(p))

ReadyExact == Counted => ready = {p \in Project \ seen : Waits(p) = {}}

SeenDone == Counted => \A p \in seen : Waits(p) = {}

VisitedExact == Counted => visited = Cardinality(seen)

KnotsUntouched == Counted => \A S \in SUBSET Project : Knot(S) => S \cap seen = {}

Concluded ==
    /\ verdict \in {"cycle", "order"} => ready = {}
    /\ verdict = "cycle" => visited # Cardinality(Project)
    /\ verdict = "order" => visited = Cardinality(Project)

OrderInv ==
    /\ OrderTypeOK
    /\ DegreesExact
    /\ ReadyExact
    /\ SeenDone
    /\ VisitedExact
    /\ KnotsUntouched
    /\ Concluded

\* What a node waits for is a finite set, empty exactly if it counts zero.
LEMMA WaitsFinite ==
    ASSUME NEW p \in Project
    PROVE  /\ IsFiniteSet(Waits(p))
           /\ Cardinality(Waits(p)) \in Nat
           /\ Cardinality(Waits(p)) = 0 <=> Waits(p) = {}
<1>1. Waits(p) \in SUBSET Project
    BY DEF Waits
<1>2. IsFiniteSet(Waits(p))
    BY <1>1, FS_Subset, DependencyOrderAssumption
<1> QED
    BY <1>2, FS_CardinalityType, FS_EmptySet

\* The inductive invariant holds at first.
LEMMA OrderInitInv == OrderInit => OrderInv
BY DEF OrderInit, OrderInv, OrderTypeOK, DegreesExact, ReadyExact, SeenDone, VisitedExact, KnotsUntouched,
       Concluded, Counted, Verdict

\* Taking one node removes it from what its dependents wait for, and from
\* nothing else.
LEMMA TakeWaits ==
    ASSUME OrderInv, NEW p \in Project, Take(p), NEW q \in Project
    PROVE  /\ Waits(q)' = Waits(q) \ {p}
           /\ indegree'[q] = Cardinality(Waits(q)')
           /\ indegree'[q] \in Nat
<1>1. nodes' = nodes /\ seen' = seen \cup {p} /\ p \notin seen /\ verdict = "taking"
    BY DEF Take, OrderInv, ReadyExact, Counted
<1>2. Waits(q)' = Waits(q) \ {p}
    BY <1>1 DEF Waits
<1>3. indegree[q] = Cardinality(Waits(q))
    BY <1>1 DEF OrderInv, DegreesExact, Counted
<1>4. p \in Waits(q) <=> q \in Dependents(p)
    BY <1>1 DEF Waits, Dependents
<1>5. indegree'[q] = indegree[q] - (IF q \in Dependents(p) THEN 1 ELSE 0)
    BY DEF Take
<1>6. /\ Cardinality(Waits(q) \ {p}) =
            IF p \in Waits(q) THEN Cardinality(Waits(q)) - 1 ELSE Cardinality(Waits(q))
      /\ IsFiniteSet(Waits(q) \ {p})
    BY WaitsFinite, FS_RemoveElement
<1>7. Cardinality(Waits(q) \ {p}) \in Nat
    BY <1>6, FS_CardinalityType
<1>8. CASE p \in Waits(q)
    BY <1>2, <1>3, <1>4, <1>5, <1>6, <1>7, <1>8
<1>9. CASE p \notin Waits(q)
    BY <1>2, <1>3, <1>4, <1>5, <1>6, <1>7, <1>9, WaitsFinite
<1> QED
    BY <1>8, <1>9

\* Taking a node keeps the invariant.
LEMMA TakeInv ==
    ASSUME OrderInv, NEW p \in Project, Take(p)
    PROVE  OrderInv'
<1> DEFINE fewer == [q \in Project |-> indegree[q] - (IF q \in Dependents(p) THEN 1 ELSE 0)]
<1>1. /\ nodes' = nodes /\ seen' = seen \cup {p} /\ p \in ready
      /\ verdict = "taking" /\ verdict' = verdict
      /\ visited' = visited + 1 /\ indegree' = fewer
      /\ ready' = (ready \ {p}) \cup {q \in Dependents(p) : fewer[q] = 0}
    BY DEF Take
<1>2. p \notin seen /\ Waits(p) = {} /\ ready = {q \in Project \ seen : Waits(q) = {}}
    BY <1>1 DEF OrderInv, ReadyExact, Counted
<1>3. \A q \in Project : /\ Waits(q)' = Waits(q) \ {p}
                         /\ indegree'[q] = Cardinality(Waits(q)')
                         /\ indegree'[q] \in Nat
    BY TakeWaits
<1>4. \A q \in Project : q \in Dependents(p) <=> p \in Waits(q)
    BY <1>2 DEF Waits, Dependents
<1>5. Dependents(p) \subseteq Project
    BY DEF Dependents
<1>6. OrderTypeOK'
    <2>1. indegree' \in [Project -> Nat]
        BY <1>1, <1>3
    <2> QED
        BY <1>1, <1>5, <2>1 DEF OrderInv, OrderTypeOK
<1>7. DegreesExact'
    BY <1>3 DEF DegreesExact
<1>8. ReadyExact'
    <2>1. \A q \in Project : indegree'[q] = 0 <=> Waits(q) \ {p} = {}
        <3> TAKE q \in Project
        <3>1. IsFiniteSet(Waits(q) \ {p})
            BY WaitsFinite, FS_RemoveElement
        <3> QED
            BY <3>1, <1>3, FS_EmptySet
    <2>2. \A q \in Project : q \in ready' <=> q \notin seen \cup {p} /\ Waits(q) \ {p} = {}
        <3> SUFFICES ASSUME NEW q \in Project
                     PROVE  q \in ready' <=> q \notin seen \cup {p} /\ Waits(q) \ {p} = {}
            OBVIOUS
        <3>1. CASE q = p
            <4>1. q \notin Dependents(p)
                BY <3>1, <1>2, <1>4
            <4> QED
                BY <3>1, <4>1, <1>1
        <3>2. CASE q # p /\ q \in Dependents(p)
            <4>1. p \in Waits(q) /\ q \notin ready
                BY <3>2, <1>2, <1>4
            <4>2. q \notin seen
                \* A taken node would have waited for p when it was taken.
                BY <1>1, <4>1 DEF OrderInv, SeenDone, Counted
            <4> QED
                BY <3>2, <4>1, <4>2, <1>1, <2>1
        <3>3. CASE q # p /\ q \notin Dependents(p)
            BY <3>3, <1>1, <1>2, <1>4
        <3> QED
            BY <3>1, <3>2, <3>3
    <2>3. ready' \subseteq Project
        BY <1>6 DEF OrderTypeOK
    <2>4. ready' = {q \in Project \ seen' : Waits(q)' = {}}
        BY <2>2, <2>3, <1>1, <1>3
    <2> QED
        BY <2>4 DEF ReadyExact
<1>12. SeenDone'
    <2>1. \A q \in seen : Waits(q) = {} /\ q \in Project
        BY <1>1 DEF OrderInv, SeenDone, Counted, OrderTypeOK
    <2> QED
        BY <2>1, <1>1, <1>2, <1>3 DEF SeenDone
<1>9. VisitedExact'
    <2>1. IsFiniteSet(seen)
        BY FS_Subset, DependencyOrderAssumption DEF OrderInv, OrderTypeOK
    <2>2. Cardinality(seen \cup {p}) = Cardinality(seen) + 1
        BY <2>1, <1>2, FS_AddElement
    <2>3. visited = Cardinality(seen)
        BY <1>1 DEF OrderInv, VisitedExact, Counted
    <2> QED
        BY <2>2, <2>3, <1>1 DEF VisitedExact
<1>10. KnotsUntouched'
    <2> SUFFICES ASSUME NEW S \in SUBSET Project, Knot(S)'
                 PROVE  S \cap seen' = {}
        BY DEF KnotsUntouched
    <2>1. Knot(S)
        BY <1>1 DEF Knot
    <2>2. S \cap seen = {}
        BY <2>1, <1>1 DEF OrderInv, KnotsUntouched, Counted
    <2>3. p \notin S
        <3> SUFFICES ASSUME p \in S PROVE FALSE
            OBVIOUS
        <3>1. PICK d \in S : d \in nodes[p]
            BY <2>1 DEF Knot
        <3>2. d \in seen
            BY <3>1, <1>2 DEF Waits
        <3> QED
            BY <3>2, <2>2
    <2> QED
        BY <2>2, <2>3, <1>1
<1>11. Concluded'
    BY <1>1 DEF Concluded
<1> QED
    BY <1>6, <1>7, <1>8, <1>9, <1>10, <1>11, <1>12 DEF OrderInv

\* Counting establishes the invariant.
LEMMA CountInv == OrderInv /\ Count => OrderInv'
<1> SUFFICES ASSUME OrderInv, Count PROVE OrderInv'
    OBVIOUS
<1>1. /\ nodes' = nodes /\ seen' = {} /\ visited' = 0 /\ verdict' = "taking"
      /\ indegree' = [p \in Project |-> Cardinality(nodes[p] \cap Project)]
      /\ ready' = {p \in Project : nodes[p] \cap Project = {}}
    BY DEF Count
<1>2. \A p \in Project : Waits(p)' = nodes[p] \cap Project
    BY <1>1 DEF Waits
<1>3. \A p \in Project : Cardinality(nodes[p] \cap Project) \in Nat
    <2> TAKE p \in Project
    <2>1. IsFiniteSet(nodes[p] \cap Project)
        BY FS_Subset, DependencyOrderAssumption
    <2> QED
        BY <2>1, FS_CardinalityType
<1>4. OrderTypeOK'
    BY <1>1, <1>3 DEF OrderInv, OrderTypeOK, Verdict
<1>5. DegreesExact' /\ ReadyExact' /\ SeenDone'
    BY <1>1, <1>2 DEF DegreesExact, ReadyExact, SeenDone
<1>6. VisitedExact' /\ KnotsUntouched' /\ Concluded'
    BY <1>1, FS_EmptySet DEF VisitedExact, KnotsUntouched, Concluded
<1> QED
    BY <1>4, <1>5, <1>6 DEF OrderInv

\* Concluding keeps it: the graph and the counts stay as they are.
LEMMA ConcludeInv == OrderInv /\ Conclude => OrderInv'
<1> SUFFICES ASSUME OrderInv, Conclude PROVE OrderInv'
    OBVIOUS
<1>1. /\ UNCHANGED <<nodes, indegree, ready, visited, seen>>
      /\ verdict = "taking" /\ ready = {}
      /\ verdict' = IF visited # Cardinality(Project) THEN "cycle" ELSE "order"
    BY DEF Conclude
<1>2. Counted /\ Counted' /\ verdict' \in {"cycle", "order"}
    BY <1>1 DEF Counted
<1>3. \A p : Waits(p)' = Waits(p)
    BY <1>1 DEF Waits
<1>4. \A S : Knot(S)' <=> Knot(S)
    BY <1>1 DEF Knot
<1>5. OrderTypeOK'
    BY <1>1, <1>2 DEF OrderInv, OrderTypeOK, Verdict
<1>6. DegreesExact' /\ ReadyExact' /\ SeenDone' /\ VisitedExact' /\ KnotsUntouched'
    BY <1>1, <1>2, <1>3, <1>4
       DEF OrderInv, DegreesExact, ReadyExact, SeenDone, VisitedExact, KnotsUntouched
<1>7. Concluded'
    BY <1>1 DEF Concluded
<1> QED
    BY <1>5, <1>6, <1>7 DEF OrderInv

\* Every step of the detection keeps the invariant.
LEMMA OrderNextInv == OrderInv /\ [OrderNext]_orderVars => OrderInv'
<1> SUFFICES ASSUME OrderInv, [OrderNext]_orderVars PROVE OrderInv'
    OBVIOUS
<1>1. ASSUME NEW graph \in [Project -> SUBSET Name], Start(graph)
      PROVE  OrderInv'
    BY <1>1 DEF Start, OrderInv, OrderTypeOK, DegreesExact, ReadyExact, SeenDone, VisitedExact,
                KnotsUntouched, Concluded, Counted, Verdict
<1>2. CASE UNCHANGED orderVars
    BY <1>2 DEF orderVars, OrderInv, OrderTypeOK, DegreesExact, ReadyExact, SeenDone, VisitedExact,
                KnotsUntouched, Concluded, Counted, Waits, Knot
<1> QED
    BY <1>1, <1>2, CountInv, TakeInv, ConcludeInv DEF OrderNext, OrderStep

\* With nothing ready, the nodes left over are a knot; and a knot, never having
\* been taken, is left over.
LEMMA InvRight == OrderInv => VerdictRight
<1> SUFFICES ASSUME OrderInv PROVE VerdictRight
    OBVIOUS
<1>1. ASSUME verdict = "cycle"
      PROVE  \E S \in SUBSET Project : Knot(S)
    <2> DEFINE S == Project \ seen
    <2>1. visited = Cardinality(seen) /\ ready = {} /\ visited # Cardinality(Project)
        BY <1>1 DEF OrderInv, VisitedExact, Concluded, Counted
    <2>2. S # {}
        BY <2>1 DEF OrderInv, OrderTypeOK
    <2>3. \A p \in S : Waits(p) # {}
        BY <1>1, <2>1 DEF OrderInv, ReadyExact, Counted
    <2>4. \A p \in S : nodes[p] \cap S # {}
        BY <2>3 DEF Waits
    <2> QED
        BY <2>2, <2>4 DEF Knot
<1>2. ASSUME verdict = "order", NEW S \in SUBSET Project, Knot(S)
      PROVE  FALSE
    <2>1. visited = Cardinality(seen) /\ visited = Cardinality(Project) /\ S \cap seen = {}
        BY <1>2 DEF OrderInv, VisitedExact, Concluded, KnotsUntouched, Counted
    <2>2. seen = Project
        BY <2>1, FS_Subset, DependencyOrderAssumption DEF OrderInv, OrderTypeOK
    <2> QED
        BY <2>1, <2>2, <1>2 DEF Knot
<1> QED
    BY <1>1, <1>2 DEF VerdictRight

\* Every reachable state of the detection satisfies the invariant.
THEOREM OrderInvariant == OrderSpec => []OrderInv
BY OrderInitInv, OrderNextInv, PTL DEF OrderSpec

\* The verdict of _has_cycle is right for every finite graph, in whatever order
\* the ready nodes are taken.
THEOREM CycleDetectionRight == OrderSpec => []VerdictRight
BY OrderInvariant, InvRight, PTL

\* A set of natural numbers has a least element.
LEMMA LeastNumber ==
    ASSUME NEW T \in SUBSET Nat, T # {}
    PROVE  \E x \in T : \A y \in T : x <= y
<1>1. PICK x \in T : \A y \in T : ~ (<<y, x>> \in OpToRel(<, Nat))
    BY WFMin, NatLessThanWellFounded
<1>2. \A y \in T : ~ (y < x)
    BY <1>1 DEF OpToRel
<1> QED
    BY <1>2

\* In a knot there are walks of any length.
LEMMA WalksGoOn ==
    ASSUME NEW S \in SUBSET Project, Knot(S), NEW k \in Nat
    PROVE  WalksIn(S, k) # {}
<1> DEFINE T == {n \in Nat : WalksIn(S, n) = {}}
<1> SUFFICES ASSUME T # {} PROVE FALSE
    OBVIOUS
<1>1. PICK n \in T : \A m \in T : n <= m
    <2> T \in SUBSET Nat
        OBVIOUS
    <2> QED
        BY LeastNumber
<1>2. n # 0
    <2>1. PICK p \in S : TRUE
        BY DEF Knot
    <2>2. [i \in 0..0 |-> p] \in WalksIn(S, 0)
        BY <2>1 DEF WalksIn
    <2> QED
        BY <2>2, <1>1
<1>3. n \in Nat /\ n - 1 \in Nat /\ n - 1 \notin T
    BY <1>1, <1>2
<1>4. PICK w \in WalksIn(S, n - 1) : TRUE
    BY <1>3
<1>5. w \in [0..(n - 1) -> S] /\ \A i \in 0..(n - 2) : w[i + 1] \in nodes[w[i]]
    BY <1>3, <1>4 DEF WalksIn
<1>6. PICK q \in S : q \in nodes[w[n - 1]]
    <2>1. w[n - 1] \in S
        BY <1>3, <1>5
    <2> QED
        BY <2>1 DEF Knot
<1> DEFINE v == [i \in 0..n |-> IF i = n THEN q ELSE w[i]]
<1>7. v \in [0..n -> S]
    BY <1>3, <1>5, <1>6
<1>8. \A i \in 0..(n - 1) : v[i + 1] \in nodes[v[i]]
    BY <1>3, <1>5, <1>6
<1>9. v \in WalksIn(S, n)
    BY <1>7, <1>8 DEF WalksIn
<1> QED
    BY <1>1, <1>9

\* A walk that is longer than there are nodes meets one of them again, and
\* between the two visits it goes in a circle.
LEMMA KnotIsCircular ==
    ASSUME NEW S \in SUBSET Project, Knot(S)
    PROVE  Circular
<1> DEFINE N == Cardinality(Project)
<1>1. N \in Nat /\ IsFiniteSet(Project)
    BY FS_CardinalityType, DependencyOrderAssumption
<1>2. PICK w \in WalksIn(S, N) : TRUE
    BY <1>1, WalksGoOn
<1>3. w \in [0..N -> Project] /\ \A i \in 0..(N - 1) : w[i + 1] \in nodes[w[i]]
    BY <1>2 DEF WalksIn
<1>4. PICK a, b \in 0..N : a # b /\ w[a] = w[b]
    <2>1. IsFiniteSet(0..N) /\ Cardinality(0..N) = N + 1
        BY <1>1, FS_Interval
    <2> QED
        BY <2>1, <1>1, <1>3, FS_PigeonHole
<1>5. PICK i, j \in 0..N : i < j /\ w[i] = w[j]
    BY <1>1, <1>4
<1> DEFINE n == j - i
           v == [k \in 0..n |-> w[i + k]]
<1>6. n \in 1..N
    BY <1>1, <1>5
<1>7. \A k \in 0..n : i + k \in 0..N
    BY <1>1, <1>5
<1>8. \A k \in 0..(n - 1) : i + k \in 0..(N - 1) /\ k \in 0..n /\ k + 1 \in 0..n /\ i + (k + 1) = (i + k) + 1
    BY <1>1, <1>5
<1>9. v \in [0..n -> Project]
    BY <1>3, <1>7
<1>10. \A k \in 0..(n - 1) : v[k + 1] \in nodes[v[k]]
    BY <1>3, <1>8
<1>11. v[0] = v[n]
    BY <1>5, <1>6
<1>12. v \in WalksIn(Project, n)
    BY <1>9, <1>10 DEF WalksIn
<1> QED
    BY <1>6, <1>11, <1>12 DEF Circular

\* The nodes of a circle are a knot.
LEMMA CircularHasKnot ==
    ASSUME Circular
    PROVE  \E S \in SUBSET Project : Knot(S)
<1>1. PICK n \in 1..Cardinality(Project) : \E w \in WalksIn(Project, n) : w[0] = w[n]
    BY DEF Circular
<1>2. PICK w \in WalksIn(Project, n) : w[0] = w[n]
    BY <1>1
<1>3. w \in [0..n -> Project] /\ \A i \in 0..(n - 1) : w[i + 1] \in nodes[w[i]]
    BY <1>2 DEF WalksIn
<1>4. n \in Nat /\ n > 0
    BY <1>1, FS_CardinalityType, DependencyOrderAssumption
<1> DEFINE S == {w[i] : i \in 0..n}
<1>5. S \in SUBSET Project /\ S # {}
    BY <1>3, <1>4
<1>6. ASSUME NEW p \in S
      PROVE  nodes[p] \cap S # {}
    <2>1. PICK i \in 0..n : p = w[i]
        OBVIOUS
    <2>2. PICK k \in 0..(n - 1) : p = w[k]
        <3>1. CASE i = n
            BY <3>1, <2>1, <1>2, <1>4
        <3>2. CASE i # n
            BY <3>2, <2>1, <1>4
        <3> QED
            BY <3>1, <3>2
    <2>3. w[k + 1] \in nodes[p] /\ k + 1 \in 0..n
        BY <2>2, <1>3, <1>4
    <2> QED
        BY <2>3
<1> QED
    BY <1>5, <1>6 DEF Knot

\* The verdict is the one of the definition by walks.
LEMMA InvMatches == OrderInv => VerdictMatchesReference
BY InvRight, KnotIsCircular, CircularHasKnot DEF VerdictRight, VerdictMatchesReference

-----------------------------------------------------------------------------
(* The stack manifest: the inductive invariant.                            *)

\* Records that require each other at the recorded commits and in no circle.
Installable(records) ==
    /\ \A p \in Project : \A r \in records[p].metadata.requires :
           r.on \in Project /\ records[r.on].commit = r.at
    /\ \A S \in (SUBSET Project) \ {{}} :
           \E p \in S : \A r \in records[p].metadata.requires : r.on \notin S

(* What holds of the local variables i of a writer.                        *)

\* A walk through the projects is at one that is still to be read.
Walks(i) ==
    /\ i.phase \in {"metadata", "head"} => i.todo # {}
    /\ i.phase \in {"status", "tags"} => i.at \in i.todo

\* The graph in which cycles are looked for is the one of the draft.
Checked(i) == i.phase = "checking" => nodes = DependsOn(i.records)

\* What is ready has been validated, and has not changed since.
Sealed(i) ==
    i.ready => /\ i.phase \in {"sealed", "looked", "opened", "written", "linked"}
               /\ Installable(i.records)

Numbered(i) == i.call <= calls

\* A written temporary file is whole, and no other file passes for it.
Whole(i) == i.phase = "written" => \A t \in temporaries : t.call = i.call => t.whole

\* What was published is there.
Stays(i) == i.phase = "linked" \/ i.outcome = "written" => \E m \in file : m.call = i.call

Right(i) == Walks(i) /\ Checked(i) /\ Sealed(i) /\ Numbered(i) /\ Whole(i) /\ Stays(i)

\* Calls that run have numbers of their own, and one validates at a time.
CallsDistinct ==
    \A v, w \in Writer :
        v # w /\ writer[v].phase # "idle" /\ writer[w].phase # "idle" =>
            /\ writer[v].call # writer[w].call
            /\ writer[v].phase = "checking" => writer[w].phase # "checking"

FileRight == \A m \in file : m.whole /\ (m.ready => Installable(m.records))

IInv ==
    /\ TypeOK
    /\ OrderInv
    /\ \A w \in Writer : Right(writer[w])
    /\ CallsDistinct
    /\ FileRight

-----------------------------------------------------------------------------
(* Records of the kinds the actions build.                                 *)

LEMMA IdleTypes ==
  /\ NoRecord \in Record
  /\ Idle \in Local
  /\ Idle.phase = "idle" /\ Idle.ready = FALSE /\ Idle.outcome = "none" /\ Idle.call = 0
<1>1. 0 \in 0..MaxHead /\ 0 \in Call  BY StackManifestAssumption DEF Call
<1>2. NoRecord \in Record  BY <1>1 DEF NoRecord, Record, Content
<1>3. [p \in Project |-> NoRecord] \in Records  BY <1>2 DEF Records
<1>4. Idle \in Local  BY <1>1, <1>3 DEF Idle, Local, Phase
<1>5. QED  BY <1>2, <1>4 DEF Idle

LEMMA RecordsTypes ==
  ASSUME NEW rs \in Records, NEW p \in Project
  PROVE  /\ \A m \in Content : [rs EXCEPT ![p].metadata = m] \in Records
         /\ \A c \in 0..MaxHead : [rs EXCEPT ![p].commit = c] \in Records
         /\ \A b \in BOOLEAN : [rs EXCEPT ![p].dirty = b] \in Records
         /\ \A b \in BOOLEAN : [rs EXCEPT ![p].tagged = b] \in Records
<1>1. PICK r \in Record : r = rs[p]  BY DEF Records
<1>2. ASSUME NEW m \in Content PROVE [rs EXCEPT ![p].metadata = m] \in Records
  <2>1. PICK q \in Record : q = [r EXCEPT !.metadata = m]  BY DEF Record
  <2>2. [rs EXCEPT ![p].metadata = m] = [rs EXCEPT ![p] = q]  BY <1>1, <2>1
  <2>3. QED  BY <2>2 DEF Records
<1>3. ASSUME NEW c \in 0..MaxHead PROVE [rs EXCEPT ![p].commit = c] \in Records
  <2>1. PICK q \in Record : q = [r EXCEPT !.commit = c]  BY DEF Record
  <2>2. [rs EXCEPT ![p].commit = c] = [rs EXCEPT ![p] = q]  BY <1>1, <2>1
  <2>3. QED  BY <2>2 DEF Records
<1>4. ASSUME NEW b \in BOOLEAN PROVE [rs EXCEPT ![p].dirty = b] \in Records
  <2>1. PICK q \in Record : q = [r EXCEPT !.dirty = b]  BY DEF Record
  <2>2. [rs EXCEPT ![p].dirty = b] = [rs EXCEPT ![p] = q]  BY <1>1, <2>1
  <2>3. QED  BY <2>2 DEF Records
<1>5. ASSUME NEW b \in BOOLEAN PROVE [rs EXCEPT ![p].tagged = b] \in Records
  <2>1. PICK q \in Record : q = [r EXCEPT !.tagged = b]  BY DEF Record
  <2>2. [rs EXCEPT ![p].tagged = b] = [rs EXCEPT ![p] = q]  BY <1>1, <2>1
  <2>3. QED  BY <2>2 DEF Records
<1>6. QED  BY <1>2, <1>3, <1>4, <1>5

LEMMA FirstIsOne ==
  ASSUME NEW S, S # {}
  PROVE  FirstOf(S) \in S
  BY DEF FirstOf

LEMMA DependsOnType ==
  ASSUME NEW rs \in Records
  PROVE  DependsOn(rs) \in [Project -> SUBSET Name]
<1>1. ASSUME NEW p \in Project PROVE {r.on : r \in rs[p].metadata.requires} \in SUBSET Name
  BY DEF Records, Record, Content, Requirement
<1>2. QED  BY <1>1 DEF DependsOn

-----------------------------------------------------------------------------
(* Steps.                                                                  *)

\* What holds of a writer stays true while others work.
LEMMA Kept ==
  ASSUME NEW i \in Local, Right(i), nodes' = nodes \/ i.phase # "checking",
         calls \in Nat, calls' \in Nat, calls <= calls', file \subseteq file',
         \A t \in temporaries' \ temporaries : i.phase = "written" /\ t.call = i.call => t.whole
  PROVE  Right(i)'
<1>1. Walks(i)'  BY DEF Right, Walks
<1>2. Checked(i)'  BY DEF Right, Checked
<1>3. Sealed(i)'  BY DEF Right, Sealed
<1>4. Numbered(i)'
  <2>1. i.call \in Nat  BY StackManifestAssumption DEF Local, Call
  <2>2. QED  BY <2>1 DEF Right, Numbered
<1>5. Whole(i)'  BY DEF Right, Whole
<1>6. Stays(i)'  BY DEF Right, Stays
<1>7. QED  BY <1>1, <1>2, <1>3, <1>4, <1>5, <1>6 DEF Right

\* A step of one writer, which leaves what holds of the others true.
LEMMA OwnStep ==
  ASSUME IInv, NEW w \in Writer, NEW n \in Local, writer' = [writer EXCEPT ![w] = n], Right(n)',
         \A i \in Local : (\E v \in Writer \ {w} : i = writer[v]) => Right(i)',
         n.phase # "idle" =>
             \A v \in Writer \ {w} : writer[v].phase # "idle" => writer[v].call # n.call,
         n.phase = "checking" => \A v \in Writer \ {w} : writer[v].phase # "checking"
  PROVE  /\ writer' \in [Writer -> Local]
         /\ \A v \in Writer : Right(writer[v])'
         /\ CallsDistinct'
<1>1. writer \in [Writer -> Local]  BY DEF IInv, TypeOK
<1>2. writer' \in [Writer -> Local] /\ writer'[w] = n  BY <1>1
<1>3. \A v \in Writer \ {w} : writer'[v] = writer[v] /\ writer[v] \in Local  BY <1>1
<1>4. ASSUME NEW v \in Writer PROVE Right(writer[v])'
  <2>1. PICK i \in Local : i = writer'[v]  BY <1>2
  <2>2. Right(i)'
    <3>1. CASE v = w  BY <1>2, <2>1, <3>1
    <3>2. CASE v # w  BY <1>3, <2>1, <3>2
    <3>3. QED  BY <3>1, <3>2
  <2>3. Walks(writer[v])'  BY <2>1, <2>2 DEF Right, Walks
  <2>4. Checked(writer[v])'  BY <2>1, <2>2 DEF Right, Checked, DependsOn
  <2>5. Sealed(writer[v])'  BY <2>1, <2>2 DEF Right, Sealed, Installable
  <2>6. Numbered(writer[v])' /\ Whole(writer[v])'  BY <2>1, <2>2 DEF Right, Numbered, Whole
  <2>7. Stays(writer[v])'  BY <2>1, <2>2 DEF Right, Stays
  <2>8. QED  BY <2>3, <2>4, <2>5, <2>6, <2>7 DEF Right
<1>5. CallsDistinct'
  <2> SUFFICES ASSUME NEW u \in Writer, NEW v \in Writer, u # v,
                      writer'[u].phase # "idle", writer'[v].phase # "idle"
               PROVE  /\ writer'[u].call # writer'[v].call
                      /\ writer'[u].phase = "checking" => writer'[v].phase # "checking"
    BY DEF CallsDistinct
  <2>1. CASE u = w  BY <1>2, <1>3, <2>1
  <2>2. CASE v = w  BY <1>2, <1>3, <2>2
  <2>3. CASE u # w /\ v # w  BY <1>3, <2>3 DEF IInv, CallsDistinct
  <2>4. QED  BY <2>1, <2>2, <2>3
<1>6. QED  BY <1>2, <1>4, <1>5

\* A step of one writer that writes nothing and goes on with its call, if at all.
LEMMA GoesOn ==
  ASSUME IInv, NEW w \in Writer, NEW n \in Local, writer' = [writer EXCEPT ![w] = n], Right(n),
         n.phase # "idle" => writer[w].phase # "idle" /\ n.call = writer[w].call,
         n.phase # "checking",
         UNCHANGED <<orderVars, repo, file, temporaries, calls, moves>>
  PROVE  IInv'
<1>1. calls \in Nat  BY StackManifestAssumption DEF IInv, TypeOK, Call
<1>2. Right(n)'  BY <1>1, Kept
<1>3. \A i \in Local : (\E v \in Writer \ {w} : i = writer[v]) => Right(i)'
  BY <1>1, Kept DEF IInv, orderVars
<1>4. n.phase # "idle" =>
          \A v \in Writer \ {w} : writer[v].phase # "idle" => writer[v].call # n.call
  BY DEF IInv, CallsDistinct
<1>5. /\ writer' \in [Writer -> Local]
      /\ \A v \in Writer : Right(writer[v])'
      /\ CallsDistinct'
  BY <1>2, <1>3, <1>4, OwnStep
<1>6. OrderInv'
  BY OrderNextInv DEF IInv
<1>7. TypeOK'  BY <1>5, <1>6 DEF IInv, TypeOK, OrderInv
<1>8. FileRight'  BY DEF IInv, FileRight, Installable
<1>9. QED  BY <1>5, <1>6, <1>7, <1>8 DEF IInv

\* The local variables of a writer, and what holds of them.
LEMMA Mine ==
  ASSUME IInv, NEW w \in Writer
  PROVE  writer[w] \in Local /\ Right(writer[w])
  BY DEF IInv, TypeOK

-----------------------------------------------------------------------------
(* Discovery.                                                              *)

LEMMA StartDiscoveryStep ==
  ASSUME IInv, NEW w \in Writer, NEW mode \in {"audit", "release"}, StartDiscovery(w, mode)
  PROVE  IInv'
<1>1. calls \in Nat /\ calls + 1 \in Call /\ calls' = calls + 1
  BY StackManifestAssumption DEF IInv, TypeOK, Call, StartDiscovery
<1>2. PICK c \in Call : c = calls + 1  BY <1>1
<1>3. PICK n : n = [Idle EXCEPT !.phase = IF Project = {} THEN "drafted" ELSE "metadata",
                                !.call = c, !.mode = mode, !.todo = Project]
  OBVIOUS
<1>4. /\ n \in Local /\ n.call = c /\ n.todo = Project
      /\ n.phase = IF Project = {} THEN "drafted" ELSE "metadata"
      /\ n.ready = FALSE /\ n.outcome = "none"
  BY <1>3, IdleTypes DEF Local, Phase
<1>5. writer' = [writer EXCEPT ![w] = n] /\ UNCHANGED <<read, orderVars>>
  BY <1>2, <1>3 DEF StartDiscovery
<1>6. Right(n)'
  BY <1>1, <1>2, <1>4 DEF Right, Walks, Checked, Sealed, Numbered, Whole, Stays, Call
<1>7. \A i \in Local : (\E v \in Writer \ {w} : i = writer[v]) => Right(i)'
  BY <1>1, <1>5, Kept DEF IInv, orderVars, read
<1>8. \A v \in Writer : writer[v].call # n.call
  <2> SUFFICES ASSUME NEW v \in Writer PROVE writer[v].call # n.call
    OBVIOUS
  <2>1. PICK i \in Local : i = writer[v] /\ Right(i)  BY Mine
  <2>2. i.call \in Nat /\ i.call <= calls
    BY <2>1, StackManifestAssumption DEF Right, Numbered, Local, Call
  <2>3. QED  BY <1>1, <1>2, <1>4, <2>1, <2>2
<1>9. /\ writer' \in [Writer -> Local]
      /\ \A v \in Writer : Right(writer[v])'
      /\ CallsDistinct'
  BY <1>4, <1>5, <1>6, <1>7, <1>8, OwnStep
<1>10. OrderInv'  BY <1>5, OrderNextInv DEF IInv
<1>11. TypeOK'  BY <1>1, <1>5, <1>9, <1>10 DEF IInv, TypeOK, OrderInv, read
<1>12. FileRight'  BY <1>5 DEF IInv, FileRight, Installable, read
<1>13. QED  BY <1>9, <1>10, <1>11, <1>12 DEF IInv

\* Steps of a discovery that only read: what is known before they are over.
LEMMA Unready ==
  ASSUME NEW i \in Local, Right(i), i.phase \in {"metadata", "head", "status", "tags", "drafted"}
  PROVE  i.ready = FALSE
  BY DEF Right, Sealed, Local

LEMMA ReadMetadataStep ==
  ASSUME IInv, NEW w \in Writer, ReadMetadata(w)
  PROVE  IInv'
<1>1. PICK i \in Local : i = writer[w] /\ Right(i)  BY Mine
<1>2. i.phase = "metadata" /\ i.ready = FALSE /\ i.todo # {} /\ i.todo \in SUBSET Project
  BY <1>1, Unready DEF ReadMetadata, Right, Walks, Local
<1>3. PICK p \in Project : p = FirstOf(i.todo) /\ p \in i.todo  BY <1>2, FirstIsOne
<1>4. PICK c \in Content : c = repo[p].work  BY DEF IInv, TypeOK, Repository
<1>5. PICK n : n = [i EXCEPT !.records[p].metadata = c,
                             !.todo = IF i.todo = {p} THEN Project ELSE @ \ {p},
                             !.phase = IF i.todo = {p} THEN "head" ELSE @]
  OBVIOUS
<1>6. [i.records EXCEPT ![p].metadata = c] \in Records
  <2>1. i.records \in Records  BY DEF Local
  <2>2. QED  BY <2>1, RecordsTypes
<1>7. /\ n \in Local /\ n.call = i.call /\ n.ready = FALSE /\ n.outcome = i.outcome
      /\ n.phase \in {"metadata", "head"}
      /\ n.todo = IF i.todo = {p} THEN Project ELSE i.todo \ {p}
  BY <1>2, <1>5, <1>6 DEF Local, Phase
<1>8. Right(n)
  <2>1. Walks(n)  BY <1>2, <1>3, <1>7 DEF Walks
  <2>2. QED
    BY <1>1, <1>7, <2>1 DEF Right, Checked, Sealed, Numbered, Whole, Stays
<1>9. writer' = [writer EXCEPT ![w] = n] /\ UNCHANGED local
  BY <1>1, <1>3, <1>4, <1>5 DEF ReadMetadata
<1>10. QED  BY <1>1, <1>2, <1>7, <1>8, <1>9, GoesOn DEF local, read

LEMMA ReadHeadStep ==
  ASSUME IInv, NEW w \in Writer, ReadHead(w)
  PROVE  IInv'
<1>1. PICK i \in Local : i = writer[w] /\ Right(i)  BY Mine
<1>2. i.phase = "head" /\ i.ready = FALSE /\ i.todo # {} /\ i.todo \in SUBSET Project
  BY <1>1, Unready DEF ReadHead, Right, Walks, Local
<1>3. PICK p \in Project : p = FirstOf(i.todo) /\ p \in i.todo  BY <1>2, FirstIsOne
<1>4. PICK c \in 0..MaxHead : c = repo[p].head
  BY StackManifestAssumption DEF IInv, TypeOK, Repository, Head
<1>5. PICK n : n = [i EXCEPT !.phase = "status", !.at = p, !.records[p].commit = c]
  OBVIOUS
<1>6. [i.records EXCEPT ![p].commit = c] \in Records
  <2>1. i.records \in Records  BY DEF Local
  <2>2. QED  BY <2>1, RecordsTypes
<1>7. /\ n \in Local /\ n.call = i.call /\ n.ready = FALSE /\ n.outcome = i.outcome
      /\ n.phase = "status" /\ n.todo = i.todo /\ n.at = p
  BY <1>2, <1>5, <1>6 DEF Local, Phase
<1>8. Right(n)
  BY <1>1, <1>3, <1>7 DEF Right, Walks, Checked, Sealed, Numbered, Whole, Stays
<1>9. writer' = [writer EXCEPT ![w] = n] /\ UNCHANGED local
  BY <1>1, <1>3, <1>4, <1>5 DEF ReadHead
<1>10. QED  BY <1>1, <1>2, <1>7, <1>8, <1>9, GoesOn DEF local, read

LEMMA ReadStatusStep ==
  ASSUME IInv, NEW w \in Writer, ReadStatus(w)
  PROVE  IInv'
<1>1. PICK i \in Local : i = writer[w] /\ Right(i)  BY Mine
<1>2. i.phase = "status" /\ i.ready = FALSE /\ i.at \in i.todo /\ i.todo \in SUBSET Project
  BY <1>1, Unready DEF ReadStatus, Right, Walks, Local
<1>3. PICK p \in Project : p = i.at  BY <1>2
<1>4. PICK b \in BOOLEAN : b = (repo[p].work # repo[p].committed)  OBVIOUS
<1>5. PICK n : n = [i EXCEPT !.phase = "tags", !.records[p].dirty = b]
  OBVIOUS
<1>6. [i.records EXCEPT ![p].dirty = b] \in Records
  <2>1. i.records \in Records  BY DEF Local
  <2>2. QED  BY <2>1, RecordsTypes
<1>7. /\ n \in Local /\ n.call = i.call /\ n.ready = FALSE /\ n.outcome = i.outcome
      /\ n.phase = "tags" /\ n.todo = i.todo /\ n.at = i.at
  BY <1>2, <1>5, <1>6 DEF Local, Phase
<1>8. Right(n)
  BY <1>1, <1>2, <1>7 DEF Right, Walks, Checked, Sealed, Numbered, Whole, Stays
<1>9. writer' = [writer EXCEPT ![w] = n] /\ UNCHANGED local
  BY <1>1, <1>3, <1>4, <1>5 DEF ReadStatus
<1>10. QED  BY <1>1, <1>2, <1>7, <1>8, <1>9, GoesOn DEF local, read

LEMMA ReadTagsStep ==
  ASSUME IInv, NEW w \in Writer, ReadTags(w)
  PROVE  IInv'
<1>1. PICK i \in Local : i = writer[w] /\ Right(i)  BY Mine
<1>2. i.phase = "tags" /\ i.ready = FALSE /\ i.at \in i.todo /\ i.todo \in SUBSET Project
  BY <1>1, Unready DEF ReadTags, Right, Walks, Local
<1>3. PICK p \in Project : p = i.at  BY <1>2
<1>4. PICK b \in BOOLEAN : b = (i.records[p].commit \in repo[p].tags)
  <2>1. (i.records[p].commit \in repo[p].tags) \in BOOLEAN  OBVIOUS
  <2>2. QED  BY <2>1
<1>5. PICK n : n = [i EXCEPT !.records[p].tagged = b, !.todo = @ \ {p}, !.at = None,
                             !.phase = IF i.todo = {p} THEN "drafted" ELSE "head"]
  OBVIOUS
<1>6. [i.records EXCEPT ![p].tagged = b] \in Records
  <2>1. i.records \in Records  BY DEF Local
  <2>2. QED  BY <2>1, RecordsTypes
<1>7. /\ n \in Local /\ n.call = i.call /\ n.ready = FALSE /\ n.outcome = i.outcome
      /\ n.phase = (IF i.todo = {p} THEN "drafted" ELSE "head") /\ n.todo = i.todo \ {p}
  BY <1>2, <1>5, <1>6 DEF Local, Phase
<1>8. Right(n)
  <2>1. Walks(n)  BY <1>2, <1>3, <1>7 DEF Walks
  <2>2. QED
    BY <1>1, <1>7, <2>1 DEF Right, Checked, Sealed, Numbered, Whole, Stays
<1>9. writer' = [writer EXCEPT ![w] = n] /\ UNCHANGED local
  BY <1>1, <1>3, <1>4, <1>5 DEF ReadTags
<1>10. QED  BY <1>1, <1>2, <1>7, <1>8, <1>9, GoesOn DEF local, read

-----------------------------------------------------------------------------
(* Validation.                                                             *)

\* What is governed, with its graph counted to the end, can be installed.
LEMMA GovernedInstallable ==
  ASSUME OrderInv, NEW rs \in Records, nodes = DependsOn(rs), Governed(rs)
  PROVE  Installable(rs)
<1>1. \A p \in Project : \A r \in rs[p].metadata.requires :
          r.on \in Project /\ rs[r.on].commit = r.at
  BY DEF Governed, RequirementsSound
<1>2. ASSUME NEW S \in (SUBSET Project) \ {{}},
             \A p \in S : \E r \in rs[p].metadata.requires : r.on \in S
      PROVE  FALSE
  <2>1. \A p \in S : nodes[p] \cap S # {}  BY <1>2 DEF DependsOn
  <2>2. Knot(S)  BY <2>1 DEF Knot
  <2>3. VerdictRight  BY InvRight
  <2>4. QED  BY <2>2, <2>3 DEF VerdictRight, Governed
<1>3. QED  BY <1>1, <1>2 DEF Installable

LEMMA StartCheckingStep ==
  ASSUME IInv, NEW w \in Writer, StartChecking(w)
  PROVE  IInv'
<1>1. PICK i \in Local : i = writer[w] /\ Right(i)  BY Mine
<1>2. i.phase = "drafted" /\ i.ready = FALSE  BY <1>1, Unready DEF StartChecking
<1>3. PICK g \in [Project -> SUBSET Name] : g = DependsOn(i.records)
  <2>1. i.records \in Records  BY DEF Local
  <2>2. QED  BY <2>1, DependsOnType
<1>4. Start(g) /\ \A v \in Writer : writer[v].phase # "checking"
  BY <1>1, <1>3 DEF StartChecking
<1>5. OrderInv'
  <2>1. OrderNext  BY <1>4 DEF OrderNext
  <2>2. QED  BY <2>1, OrderNextInv DEF IInv
<1>6. PICK n : n = [i EXCEPT !.phase = "checking"]  OBVIOUS
<1>7. /\ n \in Local /\ n.phase = "checking" /\ n.call = i.call /\ n.ready = FALSE
      /\ n.records = i.records /\ n.outcome = i.outcome
  BY <1>2, <1>6 DEF Local, Phase
<1>8. writer' = [writer EXCEPT ![w] = n] /\ UNCHANGED <<read, calls>>
  BY <1>1, <1>6 DEF StartChecking
<1>9. calls \in Nat  BY StackManifestAssumption DEF IInv, TypeOK, Call
<1>10. Right(n)'
  <2>1. Checked(n)'  BY <1>3, <1>4, <1>7 DEF Checked, Start, DependsOn
  <2>2. Numbered(n)' /\ Stays(n)'
    BY <1>1, <1>7, <1>8 DEF Right, Numbered, Stays, read
  <2>3. QED  BY <1>7, <2>1, <2>2 DEF Right, Walks, Sealed, Whole
<1>11. \A v \in Local : (\E u \in Writer \ {w} : v = writer[u]) => Right(v)'
  BY <1>4, <1>8, <1>9, Kept DEF IInv, read
<1>12. \A v \in Writer \ {w} : writer[v].phase # "idle" => writer[v].call # n.call
  BY <1>1, <1>2, <1>7 DEF IInv, CallsDistinct
<1>13. /\ writer' \in [Writer -> Local]
       /\ \A v \in Writer : Right(writer[v])'
       /\ CallsDistinct'
  BY <1>4, <1>7, <1>8, <1>10, <1>11, <1>12, OwnStep
<1>14. TypeOK'  BY <1>5, <1>8, <1>13 DEF IInv, TypeOK, OrderInv, read
<1>15. FileRight'  BY <1>8 DEF IInv, FileRight, Installable, read
<1>16. QED  BY <1>5, <1>13, <1>14, <1>15 DEF IInv

\* What holds of the writers stays true when neither they nor their files change.
LEMMA OthersKept ==
  ASSUME IInv, nodes' = nodes, UNCHANGED <<writer, file, temporaries, calls>>
  PROVE  (\A w \in Writer : Right(writer[w]))' /\ CallsDistinct' /\ FileRight'
<1>1. ASSUME NEW v \in Writer PROVE Right(writer[v])'
  <2>1. PICK i \in Local : i = writer[v] /\ Right(i)  BY Mine
  <2>2. Walks(writer[v])'  BY <2>1 DEF Right, Walks
  <2>3. Checked(writer[v])'  BY <2>1 DEF Right, Checked, DependsOn
  <2>4. Sealed(writer[v])'  BY <2>1 DEF Right, Sealed, Installable
  <2>5. Numbered(writer[v])' /\ Whole(writer[v])'
    BY <2>1 DEF Right, Numbered, Whole
  <2>6. Stays(writer[v])'  BY <2>1 DEF Right, Stays
  <2>7. QED  BY <2>2, <2>3, <2>4, <2>5, <2>6 DEF Right
<1>2. CallsDistinct'  BY DEF IInv, CallsDistinct
<1>3. FileRight'  BY DEF IInv, FileRight, Installable
<1>4. QED  BY <1>1, <1>2, <1>3

\* The counting goes on; the graph stays.
LEMMA CheckingStep ==
  ASSUME IInv, Checking
  PROVE  IInv'
<1>1. OrderInv'
  BY OrderNextInv DEF IInv, Checking, OrderNext
<1>2. nodes' = nodes /\ UNCHANGED stackVars
  BY DEF Checking, OrderStep, Count, Take, Conclude
<1>3. TypeOK'  BY <1>1, <1>2 DEF IInv, TypeOK, OrderInv, stackVars
<1>4. (\A w \in Writer : Right(writer[w]))' /\ CallsDistinct' /\ FileRight'
  BY <1>2, OthersKept DEF stackVars
<1>5. QED  BY <1>1, <1>3, <1>4 DEF IInv

LEMMA SealStep ==
  ASSUME IInv, NEW w \in Writer, Seal(w)
  PROVE  IInv'
<1>1. PICK i \in Local : i = writer[w] /\ Right(i)  BY Mine
<1>2. i.phase = "checking" /\ UNCHANGED local  BY <1>1 DEF Seal
<1>3. nodes = DependsOn(i.records)  BY <1>1, <1>2 DEF Right, Checked
<1>4. PICK b \in BOOLEAN : b = (i.mode = "release" /\ Governed(i.records))  OBVIOUS
<1>5. b => Installable(i.records)
  <2>1. i.records \in Records  BY DEF Local
  <2>2. QED  BY <1>3, <1>4, <2>1, GovernedInstallable DEF IInv
<1>6. CASE i.mode = "release" /\ ~b
  <2>1. PICK n : n = [Idle EXCEPT !.call = i.call, !.outcome = "refused"]  OBVIOUS
  <2>2. /\ n \in Local /\ n.phase = "idle" /\ n.call = i.call /\ n.ready = FALSE
        /\ n.outcome = "refused"
    BY <2>1, IdleTypes DEF Local
  <2>3. Right(n)
    BY <1>1, <2>2 DEF Right, Walks, Checked, Sealed, Numbered, Whole, Stays
  <2>4. writer' = [writer EXCEPT ![w] = n]  BY <1>1, <1>4, <1>6, <2>1 DEF Seal
  <2>5. QED  BY <1>2, <2>2, <2>3, <2>4, GoesOn DEF local, read
<1>7. CASE ~(i.mode = "release" /\ ~b)
  <2>1. PICK n : n = [i EXCEPT !.phase = "sealed", !.ready = b]  OBVIOUS
  <2>2. /\ n \in Local /\ n.phase = "sealed" /\ n.call = i.call /\ n.ready = b
        /\ n.records = i.records /\ n.outcome = i.outcome
    BY <2>1 DEF Local, Phase
  <2>3. Right(n)
    BY <1>1, <1>5, <2>2 DEF Right, Walks, Checked, Sealed, Numbered, Whole, Stays
  <2>4. writer' = [writer EXCEPT ![w] = n]  BY <1>1, <1>4, <1>7, <2>1 DEF Seal
  <2>5. QED  BY <1>1, <1>2, <2>2, <2>3, <2>4, GoesOn DEF local, read
<1>8. QED  BY <1>6, <1>7

-----------------------------------------------------------------------------
(* Publication.                                                            *)

\* A step of one writer on its own temporary file or the published one.
LEMMA Publishes ==
  ASSUME IInv, NEW w \in Writer, NEW n \in Local, writer' = [writer EXCEPT ![w] = n], Right(n)',
         n.phase # "idle" => n.call = writer[w].call,
         writer[w].phase # "idle", n.phase # "checking",
         UNCHANGED <<orderVars, repo, calls, moves>>,
         temporaries' \in SUBSET [call : Call, whole : BOOLEAN],
         \A t \in temporaries' \ temporaries : t.call = writer[w].call,
         file' = file \/ (file = {} /\ \E m \in Manifest : file' = {m}),
         FileRight'
  PROVE  IInv'
<1>1. calls \in Nat  BY StackManifestAssumption DEF IInv, TypeOK, Call
<1>2. \A v \in Writer \ {w} : writer[v].phase # "idle" => writer[v].call # writer[w].call
  BY DEF IInv, CallsDistinct
<1>3. ASSUME NEW i \in Local, NEW v \in Writer \ {w}, i = writer[v]
      PROVE  Right(i)'
  <2>1. Right(i)  BY <1>3, Mine
  <2>2. i.phase = "written" => i.call # writer[w].call  BY <1>2, <1>3
  <2>3. file \subseteq file'  OBVIOUS
  <2>4. nodes' = nodes /\ calls' = calls  BY DEF orderVars
  <2>5. QED  BY <1>1, <2>1, <2>2, <2>3, <2>4, Kept
<1>4. n.phase # "idle" =>
          \A v \in Writer \ {w} : writer[v].phase # "idle" => writer[v].call # n.call
  BY <1>2
<1>5. /\ writer' \in [Writer -> Local]
      /\ \A v \in Writer : Right(writer[v])'
      /\ CallsDistinct'
  BY <1>3, <1>4, OwnStep
<1>6. OrderInv'  BY OrderNextInv DEF IInv
<1>7. file' \in SUBSET Manifest /\ \A m, k \in file' : m = k  BY DEF IInv, TypeOK
<1>8. TypeOK'  BY <1>5, <1>6, <1>7 DEF IInv, TypeOK, OrderInv
<1>9. QED  BY <1>5, <1>6, <1>8 DEF IInv

LEMMA LookForFileStep ==
  ASSUME IInv, NEW w \in Writer, LookForFile(w)
  PROVE  IInv'
<1>1. PICK i \in Local : i = writer[w] /\ Right(i)  BY Mine
<1>2. i.phase = "sealed"  BY <1>1 DEF LookForFile
<1>3. PICK n : n = [i EXCEPT !.phase = "looked"]  OBVIOUS
<1>4. /\ n \in Local /\ n.phase = "looked" /\ n.call = i.call /\ n.ready = i.ready
      /\ n.records = i.records /\ n.outcome = i.outcome
  BY <1>3 DEF Local, Phase
<1>5. Right(n)
  BY <1>1, <1>2, <1>4 DEF Right, Walks, Checked, Sealed, Numbered, Whole, Stays
<1>6. writer' = [writer EXCEPT ![w] = n] /\ UNCHANGED local
  BY <1>1, <1>3 DEF LookForFile
<1>7. QED  BY <1>1, <1>2, <1>4, <1>5, <1>6, GoesOn DEF local, read

LEMMA OpenTemporaryStep ==
  ASSUME IInv, NEW w \in Writer, OpenTemporary(w)
  PROVE  IInv'
<1>1. PICK i \in Local : i = writer[w] /\ Right(i)  BY Mine
<1>2. i.phase = "looked"  BY <1>1 DEF OpenTemporary
<1>3. PICK n : n = [i EXCEPT !.phase = "opened"]  OBVIOUS
<1>4. /\ n \in Local /\ n.phase = "opened" /\ n.call = i.call /\ n.ready = i.ready
      /\ n.records = i.records /\ n.outcome = i.outcome
  BY <1>3 DEF Local, Phase
<1>5. /\ writer' = [writer EXCEPT ![w] = n] /\ UNCHANGED <<keep, file>>
      /\ temporaries' = temporaries \cup {[call |-> i.call, whole |-> FALSE]}
  BY <1>1, <1>3 DEF OpenTemporary
<1>6. Right(n)'
  BY <1>1, <1>2, <1>4, <1>5 DEF Right, Walks, Checked, Sealed, Numbered, Whole, Stays, keep
<1>7. /\ temporaries' \in SUBSET [call : Call, whole : BOOLEAN]
      /\ \A t \in temporaries' \ temporaries : t.call = i.call
  <2>1. i.call \in Call  BY DEF Local
  <2>2. temporaries \in SUBSET [call : Call, whole : BOOLEAN]  BY DEF IInv, TypeOK
  <2>3. PICK k : k = [call |-> i.call, whole |-> FALSE]  OBVIOUS
  <2>4. k \in [call : Call, whole : BOOLEAN] /\ k.call = i.call  BY <2>1, <2>3
  <2>5. temporaries' \subseteq temporaries \cup {k}  BY <1>5, <2>3
  <2>6. QED  BY <2>2, <2>4, <2>5
<1>8. FileRight'  BY <1>5 DEF IInv, FileRight, Installable
<1>9. UNCHANGED <<orderVars, repo, calls, moves>> /\ file' = file  BY <1>5 DEF keep
<1>10. /\ \A t \in temporaries' \ temporaries : t.call = writer[w].call
       /\ n.call = writer[w].call /\ writer[w].phase # "idle" /\ n.phase # "checking"
  BY <1>1, <1>2, <1>4, <1>7
<1>11. temporaries' \in SUBSET [call : Call, whole : BOOLEAN]  BY <1>7
<1>12. writer' = [writer EXCEPT ![w] = n]  BY <1>5
<1>13. QED  BY <1>4, <1>6, <1>8, <1>9, <1>10, <1>11, <1>12, Publishes

LEMMA WriteTemporaryStep ==
  ASSUME IInv, NEW w \in Writer, WriteTemporary(w)
  PROVE  IInv'
<1>1. PICK i \in Local : i = writer[w] /\ Right(i)  BY Mine
<1>2. i.phase = "opened"  BY <1>1 DEF WriteTemporary
<1>3. PICK n : n = [i EXCEPT !.phase = "written"]  OBVIOUS
<1>4. /\ n \in Local /\ n.phase = "written" /\ n.call = i.call /\ n.ready = i.ready
      /\ n.records = i.records /\ n.outcome = i.outcome
  BY <1>3 DEF Local, Phase
<1>5. /\ writer' = [writer EXCEPT ![w] = n] /\ UNCHANGED <<keep, file>>
      /\ temporaries' = {t \in temporaries : t.call # i.call}
                            \cup {[call |-> i.call, whole |-> TRUE]}
  BY <1>1, <1>3 DEF WriteTemporary, OthersTemporaries
<1>6. Right(n)'
  BY <1>1, <1>2, <1>4, <1>5 DEF Right, Walks, Checked, Sealed, Numbered, Whole, Stays, keep
<1>7. /\ temporaries' \in SUBSET [call : Call, whole : BOOLEAN]
      /\ \A t \in temporaries' \ temporaries : t.call = i.call
  <2>1. i.call \in Call  BY DEF Local
  <2>2. temporaries \in SUBSET [call : Call, whole : BOOLEAN]  BY DEF IInv, TypeOK
  <2>3. PICK k : k = [call |-> i.call, whole |-> TRUE]  OBVIOUS
  <2>4. k \in [call : Call, whole : BOOLEAN] /\ k.call = i.call  BY <2>1, <2>3
  <2>5. temporaries' \subseteq temporaries \cup {k}  BY <1>5, <2>3
  <2>6. QED  BY <2>2, <2>4, <2>5
<1>8. FileRight'  BY <1>5 DEF IInv, FileRight, Installable
<1>9. UNCHANGED <<orderVars, repo, calls, moves>> /\ file' = file  BY <1>5 DEF keep
<1>10. /\ \A t \in temporaries' \ temporaries : t.call = writer[w].call
       /\ n.call = writer[w].call /\ writer[w].phase # "idle" /\ n.phase # "checking"
  BY <1>1, <1>2, <1>4, <1>7
<1>11. temporaries' \in SUBSET [call : Call, whole : BOOLEAN]  BY <1>7
<1>12. writer' = [writer EXCEPT ![w] = n]  BY <1>5
<1>13. QED  BY <1>4, <1>6, <1>8, <1>9, <1>10, <1>11, <1>12, Publishes

LEMMA LinkStep ==
  ASSUME IInv, NEW w \in Writer, Link(w)
  PROVE  IInv'
<1>1. PICK i \in Local : i = writer[w] /\ Right(i)  BY Mine
<1>2. i.phase = "written"  BY <1>1 DEF Link
<1>3. PICK n : n = [i EXCEPT !.phase = "linked"]  OBVIOUS
<1>4. /\ n \in Local /\ n.phase = "linked" /\ n.call = i.call /\ n.ready = i.ready
      /\ n.records = i.records /\ n.outcome = i.outcome
  BY <1>3 DEF Local, Phase
<1>5. PICK t \in temporaries : t.call = i.call /\ file' = {Published(w, t.whole)}
  BY <1>1 DEF Link
<1>6. t.whole = TRUE
  BY <1>1, <1>2, <1>5 DEF Right, Whole, IInv, TypeOK
<1>7. PICK m : m = [call |-> i.call, ready |-> i.ready, records |-> i.records, whole |-> TRUE]
  OBVIOUS
<1>8. /\ m \in Manifest /\ m.call = i.call /\ m.ready = i.ready /\ m.records = i.records
      /\ m.whole = TRUE
  BY <1>7 DEF Manifest, Local
<1>9. /\ writer' = [writer EXCEPT ![w] = n] /\ UNCHANGED <<keep, temporaries>>
      /\ file = {} /\ file' = {m}
  BY <1>1, <1>3, <1>5, <1>6, <1>7 DEF Link, Published
<1>10. Right(n)'
  BY <1>1, <1>2, <1>4, <1>8, <1>9
  DEF Right, Walks, Checked, Sealed, Numbered, Whole, Stays, keep
<1>11. FileRight'
  <2>1. m.ready => Installable(m.records)
    BY <1>1, <1>8 DEF Right, Sealed
  <2>2. QED  BY <1>8, <1>9, <2>1 DEF FileRight
<1>12. temporaries' \in SUBSET [call : Call, whole : BOOLEAN]
  BY <1>9 DEF IInv, TypeOK
<1>13. QED  BY <1>1, <1>2, <1>4, <1>8, <1>9, <1>10, <1>11, <1>12, Publishes DEF keep

\* A call ends: its temporary file goes, and the published one stays.
LEMMA CallEnds ==
  ASSUME IInv, NEW w \in Writer, NEW v \in {"written", "raised"},
         writer[w].phase # "idle", v = "written" => writer[w].phase = "linked",
         temporaries' = OthersTemporaries(w),
         writer' = [writer EXCEPT ![w] = [Idle EXCEPT !.call = writer[w].call, !.outcome = v]],
         UNCHANGED <<keep, file>>
  PROVE  IInv'
<1>1. PICK i \in Local : i = writer[w] /\ Right(i)  BY Mine
<1>2. PICK n : n = [Idle EXCEPT !.call = i.call, !.outcome = v]  OBVIOUS
<1>3. /\ n \in Local /\ n.phase = "idle" /\ n.call = i.call /\ n.ready = FALSE /\ n.outcome = v
  BY <1>2, IdleTypes DEF Local
<1>4. writer' = [writer EXCEPT ![w] = n]  BY <1>1, <1>2
<1>5. Right(n)'
  BY <1>1, <1>3 DEF Right, Walks, Checked, Sealed, Numbered, Whole, Stays, keep
<1>6. temporaries' \in SUBSET temporaries  BY DEF OthersTemporaries
<1>7. temporaries' \in SUBSET [call : Call, whole : BOOLEAN]  BY <1>6 DEF IInv, TypeOK
<1>8. FileRight'  BY DEF IInv, FileRight, Installable
<1>9. n.phase # "checking" /\ \A t \in temporaries' \ temporaries : t.call = writer[w].call
  BY <1>3, <1>6
<1>10. UNCHANGED <<orderVars, repo, calls, moves>> /\ file' = file  BY DEF keep
<1>11. QED  BY <1>3, <1>4, <1>5, <1>7, <1>8, <1>9, <1>10, Publishes

LEMMA DieStep ==
  ASSUME IInv, NEW w \in Writer, Die(w)
  PROVE  IInv'
<1>1. Right(Idle)
  <2>1. calls >= 0  BY StackManifestAssumption DEF IInv, TypeOK, Call
  <2>2. QED
    BY <2>1, IdleTypes DEF Right, Walks, Checked, Sealed, Numbered, Whole, Stays
<1>2. QED  BY <1>1, IdleTypes, GoesOn DEF Die

-----------------------------------------------------------------------------
(* People in the repositories.                                             *)

\* What people declare are requirements.
LEMMA RequireNowType ==
  ASSUME NEW p \in Project, NEW names \in SUBSET Name, NEW heads,
         \A q \in Project : heads[q] \in 0..MaxHead
  PROVE  RequireNow(p, names, heads) \in SUBSET Requirement
<1>1. 0 \in 0..MaxHead  BY StackManifestAssumption
<1>2. ASSUME NEW n \in names
      PROVE  [on |-> n, at |-> IF n \in Project THEN heads[n] ELSE 0] \in Requirement
  BY <1>1 DEF Requirement
<1>3. QED  BY <1>2 DEF RequireNow

LEMMA PeopleStep ==
  ASSUME IInv, People
  PROVE  IInv'
<1>1. moves' \in 0..MaxMoves /\ UNCHANGED process
  <2>1. moves < MaxMoves /\ moves' = moves + 1 /\ UNCHANGED process
    BY DEF People, Edit, Commit
  <2>2. moves \in 0..MaxMoves  BY DEF IInv, TypeOK
  <2>3. QED  BY <2>1, <2>2, StackManifestAssumption
<1>2. repo' \in [Project -> Repository]
  <2>1. ASSUME NEW p \in Project, NEW names \in SUBSET Name, NEW whole \in BOOLEAN,
               Edit(p, names, whole)
        PROVE  repo' \in [Project -> Repository]
    <3>1. PICK heads : heads = [q \in Project |-> repo[q].head + (IF q = p THEN 1 ELSE 0)]
      OBVIOUS
    <3>2. \A q \in Project : heads[q] \in 0..MaxHead
      <4> SUFFICES ASSUME NEW q \in Project PROVE heads[q] \in 0..MaxHead
        OBVIOUS
      <4>1. PICK h \in 1..MaxHead : h = repo[q].head
        BY DEF IInv, TypeOK, Repository, Head
      <4>2. q = p => h < MaxHead  BY <2>1, <4>1 DEF Edit
      <4>3. heads[q] = h + (IF q = p THEN 1 ELSE 0)  BY <3>1, <4>1
      <4>4. QED  BY <4>1, <4>2, <4>3, StackManifestAssumption
    <3>3. PICK c \in Content : c = [requires |-> RequireNow(p, names, heads), whole |-> whole]
      BY <3>2, RequireNowType DEF Content
    <3>4. repo' = [repo EXCEPT ![p].work = c]  BY <2>1, <3>1, <3>3 DEF Edit
    <3>5. PICK r \in Repository : r = repo[p]  BY DEF IInv, TypeOK
    <3>6. PICK k \in Repository : k = [r EXCEPT !.work = c]  BY DEF Repository
    <3>7. repo' = [repo EXCEPT ![p] = k]  BY <3>4, <3>5, <3>6
    <3>8. QED  BY <3>7 DEF IInv, TypeOK
  <2>2. ASSUME NEW p \in Project, NEW tag \in BOOLEAN, Commit(p, tag)
        PROVE  repo' \in [Project -> Repository]
    <3>1. PICK r \in Repository : r = repo[p]  BY DEF IInv, TypeOK
    <3>2. PICK h \in Head : h = r.head + 1
      <4>1. r.head \in 1..MaxHead /\ r.head < MaxHead  BY <2>2, <3>1 DEF Repository, Head, Commit
      <4>2. QED  BY <4>1, StackManifestAssumption DEF Head
    <3>3. PICK k : k = [head |-> h, committed |-> r.work, work |-> r.work,
                        tags |-> IF tag THEN r.tags \cup {h} ELSE r.tags]
      OBVIOUS
    <3>4. k \in Repository  BY <3>3 DEF Repository
    <3>5. repo' = [repo EXCEPT ![p] = k]  BY <2>2, <3>1, <3>2, <3>3 DEF Commit, IInv, TypeOK
    <3>6. QED  BY <3>4, <3>5 DEF IInv, TypeOK
  <2>3. QED  BY <2>1, <2>2 DEF People
<1>3. OrderInv'  BY <1>1, OrderNextInv DEF IInv, process
<1>4. TypeOK'  BY <1>1, <1>2, <1>3 DEF IInv, TypeOK, OrderInv, process
<1>5. (\A w \in Writer : Right(writer[w]))' /\ CallsDistinct' /\ FileRight'
  BY <1>1, OthersKept DEF process, orderVars
<1>6. QED  BY <1>3, <1>4, <1>5 DEF IInv

-----------------------------------------------------------------------------
(* The theorems.                                                           *)

LEMMA InitInv == Init => IInv
<1> SUFFICES ASSUME Init PROVE IInv
  OBVIOUS
<1>1. OrderInv  BY OrderInitInv DEF Init
<1>2. repo \in [Project -> Repository]
  <2>1. PICK names \in [Project -> SUBSET Name] :
            repo = [p \in Project |->
                LET c == [requires |-> RequireNow(p, names[p], [q \in Project |-> 1]), whole |-> TRUE]
                IN  [head |-> 1, committed |-> c, work |-> c, tags |-> {1}]]
    BY DEF Init
  <2>2. ASSUME NEW p \in Project
        PROVE  [requires |-> RequireNow(p, names[p], [q \in Project |-> 1]), whole |-> TRUE] \in Content
    <3>1. \A q \in Project : [x \in Project |-> 1][q] \in 0..MaxHead
      BY StackManifestAssumption
    <3>2. RequireNow(p, names[p], [q \in Project |-> 1]) \in SUBSET Requirement
      BY <3>1, RequireNowType
    <3>3. QED  BY <3>2 DEF Content
  <2>3. 1 \in Head  BY StackManifestAssumption DEF Head
  <2>4. QED  BY <2>1, <2>2, <2>3 DEF Repository
<1>3. TypeOK  BY <1>1, <1>2, IdleTypes DEF Init, TypeOK, OrderInv, Call
<1>4. Right(Idle)
  <2>1. calls >= 0  BY StackManifestAssumption DEF Init
  <2>2. QED
    BY <2>1, IdleTypes DEF Right, Walks, Checked, Sealed, Numbered, Whole, Stays
<1>5. \A w \in Writer : writer[w] = Idle  BY DEF Init
<1>6. CallsDistinct /\ FileRight  BY <1>5, IdleTypes DEF Init, CallsDistinct, FileRight
<1>7. QED  BY <1>1, <1>3, <1>4, <1>5, <1>6 DEF IInv

LEMMA NextInv == IInv /\ [Next]_vars => IInv'
<1> SUFFICES ASSUME IInv, [Next]_vars PROVE IInv'
  OBVIOUS
<1>1. ASSUME NEW w \in Writer, Discover(w) PROVE IInv'
  BY <1>1, StartDiscoveryStep, ReadMetadataStep, ReadHeadStep, ReadStatusStep, ReadTagsStep,
     StartCheckingStep, SealStep DEF Discover
<1>2. ASSUME NEW w \in Writer, EndWriting(w) PROVE IInv'
  BY <1>2, CallEnds DEF EndWriting
<1>3. ASSUME NEW w \in Writer, WriterRaises(w) PROVE IInv'
  BY <1>3, CallEnds DEF WriterRaises
<1>4. ASSUME NEW w \in Writer, Write(w) PROVE IInv'
  BY <1>2, <1>3, <1>4, LookForFileStep, OpenTemporaryStep, WriteTemporaryStep, LinkStep, DieStep
  DEF Write
<1>5. CASE UNCHANGED vars
  <2>1. nodes' = nodes /\ UNCHANGED <<writer, file, temporaries, calls>>
    BY <1>5 DEF vars, orderVars, stackVars
  <2>2. (\A w \in Writer : Right(writer[w]))' /\ CallsDistinct' /\ FileRight'
    BY <2>1, OthersKept
  <2>3. OrderInv'  BY <1>5, OrderNextInv DEF IInv, vars
  <2>4. TypeOK'  BY <1>5, <2>3 DEF IInv, TypeOK, OrderInv, vars, stackVars
  <2>5. QED  BY <2>2, <2>3, <2>4 DEF IInv
<1>6. QED  BY <1>1, <1>4, <1>5, PeopleStep, CheckingStep DEF Next

\* Every reachable state satisfies the inductive invariant.
THEOREM InvariantHolds == Spec => []IInv
BY InitInv, NextInv, PTL DEF Spec

\* Every variable holds a value of its kind, whatever people, writers and
\* crashes do.
THEOREM TypeCorrect == Spec => []TypeOK
<1>1. IInv => TypeOK  BY DEF IInv
<1>2. QED  BY <1>1, InvariantHolds, PTL

\* write_stack_manifest keeps its word: no part of a manifest under the name,
\* and a manifest reported as written is there for good.
THEOREM ManifestsStay == Spec => []WrittenStays
<1>1. IInv => WrittenStays  BY DEF IInv, FileRight, Right, Stays, WrittenStays
<1>2. QED  BY <1>1, InvariantHolds, PTL

-----------------------------------------------------------------------------
(* The order of installation.                                              *)

\* The first k projects of an order: A, in the order t.
Begins(records, k, A, t) ==
    /\ Cardinality(A) = k /\ t \in [1..k -> A]
    /\ \A p \in A : \E i \in 1..k : t[i] = p
    /\ \A i \in 1..k : \A r \in records[t[i]].metadata.requires : \E j \in 1..(i - 1) : t[j] = r.on

\* As long as projects are left, one of them requires only projects that come
\* before it.
LEMMA OrderGrows ==
    ASSUME NEW records \in Records, Installable(records),
           NEW k \in Nat, k < Cardinality(Project),
           NEW A \in SUBSET Project, NEW t, Begins(records, k, A, t)
    PROVE  \E B \in SUBSET Project : \E u : Begins(records, k + 1, B, u)
<1>1. /\ Cardinality(A) = k /\ t \in [1..k -> A] /\ \A p \in A : \E i \in 1..k : t[i] = p
      /\ \A i \in 1..k : \A r \in records[t[i]].metadata.requires :
             \E j \in 1..(i - 1) : t[j] = r.on
    BY DEF Begins
<1> DEFINE S == Project \ A
<1>2. S \in (SUBSET Project) \ {{}}
    BY <1>1
<1>3. PICK p \in S : \A r \in records[p].metadata.requires : r.on \notin S
    BY <1>2 DEF Installable
<1>4. \A r \in records[p].metadata.requires : r.on \in A
    BY <1>3 DEF Installable
<1> DEFINE B == A \cup {p}
           u == [i \in 1..(k + 1) |-> IF i = k + 1 THEN p ELSE t[i]]
<1>5. B \in SUBSET Project /\ p \notin A
    BY <1>3
<1>6. Cardinality(B) = k + 1
    <2>1. IsFiniteSet(A)
        BY FS_Subset, DependencyOrderAssumption
    <2> QED
        BY <2>1, <1>1, <1>5, FS_AddElement
<1>7. u \in [1..(k + 1) -> B]
    BY <1>1
<1>8. \A i \in 1..k : u[i] = t[i] /\ i \in 1..(k + 1)
    OBVIOUS
<1>9. u[k + 1] = p /\ k + 1 \in 1..(k + 1)
    OBVIOUS
<1> HIDE DEF u
<1>10. \A q \in B : \E i \in 1..(k + 1) : u[i] = q
    BY <1>1, <1>8, <1>9
<1>11. ASSUME NEW i \in 1..(k + 1), NEW r \in records[u[i]].metadata.requires
       PROVE  \E j \in 1..(i - 1) : u[j] = r.on
    <2>1. CASE i = k + 1
        <3>1. r.on \in A
            BY <2>1, <1>4, <1>9, <1>11
        <3>2. PICK j \in 1..k : t[j] = r.on
            BY <3>1, <1>1
        <3> QED
            BY <3>2, <2>1, <1>8
    <2>2. CASE i # k + 1
        <3>1. i \in 1..k
            BY <2>2
        <3>2. PICK j \in 1..(i - 1) : t[j] = r.on
            BY <3>1, <1>1, <1>8, <1>11
        <3>3. j \in 1..k
            BY <3>1, <3>2
        <3> QED
            BY <3>2, <3>3, <1>8
    <2> QED
        BY <2>1, <2>2
<1>12. Begins(records, k + 1, B, u)
    <2> HIDE DEF B
    <2> QED
        BY <1>6, <1>7, <1>10, <1>11 DEF Begins
<1> HIDE DEF B
<1> QED
    BY <1>5, <1>12

\* Records without a knot have an order.
LEMMA InstallableHasOrder ==
    ASSUME NEW records \in Records, Installable(records)
    PROVE  \E s \in [1..Cardinality(Project) -> Project] : InstallationOrder(records, s)
<1> DEFINE N == Cardinality(Project)
           Begun(k) == \E A \in SUBSET Project : \E t : Begins(records, k, A, t)
           T == {k \in 0..N : ~ Begun(k)}
<1>1. N \in Nat /\ IsFiniteSet(Project)
    BY FS_CardinalityType, DependencyOrderAssumption
<1>2. Begun(0)
    <2>1. Cardinality({}) = 0
        BY FS_EmptySet
    <2>2. Begins(records, 0, {}, [i \in 1..0 |-> 0])
        BY <2>1 DEF Begins
    <2> QED
        BY <2>2
<1>3. \A k \in Nat : k < N /\ Begun(k) => Begun(k + 1)
    BY OrderGrows
<1> HIDE DEF Begun
<1>4. T = {}
    <2> SUFFICES ASSUME T # {} PROVE FALSE
        OBVIOUS
    <2>1. T \in SUBSET Nat
        BY <1>1
    <2>2. PICK k \in T : \A m \in T : k <= m
        BY <2>1, LeastNumber
    <2>3. k # 0
        BY <2>2, <1>2
    <2>4. k - 1 \in 0..N /\ k - 1 < N /\ k - 1 \in Nat /\ k - 1 \notin T
        BY <1>1, <2>2, <2>3
    <2>5. Begun((k - 1) + 1)
        BY <2>4, <1>3
    <2> QED
        BY <1>1, <2>2, <2>5
<1>5. Begun(N)
    BY <1>1, <1>4
<1>6. PICK A \in SUBSET Project : \E t : Begins(records, N, A, t)
    BY <1>5 DEF Begun
<1>7. PICK t : Begins(records, N, A, t)
    BY <1>6
<1>8. A = Project
    BY <1>1, <1>7, FS_Subset DEF Begins
<1>9. t \in [1..N -> Project] /\ InstallationOrder(records, t)
    BY <1>1, <1>7, <1>8 DEF Begins, InstallationOrder
<1> QED
    BY <1>9

\* What discovery and validation publish as a release can be installed, however
\* many projects there are and whatever is committed while it is discovered.
THEOREM ReleasesInstallable == Spec => []ReleaseInstallable
<1>1. ASSUME IInv PROVE ReleaseInstallable
  <2> SUFFICES ASSUME NEW m \in file, m.ready
               PROVE  /\ \A p \in Project : \A r \in m.records[p].metadata.requires :
                             r.on \in Project /\ m.records[r.on].commit = r.at
                      /\ \E s \in [1..Cardinality(Project) -> Project] : InstallationOrder(m.records, s)
    BY DEF ReleaseInstallable
  <2>1. Installable(m.records)  BY <1>1 DEF IInv, FileRight
  <2>2. m.records \in Records  BY <1>1 DEF IInv, TypeOK, Manifest
  <2>3. QED  BY <2>1, <2>2, InstallableHasOrder DEF Installable
<1>2. QED  BY <1>1, InvariantHolds, PTL

\* The verdict on a draft is right by the definition of a cycle: some project
\* depends on itself in one step or several.
THEOREM VerdictsRight == Spec => []VerdictMatchesReference
<1>1. IInv => VerdictMatchesReference  BY InvMatches DEF IInv
<1>2. QED  BY <1>1, InvariantHolds, PTL
=============================================================================
