------------------------- MODULE EnvironmentProofs --------------------------
(***************************************************************************)
(* Proofs about the environments of a release: what check_runtime says of  *)
(* one (RuntimeReadiness), and who has made one (Acceptance).              *)
(*                                                                         *)
(* A constraint that is decided without the patch is decided for every     *)
(* patch, unless a clause is finer than a patch, and that exception is     *)
(* exact; the loop over the requirements stops at the least closed         *)
(* requests; an environment is called ready only if it is right in every   *)
(* world that its metadata leaves possible, and blocked only for a cause.  *)
(*                                                                         *)
(* An environment is made by at most one call: mkdir gives the directory   *)
(* to one builder, and what it leaves behind is never taken up by another. *)
(* What a verification has found ready was finished by its only builder,   *)
(* or has lost it, so that nobody works on it any more.                    *)
(*                                                                         *)
(* Accepted evidence is about outputs of its own run if the cases start    *)
(* without outputs and nobody else writes them: the runs' commands write   *)
(* each in its own call, and a call passes only what it has read (Attested)*)
(***************************************************************************)
EXTENDS RuntimeReadiness, Acceptance, FiniteSetTheorems, TLAPS

-----------------------------------------------------------------------------
(* Versions.                                                               *)

\* A clause that is safe for a family says the same of two of its patches.
LEMMA SafeClause ==
    ASSUME NEW c \in Constraint, NEW v \in Interpreter, NEW w \in Interpreter,
           v.major = w.major, v.minor = w.minor,
           SameFamily(c, v) => SafeSameFamily(c), ~ FinerThanPatch(c, v), v.patch = 0
    PROVE  Accepts(c, v) <=> Accepts(c, w)
<1>1. /\ c.at \in Version /\ c.parts \in Nat \ {0} /\ c.wildcard \in BOOLEAN /\ c.op \in Operator
      /\ c.op = "~=" => c.parts > 1
      /\ c.wildcard => c.op \in {"==", "!="}
      /\ c.parts < 4 => c.at.rest = 0
    BY DEF Constraint
<1>2. /\ c.at.major \in Nat /\ c.at.minor \in Nat /\ c.at.patch \in Nat /\ c.at.rest \in Nat
      /\ v.major \in Nat /\ v.minor \in Nat /\ v.rest = 0
      /\ w.major \in Nat /\ w.minor \in Nat /\ w.patch \in Nat /\ w.rest = 0
    BY <1>1 DEF Interpreter, Version
<1>3. CASE SameFamily(c, v)
    <2>1. SafeSameFamily(c)
        BY <1>3
    <2>2. CASE c.wildcard /\ c.parts <= 2
        <3>1. c.op \in {"==", "!="}
            BY <2>2 DEF Constraint
        <3>2. Agree(v, c.at, c.parts) /\ Agree(w, c.at, c.parts)
            BY <1>1, <1>2, <1>3, <2>2 DEF SameFamily, Agree
        <3>3. Equals(c, v) /\ Equals(c, w)
            BY <2>2, <3>2 DEF Equals
        <3> QED
            BY <3>1, <3>3 DEF Accepts
    <2>3. CASE c.op \in {">=", "<", "~="} /\ c.at.patch = 0
        <3>1. ~ c.wildcard
            BY <1>1, <2>3
        <3>2. CASE c.op \in {">=", "<"}
            <4>1. c.at.rest = 0
                BY <1>2, <1>3, <2>3, <3>1, <3>2 DEF FinerThanPatch
            <4> QED
                BY <1>2, <1>3, <2>3, <3>2, <4>1 DEF SameFamily, Accepts, Before
        <3>3. CASE c.op = "~=" /\ c.at.rest > 0
            BY <1>1, <1>2, <1>3, <2>3, <3>3 DEF SameFamily, Accepts, Before, Agree
        <3>4. CASE c.op = "~=" /\ c.at.rest = 0
            <4>1. c.parts \in 2..3
                BY <1>1, <1>3, <2>3, <3>1, <3>4 DEF FinerThanPatch
            <4> QED
                BY <1>1, <1>2, <1>3, <2>3, <3>4, <4>1 DEF SameFamily, Accepts, Before, Agree
        <3> QED
            BY <1>2, <2>3, <3>2, <3>3, <3>4
    <2> QED
        BY <2>1, <2>2, <2>3 DEF SafeSameFamily
<1>4. CASE ~ SameFamily(c, v)
    BY <1>1, <1>2, <1>4 DEF SameFamily, Accepts, Equals, Agree, Before, Operator
<1> QED
    BY <1>3, <1>4

\* What is answered without the patch is right for every patch of the family, if no
\* clause is finer than a patch.
THEOREM PatchNeverGuessed ==
    ASSUME NEW clauses \in SUBSET Constraint, NEW v \in Interpreter, NEW w \in Interpreter,
           v.major = w.major, v.minor = w.minor,
           VersionMatches(clauses, v, FALSE) # "undecided",
           \A c \in clauses : ~ FinerThanPatch(c, v)
    PROVE  VersionMatches(clauses, v, FALSE) = Answer(AcceptsAll(clauses, w))
<1> DEFINE first == FirstPatch(v)
<1>1. /\ first \in Interpreter
      /\ first.major = w.major /\ first.minor = w.minor /\ first.patch = 0
    BY DEF Interpreter, Version, FirstPatch
<1>2. Decides(clauses, v) /\ VersionMatches(clauses, v, FALSE) = Answer(AcceptsAll(clauses, first))
    BY DEF VersionMatches
<1>3. \A c \in clauses : (SameFamily(c, first) => SafeSameFamily(c)) /\ ~ FinerThanPatch(c, first)
    BY <1>2 DEF Decides, SameFamily, FirstPatch, FinerThanPatch
<1>4. \A c \in clauses : Accepts(c, first) <=> Accepts(c, w)
    BY <1>1, <1>3, SafeClause
<1>5. AcceptsAll(clauses, first) <=> AcceptsAll(clauses, w)
    BY <1>4 DEF AcceptsAll
<1> QED
    BY <1>2, <1>5 DEF Answer

\* The exception is exact: a clause finer than a patch is answered without the
\* patch, and whatever the answer, some patch of the family belies it.
THEOREM FinerMisread ==
    ASSUME NEW c \in Constraint, NEW v \in Interpreter, FinerThanPatch(c, v)
    PROVE  /\ VersionMatches({c}, v, FALSE) # "undecided"
           /\ \E w \in Interpreter :
                  /\ w.major = v.major /\ w.minor = v.minor
                  /\ VersionMatches({c}, v, FALSE) # Answer(AcceptsAll({c}, w))
<1> DEFINE first == FirstPatch(v)
           second == [major |-> v.major, minor |-> v.minor, patch |-> 1, rest |-> 0]
<1>1. /\ c.at.major = v.major /\ c.at.minor = v.minor /\ c.at.patch = 0
      /\ c.at.rest \in Nat /\ c.parts \in Nat /\ c.op \in {"<", ">=", "~="}
      /\ v.major \in Nat /\ v.minor \in Nat
    BY DEF FinerThanPatch, SameFamily, Constraint, Version, Interpreter
<1>2. second \in Interpreter
    BY <1>1 DEF Interpreter, Version
<1>3. VersionMatches({c}, v, FALSE) = Answer(Accepts(c, first))
    <2>1. Decides({c}, v)
        BY <1>1 DEF Decides, SafeSameFamily
    <2>2. VersionMatches({c}, v, FALSE) = Answer(AcceptsAll({c}, first))
        BY <2>1 DEF VersionMatches
    <2>3. AcceptsAll({c}, first) <=> Accepts(c, first)
        BY DEF AcceptsAll
    <2> QED
        BY <2>2, <2>3 DEF Answer
<1>4. Accepts(c, first) <=> ~ Accepts(c, second)
    BY <1>1 DEF FinerThanPatch, Accepts, Before, Agree, FirstPatch
<1>5. Answer(Accepts(c, first)) # Answer(Accepts(c, second))
    BY <1>4 DEF Answer
<1>6. AcceptsAll({c}, second) <=> Accepts(c, second)
    BY DEF AcceptsAll
<1> QED
    BY <1>2, <1>3, <1>5, <1>6 DEF Answer

-----------------------------------------------------------------------------
(* check_runtime: types.                                                   *)

\* What a lock asks for is made of extras.
LEMMA SeedType ==
    ASSUME NEW items, items \subseteq LockItem
    PROVE  Seed(items) \in Requests
<1>1. \A i \in items : i.extras \subseteq Extra
    BY DEF LockItem
<1>2. \A n \in Name : UNION {i.extras : i \in {j \in items : j.name = n}} \subseteq Extra
    BY <1>1
<1> QED
    BY <1>2 DEF Seed, Requests

\* What a distribution asks for is made of extras.
LEMMA AskedType ==
    ASSUME CheckTypeOK, NEW n \in Installed, NEW m, NEW extras
    PROVE  Asked(n, m, extras) \subseteq Extra
<1>1. \A r \in installed[n].requires : r.extras \subseteq Extra
    BY DEF CheckTypeOK, Distribution, Requirement
<1> QED
    BY <1>1 DEF Asked

LEMMA CheckTypeInit == CheckInit => CheckTypeOK
<1> SUFFICES ASSUME CheckInit PROVE CheckTypeOK
    OBVIOUS
<1>1. Installed \subseteq Name /\ installed \in [Installed -> Distribution] /\ doubled \subseteq Installed
    BY DEF CheckInit, Installed
<1>2. requested \in [Name -> SUBSET Extra]
    BY DEF CheckInit, Start, Unrequested
<1>3. moves \in 0..MaxMoves
    BY ReadinessAssumption DEF CheckInit, Start
<1> QED
    BY <1>1, <1>2, <1>3 DEF CheckInit, Start, CheckTypeOK, Phase

LEMMA CheckTypeStep == CheckTypeOK /\ [CheckNext]_checkVars => CheckTypeOK'
<1> SUFFICES ASSUME CheckTypeOK, [CheckNext]_checkVars PROVE CheckTypeOK'
    OBVIOUS
<1> USE DEF CheckTypeOK, Phase, environment, files, closure, Installed
<1>1. CASE EditLock
    BY <1>1, ReadinessAssumption DEF EditLock
<1>2. CASE EditProfile
    BY <1>2, ReadinessAssumption DEF EditProfile
<1>3. CASE CheckSource
    BY <1>3 DEF CheckSource
<1>4. CASE ReadEnvironment
    BY <1>4 DEF ReadEnvironment
<1>5. CASE JudgeLock
    <2>1. lock \subseteq LockItem
        BY ReadinessAssumption
    <2>2. Active(lock) \subseteq LockItem
        BY <2>1 DEF Active
    <2>3. Seed(Active(lock)) \in [Name -> SUBSET Extra]
        BY <2>2, SeedType DEF Requests
    <2> QED
        BY <1>5, <2>2, <2>3 DEF JudgeLock
<1>6. CASE LockEmpty
    BY <1>6 DEF LockEmpty
<1>7. ASSUME NEW n \in Name, Follow(n) PROVE CheckTypeOK'
    <2>1. n \in Installed
        BY <1>7 DEF Follow
    <2>2. \A m \in Name : Asked(n, m, requested) \subseteq Extra
        BY <2>1, AskedType
    <2>3. requested' \in [Name -> SUBSET Extra]
        BY <1>7, <2>2 DEF Follow
    <2>4. changed' \in BOOLEAN
        BY <1>7 DEF Follow
    <2> QED
        BY <1>7, <2>3, <2>4 DEF Follow
<1>8. CASE NextPass
    BY <1>8 DEF NextPass
<1>9. CASE EndPasses
    BY <1>9 DEF EndPasses
<1>10. CASE Judge
    BY <1>10 DEF Judge
<1>11. CASE CheckSourceAgain
    BY <1>11 DEF CheckSourceAgain
<1>12. CASE Report
    BY <1>12 DEF Report
<1>13. CASE UNCHANGED checkVars
    BY <1>13 DEF checkVars
<1> QED
    BY <1>1, <1>2, <1>3, <1>4, <1>5, <1>6, <1>7, <1>8, <1>9, <1>10, <1>11, <1>12, <1>13 DEF CheckNext, Step

\* The check keeps its types.
THEOREM CheckTypeCorrect == CheckSpec => []CheckTypeOK
BY CheckTypeInit, CheckTypeStep, PTL DEF CheckSpec

-----------------------------------------------------------------------------
(* The requested extras.                                                   *)

Seeded == \A n \in Name : Seed(active)[n] \subseteq requested[n]

Least == \A extras \in Requests : Closed(extras) => \A n \in Name : requested[n] \subseteq extras[n]

Followed(n) == \A m \in Name : Asked(n, m, requested) \subseteq requested[m]

\* In a pass that has added nothing, what was visited has nothing left to ask.
LoopInv ==
    phase \in {"passing", "judging", "again"} =>
        /\ Seeded
        /\ Least
        /\ ~ changed => \A n \in Installed \ todo : Followed(n)
        /\ phase # "passing" => ~ changed /\ todo = {}

\* A distribution asks for no less when more is requested of it.
LEMMA AskedGrows ==
    ASSUME NEW n \in Name, NEW m, NEW small, NEW large, small[n] \subseteq large[n]
    PROVE  Asked(n, m, small) \subseteq Asked(n, m, large)
BY DEF Asked, Applies, Contexts

\* Only the environment, the active lock and the requests bear on the closure.
LEMMA ClosureStable ==
    ASSUME UNCHANGED <<environment, active>>
    PROVE  /\ \A n, m, extras : Asked(n, m, extras)' = Asked(n, m, extras)
           /\ \A extras : Closed(extras)' <=> Closed(extras)
           /\ Seed(active)' = Seed(active)
           /\ Installed' = Installed
<1> USE DEF environment
<1>1. Installed' = Installed /\ Known' = Known /\ Seed(active)' = Seed(active)
    BY DEF Installed, Known, Seed
<1>2. \A n, m, extras : Asked(n, m, extras)' = Asked(n, m, extras)
    BY <1>1 DEF Asked, Applies, Undecided, Contexts
<1>3. \A extras : Closed(extras)' <=> Closed(extras)
    BY <1>1, <1>2 DEF Closed
<1> QED
    BY <1>1, <1>2, <1>3

\* One distribution's step keeps the requests least.
LEMMA FollowLoop ==
    ASSUME CheckTypeOK, LoopInv, NEW n \in Name, Follow(n)
    PROVE  LoopInv'
<1>1. n \in Installed /\ n \in todo /\ phase = "passing" /\ phase' = "passing"
    BY DEF Follow, CheckTypeOK
<1>2. requested' = [m \in Name |-> requested[m] \cup Asked(n, m, requested)]
    BY DEF Follow
<1>3. UNCHANGED <<environment, active>>
    BY DEF Follow
<1>4. Seeded /\ Least
    BY <1>1 DEF LoopInv
<1>5. Seeded'
    BY <1>2, <1>3, <1>4, ClosureStable DEF Seeded
<1>6. Least'
    <2> SUFFICES ASSUME NEW extras \in Requests, Closed(extras), NEW m \in Name
                 PROVE  requested'[m] \subseteq extras[m]
        BY <1>3, ClosureStable DEF Least, Requests
    <2>1. requested[m] \subseteq extras[m] /\ requested[n] \subseteq extras[n]
        BY <1>4 DEF Least
    <2>2. Asked(n, m, requested) \subseteq Asked(n, m, extras)
        BY <2>1, AskedGrows
    <2>3. Asked(n, m, extras) \subseteq extras[m]
        BY <1>1 DEF Closed
    <2> QED
        BY <1>2, <2>1, <2>2, <2>3
<1>7. ASSUME ~ changed', NEW k \in Installed' \ todo'
      PROVE  Followed(k)'
    <2>1. ~ changed /\ requested' = requested
        BY <1>7 DEF Follow
    <2>2. k \in Installed /\ (k = n \/ k \notin todo)
        BY <1>3, <1>7, ClosureStable DEF Follow
    <2>3. CASE k = n
        BY <1>2, <1>3, <2>1, <2>3, ClosureStable DEF Followed
    <2>4. CASE k \notin todo
        <3>1. Followed(k)
            BY <1>1, <2>1, <2>2, <2>4 DEF LoopInv
        <3> QED
            BY <3>1, <1>3, <2>1, ClosureStable DEF Followed
    <2> QED
        BY <2>2, <2>3, <2>4
<1> QED
    BY <1>1, <1>5, <1>6, <1>7 DEF LoopInv

\* The loop begins with what the lock asks for.
LEMMA JudgeLockLoop ==
    ASSUME CheckTypeOK, JudgeLock
    PROVE  LoopInv'
<1>1. requested' = Seed(active') /\ phase' = "passing" /\ todo' = Installed /\ UNCHANGED environment
    BY DEF JudgeLock
<1>2. Seed(active)' = Seed(active') /\ Installed' = Installed
    BY <1>1 DEF Seed, Installed, environment
<1>3. Seeded'
    BY <1>1, <1>2 DEF Seeded
<1>4. Least'
    BY <1>1, <1>2 DEF Least, Closed
<1> QED
    BY <1>1, <1>2, <1>3, <1>4 DEF LoopInv

\* A step that leaves the closure alone keeps what is known of it.
LEMMA LoopStable ==
    ASSUME LoopInv, UNCHANGED <<environment, closure>>,
           phase' \in {"passing", "judging", "again"} =>
               /\ phase \in {"passing", "judging", "again"}
               /\ phase' = "passing" => phase = "passing"
               /\ phase' # "passing" => phase # "passing" \/ (~ changed /\ todo = {})
    PROVE  LoopInv'
<1>1. UNCHANGED <<environment, active>> /\ UNCHANGED <<requested, todo, changed>>
    BY DEF closure
<1>2. Seeded => Seeded'
    BY <1>1, ClosureStable DEF Seeded
<1>3. Least => Least'
    BY <1>1, ClosureStable DEF Least, Requests
<1>4. \A n : Followed(n) => Followed(n)'
    BY <1>1, ClosureStable DEF Followed
<1>5. Installed' = Installed
    BY <1>1, ClosureStable
<1> QED
    BY <1>1, <1>2, <1>3, <1>4, <1>5 DEF LoopInv

LEMMA LoopStep == CheckTypeOK /\ LoopInv /\ [CheckNext]_checkVars => LoopInv'
<1> SUFFICES ASSUME CheckTypeOK, LoopInv, [CheckNext]_checkVars PROVE LoopInv'
    OBVIOUS
<1>1. CASE EditLock \/ EditProfile \/ CheckSource \/ ReadEnvironment \/ LockEmpty \/ EndPasses
           \/ Judge \/ CheckSourceAgain \/ Report \/ UNCHANGED checkVars
    <2>1. UNCHANGED <<environment, closure>>
        BY <1>1 DEF EditLock, EditProfile, CheckSource, ReadEnvironment, LockEmpty, EndPasses, Judge,
                    CheckSourceAgain, Report, checkVars
    <2>2. phase' \in {"passing", "judging", "again"} =>
               /\ phase \in {"passing", "judging", "again"}
               /\ phase' = "passing" => phase = "passing"
               /\ phase' # "passing" => phase # "passing" \/ (~ changed /\ todo = {})
        BY <1>1 DEF EditLock, EditProfile, CheckSource, ReadEnvironment, LockEmpty, EndPasses, Judge,
                    CheckSourceAgain, Report, checkVars
    <2> QED
        BY <2>1, <2>2, LoopStable
<1>2. CASE JudgeLock
    BY <1>2, JudgeLockLoop
<1>3. CASE \E n \in Name : Follow(n)
    BY <1>3, FollowLoop
<1>4. CASE NextPass
    <2>1. UNCHANGED <<environment, active, requested>> /\ todo' = Installed /\ phase' = "passing"
        BY <1>4 DEF NextPass
    <2>2. Installed' = Installed
        BY <2>1, ClosureStable
    <2>3. Seeded' /\ Least'
        BY <1>4, <2>1, ClosureStable DEF NextPass, LoopInv, Seeded, Least, Requests
    <2> QED
        BY <2>1, <2>2, <2>3 DEF LoopInv
<1> QED
    BY <1>1, <1>2, <1>3, <1>4 DEF CheckNext, Step

LEMMA LoopExact == CheckTypeOK /\ LoopInv => ExtrasRight
<1> SUFFICES ASSUME LoopInv, Settled PROVE Closed(requested) /\ Least
    BY DEF ExtrasRight, Least
<1>1. Seeded /\ Least /\ \A n \in Installed : Followed(n)
    BY DEF LoopInv, Settled
<1> QED
    BY <1>1 DEF Closed, Seeded, Followed

\* Whatever distributions are installed, however their extras ask for each other
\* and in whatever order they are visited, the loop stops at the least closed
\* requests.
THEOREM ExtrasAlwaysRight == CheckSpec => []ExtrasRight
<1>1. CheckInit => LoopInv
    BY DEF CheckInit, Start, LoopInv
<1> QED
    BY <1>1, CheckTypeInit, CheckTypeStep, LoopStep, LoopExact, PTL DEF CheckSpec

-----------------------------------------------------------------------------
(* What "ready" means.                                                     *)

\* The lock as pinned has been judged, and nothing was wrong with it.
LockJudged ==
    /\ active = Active(pinned)
    /\ issues = {} =>
           /\ LockIssues(pinned) = {} /\ OwnIssues = {} /\ doubled = {}
           /\ PythonIssues(specifier, "profile") = {}

\* The requests are exact, and nothing was wrong with a distribution.
AllJudged ==
    /\ LockJudged
    /\ Closed(requested) /\ Least
    /\ issues = {} => \A n \in Installed :
           PythonIssues(installed[n].python, n) = {} /\ RequirementIssues(n) = {}

\* Another lock was judged; putting the pinned one back takes a second edit.
Misled == moves >= 1 /\ (lock = pinned => moves >= 2)

\* What has been established at each phase.
JudgedInv ==
    /\ moves = 0 => lock = pinned
    /\ phase = "lock" /\ issues = {} => PythonIssues(specifier, "profile") = {}
    /\ phase \in {"passing", "judging"} => LockJudged \/ Misled
    /\ phase = "again" => AllJudged \/ Misled
    /\ phase \in {"report", "ready"} /\ issues = {} /\ moves < 2 => AllJudged
    /\ phase = "ready" => issues = {}

\* A marker that is decided says the same in each world left possible.
LEMMA DecidedMarker ==
    ASSUME CheckTypeOK, NEW marker \in Marker, ~ Undecided(marker), NEW w \in Possible,
           NEW contexts, contexts \subseteq Context
    PROVE  Applies(marker, contexts) <=> Holds(marker, w, contexts)
<1>1. w \in World /\ world \in World
    BY DEF Possible, CheckTypeOK
<1>2. \A f \in marker.cites : Value(w, f) = Value(world, f)
    BY DEF Undecided, Possible
<1>3. \A x \in Context : <<w, x>> \in marker.holds <=> <<world, x>> \in marker.holds
    BY <1>1, <1>2 DEF Marker
<1> QED
    BY <1>3 DEF Applies, Holds

\* A Python constraint without issue accepts every patch left possible.
LEMMA PythonDecided ==
    ASSUME CheckTypeOK, NEW clauses \in SUBSET Constraint, NEW tag, PythonIssues(clauses, tag) = {},
           NEW w \in Possible, "patch" \in Known \/ \A c \in clauses : ~ FinerThanPatch(c, Family)
    PROVE  AcceptsAll(clauses, PythonIn(w))
<1> DEFINE here == PythonIn(world)
           there == PythonIn(w)
<1>1. w \in World /\ world \in World /\ w.patch \in Nat /\ world.patch \in Nat
    BY ReadinessAssumption DEF Possible, CheckTypeOK, World
<1>2. /\ here \in Interpreter /\ there \in Interpreter
      /\ here.major = there.major /\ here.minor = there.minor
    BY <1>1, ReadinessAssumption DEF PythonIn, Interpreter, Version
<1>3. VersionMatches(clauses, here, "patch" \in Known) = "yes"
    BY DEF PythonIssues
<1>4. CASE "patch" \in Known
    <2>1. w.patch = world.patch
        BY <1>4 DEF Possible, Value
    <2>2. there = here
        BY <2>1 DEF PythonIn
    <2> QED
        BY <1>3, <1>4, <2>2 DEF VersionMatches, Answer
<1>5. CASE "patch" \notin Known
    <2>1. VersionMatches(clauses, here, FALSE) = "yes"
        BY <1>3, <1>5 DEF VersionMatches
    <2>2. \A c \in clauses : ~ FinerThanPatch(c, here)
        BY <1>5 DEF FinerThanPatch, SameFamily, PythonIn
    <2>3. Answer(AcceptsAll(clauses, there)) = "yes"
        BY <1>2, <2>1, <2>2, PatchNeverGuessed
    <2> QED
        BY <2>3 DEF Answer
<1> QED
    BY <1>4, <1>5

\* No marker of the lock or of a distribution is left open.
Decided ==
    /\ active = Active(pinned)
    /\ \A i \in pinned : ~ Undecided(i.marker)
    /\ \A n \in Installed : \A r \in installed[n].requires : ~ Undecided(r.marker)

LEMMA JudgedDecided == AllJudged /\ issues = {} => Decided
BY DEF AllJudged, LockJudged, LockIssues, RequirementIssues, Decided

\* With no marker undecided, closed means the same in each possible world.
LEMMA ClosedAlike ==
    ASSUME CheckTypeOK, Decided, NEW w \in Possible
    PROVE  /\ ActiveIn(w) = active
           /\ \A n \in Installed : \A r \in installed[n].requires, extras \in Requests :
                  Applies(r.marker, Contexts(extras, n)) <=> Holds(r.marker, w, Contexts(extras, n))
           /\ \A extras \in Requests : ClosedIn(extras, w) <=> Closed(extras)
<1>1. ASSUME NEW i \in pinned PROVE i.marker \in Marker /\ ~ Undecided(i.marker)
    <2>1. pinned \subseteq LockItem
        BY ReadinessAssumption DEF CheckTypeOK
    <2> QED
        BY <2>1 DEF LockItem, Decided
<1>2. \A i \in pinned : Applies(i.marker, {NoExtra}) <=> Holds(i.marker, w, {NoExtra})
    BY <1>1, DecidedMarker DEF Context
<1>3. ActiveIn(w) = active
    BY <1>1, <1>2 DEF Decided, Active, ActiveIn
<1>4. ASSUME NEW n \in Installed, NEW r \in installed[n].requires
      PROVE  r \in Requirement /\ ~ Undecided(r.marker)
    <2>1. r \in Requirement
        BY DEF CheckTypeOK, Distribution
    <2> QED
        BY <2>1 DEF Decided
<1>5. ASSUME NEW n \in Installed, NEW r \in installed[n].requires, NEW extras \in Requests
      PROVE  Applies(r.marker, Contexts(extras, n)) <=> Holds(r.marker, w, Contexts(extras, n))
    <2>1. r.marker \in Marker /\ ~ Undecided(r.marker)
        BY <1>4 DEF Requirement
    <2>2. Contexts(extras, n) \subseteq Context
        BY DEF Contexts, Context, Requests, CheckTypeOK
    <2> QED
        BY <2>1, <2>2, DecidedMarker
<1>6. ASSUME NEW extras \in Requests
      PROVE  ClosedIn(extras, w) <=> Closed(extras)
    <2>1. (\A i \in active : i.extras \subseteq extras[i.name])
               <=> \A n \in Name : Seed(active)[n] \subseteq extras[n]
        <3>1. \A i \in active : i.name \in Name
            BY DEF CheckTypeOK, LockItem
        <3>2. \A n \in Name : Seed(active)[n] = UNION {i.extras : i \in {j \in active : j.name = n}}
            BY DEF Seed
        <3> QED
            BY <3>1, <3>2
    <2>2. \A n \in Installed :
              (\A r \in installed[n].requires :
                   Holds(r.marker, w, Contexts(extras, n)) => r.extras \subseteq extras[r.to])
              <=> \A m \in Name : Asked(n, m, extras) \subseteq extras[m]
        <3> SUFFICES ASSUME NEW n \in Installed
                     PROVE  (\A r \in installed[n].requires :
                                 Holds(r.marker, w, Contexts(extras, n)) => r.extras \subseteq extras[r.to])
                            <=> \A m \in Name : Asked(n, m, extras) \subseteq extras[m]
            OBVIOUS
        <3>1. \A r \in installed[n].requires : r.to \in Name
            BY <1>4 DEF Requirement
        <3>2. \A r \in installed[n].requires :
                  Applies(r.marker, Contexts(extras, n)) <=> Holds(r.marker, w, Contexts(extras, n))
            BY <1>5
        <3> QED
            BY <3>1, <3>2 DEF Asked
    <2> QED
        BY <1>3, <2>1, <2>2 DEF ClosedIn, Closed
<1> QED
    BY <1>3, <1>5, <1>6

\* The least closed requests are what every closed request contains, in each world.
LEMMA NeededExact ==
    ASSUME CheckTypeOK, Decided, Closed(requested), Least, NEW w \in Possible, NEW n \in Installed
    PROVE  NeededIn(n, w) = requested[n]
<1>1. n \in Name /\ requested[n] \subseteq Extra /\ requested \in Requests
    BY DEF CheckTypeOK, Requests
<1>2. \A extras \in Requests : ClosedIn(extras, w) <=> Closed(extras)
    BY ClosedAlike
<1>3. NeededIn(n, w) \subseteq requested[n]
    BY <1>1, <1>2 DEF NeededIn
<1>4. requested[n] \subseteq NeededIn(n, w)
    BY <1>1, <1>2 DEF NeededIn, Least
<1> QED
    BY <1>3, <1>4

\* Judged without issue means right in each possible world.
LEMMA JudgedRight ==
    ASSUME CheckTypeOK, AllJudged, issues = {}, NothingFiner, NEW w \in Possible
    PROVE  RightIn(w)
<1>d. Decided
    BY JudgedDecided
<1>1. ActiveIn(w) = active /\ active = Active(pinned)
    BY <1>d, ClosedAlike DEF Decided
<1>2. AcceptsAll(specifier, PythonIn(w))
    BY PythonDecided DEF AllJudged, LockJudged, CheckTypeOK, NothingFiner
<1>3. \A i \in ActiveIn(w) : Satisfied(i)
    <2> SUFFICES ASSUME NEW i \in Active(pinned) PROVE Satisfied(i)
        BY <1>1
    <2>1. ~ Undecided(i.marker) /\ i \in pinned
        BY DEF AllJudged, LockJudged, LockIssues, Active
    <2>2. Applies(i.marker, {NoExtra})
        BY <2>1 DEF Active
    <2> QED
        BY <2>1, <2>2 DEF AllJudged, LockJudged, LockIssues
<1>4. Own \in Installed /\ installed[Own].source = "editable"
    BY DEF AllJudged, LockJudged, OwnIssues
<1>5. \A n \in Installed : ~ Stray(n, ActiveIn(w))
    BY <1>1 DEF AllJudged, LockJudged, LockIssues
<1>6. ASSUME NEW n \in Installed
      PROVE  AcceptsAll(installed[n].python, PythonIn(w))
    <2>1. installed[n].python \in SUBSET Constraint
        BY DEF CheckTypeOK, Distribution
    <2>2. PythonIssues(installed[n].python, n) = {}
        BY DEF AllJudged
    <2>3. "patch" \in Known \/ \A c \in installed[n].python : ~ FinerThanPatch(c, Family)
        BY DEF NothingFiner
    <2> QED
        BY <2>1, <2>2, <2>3, PythonDecided
<1>7. requested \in Requests /\ Closed(requested) /\ Least
    BY DEF CheckTypeOK, Requests, AllJudged
<1>8. \A n \in Installed : NeededIn(n, w) = requested[n]
    BY <1>d, <1>7, NeededExact
<1>9. ASSUME NEW n \in Installed, NEW r \in installed[n].requires,
             Holds(r.marker, w, {NoExtra} \cup NeededIn(n, w))
      PROVE  Met(r)
    <2>1. Applies(r.marker, Contexts(requested, n))
        BY <1>d, <1>7, <1>8, <1>9, ClosedAlike DEF Contexts
    <2>2. RequirementIssues(n) = {}
        BY DEF AllJudged
    <2> QED
        BY <2>1, <2>2 DEF RequirementIssues
<1>10. doubled = {}
    BY DEF AllJudged, LockJudged
<1> QED
    BY <1>2, <1>3, <1>4, <1>5, <1>6, <1>9, <1>10 DEF RightIn

\* Only the environment and the requests bear on the judgements.
LEMMA JudgementStable ==
    ASSUME UNCHANGED environment
    PROVE  /\ Installed' = Installed /\ OwnIssues' = OwnIssues
           /\ Active(pinned)' = Active(pinned)
           /\ LockIssues(pinned)' = LockIssues(pinned)
           /\ \A clauses, tag : PythonIssues(clauses, tag)' = PythonIssues(clauses, tag)
           /\ UNCHANGED requested => \A n : RequirementIssues(n)' = RequirementIssues(n)
<1> USE DEF environment
<1>1. Installed' = Installed /\ Known' = Known /\ OwnIssues' = OwnIssues
    BY DEF Installed, Known, OwnIssues
<1>2. Active(pinned)' = Active(pinned)
    BY <1>1 DEF Active, Undecided, Applies
<1>4. LockIssues(pinned)' = LockIssues(pinned)
    BY <1>1, <1>2 DEF LockIssues, Undecided, Applies, Satisfied, Stray, Permitted
<1>5. \A clauses, tag : PythonIssues(clauses, tag)' = PythonIssues(clauses, tag)
    BY <1>1 DEF PythonIssues, PythonIn
<1>6. UNCHANGED requested => \A n : RequirementIssues(n)' = RequirementIssues(n)
    BY <1>1 DEF RequirementIssues, Undecided, Applies, Contexts, Met
<1> QED
    BY <1>1, <1>2, <1>4, <1>5, <1>6

LEMMA LockJudgedStable ==
    ASSUME UNCHANGED <<environment, active>>, issues' = {} => issues = {}
    PROVE  LockJudged => LockJudged'
BY JudgementStable DEF LockJudged, environment

\* Judgements last as long as the environment and the closure.
LEMMA JudgedStable ==
    ASSUME UNCHANGED <<environment, active, requested>>, issues' = {} => issues = {}
    PROVE  (LockJudged => LockJudged') /\ (AllJudged => AllJudged')
<1>1. LockJudged => LockJudged'
    BY LockJudgedStable
<1>2. (Closed(requested) => Closed(requested)') /\ (Least => Least')
    BY ClosureStable DEF Least, Requests
<1>3. AllJudged => AllJudged'
    BY <1>1, <1>2, JudgementStable DEF AllJudged, environment
<1> QED
    BY <1>1, <1>3

LEMMA JudgedStep == CheckTypeOK /\ LoopInv /\ JudgedInv /\ [CheckNext]_checkVars => JudgedInv'
<1> SUFFICES ASSUME CheckTypeOK, LoopInv, JudgedInv, [CheckNext]_checkVars PROVE JudgedInv'
    OBVIOUS
<1>0. moves \in Nat /\ PythonIssues(specifier, "profile")' = PythonIssues(specifier, "profile")
    <2>1. UNCHANGED environment
        BY DEF CheckNext, Step, checkVars, EditLock, EditProfile, CheckSource, ReadEnvironment, JudgeLock,
               LockEmpty, Follow, NextPass, EndPasses, Judge, CheckSourceAgain, Report
    <2>2. PythonIssues(specifier, "profile")' = PythonIssues(specifier, "profile")
        BY <2>1, JudgementStable DEF environment
    <2> QED
        BY <2>2, ReadinessAssumption DEF CheckTypeOK
<1>1. CASE EditLock \/ EditProfile
    <2>1. UNCHANGED <<environment, active, requested>> /\ UNCHANGED <<phase, issues>>
          /\ moves' = moves + 1
        BY <1>1 DEF EditLock, EditProfile, closure
    <2>2. Misled => Misled'
        BY <1>0, <2>1 DEF Misled
    <2>3. (LockJudged => LockJudged') /\ (AllJudged => AllJudged')
        BY <2>1, JudgedStable
    <2> QED
        BY <1>0, <2>1, <2>2, <2>3 DEF JudgedInv
<1>2. CASE CheckSource
    BY <1>0, <1>2 DEF CheckSource, JudgedInv, SourceIssues, files, environment
<1>3. CASE ReadEnvironment
    BY <1>0, <1>3 DEF ReadEnvironment, JudgedInv, files, environment
<1>4. CASE JudgeLock
    <2>1. UNCHANGED <<environment, files>> /\ phase = "lock" /\ phase' = "passing"
        BY <1>4 DEF JudgeLock
    <2>2. lock # pinned => Misled'
        BY <1>0, <2>1 DEF JudgedInv, Misled, files, environment
    <2>3. ASSUME lock = pinned PROVE LockJudged'
        <3>1. active' = Active(pinned) /\ issues' = issues \cup LockIssues(pinned) \cup OwnIssues
                                                    \cup {<<"doubled", n>> : n \in doubled}
            BY <1>4, <2>3 DEF JudgeLock
        <3>2. issues' = {} => doubled' = {}
            BY <2>1, <3>1 DEF environment
        <3> QED
            BY <1>0, <2>1, <3>1, <3>2, JudgementStable DEF LockJudged, JudgedInv, environment
    <2> QED
        BY <1>0, <2>1, <2>2, <2>3 DEF JudgedInv, files, environment
<1>5. CASE LockEmpty
    BY <1>0, <1>5 DEF LockEmpty, JudgedInv, files, environment
<1>6. CASE \E n \in Name : Follow(n)
    <2>1. UNCHANGED <<environment, files, phase, issues, active>> /\ phase = "passing"
        BY <1>6 DEF Follow
    <2>2. LockJudged => LockJudged'
        BY <2>1, LockJudgedStable
    <2>3. Misled => Misled'
        BY <2>1 DEF Misled, files, environment
    <2> QED
        BY <1>0, <2>1, <2>2, <2>3 DEF JudgedInv, files, environment
<1>7. CASE NextPass \/ EndPasses
    <2>1. UNCHANGED <<environment, files, issues, active, requested>> /\ phase = "passing"
          /\ phase' \in {"passing", "judging"}
        BY <1>7 DEF NextPass, EndPasses, closure
    <2>2. LockJudged => LockJudged'
        BY <2>1, LockJudgedStable
    <2>3. Misled => Misled'
        BY <2>1 DEF Misled, files, environment
    <2> QED
        BY <1>0, <2>1, <2>2, <2>3 DEF JudgedInv, files, environment
<1>8. CASE Judge
    <2>1. UNCHANGED <<environment, files, closure>> /\ phase = "judging" /\ phase' = "again"
          /\ issues' = issues \cup (UNION {PythonIssues(installed[n].python, n) : n \in Installed})
                              \cup (UNION {RequirementIssues(n) : n \in Installed})
        BY <1>8 DEF Judge
    <2>2. Misled => Misled'
        BY <2>1 DEF Misled, files, environment
    <2>3. ASSUME LockJudged PROVE AllJudged'
        <3>1. Closed(requested) /\ Least
            BY <2>1, LoopExact DEF Settled, ExtrasRight, Least
        <3>2. Closed(requested)' /\ Least'
            BY <2>1, <3>1, ClosureStable DEF closure, Least, Requests
        <3>3. LockJudged'
            BY <2>1, <2>3, LockJudgedStable DEF closure
        <3>4. /\ Installed' = Installed
              /\ \A clauses, tag : PythonIssues(clauses, tag)' = PythonIssues(clauses, tag)
              /\ \A n : RequirementIssues(n)' = RequirementIssues(n)
            BY <2>1, JudgementStable DEF closure
        <3>5. ASSUME issues' = {}, NEW n \in Installed
              PROVE  PythonIssues(installed[n].python, n) = {} /\ RequirementIssues(n) = {}
            <4>1. /\ PythonIssues(installed[n].python, n) \subseteq issues'
                  /\ RequirementIssues(n) \subseteq issues'
                BY <2>1
            <4> QED
                BY <3>5, <4>1
        <3> QED
            BY <2>1, <3>2, <3>3, <3>4, <3>5 DEF AllJudged, environment
    <2> QED
        BY <1>0, <2>1, <2>2, <2>3 DEF JudgedInv, files, environment
<1>9. CASE CheckSourceAgain
    <2>1. UNCHANGED <<environment, active, requested>> /\ UNCHANGED files /\ phase = "again"
          /\ phase' = "report" /\ issues' = issues \cup SourceIssues
        BY <1>9 DEF CheckSourceAgain, closure
    <2>2. AllJudged => AllJudged'
        BY <2>1, JudgedStable
    <2>3. ASSUME Misled, moves < 2 PROVE issues' # {}
        <3>1. lock # pinned
            BY <1>0, <2>3 DEF Misled
        <3>2. <<"mismatch", "lock">> \in SourceIssues
            BY <3>1 DEF SourceIssues
        <3> QED
            BY <2>1, <3>2
    <2> QED
        BY <1>0, <2>1, <2>2, <2>3 DEF JudgedInv, files, environment
<1>10. CASE Report
    <2>1. UNCHANGED <<environment, active, requested>> /\ UNCHANGED <<files, issues>> /\ phase = "report"
          /\ phase' \in {"ready", "blocked"} /\ (phase' = "ready" => issues = {})
        BY <1>10 DEF Report, closure
    <2>2. AllJudged => AllJudged'
        BY <2>1, JudgedStable
    <2> QED
        BY <1>0, <2>1, <2>2 DEF JudgedInv, files, environment
<1>11. CASE UNCHANGED checkVars
    <2>1. UNCHANGED <<environment, active, requested>> /\ UNCHANGED <<files, issues, phase>>
        BY <1>11 DEF checkVars, closure
    <2>2. (LockJudged => LockJudged') /\ (AllJudged => AllJudged')
        BY <2>1, JudgedStable
    <2>3. Misled => Misled'
        BY <2>1 DEF Misled, files, environment
    <2> QED
        BY <1>0, <2>1, <2>2, <2>3 DEF JudgedInv, files, environment
<1> QED
    BY <1>1, <1>2, <1>3, <1>4, <1>5, <1>6, <1>7, <1>8, <1>9, <1>10, <1>11 DEF CheckNext, Step

LEMMA JudgedSound == CheckTypeOK /\ JudgedInv => ReadySound
BY JudgedRight DEF JudgedInv, ReadySound

\* Whatever is installed, whatever the metadata leaves open and whatever one edit
\* does meanwhile, an environment that is called ready is right in every world
\* that its metadata leaves possible, if the patch is known or no constraint that
\* was judged is finer than a patch.
THEOREM ReadyNeverGuessed == CheckSpec => []ReadySound
<1>1. CheckInit => LoopInv /\ JudgedInv
    BY DEF CheckInit, Start, LoopInv, JudgedInv
<1> QED
    BY <1>1, CheckTypeInit, CheckTypeStep, LoopStep, JudgedStep, JudgedSound, PTL DEF CheckSpec

-----------------------------------------------------------------------------
(* What "blocked" means.                                                   *)

\* Something is wrong with the interpreter, the lock or the project itself.
LockWrong ==
    \/ LockIssues(pinned) # {} \/ OwnIssues # {} \/ doubled # {}
    \/ PythonIssues(specifier, "profile") # {}

\* Something is wrong with a distribution, by requests that are exact.
DistributionWrong ==
    /\ Closed(requested) /\ Least
    /\ \E n \in Installed : PythonIssues(installed[n].python, n) # {} \/ RequirementIssues(n) # {}

\* While nobody edits, an issue has a cause.
CausedInv ==
    /\ pinned # {}
    /\ moves = 0 => lock = pinned /\ profile = "read"
    /\ moves = 0 /\ pyvenv.usable = "yes" =>
        /\ phase \in {"source", "environment"} => issues = {}
        /\ phase = "lock" /\ issues # {} => LockWrong
        /\ phase \in {"passing", "judging"} =>
               active = Active(pinned) /\ (issues # {} => LockWrong)
        /\ phase \in {"again", "report", "blocked"} =>
               active = Active(pinned) /\ (issues # {} => LockWrong \/ DistributionWrong)
        /\ phase = "blocked" => issues # {}

LEMMA CauseStable ==
    ASSUME UNCHANGED environment
    PROVE  /\ LockWrong' <=> LockWrong
           /\ Active(pinned)' = Active(pinned)
           /\ UNCHANGED <<active, requested>> => (DistributionWrong => DistributionWrong')
<1>1. LockWrong' <=> LockWrong
    BY JudgementStable DEF LockWrong, environment
<1>2. ASSUME UNCHANGED <<active, requested>>, DistributionWrong PROVE DistributionWrong'
    <2>1. Closed(requested)' /\ Least'
        BY <1>2, ClosureStable DEF DistributionWrong, Least, Requests
    <2> QED
        BY <1>2, <2>1, JudgementStable DEF DistributionWrong, environment
<1> QED
    BY <1>1, <1>2, JudgementStable

LEMMA CausedStep == CheckTypeOK /\ LoopInv /\ CausedInv /\ [CheckNext]_checkVars => CausedInv'
<1> SUFFICES ASSUME CheckTypeOK, LoopInv, CausedInv, [CheckNext]_checkVars PROVE CausedInv'
    OBVIOUS
<1>0. UNCHANGED environment /\ UNCHANGED <<pinned, pyvenv>> /\ moves \in Nat
    BY ReadinessAssumption DEF CheckTypeOK, environment, CheckNext, Step, checkVars, EditLock, EditProfile,
       CheckSource, ReadEnvironment, JudgeLock, LockEmpty, Follow, NextPass, EndPasses, Judge,
       CheckSourceAgain, Report
<1>1. CASE EditLock \/ EditProfile
    <2>1. moves' # 0
        BY <1>0, <1>1 DEF EditLock, EditProfile
    <2> QED
        BY <1>0, <2>1 DEF CausedInv
<1>2. CASE CheckSource
    BY <1>0, <1>2 DEF CheckSource, CausedInv, SourceIssues, files
<1>3. CASE ReadEnvironment
    <2>1. issues' # {} /\ pyvenv.usable = "yes" => LockWrong
        BY <1>3 DEF ReadEnvironment, LockWrong
    <2> QED
        BY <1>0, <1>3, <2>1, CauseStable DEF ReadEnvironment, CausedInv, files
<1>4. CASE JudgeLock
    <2>1. moves = 0 => active' = Active(pinned)
        BY <1>4 DEF JudgeLock, CausedInv
    <2>2. moves = 0 /\ issues' # {} => issues # {} \/ LockWrong
        BY <1>4 DEF JudgeLock, CausedInv, LockWrong
    <2> QED
        BY <1>0, <1>4, <2>1, <2>2, CauseStable DEF JudgeLock, CausedInv, files
<1>5. CASE LockEmpty
    BY <1>0, <1>5 DEF LockEmpty, CausedInv, files
<1>6. CASE (\E n \in Name : Follow(n)) \/ NextPass \/ EndPasses
    <2>1. UNCHANGED <<files, issues, active>> /\ phase = "passing" /\ phase' \in {"passing", "judging"}
        BY <1>6 DEF Follow, NextPass, EndPasses, closure
    <2> QED
        BY <1>0, <2>1, CauseStable DEF CausedInv, files
<1>7. CASE Judge
    <2>1. UNCHANGED <<files, closure>> /\ phase = "judging" /\ phase' = "again"
          /\ issues' = issues \cup (UNION {PythonIssues(installed[n].python, n) : n \in Installed})
                              \cup (UNION {RequirementIssues(n) : n \in Installed})
        BY <1>7 DEF Judge
    <2>2. Closed(requested) /\ Least
        BY <2>1, LoopExact DEF Settled, ExtrasRight, Least
    <2>3. issues' # {} => issues # {} \/ DistributionWrong
        BY <2>1, <2>2 DEF DistributionWrong
    <2> QED
        BY <1>0, <2>1, <2>3, CauseStable DEF CausedInv, files, closure
<1>8. CASE CheckSourceAgain
    <2>1. UNCHANGED <<files, closure>> /\ phase = "again" /\ phase' = "report"
          /\ (moves = 0 => issues' = issues)
        BY <1>8 DEF CheckSourceAgain, SourceIssues, CausedInv
    <2> QED
        BY <1>0, <2>1, CauseStable DEF CausedInv, files, closure
<1>9. CASE Report
    <2>1. UNCHANGED <<files, issues, closure>> /\ phase = "report" /\ phase' \in {"ready", "blocked"}
          /\ (moves = 0 /\ phase' = "blocked" => issues # {})
        BY <1>9 DEF Report, CausedInv
    <2> QED
        BY <1>0, <2>1, CauseStable DEF CausedInv, files, closure
<1>10. CASE UNCHANGED checkVars
    BY <1>0, <1>10, CauseStable DEF CausedInv, files, closure, checkVars
<1> QED
    BY <1>1, <1>2, <1>3, <1>4, <1>5, <1>6, <1>7, <1>8, <1>9, <1>10 DEF CheckNext, Step

\* A constraint with an issue rejects the interpreter, if its patch is known.
LEMMA PythonRejected ==
    ASSUME Known = Fact, NEW clauses, NEW tag, PythonIssues(clauses, tag) # {}
    PROVE  ~ AcceptsAll(clauses, PythonIn(world))
BY DEF PythonIssues, VersionMatches, Answer, Fact

\* With everything known, what has a cause is not right.
LEMMA CausedWrong ==
    ASSUME CheckTypeOK, Known = Fact, active = Active(pinned), LockWrong \/ DistributionWrong
    PROVE  ~ RightIn(world)
<1> SUFFICES ASSUME RightIn(world) PROVE FALSE
    OBVIOUS
<1>1. world \in Possible
    BY DEF Possible, CheckTypeOK
<1>2. Decided
    <2>1. \A marker \in Marker : ~ Undecided(marker)
        BY DEF Undecided, Marker
    <2>2. pinned \subseteq LockItem
        BY ReadinessAssumption DEF CheckTypeOK
    <2>3. \A n \in Installed : installed[n].requires \subseteq Requirement
        BY DEF CheckTypeOK, Distribution
    <2> QED
        BY <2>1, <2>2, <2>3 DEF Decided, LockItem, Requirement
<1>3. ActiveIn(world) = Active(pinned)
    BY <1>1, <1>2, ClosedAlike
<1>4. LockIssues(pinned) = {}
    <2>1. \A i \in pinned : ~ Undecided(i.marker) /\ (Applies(i.marker, {NoExtra}) => Satisfied(i))
        BY <1>2, <1>3 DEF RightIn, Decided, Active
    <2>2. \A n \in Installed : ~ Stray(n, Active(pinned))
        BY <1>3 DEF RightIn
    <2> QED
        BY <2>1, <2>2 DEF LockIssues
<1>5. OwnIssues = {} /\ doubled = {} /\ PythonIssues(specifier, "profile") = {}
    BY PythonRejected DEF RightIn, OwnIssues
<1>6. DistributionWrong
    BY <1>4, <1>5 DEF LockWrong
<1>7. PICK n \in Installed : PythonIssues(installed[n].python, n) # {} \/ RequirementIssues(n) # {}
    BY <1>6 DEF DistributionWrong
<1>8. RequirementIssues(n) # {}
    BY <1>7, PythonRejected DEF RightIn
<1>9. PICK r \in installed[n].requires : Applies(r.marker, Contexts(requested, n)) /\ ~ Met(r)
    BY <1>2, <1>8 DEF RequirementIssues, Decided
<1>10. requested \in Requests /\ NeededIn(n, world) = requested[n]
    BY <1>1, <1>2, <1>6, NeededExact DEF DistributionWrong, CheckTypeOK, Requests
<1>11. Holds(r.marker, world, {NoExtra} \cup NeededIn(n, world))
    BY <1>1, <1>2, <1>9, <1>10, ClosedAlike DEF Contexts
<1> QED
    BY <1>9, <1>11 DEF RightIn

LEMMA CausedSound == CheckTypeOK /\ CausedInv => BlockedSound
BY CausedWrong DEF CausedInv, BlockedSound

\* Nor is an environment whose metadata says everything refused for nothing: if
\* nobody edits, "blocked" means that something is wrong in it.
THEOREM BlockedForCause == CheckSpec => []BlockedSound
<1>1. CheckInit => LoopInv /\ CausedInv
    BY DEF CheckInit, Start, LoopInv, CausedInv
<1> QED
    BY <1>1, CheckTypeInit, CheckTypeStep, LoopStep, CausedStep, CausedSound, PTL DEF CheckSpec

-----------------------------------------------------------------------------
(* Preparation and acceptance: the strengthening.                          *)

\* The builder's commands work on an environment that its mkdir has created.
Works(b) == builder[b].phase \in {"checking", "running"}

\* A builder that makes an environment or works on one knows which; a command that
\* runs is one of the four, and a case that runs is one of the candidate's.
Aims ==
    /\ \A b \in Builder :
           /\ Works(b) \/ builder[b].phase = "making" => builder[b].project \in Project
           /\ builder[b].phase = "running" => builder[b].index < 4
    /\ \A a \in Acceptor :
           acceptor[a].phase \in {"running", "reading"} => acceptor[a].case \in Case

\* What a builder works on is there, and nobody else's call has worked on it.
Owns ==
    \A b \in Builder : Works(b) =>
        /\ env[builder[b].project].is # "none"
        /\ env[builder[b].project].hands \subseteq {builder[b].call}

\* No two builders work on one environment.
Apart ==
    \A b, c \in Builder :
        Works(b) /\ Works(c) /\ builder[b].project = builder[c].project => b = c

\* An environment that does not exist was never worked on; every other one by one call.
OneHand ==
    \A p \in Project :
        /\ env[p].is = "none" => env[p].hands = {}
        /\ \E k \in Call : env[p].hands \subseteq {k}

\* What is complete is past the commands that would take it apart again.
Past ==
    \A b \in Builder : Works(b) /\ Built(builder[b].project) =>
        \/ builder[b].index >= 3
        \/ builder[b].index = 2 /\ builder[b].phase = "running"

\* What was found ready has been complete.
FoundBuilt == \A p \in found : Built(p)

Inv == TypeOK /\ Aims /\ Owns /\ Apart /\ OneHand /\ Past /\ FoundBuilt

-----------------------------------------------------------------------------
(* Preparation and acceptance: types.                                      *)

LEMMA NoReport == <<>> \in Reports
<1>1. <<>> \in [{} -> Usable]
    OBVIOUS
<1> QED
    BY <1>1 DEF Reports

LEMMA TypeInit == Init => TypeOK
<1> SUFFICES ASSUME Init PROVE TypeOK
    OBVIOUS
<1>1. 0 \in Call /\ 0 \in 0..MaxTouches
    BY AcceptanceAssumption DEF Call
<1>2. env \in [Project -> [is : Usable \cup {"none", "building", "broken"}, hands : SUBSET Call]]
    BY DEF Init, NoEnv
<1>3. output \in [Case -> [is : {"absent", "expected", "other"}, by : Call]]
    BY <1>1 DEF Init, NoOutput
<1> QED
    BY <1>1, <1>2, <1>3, NoReport DEF Init, TypeOK, Checkout, IdleBuilder, IdleAcceptor

\* What a builder remembers.
BuilderRecord ==
    [phase : {"idle", "matching", "rematching", "looking", "making", "checking", "running"},
     call : Call, whole : BOOLEAN, todo : SUBSET Project, queue : SUBSET Project,
     project : Project \cup {None}, index : 0..4]

\* What an acceptor remembers.
AcceptorRecord ==
    [phase : {"idle", "before", "cases", "running", "reading", "after", "outputs", "verifying"},
     call : Call, todo : SUBSET Project, cases : SUBSET Case, passed : SUBSET Case,
     own : BOOLEAN, case : Case \cup {None}, ended : BOOLEAN, report : Reports,
     evidence : Evidence \cup {None}]

\* The types, by who changes what.
WorldType ==
    /\ source \in [Project -> Checkout]
    /\ tree \in [Project -> Checkout] \cup {None}
    /\ env \in [Project -> [is : Usable \cup {"none", "building", "broken"}, hands : SUBSET Call]]
    /\ output \in [Case -> [is : {"absent", "expected", "other"}, by : Call]]

BuilderType == builder \in [Builder -> BuilderRecord]

AcceptorType ==
    /\ acceptor \in [Acceptor -> AcceptorRecord]
    /\ evidence \subseteq Evidence
    /\ found \subseteq Project

LEMMA TypeParts ==
    /\ TypeOK => /\ WorldType /\ BuilderType /\ AcceptorType
                 /\ calls \in Call /\ touches \in 0..MaxTouches
    /\ /\ WorldType' /\ BuilderType' /\ AcceptorType'
       /\ calls' \in Call /\ touches' \in 0..MaxTouches
       => TypeOK'
BY DEF TypeOK, WorldType, BuilderType, AcceptorType, BuilderRecord, AcceptorRecord

\* What the steps of a builder write is of its type.
LEMMA BuilderMoves ==
    ASSUME BuilderType, NEW b \in Builder, NEW r \in BuilderRecord,
           builder' = [builder EXCEPT ![b] = r]
    PROVE  BuilderType'
BY DEF BuilderType

\* A builder goes to one of its commands, or on to another environment.
LEMMA BuilderCounts ==
    ASSUME NEW r \in BuilderRecord, NEW i \in 0..4
    PROVE  /\ [r EXCEPT !.phase = "checking", !.index = i] \in BuilderRecord
           /\ [r EXCEPT !.phase = "looking", !.project = None, !.index = i] \in BuilderRecord
BY DEF BuilderRecord

\* The steps of a builder keep the types.
LEMMA BuildKeepsBuilders ==
    ASSUME BuilderType, Aims, calls \in Call, NEW b \in Builder, Build(b)
    PROVE  BuilderType' /\ calls' \in Call
<1>0. builder[b] \in BuilderRecord
    BY DEF BuilderType
<1>1. 0 \in Call /\ MaxCalls \in Nat
    BY AcceptanceAssumption DEF Call
<1>i. IdleBuilder \in BuilderRecord
    BY <1>1 DEF IdleBuilder, BuilderRecord
<1>2. ASSUME NEW p \in Project, MatchSource(b, p) PROVE BuilderType' /\ calls' \in Call
    <2>1. [builder[b] EXCEPT !.todo = @ \ {p}] \in BuilderRecord
        BY <1>0, <1>i DEF BuilderRecord
    <2> QED
        BY <1>2, <2>1, BuilderMoves DEF MatchSource
<1>3. ASSUME NEW p \in Project, StartBootstrap(b, p) PROVE BuilderType' /\ calls' \in Call
    <2>1. calls' \in Call /\ calls' = calls + 1
        BY <1>1, <1>3 DEF StartBootstrap, Call
    <2>2. [IdleBuilder EXCEPT !.phase = "looking", !.call = calls + 1, !.queue = {p}] \in BuilderRecord
        BY <1>0, <1>i, <2>1 DEF BuilderRecord
    <2> QED
        BY <1>3, <2>1, <2>2, BuilderMoves DEF StartBootstrap
<1>4. ASSUME NEW p \in Project, LookForEnvironment(b, p) PROVE BuilderType' /\ calls' \in Call
    <2>1. [builder[b] EXCEPT !.phase = "making", !.project = p, !.queue = @ \ {p}] \in BuilderRecord
        BY <1>0, <1>i DEF BuilderRecord
    <2> QED
        BY <1>4, <2>1, BuilderMoves DEF LookForEnvironment
<1>5. CASE StartPreparing(b)
    <2>1. calls' \in Call /\ calls' = calls + 1
        BY <1>1, <1>5 DEF StartPreparing, Call
    <2>2. [IdleBuilder EXCEPT !.phase = "matching", !.call = calls + 1, !.whole = TRUE,
                              !.todo = Project] \in BuilderRecord
        BY <1>0, <1>i, <2>1 DEF BuilderRecord
    <2> QED
        BY <1>5, <2>1, <2>2, BuilderMoves DEF StartPreparing
<1>6. CASE CloneAll(b)
    <2>1. [builder[b] EXCEPT !.phase = "rematching", !.todo = Project] \in BuilderRecord
        BY <1>0, <1>i DEF BuilderRecord
    <2> QED
        BY <1>6, <2>1, BuilderMoves DEF CloneAll
<1>7. CASE PublishTree(b)
    <2>1. [builder[b] EXCEPT !.phase = "looking", !.queue = Project] \in BuilderRecord
        BY <1>0, <1>i DEF BuilderRecord
    <2> QED
        BY <1>7, <2>1, BuilderMoves DEF PublishTree
<1>8. CASE EndPreparing(b)
    BY <1>8, <1>i, BuilderMoves DEF EndPreparing
<1>9. CASE MakeEnvironment(b)
    <2>1. [builder[b] EXCEPT !.phase = "checking", !.index = 0] \in BuilderRecord
        BY <1>0, 0 \in 0..4, BuilderCounts
    <2> QED
        BY <1>9, <2>1, BuilderMoves DEF MakeEnvironment
<1>10. CASE StartCommand(b)
    <2>1. [builder[b] EXCEPT !.phase = "running"] \in BuilderRecord
        BY <1>0, <1>i DEF BuilderRecord
    <2> QED
        BY <1>10, <2>1, BuilderMoves DEF StartCommand
<1>11. CASE InstallFinishes(b)
    BY <1>11 DEF InstallFinishes, others, BuilderType
<1>12. CASE EndCommand(b)
    <2>1. builder[b].index < 4
        BY <1>12 DEF EndCommand, Aims
    <2>2. builder[b].index + 1 \in 0..4
        BY <1>0, <2>1 DEF BuilderRecord
    <2>3. [builder[b] EXCEPT !.phase = "checking", !.index = @ + 1] \in BuilderRecord
        BY <1>0, <2>2, BuilderCounts
    <2> QED
        BY <1>12, <2>3, BuilderMoves DEF EndCommand
<1>13. CASE EndBootstrap(b)
    <2> DEFINE next == [builder[b] EXCEPT !.phase = "looking", !.project = None, !.index = 0]
    <2>1. next \in BuilderRecord
        BY <1>0, 0 \in 0..4, BuilderCounts
    <2>2. PICK r \in {next, IdleBuilder} : builder' = [builder EXCEPT ![b] = r]
        BY <1>13 DEF EndBootstrap
    <2>3. r \in BuilderRecord /\ calls' = calls
        BY <1>13, <1>i, <2>1 DEF EndBootstrap
    <2> QED
        BY <2>2, <2>3, BuilderMoves
<1>14. CASE BuilderRaises(b)
    BY <1>14, <1>i, BuilderMoves DEF BuilderRaises
<1> QED
    BY <1>2, <1>3, <1>4, <1>5, <1>6, <1>7, <1>8, <1>9, <1>10, <1>11, <1>12, <1>13, <1>14 DEF Build

LEMMA BuildKeepsWorld ==
    ASSUME WorldType, BuilderType, Aims, NEW b \in Builder, Build(b)
    PROVE  WorldType'
<1> USE DEF WorldType
<1>1. CASE \/ \E p \in Project : MatchSource(b, p) \/ StartBootstrap(b, p) \/ LookForEnvironment(b, p)
           \/ StartPreparing(b) \/ CloneAll(b) \/ EndPreparing(b) \/ EndCommand(b)
           \/ EndBootstrap(b) \/ BuilderRaises(b)
    BY <1>1 DEF MatchSource, StartBootstrap, LookForEnvironment, StartPreparing, CloneAll,
       EndPreparing, EndCommand, EndBootstrap, BuilderRaises, disk
<1>2. CASE PublishTree(b)
    BY <1>2 DEF PublishTree, Checkout
<1>3. CASE MakeEnvironment(b)
    BY <1>3 DEF MakeEnvironment
<1>4. CASE StartCommand(b)
    BY <1>4 DEF StartCommand, BuilderType, BuilderRecord
<1>5. CASE InstallFinishes(b)
    BY <1>5 DEF InstallFinishes, Usable
<1> QED
    BY <1>1, <1>2, <1>3, <1>4, <1>5 DEF Build

\* What the steps of an acceptor write is of its type.
LEMMA AcceptorMoves ==
    ASSUME AcceptorType, NEW a \in Acceptor, NEW r \in AcceptorRecord,
           acceptor' = [acceptor EXCEPT ![a] = r],
           evidence' \subseteq Evidence, found' \subseteq Project
    PROVE  AcceptorType'
BY DEF AcceptorType

\* A verification leaves a report about one more project.
LEMMA ReportGrows ==
    ASSUME NEW report \in Reports, NEW p \in Project, NEW is \in Usable
    PROVE  [q \in DOMAIN report \cup {p} |-> IF q = p THEN is ELSE report[q]] \in Reports
<1>1. PICK P \in SUBSET Project : report \in [P -> Usable]
    BY DEF Reports
<1>2. P \cup {p} \in SUBSET Project
    BY <1>1
<1>3. [q \in DOMAIN report \cup {p} |-> IF q = p THEN is ELSE report[q]] \in [P \cup {p} -> Usable]
    BY <1>1
<1> QED
    BY <1>2, <1>3 DEF Reports

LEMMA AcceptKeepsTypes ==
    ASSUME WorldType, AcceptorType, Aims, calls \in Call, NEW a \in Acceptor, Accept(a)
    PROVE  WorldType' /\ AcceptorType' /\ calls' \in Call
<1>0. /\ acceptor[a] \in AcceptorRecord
      /\ evidence \subseteq Evidence /\ found \subseteq Project
      /\ 0 \in Call /\ MaxCalls \in Nat
    BY AcceptanceAssumption DEF AcceptorType, Call
<1>w. UNCHANGED disk => WorldType'
    BY DEF WorldType, disk
<1>i. IdleAcceptor \in AcceptorRecord
    BY <1>0, NoReport DEF IdleAcceptor, AcceptorRecord
<1>1. CASE StartAcceptance(a)
    <2>1. calls' \in Call /\ calls' = calls + 1
        BY <1>0, <1>1 DEF StartAcceptance, Call
    <2>2. [IdleAcceptor EXCEPT !.phase = "before", !.call = calls + 1, !.todo = Project]
              \in AcceptorRecord
        BY <1>i, <2>1 DEF AcceptorRecord
    <2> QED
        BY <1>0, <1>1, <1>w, <2>1, <2>2, AcceptorMoves DEF StartAcceptance
<1>2. ASSUME NEW p \in Project, VerifyProject(a, p) PROVE WorldType' /\ AcceptorType' /\ calls' \in Call
    <2>1. env[p].is \in Usable
        BY <1>2 DEF VerifyProject, Ready
    <2> DEFINE report == [q \in DOMAIN acceptor[a].report \cup {p} |->
                              IF q = p THEN env[p].is ELSE acceptor[a].report[q]]
    <2>2. report \in Reports
        BY <1>0, <2>1, ReportGrows DEF AcceptorRecord
    <2>3. [acceptor[a] EXCEPT !.todo = @ \ {p}, !.report = report] \in AcceptorRecord
        BY <1>0, <2>2 DEF AcceptorRecord
    <2>4. acceptor' = [acceptor EXCEPT ![a] = [acceptor[a] EXCEPT !.todo = @ \ {p}, !.report = report]]
        BY <1>2 DEF VerifyProject
    <2> QED
        BY <1>0, <1>2, <1>w, <2>3, <2>4, AcceptorMoves DEF VerifyProject
<1>3. CASE StartCases(a)
    <2>1. [acceptor[a] EXCEPT !.phase = "cases", !.cases = Case] \in AcceptorRecord
        BY <1>0 DEF AcceptorRecord
    <2> QED
        BY <1>0, <1>3, <1>w, <2>1, AcceptorMoves DEF StartCases
<1>4. ASSUME NEW c \in Case, StartCase(a, c) PROVE WorldType' /\ AcceptorType' /\ calls' \in Call
    <2>1. [acceptor[a] EXCEPT !.phase = "running", !.case = c] \in AcceptorRecord
        BY <1>0 DEF AcceptorRecord
    <2> QED
        BY <1>0, <1>4, <1>w, <2>1, AcceptorMoves DEF StartCase
<1>5. ASSUME NEW is \in {"expected", "other"}, CommandWrites(a, is)
      PROVE  WorldType' /\ AcceptorType' /\ calls' \in Call
    <2>1. [is |-> is, by |-> acceptor[a].call]
              \in [is : {"absent", "expected", "other"}, by : Call]
        BY <1>0 DEF AcceptorRecord
    <2>2. WorldType'
        BY <1>5, <2>1 DEF CommandWrites, WorldType
    <2> QED
        BY <1>0, <1>5, <2>2 DEF CommandWrites, AcceptorType
<1>6. ASSUME NEW zero \in BOOLEAN, EndCase(a, zero) PROVE WorldType' /\ AcceptorType' /\ calls' \in Call
    <2>1. [acceptor[a] EXCEPT !.phase = "reading", !.ended = zero] \in AcceptorRecord
        BY <1>0 DEF AcceptorRecord
    <2> QED
        BY <1>0, <1>6, <1>w, <2>1, AcceptorMoves DEF EndCase
<1>7. CASE ReadOutput(a)
    <2> DEFINE c == acceptor[a].case
               r == [acceptor[a] EXCEPT
                        !.phase = "cases", !.cases = @ \ {c}, !.case = None, !.ended = FALSE,
                        !.passed = IF acceptor[a].ended /\ output[c].is = "expected"
                                   THEN @ \cup {c} ELSE @,
                        !.own = @ /\ output[c].by = acceptor[a].call]
    <2>0. c \in Case
        BY <1>7 DEF ReadOutput, Aims
    <2>1. /\ acceptor[a].passed \cup {c} \in SUBSET Case
          /\ (acceptor[a].own /\ output[c].by = acceptor[a].call) \in BOOLEAN
        BY <1>0, <2>0 DEF AcceptorRecord
    <2>2. r \in AcceptorRecord
        BY <1>0, <2>1 DEF AcceptorRecord
    <2>3. acceptor' = [acceptor EXCEPT ![a] = r]
        BY <1>7 DEF ReadOutput
    <2> QED
        BY <1>0, <1>7, <1>w, <2>2, <2>3, AcceptorMoves DEF ReadOutput
<1>8. CASE StartAfter(a)
    <2>1. [acceptor[a] EXCEPT !.phase = "after", !.todo = Project, !.report = <<>>] \in AcceptorRecord
        BY <1>0, NoReport DEF AcceptorRecord
    <2>2. acceptor' = [acceptor EXCEPT ![a] =
                          [acceptor[a] EXCEPT !.phase = "after", !.todo = Project, !.report = <<>>]]
        BY <1>8 DEF StartAfter
    <2> QED
        BY <1>0, <1>8, <1>w, <2>1, <2>2, AcceptorMoves DEF StartAfter
<1>9. CASE WriteEvidence(a)
    <2>1. [call |-> acceptor[a].call, report |-> acceptor[a].report, own |-> acceptor[a].own,
           status |-> IF acceptor[a].passed = Case THEN "accepted" ELSE "blocked"] \in Evidence
        BY <1>0 DEF AcceptorRecord, Evidence
    <2>2. evidence' \subseteq Evidence
        BY <1>0, <1>9, <2>1 DEF WriteEvidence
    <2> QED
        BY <1>0, <1>9, <1>w, <1>i, <2>2, AcceptorMoves DEF WriteEvidence
<1>10. ASSUME NEW e \in evidence, StartVerifying(a, e) PROVE WorldType' /\ AcceptorType' /\ calls' \in Call
    <2>1. calls' \in Call /\ calls' = calls + 1 /\ e \in Evidence
        BY <1>0, <1>10 DEF StartVerifying, Call
    <2>2. [IdleAcceptor EXCEPT !.phase = "outputs", !.call = calls + 1, !.cases = Case,
                               !.evidence = e] \in AcceptorRecord
        BY <1>i, <2>1 DEF AcceptorRecord
    <2> QED
        BY <1>0, <1>10, <1>w, <2>1, <2>2, AcceptorMoves DEF StartVerifying
<1>11. ASSUME NEW c \in Case, VerifyOutput(a, c) PROVE WorldType' /\ AcceptorType' /\ calls' \in Call
    <2> DEFINE last == acceptor[a].cases = {c}
               r == [acceptor[a] EXCEPT !.cases = @ \ {c},
                        !.phase = IF last THEN "verifying" ELSE @,
                        !.todo = IF last THEN Project ELSE @]
    <2>1. r \in AcceptorRecord
        BY <1>0 DEF AcceptorRecord
    <2>2. acceptor' = [acceptor EXCEPT ![a] = r]
        BY <1>11 DEF VerifyOutput
    <2> QED
        BY <1>0, <1>11, <1>w, <2>1, <2>2, AcceptorMoves DEF VerifyOutput
<1>12. CASE EndVerifying(a)
    BY <1>0, <1>12, <1>w, <1>i, AcceptorMoves DEF EndVerifying
<1>13. CASE AcceptorRaises(a)
    BY <1>0, <1>13, <1>w, <1>i, AcceptorMoves DEF AcceptorRaises
<1> QED
    BY <1>1, <1>2, <1>3, <1>4, <1>5, <1>6, <1>7, <1>8, <1>9, <1>10, <1>11, <1>12, <1>13 DEF Accept

\* A change by other people keeps the types: what they write is of its kind.
LEMMA TouchKeepsTypes == TypeOK /\ Touch => TypeOK'
<1> SUFFICES ASSUME TypeOK, Touch PROVE TypeOK'
    OBVIOUS
<1>1. WorldType /\ BuilderType /\ AcceptorType /\ calls \in Call /\ touches \in 0..MaxTouches
    BY TypeParts
<1>2. touches' \in 0..MaxTouches
    BY <1>1, AcceptanceAssumption DEF Touch
<1>3. BuilderType' /\ AcceptorType' /\ calls' \in Call
    BY <1>1 DEF Touch, BuilderType, AcceptorType
<1>4. ASSUME NEW c \in Case, NEW is \in {"absent", "other"},
             output' = [output EXCEPT ![c] = [is |-> is, by |-> 0]],
             UNCHANGED <<source, tree, env>>
      PROVE  WorldType'
    <2>1. 0 \in Call
        BY AcceptanceAssumption DEF Call
    <2> QED
        BY <1>1, <1>4, <2>1 DEF WorldType
<1>5. ASSUME UNCHANGED output,
             \/ \E p \in Project, s \in Checkout :
                    source' = [source EXCEPT ![p] = s] /\ UNCHANGED <<tree, env>>
             \/ \E p \in Project, s \in Checkout :
                    tree # None /\ tree' = [tree EXCEPT ![p] = s] /\ UNCHANGED <<source, env>>
             \/ \E p \in Project, s \in Usable \cup {"broken"} :
                    env' = [env EXCEPT ![p].is = s] /\ UNCHANGED <<source, tree>>
      PROVE  WorldType'
    BY <1>1, <1>5 DEF WorldType
<1>6. WorldType'
    BY <1>4, <1>5 DEF Touch
<1> QED
    BY <1>2, <1>3, <1>6, TypeParts

\* With what is known of their moves, every step keeps the types.
LEMMA TypeStep == TypeOK /\ Aims /\ [Next]_vars => TypeOK'
<1> SUFFICES ASSUME TypeOK, Aims, [Next]_vars PROVE TypeOK'
    OBVIOUS
<1>1. WorldType /\ BuilderType /\ AcceptorType /\ calls \in Call /\ touches \in 0..MaxTouches
    BY TypeParts
<1>2. ASSUME NEW b \in Builder, Build(b) PROVE TypeOK'
    <2>1. WorldType' /\ BuilderType' /\ calls' \in Call
        BY <1>1, <1>2, BuildKeepsWorld, BuildKeepsBuilders
    <2>2. UNCHANGED <<acceptor, evidence, found, touches>>
        BY <1>2 DEF Build, MatchSource, StartBootstrap, LookForEnvironment, StartPreparing, CloneAll,
           PublishTree, EndPreparing, MakeEnvironment, StartCommand, InstallFinishes, EndCommand,
           EndBootstrap, BuilderRaises, others
    <2>3. AcceptorType' /\ touches' \in 0..MaxTouches
        BY <1>1, <2>2 DEF AcceptorType
    <2> QED
        BY <2>1, <2>3, TypeParts
<1>3. ASSUME NEW a \in Acceptor, Accept(a) PROVE TypeOK'
    <2>1. WorldType' /\ AcceptorType' /\ calls' \in Call
        BY <1>1, <1>3, AcceptKeepsTypes
    <2>2. UNCHANGED <<builder, touches>>
        BY <1>3 DEF Accept, StartAcceptance, StartCases, StartAfter, WriteEvidence, VerifyProject,
           StartCase, VerifyOutput, CommandWrites, EndCase, ReadOutput, StartVerifying,
           EndVerifying, AcceptorRaises, rest
    <2>3. BuilderType' /\ touches' \in 0..MaxTouches
        BY <1>1, <2>2 DEF BuilderType
    <2> QED
        BY <2>1, <2>3, TypeParts
<1>4. CASE UNCHANGED vars
    BY <1>4 DEF vars, disk, TypeOK
<1> QED
    BY <1>2, <1>3, <1>4, TouchKeepsTypes DEF Next

-----------------------------------------------------------------------------
(* Preparation and acceptance: the strengthening is inductive.             *)

LEMMA InvInit == Init => Inv
<1> SUFFICES ASSUME Init PROVE Inv
    OBVIOUS
<1>1. \A b \in Builder : builder[b].phase = "idle"
    BY DEF Init, IdleBuilder
<1>2. \A a \in Acceptor : acceptor[a].phase = "idle"
    BY DEF Init, IdleAcceptor
<1>3. Aims /\ Owns /\ Apart /\ Past /\ FoundBuilt
    BY <1>1, <1>2 DEF Init, Aims, Owns, Apart, Past, FoundBuilt, Works
<1>4. OneHand
    <2>1. 0 \in Call
        BY AcceptanceAssumption DEF Call
    <2> QED
        BY <2>1 DEF Init, OneHand, NoEnv
<1> QED
    BY <1>3, <1>4, TypeInit DEF Inv

\* What a builder aims at, and nothing else, says whether it works and on what.
LEMMA BuildersAlone ==
    ASSUME Inv, UNCHANGED builder,
           \A p \in Project : /\ env'[p].hands = env[p].hands
                              /\ env'[p].is = env[p].is \/ (Built(p) /\ Built(p)'),
           \A p \in found' : Built(p)'
    PROVE  Owns' /\ Apart' /\ OneHand' /\ Past' /\ FoundBuilt'
<1> USE DEF Inv
<1>1. \A b \in Builder : Works(b)' <=> Works(b)
    BY DEF Works
<1>2. \A b \in Builder : Works(b) => builder[b].project \in Project
    BY DEF Aims
<1>3. \A p \in Project : Built(p) => env[p].is # "none"
    BY DEF Built, Usable
<1>4. \A p \in Project : (Built(p)' <=> Built(p)) /\ (env'[p].is = "none" <=> env[p].is = "none")
    BY DEF Built, Usable
<1>h. \A p \in Project : env'[p].hands = env[p].hands
    BY DEF Built
<1>5. Owns'
    BY <1>1, <1>2, <1>4, <1>h DEF Owns
<1>6. Apart'
    BY <1>1 DEF Apart
<1>7. OneHand'
    BY <1>4, <1>h DEF OneHand
<1>8. Past'
    BY <1>1, <1>2, <1>4 DEF Past
<1> QED
    BY <1>5, <1>6, <1>7, <1>8 DEF FoundBuilt

\* These steps lead to where a builder works on nothing.
LEMMA Leaving ==
    ASSUME builder \in [Builder -> BuilderRecord], NEW b \in Builder,
           \/ \E p \in Project : MatchSource(b, p) \/ StartBootstrap(b, p) \/ LookForEnvironment(b, p)
           \/ StartPreparing(b) \/ CloneAll(b) \/ PublishTree(b) \/ EndPreparing(b)
           \/ EndBootstrap(b) \/ BuilderRaises(b)
    PROVE  ~ Works(b)'
<1>i. IdleBuilder.phase = "idle"
    BY DEF IdleBuilder
<1> USE DEF BuilderRecord, Works
<1>1. ASSUME NEW p \in Project, MatchSource(b, p) PROVE ~ Works(b)'
    BY <1>1 DEF MatchSource
<1>2. ASSUME NEW p \in Project, StartBootstrap(b, p) PROVE ~ Works(b)'
    BY <1>2 DEF StartBootstrap, IdleBuilder
<1>3. ASSUME NEW p \in Project, LookForEnvironment(b, p) PROVE ~ Works(b)'
    BY <1>3 DEF LookForEnvironment
<1>4. ASSUME StartPreparing(b) PROVE ~ Works(b)'
    BY <1>4 DEF StartPreparing, IdleBuilder
<1>5. ASSUME CloneAll(b) \/ PublishTree(b) PROVE ~ Works(b)'
    BY <1>5 DEF CloneAll, PublishTree
<1>6. ASSUME EndPreparing(b) \/ BuilderRaises(b) PROVE ~ Works(b)'
    BY <1>6, <1>i DEF EndPreparing, BuilderRaises
<1>7. ASSUME EndBootstrap(b) PROVE ~ Works(b)'
    BY <1>7, <1>i DEF EndBootstrap
<1> QED
    BY <1>1, <1>2, <1>3, <1>4, <1>5, <1>6, <1>7

\* A builder that goes where it works on nothing leaves everything as it is.
LEMMA BuilderLeaves ==
    ASSUME Inv, NEW b \in Builder, env' = env, found' = found,
           \A c \in Builder : c # b => builder'[c] = builder[c],
           ~ Works(b)'
    PROVE  Owns' /\ Apart' /\ OneHand' /\ Past' /\ FoundBuilt'
<1> USE DEF Inv
<1>1. \A c \in Builder : Works(c)' => c # b /\ Works(c)
    BY DEF Works
<1>2. \A p \in Project : Built(p)' <=> Built(p)
    BY DEF Built
<1>3. \A c \in Builder : Works(c) => builder[c].project \in Project
    BY DEF Aims
<1>4. Owns'
    BY <1>1 DEF Owns
<1>5. Apart'
    BY <1>1 DEF Apart
<1>6. OneHand'
    BY DEF OneHand
<1>7. Past'
    BY <1>1, <1>2, <1>3 DEF Past
<1> QED
    BY <1>2, <1>4, <1>5, <1>6, <1>7 DEF FoundBuilt, TypeOK

\* Builders and acceptors know what they do next.
LEMMA AimsStep == Inv /\ [Next]_vars => Aims'
<1> SUFFICES ASSUME Inv, [Next]_vars PROVE Aims'
    OBVIOUS
<1> USE DEF Inv, Works
<1>1. CASE Touch
    BY <1>1 DEF Touch, Aims
<1>2. ASSUME NEW b \in Builder, Build(b) PROVE Aims'
    <2>1. UNCHANGED acceptor /\ \A c \in Builder : c # b => builder'[c] = builder[c]
        BY <1>2 DEF TypeOK, Build, MatchSource, StartBootstrap, LookForEnvironment, StartPreparing,
           CloneAll, PublishTree, EndPreparing, MakeEnvironment, StartCommand, InstallFinishes,
           EndCommand, EndBootstrap, BuilderRaises, others
    <2> DEFINE Good == /\ Works(b)' \/ builder'[b].phase = "making" => builder'[b].project \in Project
                       /\ builder'[b].phase = "running" => builder'[b].index < 4
    <2>2. builder[b] \in BuilderRecord /\ BuilderType
        BY TypeParts DEF BuilderType
    <2>i. IdleBuilder.phase = "idle"
        BY DEF IdleBuilder
    <2> USE <2>2 DEF BuilderType
    <2>3. ASSUME NEW p \in Project, MatchSource(b, p) PROVE Good
        BY <2>3 DEF MatchSource
    <2>4. ASSUME NEW p \in Project, StartBootstrap(b, p) PROVE Good
        BY <2>4 DEF StartBootstrap, IdleBuilder
    <2>5. ASSUME NEW p \in Project, LookForEnvironment(b, p) PROVE Good
        BY <2>5 DEF LookForEnvironment
    <2>6. ASSUME StartPreparing(b) PROVE Good
        BY <2>6 DEF StartPreparing, IdleBuilder
    <2>7. ASSUME CloneAll(b) PROVE Good
        BY <2>7 DEF CloneAll
    <2>8. ASSUME PublishTree(b) PROVE Good
        BY <2>8 DEF PublishTree
    <2>9. ASSUME EndPreparing(b) \/ BuilderRaises(b) PROVE Good
        BY <2>9, <2>i DEF EndPreparing, BuilderRaises
    <2>10. ASSUME EndBootstrap(b) PROVE Good
        BY <2>10, <2>i DEF EndBootstrap
    <2>11. ASSUME MakeEnvironment(b) PROVE Good
        BY <2>11 DEF MakeEnvironment, Aims
    <2>12. ASSUME StartCommand(b) PROVE Good
        BY <2>12 DEF StartCommand, Aims
    <2>13. ASSUME InstallFinishes(b) PROVE Good
        BY <2>13 DEF InstallFinishes, Aims, others
    <2>14. ASSUME EndCommand(b) PROVE Good
        BY <2>14 DEF EndCommand, Aims
    <2>15. Good
        BY <1>2, <2>3, <2>4, <2>5, <2>6, <2>7, <2>8, <2>9, <2>10, <2>11, <2>12, <2>13, <2>14 DEF Build
    <2> QED
        BY <2>1, <2>15 DEF Aims
<1>3. ASSUME NEW a \in Acceptor, Accept(a) PROVE Aims'
    <2>1. UNCHANGED builder
        BY <1>3 DEF Accept, StartAcceptance, StartCases, StartAfter, WriteEvidence, VerifyProject,
           StartCase, VerifyOutput, CommandWrites, EndCase, ReadOutput, StartVerifying,
           EndVerifying, AcceptorRaises, rest
    <2>2. acceptor \in [Acceptor -> AcceptorRecord]
        BY TypeParts DEF AcceptorType
    <2>3. \A d \in Acceptor : d # a => acceptor'[d] = acceptor[d]
        BY <1>3, <2>2 DEF Accept, StartAcceptance, StartCases, StartAfter, WriteEvidence,
           VerifyProject, StartCase, VerifyOutput, CommandWrites, EndCase, ReadOutput,
           StartVerifying, EndVerifying, AcceptorRaises, rest
    <2> DEFINE Good == acceptor'[a].phase \in {"running", "reading"} => acceptor'[a].case \in Case
    <2>i. IdleAcceptor.phase = "idle"
        BY DEF IdleAcceptor
    <2> USE <2>2
    <2>4. ASSUME NEW p \in Project, VerifyProject(a, p) PROVE Good
        BY <2>4 DEF VerifyProject
    <2>5. ASSUME NEW c \in Case, VerifyOutput(a, c) PROVE Good
        <3> DEFINE last == acceptor[a].cases = {c}
                   r == [acceptor[a] EXCEPT !.cases = @ \ {c},
                            !.phase = IF last THEN "verifying" ELSE @,
                            !.todo = IF last THEN Project ELSE @]
        <3>1. acceptor' = [acceptor EXCEPT ![a] = r] /\ acceptor[a].phase = "outputs"
            BY <2>5 DEF VerifyOutput
        <3>2. r.phase = IF last THEN "verifying" ELSE acceptor[a].phase
            BY DEF AcceptorRecord
        <3> HIDE DEF r
        <3> QED
            BY <3>1, <3>2
    <2>6. ASSUME NEW c \in Case, StartCase(a, c) PROVE Good
        BY <2>6 DEF StartCase
    <2>7. ASSUME NEW zero \in BOOLEAN, EndCase(a, zero) PROVE Good
        BY <2>7 DEF EndCase, Aims
    <2>8. ASSUME NEW is \in {"expected", "other"}, CommandWrites(a, is) PROVE Good
        BY <2>8 DEF CommandWrites, Aims
    <2>9. ASSUME StartAcceptance(a) PROVE Good
        BY <2>9 DEF StartAcceptance, IdleAcceptor
    <2>10. ASSUME StartCases(a) PROVE Good
        BY <2>10 DEF StartCases
    <2>11. ASSUME StartAfter(a) PROVE Good
        BY <2>11 DEF StartAfter
    <2>12. ASSUME WriteEvidence(a) \/ EndVerifying(a) \/ AcceptorRaises(a) PROVE Good
        BY <2>12, <2>i DEF WriteEvidence, EndVerifying, AcceptorRaises
    <2>13. ASSUME ReadOutput(a) PROVE Good
        BY <2>13 DEF ReadOutput
    <2>14. ASSUME NEW e \in evidence, StartVerifying(a, e) PROVE Good
        BY <2>14 DEF StartVerifying, IdleAcceptor
    <2>15. Good
        BY <1>3, <2>4, <2>5, <2>6, <2>7, <2>8, <2>9, <2>10, <2>11, <2>12, <2>13, <2>14 DEF Accept
    <2> QED
        BY <2>1, <2>3, <2>15 DEF Aims
<1>4. CASE UNCHANGED vars
    BY <1>4 DEF vars, Aims
<1> QED
    BY <1>1, <1>2, <1>3, <1>4 DEF Next

-----------------------------------------------------------------------------
(* Steps of a builder that works.                                          *)

\* What is the same while builder b works on environment p.
Others(b, p) ==
    /\ found' = found
    /\ \A c \in Builder : c # b => builder'[c] = builder[c]
    /\ \A q \in Project : q # p => env'[q] = env[q]

\* mkdir gives the directory to a builder that then works on it alone.
LEMMA Makes ==
    ASSUME Inv, NEW b \in Builder, MakeEnvironment(b)
    PROVE  Owns' /\ Apart' /\ OneHand' /\ Past' /\ FoundBuilt'
<1> USE DEF Inv
<1>p. PICK p \in Project : p = builder[b].project
    BY DEF Aims, MakeEnvironment
<1>1. env[p].is = "none" /\ env[p].hands = {}
    BY <1>p DEF MakeEnvironment, OneHand
<1>2. /\ Works(b)' /\ builder'[b].project = p /\ builder'[b].call = builder[b].call
      /\ Others(b, p)
      /\ env'[p].is = "building" /\ env'[p].hands = {}
    BY <1>p, <1>1 DEF TypeOK, MakeEnvironment, Others, others, Works
<1>3. \A c \in Builder : c # b => (Works(c)' <=> Works(c)) /\ (Works(c) => builder[c].project \in Project \ {p})
    BY <1>1, <1>2 DEF Works, Others, Owns, Aims
<1>4. ~ Built(p)' /\ ~ Built(p) /\ \A q \in Project \ {p} : Built(q)' <=> Built(q)
    BY <1>1, <1>2 DEF Built, Usable, Others
<1>5. Owns'
    BY <1>1, <1>2, <1>3 DEF Owns, Others
<1>6. Apart'
    BY <1>2, <1>3 DEF Apart, Others
<1>7. OneHand'
    BY <1>1, <1>2 DEF OneHand, Others
<1>8. Past'
    BY <1>2, <1>3, <1>4 DEF Past, Others
<1>9. FoundBuilt'
    BY <1>2, <1>4 DEF FoundBuilt, Others, TypeOK
<1> QED
    BY <1>5, <1>6, <1>7, <1>8, <1>9

\* A builder that works goes on with what it alone has.
LEMMA WorkGoesOn ==
    ASSUME Inv, NEW b \in Builder, NEW p \in Project, p = builder[b].project,
           Works(b), Works(b)', builder'[b].project = p, builder'[b].call = builder[b].call,
           Others(b, p),
           env'[p].is # "none", env'[p].hands \subseteq env[p].hands \cup {builder[b].call},
           Built(p) => Built(p)',
           Built(p)' => \/ builder'[b].index >= 3
                        \/ builder'[b].index = 2 /\ builder'[b].phase = "running"
    PROVE  Owns' /\ Apart' /\ OneHand' /\ Past' /\ FoundBuilt'
<1> USE DEF Inv
<1>1. \A c \in Builder : c # b => (Works(c)' <=> Works(c)) /\ (Works(c) => builder[c].project \in Project \ {p})
    BY DEF Works, Others, Apart, Aims
<1>2. \A q \in Project \ {p} : Built(q)' <=> Built(q)
    BY DEF Built, Others
<1>3. env[p].hands \subseteq {builder[b].call}
    BY DEF Owns
<1>4. Owns'
    BY <1>1, <1>3 DEF Owns, Others
<1>5. Apart'
    BY <1>1 DEF Apart, Others
<1>6. OneHand'
    <2>1. builder[b].call \in Call
        BY DEF TypeOK
    <2> QED
        BY <1>3, <2>1 DEF OneHand, Others
<1>7. Past'
    BY <1>1, <1>2 DEF Past, Others
<1>8. FoundBuilt'
    BY <1>2 DEF FoundBuilt, Others, TypeOK
<1> QED
    BY <1>4, <1>5, <1>6, <1>7, <1>8

\* Its commands take nothing apart that was complete.
LEMMA Commands ==
    ASSUME Inv, NEW b \in Builder,
           StartCommand(b) \/ InstallFinishes(b) \/ EndCommand(b)
    PROVE  Owns' /\ Apart' /\ OneHand' /\ Past' /\ FoundBuilt'
<1>0. Works(b)
    BY DEF StartCommand, InstallFinishes, EndCommand, Works
<1>p. PICK p \in Project : p = builder[b].project
    BY <1>0 DEF Inv, Aims
<1>1. Works(b) /\ p = builder[b].project /\ env[p].is # "none"
    BY <1>0, <1>p DEF Inv, Owns
<1>2. builder[b].index \in 0..4 /\ builder[b].call \in Call
    BY DEF Inv, TypeOK
<1>3. CASE StartCommand(b)
    <2>1. /\ builder'[b] = [builder[b] EXCEPT !.phase = "running"]
          /\ \A c \in Builder : c # b => builder'[c] = builder[c]
        BY <1>3 DEF Inv, TypeOK, StartCommand
    <2>0. /\ builder'[b].phase = "running" /\ builder'[b].project = p
          /\ builder'[b].call = builder[b].call /\ builder'[b].index = builder[b].index
        BY <1>1, <2>1 DEF Inv, TypeOK
    <2>2. CASE builder[b].index = 3
        <3>1. env' = env /\ Others(b, p)
            BY <1>3, <2>1, <2>2 DEF StartCommand, Others, others
        <3> QED
            BY <1>1, <2>0, <2>2, <3>1, WorkGoesOn DEF Works, Built
    <2>3. CASE builder[b].index # 3
        <3>1. /\ env'[p].is = "building" /\ env'[p].hands = env[p].hands \cup {builder[b].call}
              /\ Others(b, p)
            BY <1>1, <1>3, <2>1, <2>3 DEF Inv, TypeOK, StartCommand, Others, others
        <3>2. ~ Built(p)
            BY <1>1, <1>2, <1>3, <2>3 DEF Inv, Past, StartCommand
        <3> QED
            BY <1>1, <2>0, <3>1, <3>2, WorkGoesOn DEF Works, Built, Usable
    <2> QED
        BY <2>2, <2>3
<1>4. CASE InstallFinishes(b)
    <2>1. /\ env'[p].is = "ready" /\ env'[p].hands = env[p].hands
          /\ builder' = builder /\ Others(b, p)
        BY <1>1, <1>4 DEF Inv, TypeOK, InstallFinishes, Others, others
    <2>2. builder[b].index = 2 /\ builder[b].phase = "running"
        BY <1>4 DEF InstallFinishes
    <2> QED
        BY <1>1, <2>1, <2>2, WorkGoesOn DEF Works, Built, Usable
<1>5. CASE EndCommand(b)
    <2>0. builder \in [Builder -> BuilderRecord]
        BY TypeParts DEF Inv, BuilderType
    <2>1. /\ env' = env /\ Others(b, p)
          /\ builder[b].index = 2 => Built(p)
        BY <1>1, <1>5, <2>0 DEF EndCommand, Others, others, disk
    <2>2. /\ builder'[b].phase = "checking" /\ builder'[b].index = builder[b].index + 1
          /\ builder'[b].project = p /\ builder'[b].call = builder[b].call
        BY <1>1, <1>5, <2>0 DEF EndCommand, BuilderRecord
    <2>3. Built(p) => builder'[b].index >= 3
        BY <1>1, <1>2, <2>2 DEF Inv, Past
    <2> QED
        BY <1>1, <2>1, <2>2, <2>3, WorkGoesOn DEF Works, Built
<1> QED
    BY <1>3, <1>4, <1>5

-----------------------------------------------------------------------------
(* Every step.                                                             *)

LEMMA InvStep == Inv /\ [Next]_vars => Inv'
<1> SUFFICES ASSUME Inv, [Next]_vars PROVE Inv'
    OBVIOUS
<1>1. TypeOK' /\ Aims'
    BY TypeStep, AimsStep DEF Inv
<1> DEFINE Rest == Owns' /\ Apart' /\ OneHand' /\ Past' /\ FoundBuilt'
<1>2. ASSUME Touch PROVE Rest
    <2>1. UNCHANGED <<builder, found>>
        BY <1>2 DEF Touch
    <2>2. \A p \in Project : /\ env'[p].hands = env[p].hands
                             /\ (env'[p].is = env[p].is \/ (Built(p) /\ Built(p)'))
        <3>1. CASE env' = env
            BY <3>1
        <3>2. ASSUME NEW q \in Project, NEW s \in Usable \cup {"broken"}, Built(q),
                     env' = [env EXCEPT ![q].is = s]
              PROVE  \A p \in Project : /\ env'[p].hands = env[p].hands
                                        /\ (env'[p].is = env[p].is \/ (Built(p) /\ Built(p)'))
            BY <3>2 DEF Inv, TypeOK, Built
        <3> QED
            BY <1>2, <3>1, <3>2 DEF Touch
    <2>3. \A p \in found' : Built(p)'
        BY <2>1, <2>2 DEF Inv, TypeOK, FoundBuilt, Built
    <2> QED
        BY <2>1, <2>2, <2>3, BuildersAlone
<1>3. ASSUME NEW a \in Acceptor, Accept(a) PROVE Rest
    <2>1. UNCHANGED <<builder, env>>
        BY <1>3 DEF Accept, StartAcceptance, StartCases, StartAfter, WriteEvidence, VerifyProject,
           StartCase, VerifyOutput, CommandWrites, EndCase, ReadOutput, StartVerifying,
           EndVerifying, AcceptorRaises, rest, disk
    <2>2. \/ found' = found
          \/ \E p \in Project : Ready(p) /\ found' = found \cup {p}
        BY <1>3 DEF Accept, StartAcceptance, StartCases, StartAfter, WriteEvidence, VerifyProject,
           StartCase, VerifyOutput, CommandWrites, EndCase, ReadOutput, StartVerifying,
           EndVerifying, AcceptorRaises
    <2>3. \A p \in found' : Built(p)'
        BY <2>1, <2>2 DEF Inv, FoundBuilt, Ready, Built
    <2>4. \A p \in Project : env'[p].hands = env[p].hands /\ env'[p].is = env[p].is
        BY <2>1
    <2> QED
        BY <2>1, <2>3, <2>4, BuildersAlone
<1>4. ASSUME NEW b \in Builder, Build(b) PROVE Rest
    <2>1. ASSUME \/ \E p \in Project : MatchSource(b, p) \/ StartBootstrap(b, p)
                                       \/ LookForEnvironment(b, p)
                 \/ StartPreparing(b) \/ CloneAll(b) \/ PublishTree(b) \/ EndPreparing(b)
                 \/ EndBootstrap(b) \/ BuilderRaises(b)
          PROVE  Rest
        <3>1. UNCHANGED <<env, found>>
            BY <2>1 DEF MatchSource, StartBootstrap, LookForEnvironment, StartPreparing, CloneAll,
               PublishTree, EndPreparing, EndBootstrap, BuilderRaises, disk, others
        <3>2. builder \in [Builder -> BuilderRecord]
            BY TypeParts DEF Inv, BuilderType
        <3>3. \A c \in Builder : c # b => builder'[c] = builder[c]
            BY <2>1, <3>2 DEF MatchSource, StartBootstrap, LookForEnvironment, StartPreparing,
               CloneAll, PublishTree, EndPreparing, EndBootstrap, BuilderRaises
        <3>4. ~ Works(b)'
            BY <2>1, <3>2, Leaving
        <3> QED
            BY <3>1, <3>3, <3>4, BuilderLeaves
    <2> QED
        BY <1>4, <2>1, Makes, Commands DEF Build
<1>5. ASSUME UNCHANGED vars PROVE Rest
    BY <1>5 DEF vars, disk, Inv, Owns, Apart, OneHand, Past, FoundBuilt, Works, Built
<1> QED
    BY <1>1, <1>2, <1>3, <1>4, <1>5 DEF Next, Inv

-----------------------------------------------------------------------------
(* Preparation and acceptance: the theorems.                               *)

THEOREM Invariance == Spec => []Inv
<1> QED
    BY InvInit, InvStep, PTL DEF Spec

\* Every variable holds a value of its kind.
THEOREM TypeCorrect == Spec => []TypeOK
<1>1. Inv => TypeOK
    BY DEF Inv
<1> QED
    BY <1>1, Invariance, PTL

\* The environment of a project is the work of one call of bootstrap, however many
\* calls there are and whenever they are interrupted.
THEOREM EnvironmentsOfOneCall == Spec => []BuiltByOne
<1>1. Inv => BuiltByOne
    <2> SUFFICES ASSUME Inv, NEW p \in Project PROVE Cardinality(env[p].hands) <= 1
        BY DEF BuiltByOne
    <2>1. PICK k \in Call : env[p].hands \subseteq {k}
        BY DEF Inv, OneHand
    <2>2. env[p].hands = {} \/ env[p].hands = {k}
        BY <2>1
    <2>3. Cardinality({}) = 0 /\ Cardinality({k}) = 1
        BY FS_EmptySet, FS_Singleton
    <2> QED
        BY <2>2, <2>3
<1> QED
    BY <1>1, Invariance, PTL

\* What a verification has found ready is never again under construction, and a
\* prepared directory is only changed by other people.
THEOREM PreparationsStay == Spec => PreparedStays
<1>1. Inv /\ Inv' /\ [Next]_vars =>
          [/\ tree # None /\ tree' # tree => touches' # touches
           /\ \A p \in found : Built(p)']_vars
    <2> SUFFICES ASSUME Inv, Inv', Next
                 PROVE  /\ tree # None /\ tree' # tree => touches' # touches
                        /\ \A p \in found : Built(p)'
        OBVIOUS
    <2>1. ASSUME NEW b \in Builder, Build(b)
          PROVE  found' = found /\ (tree # None => tree' = tree)
        BY <2>1 DEF Build, MatchSource, StartBootstrap, LookForEnvironment, StartPreparing, CloneAll,
           PublishTree, EndPreparing, MakeEnvironment, StartCommand, InstallFinishes, EndCommand,
           EndBootstrap, BuilderRaises, disk, others
    <2>2. ASSUME NEW a \in Acceptor, Accept(a)
          PROVE  found \subseteq found' /\ tree' = tree
        BY <2>2 DEF Accept, StartAcceptance, StartCases, StartAfter, WriteEvidence, VerifyProject,
           StartCase, VerifyOutput, CommandWrites, EndCase, ReadOutput, StartVerifying,
           EndVerifying, AcceptorRaises, disk
    <2>3. ASSUME Touch PROVE found' = found /\ touches' # touches
        BY <2>3, AcceptanceAssumption DEF Touch, Inv, TypeOK
    <2>4. found \subseteq found' /\ (tree # None /\ tree' # tree => touches' # touches)
        BY <2>1, <2>2, <2>3 DEF Next
    <2> QED
        BY <2>4 DEF Inv, FoundBuilt
<1> QED
    BY <1>1, Invariance, PTL DEF Spec, PreparedStays

-----------------------------------------------------------------------------
(* Preparation and acceptance: whose outputs the evidence is about.         *)

\* A case starts when its output is absent, and until it is read nobody but the
\* command of that case writes it.
OutputsFresh ==
    [][\A a \in Acceptor :
          /\ acceptor[a].phase # "running" /\ acceptor'[a].phase = "running"
                 => output[acceptor'[a].case].is = "absent"
          /\ acceptor[a].phase \in {"running", "reading"} =>
                 \/ output'[acceptor[a].case] = output[acceptor[a].case]
                 \/ output'[acceptor[a].case].by = acceptor[a].call]_vars

\* What acceptance r can say of the outputs: so far they are its own, or some case
\* that is over has not passed and will not.
Attested(r, out) ==
    /\ r.phase = "before" => r.own /\ r.passed = {}
    /\ r.phase \in {"cases", "running", "reading"} => r.passed \cap r.cases = {}
    /\ r.phase \in {"cases", "running", "reading", "after"} =>
           r.own \/ \E c \in Case : c \notin r.passed \cup r.cases
    /\ r.phase \in {"running", "reading"} =>
           r.case \in r.cases /\ (out[r.case].is = "absent" \/ out[r.case].by = r.call)

\* It can say so still when the others have done what they may.
LEMMA AttestedLasts ==
    ASSUME NEW r, NEW before, NEW after, Attested(r, before),
           r.phase \in {"running", "reading"} =>
               after[r.case] = before[r.case] \/ after[r.case].by = r.call
    PROVE  Attested(r, after)
BY DEF Attested

\* A step of the acceptance itself.
LEMMA AcceptAttests ==
    ASSUME TypeOK, NEW a \in Acceptor, Accept(a), Attested(acceptor[a], output),
           acceptor[a].phase # "running" /\ acceptor'[a].phase = "running"
               => output[acceptor'[a].case].is = "absent"
    PROVE  Attested(acceptor'[a], output')
<1>1. PICK r \in AcceptorRecord : r = acceptor[a]
    BY TypeParts DEF AcceptorType
<1>2. acceptor \in [Acceptor -> AcceptorRecord]
    BY TypeParts DEF AcceptorType
<1>3. Attested(r, output)
    BY <1>1
<1>4. CASE \/ WriteEvidence(a) \/ EndVerifying(a) \/ AcceptorRaises(a)
    <2>1. acceptor'[a] = IdleAcceptor
        BY <1>2, <1>4 DEF WriteEvidence, EndVerifying, AcceptorRaises
    <2> QED
        BY <2>1 DEF IdleAcceptor, Attested
<1>5. CASE StartAcceptance(a) \/ \E e \in evidence : StartVerifying(a, e)
    <2>1. /\ acceptor'[a].phase \in {"before", "outputs"}
          /\ acceptor'[a].own = TRUE /\ acceptor'[a].passed = {}
        BY <1>2, <1>5 DEF StartAcceptance, StartVerifying, IdleAcceptor
    <2> QED
        BY <2>1 DEF Attested
<1>6. CASE \E p \in Project : VerifyProject(a, p)
    <2>1. PICK p \in Project : VerifyProject(a, p)
        BY <1>6
    <2>r. PICK report : report =
              [q \in DOMAIN r.report \cup {p} |-> IF q = p THEN env[p].is ELSE r.report[q]]
        OBVIOUS
    <2>2. acceptor'[a] = [r EXCEPT !.todo = @ \ {p}, !.report = report]
        BY <1>1, <1>2, <2>1, <2>r DEF VerifyProject
    <2>3. /\ acceptor'[a].phase = r.phase /\ acceptor'[a].own = r.own
          /\ acceptor'[a].passed = r.passed /\ acceptor'[a].cases = r.cases
        BY <2>2 DEF AcceptorRecord
    <2>4. r.phase \notin {"running", "reading"}
        BY <1>1, <2>1 DEF VerifyProject
    <2> QED
        BY <1>3, <2>3, <2>4 DEF Attested
<1>7. CASE StartCases(a)
    <2>1. /\ acceptor'[a].phase = "cases" /\ acceptor'[a].own = r.own /\ r.phase = "before"
          /\ acceptor'[a].passed = r.passed
        BY <1>1, <1>2, <1>7 DEF StartCases, AcceptorRecord
    <2> QED
        BY <1>3, <2>1 DEF Attested
<1>8. CASE \E c \in Case : StartCase(a, c)
    <2>1. PICK c \in Case : StartCase(a, c)
        BY <1>8
    <2>2. acceptor'[a] = [r EXCEPT !.phase = "running", !.case = c]
        BY <1>1, <1>2, <2>1 DEF StartCase
    <2>3. /\ acceptor'[a].phase = "running" /\ acceptor'[a].case = c /\ acceptor'[a].own = r.own
          /\ acceptor'[a].passed = r.passed /\ acceptor'[a].cases = r.cases
        BY <2>2 DEF AcceptorRecord
    <2>4. r.phase = "cases" /\ c \in r.cases /\ output' = output
        BY <1>1, <2>1 DEF StartCase, disk
    <2>5. output[c].is = "absent"
        BY <1>1, <2>3, <2>4
    <2> QED
        BY <1>3, <2>3, <2>4, <2>5 DEF Attested
<1>9. CASE \E is \in {"expected", "other"} : CommandWrites(a, is)
    <2>1. PICK is \in {"expected", "other"} : CommandWrites(a, is)
        BY <1>9
    <2>2. PICK w : w = [is |-> is, by |-> r.call]
        OBVIOUS
    <2>3. /\ acceptor'[a] = r /\ r.phase = "running" /\ w.by = r.call
          /\ output' = [output EXCEPT ![r.case] = w]
        BY <1>1, <2>1, <2>2 DEF CommandWrites
    <2>4. r.case \in Case
        BY <1>3, <2>3 DEF Attested, AcceptorRecord
    <2>5. output'[r.case] = w
        BY <2>3, <2>4 DEF TypeOK
    <2> QED
        BY <1>3, <2>3, <2>5 DEF Attested
<1>10. CASE \E zero \in BOOLEAN : EndCase(a, zero)
    <2>1. PICK zero \in BOOLEAN : EndCase(a, zero)
        BY <1>10
    <2>2. acceptor'[a] = [r EXCEPT !.phase = "reading", !.ended = zero]
        BY <1>1, <1>2, <2>1 DEF EndCase
    <2>3. /\ acceptor'[a].phase = "reading" /\ acceptor'[a].case = r.case /\ acceptor'[a].own = r.own
          /\ acceptor'[a].passed = r.passed /\ acceptor'[a].cases = r.cases
          /\ acceptor'[a].call = r.call
        BY <2>2 DEF AcceptorRecord
    <2>4. r.phase = "running" /\ output' = output
        BY <1>1, <2>1 DEF EndCase, disk
    <2> QED
        BY <1>3, <2>3, <2>4 DEF Attested
<1>11. CASE ReadOutput(a)
    <2>1. /\ r.phase = "reading" /\ r.case \in r.cases /\ r.case \in Case
          /\ output[r.case].is = "absent" \/ output[r.case].by = r.call
          /\ r.own \/ \E c \in Case : c \notin r.passed \cup r.cases
          /\ r.passed \cap r.cases = {}
        BY <1>1, <1>3, <1>11 DEF ReadOutput, Attested, AcceptorRecord
    <2>2. PICK passes \in BOOLEAN : passes = (r.ended /\ output[r.case].is = "expected")
        <3>1. (r.ended /\ output[r.case].is = "expected") \in BOOLEAN
            OBVIOUS
        <3> QED
            BY <3>1
    <2>3. PICK mine \in BOOLEAN : mine = (r.own /\ output[r.case].by = r.call)
        <3>1. (r.own /\ output[r.case].by = r.call) \in BOOLEAN
            OBVIOUS
        <3> QED
            BY <3>1
    <2>4. acceptor'[a] = [r EXCEPT
              !.phase = "cases", !.cases = @ \ {r.case}, !.case = None, !.ended = FALSE,
              !.passed = IF passes THEN @ \cup {r.case} ELSE @, !.own = mine]
        BY <1>1, <1>2, <1>11, <2>2, <2>3 DEF ReadOutput
    <2>5. /\ acceptor'[a].phase = "cases" /\ acceptor'[a].own = mine
          /\ acceptor'[a].cases = r.cases \ {r.case}
          /\ acceptor'[a].passed = IF passes THEN r.passed \cup {r.case} ELSE r.passed
        BY <2>4 DEF AcceptorRecord
    <2>d. /\ acceptor'[a].passed \subseteq r.passed \cup {r.case}
          /\ acceptor'[a].passed \cap acceptor'[a].cases = {}
        BY <2>1, <2>5
    <2>6. CASE r.own /\ output[r.case].by = r.call
        BY <2>3, <2>5, <2>6, <2>d DEF Attested
    <2>7. CASE output[r.case].is = "absent"
        <3>1. ~ passes
            BY <2>2, <2>7
        <3>2. r.case \notin acceptor'[a].passed \cup acceptor'[a].cases
            BY <2>1, <2>5, <3>1
        <3> QED
            BY <2>1, <2>5, <2>d, <3>2 DEF Attested
    <2>8. CASE \E c \in Case : c \notin r.passed \cup r.cases
        <3>1. PICK c \in Case : c \notin r.passed \cup r.cases
            BY <2>8
        <3>2. c \notin acceptor'[a].passed \cup acceptor'[a].cases
            BY <2>1, <2>5, <2>d, <3>1
        <3> QED
            BY <2>5, <2>d, <3>1, <3>2 DEF Attested
    <2> QED
        BY <2>1, <2>6, <2>7, <2>8
<1>12. CASE StartAfter(a)
    <2>r. PICK none : none = <<>>
        OBVIOUS
    <2>1. acceptor'[a] = [r EXCEPT !.phase = "after", !.todo = Project, !.report = none]
        BY <1>1, <1>2, <1>12, <2>r DEF StartAfter
    <2>2. /\ acceptor'[a].phase = "after" /\ acceptor'[a].own = r.own
          /\ acceptor'[a].passed = r.passed /\ acceptor'[a].cases = r.cases
        BY <2>1 DEF AcceptorRecord
    <2>3. r.phase = "cases"
        BY <1>1, <1>12 DEF StartAfter
    <2> QED
        BY <1>3, <2>2, <2>3 DEF Attested
<1>13. CASE \E c \in Case : VerifyOutput(a, c)
    <2>1. PICK c \in Case : VerifyOutput(a, c)
        BY <1>13
    <2>2. acceptor'[a].phase \in {"outputs", "verifying"}
        BY <1>1, <1>2, <2>1 DEF VerifyOutput, AcceptorRecord
    <2> QED
        BY <2>2 DEF Attested
<1> QED
    BY <1>4, <1>5, <1>6, <1>7, <1>8, <1>9, <1>10, <1>11, <1>12, <1>13 DEF Accept

\* What every acceptance can say, and what the evidence says.
AllAttested == \A a \in Acceptor : Attested(acceptor[a], output)

LEMMA InitAttests == Init => AllAttested /\ OutputsOfTheRun
BY DEF Init, AllAttested, Attested, IdleAcceptor, OutputsOfTheRun

LEMMA NextAttests ==
    ASSUME TypeOK, AllAttested, OutputsOfTheRun, [Next]_vars,
           \A a \in Acceptor :
               /\ acceptor[a].phase # "running" /\ acceptor'[a].phase = "running"
                      => output[acceptor'[a].case].is = "absent"
               /\ acceptor[a].phase \in {"running", "reading"} =>
                      \/ output'[acceptor[a].case] = output[acceptor[a].case]
                      \/ output'[acceptor[a].case].by = acceptor[a].call
    PROVE  AllAttested' /\ OutputsOfTheRun'
<1>1. \A a \in Acceptor : acceptor'[a] = acceptor[a] => Attested(acceptor'[a], output')
    BY AttestedLasts DEF AllAttested
<1>2. ASSUME NEW a \in Acceptor, Accept(a)
      PROVE  AllAttested' /\ OutputsOfTheRun'
    <2>1. Attested(acceptor'[a], output')
        BY <1>2, AcceptAttests DEF AllAttested
    <2>2. \A d \in Acceptor \ {a} : acceptor'[d] = acceptor[d]
        BY <1>2
        DEF Accept, StartAcceptance, StartCases, StartAfter, WriteEvidence, VerifyProject,
            StartCase, VerifyOutput, CommandWrites, EndCase, ReadOutput, StartVerifying,
            EndVerifying, AcceptorRaises, TypeOK
    <2>3. AllAttested'
        BY <1>1, <2>1, <2>2 DEF AllAttested
    <2>4. CASE WriteEvidence(a)
        <3>1. PICK r \in AcceptorRecord : r = acceptor[a]
            BY TypeParts DEF AcceptorType
        <3>2. r.passed = Case => r.own
            BY <2>4, <3>1 DEF WriteEvidence, AllAttested, Attested
        <3>3. PICK status \in {"accepted", "blocked"} :
                  status = IF r.passed = Case THEN "accepted" ELSE "blocked"
            OBVIOUS
        <3>4. PICK e : e = [call |-> r.call, report |-> r.report, own |-> r.own, status |-> status]
            OBVIOUS
        <3>5. evidence' = evidence \cup {e} /\ (e.status = "accepted" => e.own)
            BY <2>4, <3>1, <3>2, <3>3, <3>4 DEF WriteEvidence
        <3> QED
            BY <2>3, <3>5 DEF OutputsOfTheRun
    <2>5. CASE ~ WriteEvidence(a)
        <3>1. evidence' = evidence
            BY <1>2, <2>5
            DEF Accept, StartAcceptance, StartCases, StartAfter, VerifyProject,
                StartCase, VerifyOutput, CommandWrites, EndCase, ReadOutput, StartVerifying,
                EndVerifying, AcceptorRaises
        <3> QED
            BY <2>3, <3>1 DEF OutputsOfTheRun
    <2> QED
        BY <2>4, <2>5
<1>3. CASE Touch \/ (\E b \in Builder : Build(b)) \/ UNCHANGED vars
    <2>1. UNCHANGED <<acceptor, evidence>>
        BY <1>3
        DEF Touch, Build, MatchSource, StartBootstrap, LookForEnvironment, StartPreparing,
            CloneAll, PublishTree, EndPreparing, MakeEnvironment, StartCommand,
            InstallFinishes, EndCommand, EndBootstrap, BuilderRaises, others, vars
    <2> QED
        BY <1>1, <2>1 DEF AllAttested, OutputsOfTheRun
<1> QED
    BY <1>2, <1>3 DEF Next

\* run_acceptance: evidence that accepts a candidate is about outputs of its own
\* commands, if each case finds no output when it starts and nobody else writes it
\* until it was read.  The code ensures neither.  Everything else, a failing or
\* silent command, other acceptances, changes of checkouts and environments, the
\* death of any process, does no harm.
THEOREM FreshOutputsAreOwn == Spec /\ OutputsFresh => []OutputsOfTheRun
<1> DEFINE Fresh ==
        \A a \in Acceptor :
            /\ acceptor[a].phase # "running" /\ acceptor'[a].phase = "running"
                   => output[acceptor'[a].case].is = "absent"
            /\ acceptor[a].phase \in {"running", "reading"} =>
                   \/ output'[acceptor[a].case] = output[acceptor[a].case]
                   \/ output'[acceptor[a].case].by = acceptor[a].call
<1>1. Inv /\ AllAttested /\ OutputsOfTheRun /\ [Next]_vars /\ [Fresh]_vars
          => AllAttested' /\ OutputsOfTheRun'
    <2>1. UNCHANGED vars => Fresh
        BY DEF vars, disk
    <2> QED
        BY <2>1, NextAttests DEF Inv
<1> QED
    BY <1>1, InitAttests, Invariance, PTL DEF Spec, OutputsFresh
=============================================================================
