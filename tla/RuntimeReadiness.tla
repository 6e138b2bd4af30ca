-------------------------- MODULE RuntimeReadiness --------------------------
(***************************************************************************)
(* check_runtime: is the environment of a project what its profile and its *)
(* lock say, judged from metadata alone?  The interpreter is never run, so *)
(* the metadata may leave open which patch, which implementation and which *)
(* version of it the environment has.  Requirements with extras are        *)
(* followed, pass after pass, until the requested extras stop growing.     *)
(*                                                                         *)
(* One project of a profile; the others are judged alike.  Other people    *)
(* may edit the checkout (its lock stands for revision and cleanliness,    *)
(* too) and the profile while the check runs.  Nobody changes the          *)
(* environment meanwhile: module Acceptance is about those who do.         *)
(***************************************************************************)
EXTENDS PythonVersions

CONSTANTS
    Name,           \* canonical names of distributions
    Extra,          \* names of extras
    NoExtra,        \* the empty extra, the context every marker is tried in
    Release,        \* versions of distributions
    Own,            \* the project's own distribution
    Pip,            \* the tool that a venv brings along
    Family,         \* the interpreter's version up to its patch
    Patch,          \* the patches it may be
    Implementation, \* the implementations it may be
    CPython,        \* the one whose version is that of the interpreter
    Locks,          \* what lock files may hold
    MaxMoves        \* bound on edits by other people

Fact == {"patch", "implementation", "implementation version"}

\* What the environment can really be.
World == {w \in [patch : Patch, implementation : Implementation, version : Patch] :
              w.implementation = CPython => w.version = w.patch}

Value(w, fact) == CASE fact = "patch" -> w.patch
                    [] fact = "implementation" -> w.implementation
                    [] fact = "implementation version" -> w.version

Context == Extra \cup {NoExtra}

\* A marker cites some facts, and holds in a world for a requested extra.
Marker == {m \in [cites : SUBSET Fact, holds : SUBSET (World \X Context)] :
               \A v, w \in World : (\A f \in m.cites : Value(v, f) = Value(w, f)) =>
                   \A x \in Context : <<v, x>> \in m.holds <=> <<w, x>> \in m.holds}

\* A requirement of a distribution: the releases that its specifier accepts.
Requirement == [to : Name, extras : SUBSET Extra, marker : Marker, releases : SUBSET Release]

\* Where a distribution says it came from: an index, an editable checkout (the
\* project's own), the Git commit of the lock, or elsewhere.
Source == {"index", "editable", "commit", "other"}

Distribution == [release : Release, source : Source, python : SUBSET Constraint,
                 requires : SUBSET Requirement]

\* A line of a lock: an exact version, or a Git commit.
LockItem == [name : Name, extras : SUBSET Extra, marker : Marker, git : BOOLEAN,
             release : Release]

\* What pyvenv.cfg gives: the patch or not, the name of the implementation or
\* not, and a complete record by bootstrap or none.
Pyvenv == {c \in [usable : {"yes", "no", "missing"}, patch : BOOLEAN, named : BOOLEAN,
                  recorded : BOOLEAN] : c.recorded => c.patch}

ASSUME ReadinessAssumption ==
    /\ NoExtra \notin Extra
    /\ Own \in Name /\ Pip \in Name /\ Own # Pip
    /\ Family \in Interpreter
    /\ Patch \subseteq Nat
    /\ CPython \in Implementation
    /\ Locks \subseteq SUBSET LockItem
    /\ MaxMoves \in Nat

VARIABLES
    world,          \* what the environment is
    pyvenv,         \* its pyvenv.cfg
    installed,      \* its distributions, by name
    doubled,        \* names that two installed distributions have
    specifier,      \* the profile's Python specifier
    pinned,         \* the lock whose digest the profile has
    lock,           \* the lock file of the checkout
    profile,        \* the profile file: "read" or "changed" since
    moves,          \* edits by other people so far
    phase,          \* where the check is
    issues,         \* the issues found so far
    active,         \* active_lock
    requested,      \* requested_extras
    todo,           \* distributions that the current pass has still to visit
    changed         \* the current pass has added an extra

environment == <<world, pyvenv, installed, doubled, specifier, pinned>>
files == <<lock, profile, moves>>
closure == <<active, requested, todo, changed>>
checkVars == <<environment, files, phase, issues, closure>>

Phase == {"source", "environment", "lock", "passing", "judging", "again", "report", "ready",
          "blocked"}

Unrequested == [n \in Name |-> {}]

\* Any environment, profile and lock; Start says where the check begins.
Start ==
    /\ lock = pinned
    /\ profile = "read"
    /\ moves = 0
    /\ phase = "source"
    /\ issues = {}
    /\ active = {}
    /\ requested = Unrequested
    /\ todo = {}
    /\ changed = FALSE

CheckInit ==
    /\ world \in World
    /\ pyvenv \in Pyvenv
    /\ \E names \in SUBSET Name :
           /\ installed \in [names -> Distribution]
           /\ doubled \in SUBSET names
    /\ specifier \in SUBSET Constraint
    /\ pinned \in Locks \ {{}}
    /\ Start

-----------------------------------------------------------------------------
(* What the metadata says.                                                 *)

Installed == DOMAIN installed

\* _read_pyvenv, _read_environment: bootstrap's record names everything; without
\* it the version of CPython is known with the interpreter's patch.
Known ==
    (IF pyvenv.patch THEN {"patch"} ELSE {})
    \cup (IF pyvenv.named \/ pyvenv.recorded THEN {"implementation"} ELSE {})
    \cup (IF pyvenv.recorded \/ (pyvenv.named /\ pyvenv.patch /\ world.implementation = CPython)
          THEN {"implementation version"} ELSE {})

Undecided(marker) == ~ marker.cites \subseteq Known

\* The marker is known to hold for one of the contexts.
Applies(marker, contexts) ==
    ~ Undecided(marker) /\ \E x \in contexts : <<world, x>> \in marker.holds

Contexts(extras, n) == {NoExtra} \cup extras[n]

PythonIn(w) == [major |-> Family.major, minor |-> Family.minor, patch |-> w.patch, rest |-> 0]

PythonIssues(constraints, tag) ==
    LET answer == VersionMatches(constraints, PythonIn(world), "patch" \in Known)
    IN  IF answer = "yes" THEN {} ELSE {<<answer, tag>>}

-----------------------------------------------------------------------------
(* Other people.                                                           *)

EditLock ==
    /\ moves < MaxMoves
    /\ lock' \in Locks
    /\ moves' = moves + 1
    /\ UNCHANGED <<environment, profile, phase, issues, closure>>

EditProfile ==
    /\ moves < MaxMoves
    /\ profile' = "changed"
    /\ moves' = moves + 1
    /\ UNCHANGED <<environment, lock, phase, issues, closure>>

-----------------------------------------------------------------------------
(* The check.                                                              *)

SourceIssues == IF lock # pinned THEN {<<"mismatch", "lock">>} ELSE {}

\* A source that is not as pinned is not looked into.
CheckSource ==
    /\ phase = "source"
    /\ issues' = SourceIssues
    /\ phase' = IF SourceIssues = {} THEN "environment" ELSE "report"
    /\ UNCHANGED <<environment, files, closure>>

\* The interpreter is missing, or its metadata cannot be trusted; if it can,
\* the profile's own constraint is judged.
ReadEnvironment ==
    /\ phase = "environment"
    /\ IF pyvenv.usable = "yes"
       THEN phase' = "lock" /\ issues' = PythonIssues(specifier, "profile")
       ELSE phase' = "report" /\ issues' = {<<pyvenv.usable, "environment">>}
    /\ UNCHANGED <<environment, files, closure>>

Satisfied(item) ==
    /\ item.name \in Installed
    /\ IF item.git THEN installed[item.name].source = "commit"
       ELSE installed[item.name].release = item.release

\* An item whose marker is undecided is not looked for but keeps its name
\* permitted and its extras requested.
Active(items) == {i \in items : Undecided(i.marker) \/ Applies(i.marker, {NoExtra})}

Permitted(items) == {i.name : i \in items} \cup {Own}

Stray(n, items) ==
    /\ n \notin Permitted(items)
    /\ n = Pip => installed[n].source # "index"

LockIssues(items) ==
    {<<"undecided", i.name>> : i \in {j \in items : Undecided(j.marker)}}
    \cup {<<"locked", i.name>> :
              i \in {j \in items : Applies(j.marker, {NoExtra}) /\ ~ Satisfied(j)}}
    \cup {<<"unlocked", n>> : n \in {m \in Installed : Stray(m, Active(items))}}

OwnIssues ==
    IF Own \in Installed /\ installed[Own].source = "editable" THEN {} ELSE {<<"editable", Own>>}

\* Mutated form: names that the lock does not have get no entry.
SeedOfLocked(items) == [n \in {i.name : i \in items} |-> UNION {i.extras : i \in {j \in items : j.name = n}}]

\* Extras that the active items of the lock ask for.
Seed(items) == [n \in Name |-> UNION {i.extras : i \in {j \in items : j.name = n}}]

\* Mutated form: an undecided item asks for nothing and stands for nothing.
JudgeLockDecided ==
    /\ phase = "lock"
    /\ lock # {}
    /\ LET items == {i \in lock : Applies(i.marker, {NoExtra})} IN
       /\ issues' = issues \cup {<<"locked", i.name>> : i \in {j \in items : ~ Satisfied(j)}}
                    \cup {<<"unlocked", n>> : n \in {m \in Installed : Stray(m, items)}}
                    \cup OwnIssues \cup {<<"doubled", n>> : n \in doubled}
       /\ active' = items
       /\ requested' = Seed(items)
    /\ todo' = Installed
    /\ changed' = FALSE
    /\ phase' = "passing"
    /\ UNCHANGED <<environment, files>>

\* The lock file is read again, item by item, after its digest was compared.
JudgeLock ==
    /\ phase = "lock"
    /\ lock # {}
    /\ issues' = issues \cup LockIssues(lock) \cup OwnIssues \cup {<<"doubled", n>> : n \in doubled}
    /\ active' = Active(lock)
    /\ requested' = Seed(Active(lock))
    /\ todo' = Installed
    /\ changed' = FALSE
    /\ phase' = "passing"
    /\ UNCHANGED <<environment, files>>

\* A lock without items raises, as does any other that cannot be parsed.
LockEmpty ==
    /\ phase = "lock"
    /\ lock = {}
    /\ issues' = issues \cup {<<"unverifiable", "environment">>}
    /\ phase' = "report"
    /\ UNCHANGED <<environment, files, closure>>

\* Extras that distribution n asks of name m, as far as its own are known.
Asked(n, m, extras) ==
    UNION {r.extras : r \in {q \in installed[n].requires :
                                 q.to = m /\ Applies(q.marker, Contexts(extras, n))}}

\* Mutated form: the flag tells of the last distribution only.
FollowForgets(n) ==
    /\ phase = "passing"
    /\ n \in todo
    /\ requested' = [m \in Name |-> requested[m] \cup Asked(n, m, requested)]
    /\ changed' = (requested' # requested)
    /\ todo' = todo \ {n}
    /\ UNCHANGED <<environment, files, phase, issues, active>>

\* Mutated form: asking for an extra counts as a change, new or not.
FollowRestless(n) ==
    /\ phase = "passing"
    /\ n \in todo
    /\ requested' = [m \in Name |-> requested[m] \cup Asked(n, m, requested)]
    /\ changed' = (changed \/ \E m \in Name : Asked(n, m, requested) # {})
    /\ todo' = todo \ {n}
    /\ UNCHANGED <<environment, files, phase, issues, active>>

\* One distribution of a pass: its contexts are those of before its own step.
Follow(n) ==
    /\ phase = "passing"
    /\ n \in todo
    /\ requested' = [m \in Name |-> requested[m] \cup Asked(n, m, requested)]
    /\ changed' = (changed \/ requested' # requested)
    /\ todo' = todo \ {n}
    /\ UNCHANGED <<environment, files, phase, issues, active>>

NextPass ==
    /\ phase = "passing" /\ todo = {} /\ changed
    /\ todo' = Installed
    /\ changed' = FALSE
    /\ UNCHANGED <<environment, files, phase, issues, active, requested>>

EndPasses ==
    /\ phase = "passing" /\ todo = {} /\ ~ changed
    /\ phase' = "judging"
    /\ UNCHANGED <<environment, files, issues, closure>>

\* A requirement that applies is installed, in a release that it accepts.
Met(r) == r.to \in Installed /\ installed[r.to].release \in r.releases

\* Mutated form: extras that nobody requested count.
RequirementIssuesOfAll(n) ==
    {<<"dependency", n, r.to>> :
         r \in {q \in installed[n].requires : Applies(q.marker, Context) /\ ~ Met(q)}}

RequirementIssues(n) ==
    {<<"undecided", n, r.to>> : r \in {q \in installed[n].requires : Undecided(q.marker)}}
    \cup {<<"dependency", n, r.to>> :
              r \in {q \in installed[n].requires :
                         Applies(q.marker, Contexts(requested, n)) /\ ~ Met(q)}}

Judge ==
    /\ phase = "judging"
    /\ issues' = issues \cup (UNION {PythonIssues(installed[n].python, n) : n \in Installed})
                        \cup (UNION {RequirementIssues(n) : n \in Installed})
    /\ phase' = "again"
    /\ UNCHANGED <<environment, files, closure>>

CheckSourceAgain ==
    /\ phase = "again"
    /\ issues' = issues \cup SourceIssues
    /\ phase' = "report"
    /\ UNCHANGED <<environment, files, closure>>

\* The profile is read again at the very end.
Report ==
    /\ phase = "report"
    /\ phase' = IF issues = {} /\ profile = "read" THEN "ready" ELSE "blocked"
    /\ UNCHANGED <<environment, files, issues, closure>>

Step ==
    \/ CheckSource \/ ReadEnvironment \/ JudgeLock \/ LockEmpty
    \/ \E n \in Name : Follow(n)
    \/ NextPass \/ EndPasses \/ Judge \/ CheckSourceAgain \/ Report

CheckNext == EditLock \/ EditProfile \/ Step

CheckSpec == CheckInit /\ [][CheckNext]_checkVars

CheckFairSpec == CheckSpec /\ WF_checkVars(Step)
-----------------------------------------------------------------------------
\* Type invariant of the check.
CheckTypeOK ==
    /\ world \in World
    /\ pyvenv \in Pyvenv
    /\ Installed \subseteq Name /\ installed \in [Installed -> Distribution]
    /\ doubled \subseteq Installed
    /\ specifier \subseteq Constraint
    /\ pinned \in Locks /\ lock \in Locks
    /\ profile \in {"read", "changed"}
    /\ moves \in 0..MaxMoves
    /\ phase \in Phase
    /\ active \subseteq LockItem
    /\ requested \in [Name -> SUBSET Extra]
    /\ todo \subseteq Installed
    /\ changed \in BOOLEAN

Requests == [Name -> SUBSET Extra]

\* Everything that the active items and the requirements known to apply ask for
\* is in extras.
Closed(extras) ==
    /\ \A n \in Name : Seed(active)[n] \subseteq extras[n]
    /\ \A n \in Installed, m \in Name : Asked(n, m, extras) \subseteq extras[m]

Settled == phase \in {"judging", "again"}

\* "Extras requested by the lock are followed along the requirements to a stable
\* point": whatever the order in which the distributions are visited, and through
\* cycles of extras, the loop stops at exactly the least closed requests.
ExtrasRight ==
    Settled =>
        /\ Closed(requested)
        /\ \A extras \in Requests : Closed(extras) => \A n \in Name : requested[n] \subseteq extras[n]

-----------------------------------------------------------------------------
(* What "ready" means, without the check: in a world w with the lock as    *)
(* pinned.                                                                 *)

Holds(marker, w, contexts) == \E x \in contexts : <<w, x>> \in marker.holds

ActiveIn(w) == {i \in pinned : Holds(i.marker, w, {NoExtra})}

ClosedIn(extras, w) ==
    /\ \A i \in ActiveIn(w) : i.extras \subseteq extras[i.name]
    /\ \A n \in Installed : \A r \in installed[n].requires :
           Holds(r.marker, w, Contexts(extras, n)) => r.extras \subseteq extras[r.to]

\* The extras of n that every closed request contains.
NeededIn(n, w) == {e \in Extra : \A extras \in Requests : ClosedIn(extras, w) => e \in extras[n]}

RightIn(w) ==
    /\ AcceptsAll(specifier, PythonIn(w))
    /\ \A i \in ActiveIn(w) : Satisfied(i)
    /\ Own \in Installed /\ installed[Own].source = "editable"
    /\ \A n \in Installed : ~ Stray(n, ActiveIn(w))
    /\ \A n \in Installed :
           /\ AcceptsAll(installed[n].python, PythonIn(w))
           /\ \A r \in installed[n].requires :
                  Holds(r.marker, w, {NoExtra} \cup NeededIn(n, w)) => Met(r)
    /\ doubled = {}

\* The worlds that the metadata leaves possible.
Possible == {w \in World : \A f \in Known : Value(w, f) = Value(world, f)}

\* The patch is known, or no constraint that is judged names more than a patch in
\* the way that the code misreads.
NothingFiner ==
    \/ "patch" \in Known
    \/ \A c \in specifier \cup UNION {installed[n].python : n \in Installed} :
           ~ FinerThanPatch(c, Family)

\* "An unknown patch is never silently taken for .0", and no more is any other
\* fact: ready means that the environment is right in every world that the
\* metadata leaves possible, and was judged by the pinned lock, unless others
\* edited twice in the meantime.  The exception are clauses finer than a patch.
ReadySound ==
    phase = "ready" /\ moves < 2 /\ NothingFiner => \A w \in Possible : RightIn(w)

\* Nor is an environment refused for nothing: with nothing left open and nobody
\* editing, a check that blocks has found something wrong.
BlockedSound ==
    phase = "blocked" /\ moves = 0 /\ pyvenv.usable = "yes" /\ Known = Fact => ~ RightIn(world)

\* Every check ends, whatever cycles the requirements have.
CheckEnds == <>(phase \in {"ready", "blocked"})
=============================================================================
