--------------------------- MODULE PythonVersions ---------------------------
(***************************************************************************)
(* What a Python version constraint says of an interpreter whose metadata  *)
(* may name only major and minor (_version_matches in runtime_readiness).  *)
(* An answer is "yes", "no" or "undecided".  An unknown patch is not read  *)
(* as the patch 0, except by clauses that name more than a patch: see      *)
(* FinerThanPatch.                                                         *)
(*                                                                         *)
(* A version is a released one: epochs, pre-, post- and local releases are *)
(* left out, and so is the arbitrary equality operator.  A clause may name *)
(* any number of components.  What follows the third is one number, 0 iff  *)
(* all of them are 0: an interpreter has three, so no comparison with one  *)
(* can tell more of them apart.                                            *)
(***************************************************************************)
EXTENDS Naturals

Version == [major : Nat, minor : Nat, patch : Nat, rest : Nat]

Interpreter == {v \in Version : v.rest = 0}

Operator == {"==", "!=", "<=", ">=", "<", ">", "~="}

\* A clause such as ~=3.12 or ==3.12.*: "parts" counts the components that are
\* written, the others are 0.
Constraint ==
    {c \in [op : Operator, at : Version, parts : Nat \ {0}, wildcard : BOOLEAN] :
         /\ c.wildcard => c.op \in {"==", "!="}
         /\ c.op = "~=" => c.parts > 1
         /\ c.parts < 4 => c.at.rest = 0
         /\ c.parts < 3 => c.at.patch = 0
         /\ c.parts < 2 => c.at.minor = 0}

Before(u, v) ==
    \/ u.major < v.major
    \/ u.major = v.major /\ u.minor < v.minor
    \/ u.major = v.major /\ u.minor = v.minor /\ u.patch < v.patch
    \/ u.major = v.major /\ u.minor = v.minor /\ u.patch = v.patch /\ u.rest < v.rest

Agree(u, v, parts) ==
    /\ u.major = v.major
    /\ parts > 1 => u.minor = v.minor
    /\ parts > 2 => u.patch = v.patch
    /\ parts > 3 => u.rest = v.rest

Equals(c, v) == Agree(v, c.at, IF c.wildcard THEN c.parts ELSE 4)

\* A clause accepts a version (SpecifierSet of the library packaging).
Accepts(c, v) ==
    \/ c.op = "==" /\ Equals(c, v)
    \/ c.op = "!=" /\ ~ Equals(c, v)
    \/ c.op = "<=" /\ ~ Before(c.at, v)
    \/ c.op = ">=" /\ ~ Before(v, c.at)
    \/ c.op = "<" /\ Before(v, c.at)
    \/ c.op = ">" /\ Before(c.at, v)
    \/ c.op = "~=" /\ ~ Before(v, c.at) /\ Agree(v, c.at, c.parts - 1)

AcceptsAll(specifier, v) == \A c \in specifier : Accepts(c, v)

-----------------------------------------------------------------------------
SameFamily(c, v) == c.at.major = v.major /\ c.at.minor = v.minor

\* Inside its own family of patches the clause is taken to hold for all of them
\* or for none; of its boundary the code looks at the patch and no further.
SafeSameFamily(c) ==
    \/ c.wildcard /\ c.parts <= 2
    \/ c.op \in {">=", "<", "~="} /\ c.at.patch = 0

Decides(specifier, v) == \A c \in specifier : SameFamily(c, v) => SafeSameFamily(c)

FirstPatch(v) == [major |-> v.major, minor |-> v.minor, patch |-> 0, rest |-> 0]

Answer(b) == IF b THEN "yes" ELSE "no"

\* Mutated form: an unknown patch is the patch 0.
VersionMatchesAsZero(specifier, v, full) ==
    Answer(AcceptsAll(specifier, IF full THEN v ELSE FirstPatch(v)))

\* "full" says that the metadata names the patch; otherwise v.patch is not read.
VersionMatches(specifier, v, full) ==
    IF full THEN Answer(AcceptsAll(specifier, v))
    ELSE IF Decides(specifier, v) THEN Answer(AcceptsAll(specifier, FirstPatch(v)))
    ELSE "undecided"

\* The clauses of v's family that the code takes for safe and that are not: they
\* name the patch 0 and more, and tell 0 from the other patches (~=3.12.0.0 and
\* <3.12.0.1 accept 3.12.0 alone of its family, >=3.12.0.1 all but 3.12.0).
FinerThanPatch(c, v) ==
    /\ SameFamily(c, v) /\ ~ c.wildcard /\ c.at.patch = 0
    /\ \/ c.op = "~=" /\ c.parts > 3 /\ c.at.rest = 0
       \/ c.op \in {"<", ">="} /\ c.at.rest > 0
=============================================================================
