------------------------- MODULE MCRuntimeReadiness -------------------------
(* RuntimeReadiness over a project, a library, what the library depends on *)
(* and pip.  Three groups of initial states: requirements of every shape   *)
(* under complete metadata, metadata of every completeness under the same  *)
(* requirements, and people who edit.                                      *)
EXTENDS RuntimeReadiness

MCName == {"app", "lib", "dep", "pip"}
MCExtra == {"a", "b"}
MCFamily == [major |-> 3, minor |-> 12, patch |-> 0, rest |-> 0]
MCPatch == {0, 1}

Always == [cites |-> {}, holds |-> World \X Context]
If(x) == [cites |-> {}, holds |-> World \X {x}]
Later == [cites |-> {"patch"}, holds |-> {w \in World : w.patch > 0} \X Context]
OnCPython == [cites |-> {"implementation"},
              holds |-> {w \in World : w.implementation = CPython} \X Context]
NewImplementation ==
    [cites |-> {"implementation version"}, holds |-> {w \in World : w.version > 0} \X {NoExtra, "a"}]

Line(n, extras, marker) ==
    [name |-> n, extras |-> extras, marker |-> marker, git |-> FALSE, release |-> 1]

LibLine == Line("lib", {"a"}, Always)
DepLine == Line("dep", {}, Always)
ClosureLocks == {{LibLine, DepLine}, {Line("lib", {}, Always), DepLine}, {[DepLine EXCEPT !.git = TRUE], LibLine}}
KnowledgeLocks == {{LibLine, Line("dep", {}, m)} : m \in {Always, Later, OnCPython}}
MCLocks == ClosureLocks \cup KnowledgeLocks \cup {{}, {LibLine}}

Require(n, extras, marker) == [to |-> n, extras |-> extras, marker |-> marker, releases |-> {1}]

\* A cycle of extras: lib[a] needs dep[a], which needs lib[b], which needs pip.
LibRequires == {Require("dep", {"a"}, If("a")), Require("pip", {}, If("b"))}
DepRequires == {Require("lib", {"b"}, If("a")), Require("dep", {"b"}, If("a"))}

Package(release, source, python, requires) ==
    [release |-> release, source |-> source, python |-> python, requires |-> requires]

Clause(op, patch, parts, wildcard) ==
    [op |-> op, at |-> [MCFamily EXCEPT !.patch = patch], parts |-> parts, wildcard |-> wildcard]

\* ~=3.12.0.0 and <3.12.0.1.
Finer == {Clause("~=", 0, 4, FALSE),
          [op |-> "<", at |-> [MCFamily EXCEPT !.rest = 1], parts |-> 4, wildcard |-> FALSE]}

Specifiers == {{c} : c \in Finer} \cup
              {{Clause(">=", 0, 2, FALSE)}, {Clause("==", 0, 2, TRUE)}, {Clause("==", 0, 2, FALSE)},
               {Clause(">", 0, 3, FALSE)}, {Clause("<=", 1, 3, FALSE)}, {Clause("!=", 1, 3, FALSE)},
               {Clause("~=", 0, 3, FALSE)}, {Clause("<", 0, 2, FALSE)}}

App(extras) == Package(1, "editable", {}, {Require("lib", extras, Always)})

Shapes ==
    /\ world = [patch |-> 0, implementation |-> CPython, version |-> 0]
    /\ pyvenv = [usable |-> "yes", patch |-> TRUE, named |-> TRUE, recorded |-> TRUE]
    /\ specifier = {}
    /\ pinned \in ClosureLocks
    /\ \E lib \in SUBSET LibRequires, dep \in SUBSET DepRequires, extras \in {{}, {"a"}},
          from \in {"index", "commit"}, release \in {1, 2}, pip \in {{}, {"index"}, {"other"}} :
           /\ LET names == {"app", "lib", "dep"} \cup {"pip" : s \in pip} IN
              installed = [n \in names |->
                  CASE n = "app" -> App(extras)
                    [] n = "lib" -> Package(1, "index", {}, lib)
                    [] n = "dep" -> Package(release, from, {}, dep)
                    [] n = "pip" -> Package(1, CHOOSE s \in pip : TRUE, {}, {})]
    /\ doubled \in {{}, {"dep"}}

AnyPatch == {Clause(">=", 0, 2, FALSE)}

Metadata ==
    /\ world \in World
    /\ pyvenv \in {c \in Pyvenv : c.usable = "yes" \/ c.recorded}
    /\ \E python \in {AnyPatch, {Clause(">", 0, 3, FALSE)}}, names \in {{"app", "lib"}, {"app", "lib", "dep"}},
          m \in {Always, Later, OnCPython, NewImplementation}, extras \in {{}, {"a"}} :
           /\ \/ specifier \in Specifiers /\ pinned = {LibLine, DepLine} /\ m = Always /\ extras = {}
              \/ specifier = AnyPatch /\ python = AnyPatch /\ pinned \in KnowledgeLocks
           /\ installed = [n \in names |->
                  CASE n = "app" -> App({"a"})
                    [] n = "lib" -> Package(1, "index", python, {Require("dep", extras, m)})
                    [] n = "dep" -> Package(1, "index", {}, {Require("pip", {}, If("a"))})]
    /\ doubled = {}

Edited ==
    /\ world = [patch |-> 0, implementation |-> CPython, version |-> 0]
    /\ pyvenv = [usable |-> "yes", patch |-> TRUE, named |-> TRUE, recorded |-> TRUE]
    /\ specifier = {}
    /\ pinned = {LibLine}
    /\ \E names \in {{"app", "lib"}, {"app", "lib", "dep"}} :
           installed = [n \in names |->
               IF n = "app" THEN App({}) ELSE Package(1, "index", {}, {})]
    /\ doubled = {}

MCInit == (Shapes \/ Metadata \/ Edited) /\ Start

\* People edit in the third group.
MCNext == CheckNext /\ (pinned # {LibLine} => files' = files)

MCSpec == MCInit /\ [][MCNext]_checkVars /\ WF_checkVars(Step)
=============================================================================
