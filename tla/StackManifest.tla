--------------------------- MODULE StackManifest ---------------------------
(***************************************************************************)
(* Stack manifests: discover_stack reads the repositories of the workspace *)
(* one git command after the other while people work in them, validation   *)
(* decides whether the draft may be called a release, and                  *)
(* write_stack_manifest publishes it under a name that several writers may *)
(* want.                                                                   *)
(*                                                                         *)
(* A validation is local to its process; one at a time makes use of the    *)
(* variables of DependencyOrder, which loses no behaviour.                 *)
(***************************************************************************)
EXTENDS DependencyOrder

CONSTANTS
    Writer,         \* processes in the stack-manifest command
    Layer,          \* the rank of each project's declared layer
    None,           \* no mode, no project
    MaxHead,        \* bound on commits per project
    MaxMoves,       \* bound on what people do in the repositories
    MaxCalls        \* bound on commands

ASSUME StackManifestAssumption ==
    /\ Layer \in [Project -> Nat]
    /\ MaxHead \in Nat \ {0} /\ MaxMoves \in Nat /\ MaxCalls \in Nat

VARIABLES
    repo,           \* each repository: HEAD, its content, the work tree, the tags
    writer,         \* each writer: where it is, and its local variables
    file,           \* what is under the wanted name: no manifest, or one
    temporaries,    \* the temporary files: whose they are, and whether all is written
    calls,          \* commands so far
    moves           \* what people have done so far

stackVars == <<repo, writer, file, temporaries, calls, moves>>
vars == <<orderVars, stackVars>>

Head == 1..MaxHead

\* A requirement names a project and, through a tag or a commit, one version of
\* it; version 0 stands for a requirement that resolves to no version.
Requirement == [on : Name, at : 0..MaxHead]

\* What pyproject.toml declares: the requirements, and whether package, version,
\* Python range, layer, schemas and locks are all there and well formed.
Content == [requires : SUBSET Requirement, whole : BOOLEAN]

NoRecord == [commit |-> 0, dirty |-> FALSE, tagged |-> FALSE,
             metadata |-> [requires |-> {}, whole |-> FALSE]]

Idle == [phase |-> "idle", call |-> 0, mode |-> None, todo |-> {}, at |-> None,
         records |-> [p \in Project |-> NoRecord], ready |-> FALSE, outcome |-> "none"]

\* What requiring these names at their present versions looks like for project p.
RequireNow(p, names, heads) ==
    {[on |-> n, at |-> IF n \in Project THEN heads[n] ELSE 0] : n \in names}

Init ==
    /\ OrderInit
    /\ \E names \in [Project -> SUBSET Name] :
           repo = [p \in Project |->
               LET c == [requires |-> RequireNow(p, names[p], [q \in Project |-> 1]), whole |-> TRUE]
               IN  [head |-> 1, committed |-> c, work |-> c, tags |-> {1}]]
    /\ writer = [w \in Writer |-> Idle]
    /\ file = {}
    /\ temporaries = {}
    /\ calls \in 0..MaxCalls    \* what of the bounds is left
    /\ moves \in 0..MaxMoves

-----------------------------------------------------------------------------
(* People in the repositories.                                             *)

process == <<orderVars, writer, file, temporaries, calls>>

\* Someone edits the declarations, with the other projects' present versions.
Edit(p, names, whole) ==
    LET heads == [q \in Project |-> repo[q].head + (IF q = p THEN 1 ELSE 0)] IN
    /\ moves < MaxMoves /\ repo[p].head < MaxHead
    /\ repo' = [repo EXCEPT ![p].work = [requires |-> RequireNow(p, names, heads), whole |-> whole]]
    /\ moves' = moves + 1
    /\ UNCHANGED process

\* Someone commits, and may tag the commit.
Commit(p, tag) ==
    /\ moves < MaxMoves /\ repo[p].head < MaxHead
    /\ repo[p].work # repo[p].committed
    /\ repo' = [repo EXCEPT
           ![p] = [head |-> @.head + 1, committed |-> @.work, work |-> @.work,
                   tags |-> IF tag THEN @.tags \cup {@.head + 1} ELSE @.tags]]
    /\ moves' = moves + 1
    /\ UNCHANGED process

People ==
    \E p \in Project :
        \/ \E names \in SUBSET Name, whole \in BOOLEAN : Edit(p, names, whole)
        \/ \E tag \in BOOLEAN : Commit(p, tag)

-----------------------------------------------------------------------------
(* discover_stack.                                                         *)

read == <<repo, file, temporaries, moves>>
local == <<read, calls, orderVars>>

StartDiscovery(w, mode) ==
    /\ writer[w].phase = "idle" /\ calls < MaxCalls
    /\ calls' = calls + 1
    /\ writer' = [writer EXCEPT ![w] = [Idle EXCEPT
           !.phase = IF Project = {} THEN "drafted" ELSE "metadata",
           !.call = calls + 1, !.mode = mode, !.todo = Project]]
    /\ UNCHANGED <<read, orderVars>>

\* The projects are gone through in a fixed order.
FirstOf(projects) == CHOOSE p \in projects : TRUE

\* First the declarations of every project, from its work tree.
ReadMetadata(w) ==
    LET p == FirstOf(writer[w].todo) IN
    /\ writer[w].phase = "metadata"
    /\ writer' = [writer EXCEPT
           ![w].records[p].metadata = repo[p].work,
           ![w].todo = IF writer[w].todo = {p} THEN Project ELSE @ \ {p},
           ![w].phase = IF writer[w].todo = {p} THEN "head" ELSE @]
    /\ UNCHANGED local

\* Then project by project: the commit,
ReadHead(w) ==
    LET p == FirstOf(writer[w].todo) IN
    /\ writer[w].phase = "head"
    /\ writer' = [writer EXCEPT ![w].phase = "status", ![w].at = p,
                                ![w].records[p].commit = repo[p].head]
    /\ UNCHANGED local

\* whether the work tree is dirty,
ReadStatus(w) ==
    LET p == writer[w].at IN
    /\ writer[w].phase = "status"
    /\ writer' = [writer EXCEPT ![w].phase = "tags",
                                ![w].records[p].dirty = repo[p].work # repo[p].committed]
    /\ UNCHANGED local

\* and the tags of the commit that was read.  What a requirement resolves to is
\* looked up here too: a version stays the same commit.
ReadTags(w) ==
    LET p == writer[w].at IN
    /\ writer[w].phase = "tags"
    /\ writer' = [writer EXCEPT
           ![w].records[p].tagged = writer[w].records[p].commit \in repo[p].tags,
           ![w].todo = @ \ {p}, ![w].at = None,
           ![w].phase = IF writer[w].todo = {p} THEN "drafted" ELSE "head"]
    /\ UNCHANGED local

-----------------------------------------------------------------------------
(* Validation.                                                             *)

DependsOn(records) == [p \in Project |-> {r.on : r \in records[p].metadata.requires}]

\* Each repository is clean and its commit tagged.
CommitsSound(records) == \A p \in Project : ~records[p].dirty /\ records[p].tagged

\* Each project declares all that a release needs.
DeclarationsSound(records) == \A p \in Project : records[p].metadata.whole

\* Each requirement means the recorded commit of a recorded project that is not
\* downstream.
RequirementsSound(records) ==
    \A p \in Project : \A r \in records[p].metadata.requires :
        /\ r.on \in Project
        /\ r.at = records[r.on].commit
        /\ Layer[p] >= Layer[r.on]

\* Mutated form: a cycle is only looked for, not acted on.
GovernedInCircles(records) ==
    CommitsSound(records) /\ DeclarationsSound(records) /\ RequirementsSound(records)

\* No issue of governance: what an audit warns of and a release refuses.
Governed(records) ==
    /\ CommitsSound(records) /\ DeclarationsSound(records) /\ RequirementsSound(records)
    /\ verdict = "order"

\* The draft goes to validation.
StartChecking(w) ==
    /\ writer[w].phase = "drafted"
    /\ \A v \in Writer : writer[v].phase # "checking"
    /\ Start(DependsOn(writer[w].records))
    /\ writer' = [writer EXCEPT ![w].phase = "checking"]
    /\ UNCHANGED <<read, calls>>

Checking ==
    /\ \E w \in Writer : writer[w].phase = "checking"
    /\ OrderStep
    /\ UNCHANGED stackVars

\* The readiness is entered and the manifest sealed with its hash; the second
\* validation finds what the first did.  An audit is never ready and a release
\* that is not raises.
Seal(w) ==
    LET releasable == writer[w].mode = "release" /\ Governed(writer[w].records) IN
    /\ writer[w].phase = "checking" /\ verdict \in {"cycle", "order"}
    /\ writer' = [writer EXCEPT ![w] =
           IF writer[w].mode = "release" /\ ~releasable
           THEN [Idle EXCEPT !.call = writer[w].call, !.outcome = "refused"]
           ELSE [@ EXCEPT !.phase = "sealed", !.ready = releasable]]
    /\ UNCHANGED local

-----------------------------------------------------------------------------
(* write_stack_manifest.                                                   *)

keep == <<repo, calls, moves, orderVars>>

\* The name must be free.
LookForFile(w) ==
    /\ writer[w].phase = "sealed"
    /\ file = {}
    /\ writer' = [writer EXCEPT ![w].phase = "looked"]
    /\ UNCHANGED local

\* What a call publishes; "whole" when all its bytes are there.
Published(w, whole) ==
    [call |-> writer[w].call, ready |-> writer[w].ready, records |-> writer[w].records,
     whole |-> whole]

OpenTemporary(w) ==
    /\ writer[w].phase = "looked"
    /\ temporaries' = temporaries \cup {[call |-> writer[w].call, whole |-> FALSE]}
    /\ writer' = [writer EXCEPT ![w].phase = "opened"]
    /\ UNCHANGED <<keep, file>>

\* The temporary files other than the call's own.
OthersTemporaries(w) == {t \in temporaries : t.call # writer[w].call}

WriteTemporary(w) ==
    /\ writer[w].phase = "opened"
    /\ temporaries' = OthersTemporaries(w) \cup {[call |-> writer[w].call, whole |-> TRUE]}
    /\ writer' = [writer EXCEPT ![w].phase = "written"]
    /\ UNCHANGED <<keep, file>>

\* Mutated form: a rename, which takes the place of a file that is there.
LinkOver(w) ==
    /\ writer[w].phase = "written"
    /\ file' = {Published(w, TRUE)}
    /\ writer' = [writer EXCEPT ![w].phase = "linked"]
    /\ UNCHANGED <<keep, temporaries>>

\* A hard link gives the temporary file its name, unless the name is taken.
Link(w) ==
    /\ writer[w].phase = "written"
    /\ file = {}
    /\ \E t \in temporaries : t.call = writer[w].call /\ file' = {Published(w, t.whole)}
    /\ writer' = [writer EXCEPT ![w].phase = "linked"]
    /\ UNCHANGED <<keep, temporaries>>

EndWriting(w) ==
    /\ writer[w].phase = "linked"
    /\ temporaries' = OthersTemporaries(w)
    /\ writer' = [writer EXCEPT ![w] = [Idle EXCEPT !.call = writer[w].call, !.outcome = "written"]]
    /\ UNCHANGED <<keep, file>>

\* A file operation fails, the name is taken, or the call is interrupted: the
\* temporary file goes, and the published one stays if there is one.
WriterRaises(w) ==
    /\ writer[w].phase \notin {"idle", "checking"}
    /\ temporaries' = OthersTemporaries(w)
    /\ writer' = [writer EXCEPT ![w] = [Idle EXCEPT !.call = writer[w].call, !.outcome = "raised"]]
    /\ UNCHANGED <<keep, file>>

Die(w) ==
    /\ writer[w].phase \notin {"idle", "checking"}
    /\ writer' = [writer EXCEPT ![w] = Idle]
    /\ UNCHANGED <<repo, file, temporaries, calls, moves, orderVars>>

-----------------------------------------------------------------------------
Discover(w) ==
    \/ \E mode \in {"audit", "release"} : StartDiscovery(w, mode)
    \/ ReadMetadata(w) \/ ReadHead(w) \/ ReadStatus(w) \/ ReadTags(w) \/ StartChecking(w) \/ Seal(w)

Write(w) ==
    \/ LookForFile(w) \/ OpenTemporary(w) \/ WriteTemporary(w) \/ Link(w) \/ EndWriting(w)
    \/ WriterRaises(w) \/ Die(w)

Next ==
    \/ People
    \/ Checking
    \/ \E w \in Writer : Discover(w) \/ Write(w)

Spec == Init /\ [][Next]_vars

-----------------------------------------------------------------------------
Call == 0..MaxCalls
Repository == [head : Head, committed : Content, work : Content, tags : SUBSET Head]
Record == [commit : 0..MaxHead, dirty : BOOLEAN, tagged : BOOLEAN, metadata : Content]
Records == [Project -> Record]
Manifest == [call : Call, ready : BOOLEAN, records : Records, whole : BOOLEAN]
Phase == {"idle", "metadata", "head", "status", "tags", "drafted", "checking", "sealed", "looked",
          "opened", "written", "linked"}

\* What a writer knows of its call.
Local == [phase : Phase, call : Call, mode : {"audit", "release", None}, todo : SUBSET Project,
          at : Project \cup {None}, records : Records, ready : BOOLEAN,
          outcome : {"none", "refused", "written", "raised"}]

\* Type invariant: every variable holds a value of its kind.
TypeOK ==
    /\ OrderTypeOK
    /\ repo \in [Project -> Repository]
    /\ writer \in [Writer -> Local]
    /\ file \in SUBSET Manifest /\ \A m, n \in file : m = n
    /\ temporaries \in SUBSET [call : Call, whole : BOOLEAN]
    /\ calls \in Call /\ moves \in 0..MaxMoves

\* "Refusing to overwrite existing stack manifest": whoever was told that its
\* manifest is written finds it under that name for good; and nobody finds a part
\* of a manifest there, whenever they look and whichever writer died.
WrittenStays ==
    /\ \A m \in file : m.whole
    /\ \A w \in Writer : writer[w].outcome = "written" => \E m \in file : m.call = writer[w].call

\* An order of installation: each project once, after all that it requires.
InstallationOrder(records, s) ==
    /\ \A p \in Project : \E i \in DOMAIN s : s[i] = p
    /\ \A i \in DOMAIN s : \A r \in records[s[i]].metadata.requires :
           \E j \in 1..(i - 1) : s[j] = r.on

\* A published release can be installed one project after the other: whatever
\* was committed while it was discovered, its records require each other at the
\* recorded commits, and there is an order in which each project finds what it
\* requires.
ReleaseInstallable ==
    \A m \in file : m.ready =>
        /\ \A p \in Project : \A r \in m.records[p].metadata.requires :
               r.on \in Project /\ m.records[r.on].commit = r.at
        /\ \E s \in [1..Cardinality(Project) -> Project] : InstallationOrder(m.records, s)
=============================================================================
