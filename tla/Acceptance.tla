----------------------------- MODULE Acceptance -----------------------------
(***************************************************************************)
(* From a release candidate to accepted evidence: prepare_candidate clones *)
(* the pinned projects into a new directory and bootstraps an environment  *)
(* in each, the bootstrap-env command does the latter for one project,     *)
(* run_acceptance runs the candidate's cases there, and verify_acceptance  *)
(* looks at everything again before an activation.                         *)
(*                                                                         *)
(* All of them are processes that take no lock.  Other people change the   *)
(* source checkouts and, once it is there, the prepared directory.  A      *)
(* checkout is at its pinned revision, clean and with its pinned lock, or  *)
(* it is "other"; the file operations that decide which are one look.      *)
(***************************************************************************)
EXTENDS Naturals, FiniteSets

CONSTANTS
    Project,        \* the projects of the candidate
    Case,           \* its acceptance cases, each with one expected output
    Builder,        \* processes in prepare_candidate or bootstrap
    Acceptor,       \* processes in run_acceptance or verify_acceptance
    None,           \* no prepared directory, no evidence chosen
    MaxCalls,       \* bound on calls of these functions
    MaxTouches      \* bound on what other people change

ASSUME AcceptanceAssumption ==
    /\ IsFiniteSet(Project) /\ Project # {}
    /\ MaxCalls \in Nat /\ MaxTouches \in Nat

VARIABLES
    source,         \* the source checkouts
    tree,           \* the prepared directory: None, or its checkouts
    env,            \* the environments in it
    output,         \* the expected output file of each case
    builder,        \* each builder: where it is, and its local variables
    acceptor,       \* each acceptor likewise
    evidence,       \* the evidence files
    found,          \* history: projects that a verification has found ready
    calls,          \* calls so far
    touches         \* changes by other people so far

disk == <<source, tree, env, output>>
vars == <<disk, builder, acceptor, evidence, found, calls, touches>>

Checkout == {"pinned", "other"}

\* "ready" and "rebuilt" pass check_runtime with different reports.
Usable == {"ready", "rebuilt"}

\* "hands" is history: the calls whose commands worked on the environment.
NoEnv == [is |-> "none", hands |-> {}]

\* "by" is history: the call whose command wrote the output.
NoOutput == [is |-> "absent", by |-> 0]

IdleBuilder == [phase |-> "idle", call |-> 0, whole |-> FALSE, todo |-> {}, queue |-> {},
                project |-> None, index |-> 0]
IdleAcceptor == [phase |-> "idle", call |-> 0, todo |-> {}, cases |-> {}, passed |-> {},
                 own |-> TRUE, case |-> None, ended |-> FALSE, report |-> <<>>,
                 evidence |-> None]

Init ==
    /\ source = [p \in Project |-> "pinned"]
    /\ tree = None
    /\ env = [p \in Project |-> NoEnv]
    /\ output = [c \in Case |-> NoOutput]
    /\ builder = [b \in Builder |-> IdleBuilder]
    /\ acceptor = [a \in Acceptor |-> IdleAcceptor]
    /\ evidence = {}
    /\ found = {}
    /\ calls = 0
    /\ touches = 0

-----------------------------------------------------------------------------
(* What the functions ask of a project.                                    *)

\* Mutated form: an interpreter that is there is taken for an environment.
ReadyOnceCreated(p) == tree # None /\ tree[p] = "pinned" /\ env[p].is # "none"

\* check_runtime finds the checkout as pinned and the environment complete.
Ready(p) == tree # None /\ tree[p] = "pinned" /\ env[p].is \in Usable

\* The environment of a project is complete, or was and has been broken.
Built(p) == env[p].is \in Usable \cup {"broken"}

\* Other people change a source, a prepared checkout or an environment, or put
\* it back; they change or remove an output.
Touch ==
    /\ touches < MaxTouches
    /\ touches' = touches + 1
    /\ \/ \E p \in Project, s \in Checkout :
              source' = [source EXCEPT ![p] = s] /\ UNCHANGED <<tree, env, output>>
       \/ \E p \in Project, s \in Checkout :
              /\ tree # None
              /\ tree' = [tree EXCEPT ![p] = s]
              /\ UNCHANGED <<source, env, output>>
       \/ \E p \in Project, s \in Usable \cup {"broken"} :
              /\ Built(p)
              /\ env' = [env EXCEPT ![p].is = s]
              /\ UNCHANGED <<source, tree, output>>
       \/ \E c \in Case, is \in {"absent", "other"} :
              /\ output' = [output EXCEPT ![c] = [is |-> is, by |-> 0]]
              /\ UNCHANGED <<source, tree, env>>
    /\ UNCHANGED <<builder, acceptor, evidence, found, calls>>

-----------------------------------------------------------------------------
(* prepare_candidate.                                                      *)

others == <<acceptor, evidence, found, touches>>

StartPreparing(b) ==
    /\ builder[b].phase = "idle" /\ calls < MaxCalls
    /\ calls' = calls + 1
    /\ builder' = [builder EXCEPT ![b] =
           [IdleBuilder EXCEPT !.phase = "matching", !.call = calls + 1, !.whole = TRUE,
                               !.todo = Project]]
    /\ UNCHANGED <<disk, others>>

\* Before the first clone and after the last one, each source is as pinned.
MatchSource(b, p) ==
    /\ builder[b].phase \in {"matching", "rematching"}
    /\ p \in builder[b].todo
    /\ source[p] = "pinned"
    /\ builder' = [builder EXCEPT ![b].todo = @ \ {p}]
    /\ UNCHANGED <<disk, others, calls>>

\* The destination must not exist.  Clone and detached checkout into a staging
\* directory nobody else knows: the clone is at the pinned commit wherever the
\* source is by now.
CloneAll(b) ==
    /\ builder[b].phase = "matching" /\ builder[b].todo = {}
    /\ tree = None
    /\ builder' = [builder EXCEPT ![b].phase = "rematching", ![b].todo = Project]
    /\ UNCHANGED <<disk, others, calls>>

\* The staging directory is renamed to its destination; a directory with
\* something in it is not replaced by a rename, and the call raises.
PublishTree(b) ==
    /\ builder[b].phase = "rematching" /\ builder[b].todo = {}
    /\ tree = None
    /\ tree' = [p \in Project |-> "pinned"]
    /\ builder' = [builder EXCEPT ![b].phase = "looking", ![b].queue = Project]
    /\ UNCHANGED <<source, env, output, others, calls>>

\* All environments are built: everything is looked at once more.
EndPreparing(b) ==
    /\ builder[b].phase = "looking" /\ builder[b].queue = {} /\ builder[b].whole
    /\ \A p \in Project : Ready(p) /\ source[p] = "pinned"
    /\ builder' = [builder EXCEPT ![b] = IdleBuilder]
    /\ UNCHANGED <<disk, others, calls>>

-----------------------------------------------------------------------------
(* bootstrap: four commands, in a directory that the call has created.     *)

\* The bootstrap-env command.
StartBootstrap(b, p) ==
    /\ builder[b].phase = "idle" /\ calls < MaxCalls
    /\ tree # None
    /\ calls' = calls + 1
    /\ builder' = [builder EXCEPT ![b] =
           [IdleBuilder EXCEPT !.phase = "looking", !.call = calls + 1, !.queue = {p}]]
    /\ UNCHANGED <<disk, others>>

\* The checkout is as pinned and the environment does not exist yet.
LookForEnvironment(b, p) ==
    /\ builder[b].phase = "looking" /\ p \in builder[b].queue
    /\ tree[p] = "pinned" /\ env[p].is = "none"
    /\ builder' = [builder EXCEPT ![b].phase = "making", ![b].project = p,
                                  ![b].queue = @ \ {p}]
    /\ UNCHANGED <<disk, others, calls>>

\* Mutated form: mkdir accepts a directory that exists.
MakeEnvironmentAnyway(b) ==
    /\ builder[b].phase = "making"
    /\ env' = [env EXCEPT ![builder[b].project].is = IF @ = "none" THEN "building" ELSE @]
    /\ builder' = [builder EXCEPT ![b].phase = "checking", ![b].index = 0]
    /\ UNCHANGED <<source, tree, output, others, calls>>

\* mkdir creates the directory; if another call was faster it raises.
MakeEnvironment(b) ==
    /\ builder[b].phase = "making"
    /\ env[builder[b].project].is = "none"
    /\ env' = [env EXCEPT ![builder[b].project].is = "building"]
    /\ builder' = [builder EXCEPT ![b].phase = "checking", ![b].index = 0]
    /\ UNCHANGED <<source, tree, output, others, calls>>

\* Mutated form: the commands do not stop at the fourth.
StartAnotherCommand(b) ==
    LET p == builder[b].project IN
    /\ builder[b].phase = "checking"
    /\ tree[p] = "pinned"
    /\ builder' = [builder EXCEPT ![b].phase = "running"]
    /\ env' = IF builder[b].index >= 3 THEN env
              ELSE [env EXCEPT ![p] = [is |-> "building", hands |-> @.hands \cup {builder[b].call}]]
    /\ UNCHANGED <<source, tree, output, others, calls>>

\* Before each command the checkout is looked at.  venv and the two installs
\* work on the environment from here on; pip check only reads it.
StartCommand(b) ==
    LET p == builder[b].project IN
    /\ builder[b].phase = "checking" /\ builder[b].index < 4
    /\ tree[p] = "pinned"
    /\ builder' = [builder EXCEPT ![b].phase = "running"]
    /\ env' = IF builder[b].index = 3 THEN env
              ELSE [env EXCEPT ![p] = [is |-> "building", hands |-> @.hands \cup {builder[b].call}]]
    /\ UNCHANGED <<source, tree, output, others, calls>>

\* While the second install runs, the last package arrives: from now on nothing
\* is missing, although the command is not over.
InstallFinishes(b) ==
    LET p == builder[b].project IN
    /\ builder[b].phase = "running" /\ builder[b].index = 2
    /\ env[p].is = "building"
    /\ env' = [env EXCEPT ![p].is = "ready"]
    /\ UNCHANGED <<source, tree, output, builder, others, calls>>

\* The command succeeds and its log is written.
EndCommand(b) ==
    /\ builder[b].phase = "running"
    /\ builder[b].index = 2 => Built(builder[b].project)
    /\ builder' = [builder EXCEPT ![b].phase = "checking", ![b].index = @ + 1]
    /\ UNCHANGED <<disk, others, calls>>

\* check_runtime agrees; the next environment, if any.
EndBootstrap(b) ==
    /\ builder[b].phase = "checking" /\ builder[b].index = 4
    /\ Ready(builder[b].project)
    /\ builder' = [builder EXCEPT ![b] =
           IF builder[b].whole \/ builder[b].queue # {}
           THEN [@ EXCEPT !.phase = "looking", !.project = None, !.index = 0]
           ELSE IdleBuilder]
    /\ UNCHANGED <<disk, others, calls>>

\* A look disappoints, a command fails, times out or is interrupted, or the
\* process dies.  A staging directory goes; what is published stays as it is.
BuilderRaises(b) ==
    /\ builder[b].phase # "idle"
    /\ builder' = [builder EXCEPT ![b] = IdleBuilder]
    /\ UNCHANGED <<disk, others, calls>>

-----------------------------------------------------------------------------
(* run_acceptance and verify_acceptance.                                   *)

rest == <<builder, touches>>

StartAcceptance(a) ==
    /\ acceptor[a].phase = "idle" /\ calls < MaxCalls
    /\ tree # None
    /\ calls' = calls + 1
    /\ acceptor' = [acceptor EXCEPT ![a] =
           [IdleAcceptor EXCEPT !.phase = "before", !.call = calls + 1, !.todo = Project]]
    /\ UNCHANGED <<disk, rest, evidence, found>>

\* _verify_prepared, one project after the other.
VerifyProject(a, p) ==
    /\ acceptor[a].phase \in {"before", "after", "verifying"}
    /\ p \in acceptor[a].todo
    /\ Ready(p)
    /\ acceptor' = [acceptor EXCEPT ![a].todo = @ \ {p},
           ![a].report = [q \in DOMAIN @ \cup {p} |-> IF q = p THEN env[p].is ELSE @[q]]]
    /\ found' = found \cup {p}
    /\ UNCHANGED <<disk, rest, evidence, calls>>

StartCases(a) ==
    /\ acceptor[a].phase = "before" /\ acceptor[a].todo = {}
    /\ acceptor' = [acceptor EXCEPT ![a].phase = "cases", ![a].cases = Case]
    /\ UNCHANGED <<disk, rest, evidence, found, calls>>

\* A command runs until it ends or its time is up.
StartCase(a, c) ==
    /\ acceptor[a].phase = "cases" /\ c \in acceptor[a].cases
    /\ acceptor' = [acceptor EXCEPT ![a].phase = "running", ![a].case = c]
    /\ UNCHANGED <<disk, rest, evidence, found, calls>>

\* The command writes its output, as expected or not.
CommandWrites(a, is) ==
    /\ acceptor[a].phase = "running"
    /\ output' = [output EXCEPT ![acceptor[a].case] = [is |-> is, by |-> acceptor[a].call]]
    /\ UNCHANGED <<source, tree, env, acceptor, rest, evidence, found, calls>>

\* "zero": it ended with return code 0.
EndCase(a, zero) ==
    /\ acceptor[a].phase = "running"
    /\ acceptor' = [acceptor EXCEPT ![a].phase = "reading", ![a].ended = zero]
    /\ UNCHANGED <<disk, rest, evidence, found, calls>>

\* Its output is read and hashed; the case passes or fails.
ReadOutput(a) ==
    LET c == acceptor[a].case IN
    /\ acceptor[a].phase = "reading"
    /\ acceptor' = [acceptor EXCEPT
           ![a].phase = "cases", ![a].cases = @ \ {c}, ![a].case = None, ![a].ended = FALSE,
           ![a].passed = IF acceptor[a].ended /\ output[c].is = "expected" THEN @ \cup {c} ELSE @,
           ![a].own = @ /\ output[c].by = acceptor[a].call]
    /\ UNCHANGED <<disk, rest, evidence, found, calls>>

StartAfter(a) ==
    /\ acceptor[a].phase = "cases" /\ acceptor[a].cases = {}
    /\ acceptor' = [acceptor EXCEPT ![a].phase = "after", ![a].todo = Project, ![a].report = <<>>]
    /\ UNCHANGED <<disk, rest, evidence, found, calls>>

\* The evidence goes to a file of its own.
WriteEvidence(a) ==
    /\ acceptor[a].phase = "after" /\ acceptor[a].todo = {}
    /\ evidence' = evidence \cup
           {[call |-> acceptor[a].call, report |-> acceptor[a].report, own |-> acceptor[a].own,
             status |-> IF acceptor[a].passed = Case THEN "accepted" ELSE "blocked"]}
    /\ acceptor' = [acceptor EXCEPT ![a] = IdleAcceptor]
    /\ UNCHANGED <<disk, rest, found, calls>>

\* An activation reads evidence that accepts the candidate.
StartVerifying(a, e) ==
    /\ acceptor[a].phase = "idle" /\ calls < MaxCalls
    /\ e.status = "accepted"
    /\ calls' = calls + 1
    /\ acceptor' = [acceptor EXCEPT ![a] =
           [IdleAcceptor EXCEPT !.phase = "outputs", !.call = calls + 1, !.cases = Case,
                                !.evidence = e]]
    /\ UNCHANGED <<disk, rest, evidence, found>>

\* Every output still has its expected digest.
VerifyOutput(a, c) ==
    /\ acceptor[a].phase = "outputs" /\ c \in acceptor[a].cases
    /\ output[c].is = "expected"
    /\ acceptor' = [acceptor EXCEPT ![a].cases = @ \ {c},
           ![a].phase = IF acceptor[a].cases = {c} THEN "verifying" ELSE @,
           ![a].todo = IF acceptor[a].cases = {c} THEN Project ELSE @]
    /\ UNCHANGED <<disk, rest, evidence, found, calls>>

\* The runtime is the one after the acceptance; the activation goes on.
EndVerifying(a) ==
    /\ acceptor[a].phase = "verifying" /\ acceptor[a].todo = {}
    /\ acceptor[a].report = acceptor[a].evidence.report
    /\ acceptor' = [acceptor EXCEPT ![a] = IdleAcceptor]
    /\ UNCHANGED <<disk, rest, evidence, found, calls>>

\* A look disappoints, or the process dies; nothing is written.
AcceptorRaises(a) ==
    /\ acceptor[a].phase # "idle"
    /\ acceptor' = [acceptor EXCEPT ![a] = IdleAcceptor]
    /\ UNCHANGED <<disk, rest, evidence, found, calls>>

-----------------------------------------------------------------------------
Build(b) ==
    \/ \E p \in Project : MatchSource(b, p) \/ StartBootstrap(b, p) \/ LookForEnvironment(b, p)
    \/ StartPreparing(b) \/ CloneAll(b) \/ PublishTree(b) \/ EndPreparing(b)
    \/ MakeEnvironment(b) \/ StartCommand(b) \/ InstallFinishes(b) \/ EndCommand(b)
    \/ EndBootstrap(b) \/ BuilderRaises(b)

Accept(a) ==
    \/ StartAcceptance(a) \/ StartCases(a) \/ StartAfter(a) \/ WriteEvidence(a)
    \/ \E p \in Project : VerifyProject(a, p)
    \/ \E c \in Case : StartCase(a, c) \/ VerifyOutput(a, c)
    \/ \E is \in {"expected", "other"} : CommandWrites(a, is)
    \/ \E zero \in BOOLEAN : EndCase(a, zero)
    \/ ReadOutput(a)
    \/ \E e \in evidence : StartVerifying(a, e)
    \/ EndVerifying(a) \/ AcceptorRaises(a)

Next ==
    \/ Touch
    \/ \E b \in Builder : Build(b)
    \/ \E a \in Acceptor : Accept(a)

Spec == Init /\ [][Next]_vars

-----------------------------------------------------------------------------
Call == 0..MaxCalls
Reports == UNION {[P -> Usable] : P \in SUBSET Project}
Evidence == [call : Call, report : Reports, own : BOOLEAN, status : {"accepted", "blocked"}]

\* Type invariant: every variable holds a value of its kind.
TypeOK ==
    /\ source \in [Project -> Checkout]
    /\ tree \in [Project -> Checkout] \cup {None}
    /\ env \in [Project -> [is : Usable \cup {"none", "building", "broken"}, hands : SUBSET Call]]
    /\ output \in [Case -> [is : {"absent", "expected", "other"}, by : Call]]
    /\ builder \in [Builder ->
           [phase : {"idle", "matching", "rematching", "looking", "making", "checking", "running"},
            call : Call, whole : BOOLEAN, todo : SUBSET Project, queue : SUBSET Project,
            project : Project \cup {None}, index : 0..4]]
    /\ acceptor \in [Acceptor ->
           [phase : {"idle", "before", "cases", "running", "reading", "after", "outputs",
                     "verifying"},
            call : Call, todo : SUBSET Project, cases : SUBSET Case, passed : SUBSET Case,
            own : BOOLEAN, case : Case \cup {None}, ended : BOOLEAN, report : Reports,
            evidence : Evidence \cup {None}]]
    /\ evidence \subseteq Evidence
    /\ found \subseteq Project
    /\ calls \in Call /\ touches \in 0..MaxTouches

\* "Exclude concurrent bootstraps; leave the new directory on failure": all the
\* commands that ever worked on an environment were those of one call.  What an
\* interrupted call left is never completed by another.
BuiltByOne == \A p \in Project : Cardinality(env[p].hands) <= 1

\* An environment that a verification has found ready, even before the call that
\* builds it was over, is never again under construction, and a prepared directory
\* is never replaced, though several preparations may have seen its name free: no
\* build works beneath an acceptance, an activation or the service that runs there.
PreparedStays ==
    [][/\ tree # None /\ tree' # tree => touches' # touches
       /\ \A p \in found : Built(p)']_vars

-----------------------------------------------------------------------------
\* "Execute the candidate-bound commands and hash their real output artifacts":
\* evidence that accepts a candidate is about outputs that the commands of this
\* acceptance have written.
OutputsOfTheRun == \A e \in evidence : e.status = "accepted" => e.own
=============================================================================
