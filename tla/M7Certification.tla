-------------------------- MODULE M7Certification --------------------------
(***************************************************************************)
(* M7 certification: a certificate claims that benchmark and market        *)
(* evidence was produced by certain GitHub Actions runs.  Its validation   *)
(* reads the evidence files beside it and asks GitHub, one request after   *)
(* the other, while runs are re-run, artifacts expire and people replace   *)
(* files; write_m7_certification publishes what has been found valid.      *)
(*                                                                         *)
(* A SHA-256 is the content it is of.  What a certificate repeats of its   *)
(* evidence (rates, windows, providers) must equal it and is not kept      *)
(* twice; whether it is release candidate or generally available follows   *)
(* from one evidence file and is left out.  An error is never taken back,  *)
(* so a validation ends at its first.                                      *)
(***************************************************************************)
EXTENDS Naturals, Sequences, FiniteSets

CONSTANTS
    Project,        \* the projects a certificate must cover
    ProjectOrder,   \* ... in the order it must list them
    Label,          \* the kinds of evidence
    EvidenceOrder,  \* ... in the order they are read in
    Required,       \* the labels each project must prove, in order
    Run,            \* workflow runs, by their identifier
    ProjectOf,      \* the repository each run belongs to
    HeadOf,         \* the commit each run was started for
    Certifier,      \* processes that validate, and may write, a certificate
    None,           \* no certificate at hand
    Evidence,       \* the evidence files there may be
    MaxAttempts,    \* bound on attempts of all runs together
    MaxUploads,     \* bound on artifacts
    MaxChanges,     \* bound on artifacts that expire and evidence files replaced
    MaxCalls        \* bound on validations

Commit == {HeadOf[r] : r \in Run}

\* An evidence file: what it is about, and whether its measurements, assertions
\* and quality gates are what its label asks for.
Body == [label : Label, commit : Commit, passes : BOOLEAN]

Ordered(s, S) == {s[i] : i \in DOMAIN s} = S /\ Len(s) = Cardinality(S)

ASSUME M7Assumption ==
    /\ ProjectOrder \in Seq(Project) /\ Ordered(ProjectOrder, Project)
    /\ EvidenceOrder \in Seq(Label) /\ Ordered(EvidenceOrder, Label)
    /\ Required \in [Project -> Seq(Label)]
    /\ EvidenceOrder # <<>> /\ ProjectOrder # <<>>
    /\ \A l \in Label : \E p \in Project : \E i \in DOMAIN Required[p] : Required[p][i] = l
    /\ ProjectOf \in [Run -> Project]
    /\ Evidence \subseteq Body
    /\ MaxAttempts \in Nat /\ MaxUploads \in Nat /\ MaxChanges \in Nat /\ MaxCalls \in Nat

VARIABLES
    run,            \* what GitHub says of each run: its latest attempt
    uploads,        \* artifacts; the position is the identifier
    gone,           \* identifiers of artifacts that have expired
    local,          \* the evidence file of each label: none, or one body
    certifier,      \* each certifier: where it is, and its local variables
    certificate,    \* what is under the wanted name: none, or one certificate
    succeeded,      \* history: attempts that have ended in success
    calls,          \* validations so far
    starts,         \* attempts of all runs so far
    changes         \* artifacts expired and evidence files replaced so far

github == <<run, uploads, gone, succeeded, starts, changes>>
vars == <<github, local, certifier, certificate, calls>>

Result == {"running", "success", "failure"}

\* An artifact is named after its label and the attempt that uploaded it.
Artifact == [run : Run, attempt : 1..MaxAttempts, label : Label, body : Body]

\* A line of the certificate about a project's run, and one about an artifact.
CIResult == [run : Run, commit : Commit, attempt : 1..MaxAttempts]
Binding == [id : 1..MaxUploads, archive : Body]

Certificate == [ci : [Project -> CIResult], artifact : [Label -> Binding],
                evidence : [Label -> Body]]

Phase == {"idle", "evidence", "run", "jobs", "artifacts", "download", "valid", "free", "linked"}

\* A certifier: where it is, its certificate and whether it is to be published,
\* the projects and labels still to be looked at, the artifacts listed last.
Local == [phase : Phase, claim : Certificate \cup {None}, writes : BOOLEAN,
          projects : Seq(Project), labels : Seq(Label), listed : SUBSET (1..MaxUploads)]

Idle == [phase |-> "idle", claim |-> None, writes |-> FALSE, projects |-> <<>>, labels |-> <<>>,
         listed |-> {}]

\* The project that must prove a label.
OwnerOf(l) == CHOOSE p \in Project : \E i \in DOMAIN Required[p] : Required[p][i] = l

Init ==
    /\ run = [r \in Run |-> [attempt |-> 0, status |-> "failure", jobs |-> "failure"]]
    /\ uploads = <<>>
    /\ gone = {}
    /\ local \in [Label -> {{b} : b \in Evidence}]
    /\ \A l \in Label : \A b \in local[l] : b.label = l
    /\ certifier = [c \in Certifier |-> Idle]
    /\ certificate = {}
    /\ succeeded = {}
    /\ calls \in 0..MaxCalls    \* what of the bounds is left
    /\ starts = 0
    /\ changes = 0

-----------------------------------------------------------------------------
(* GitHub, and people with evidence files.                                 *)

process == <<certifier, certificate, calls>>

\* A run is started, or started again.
StartAttempt(r) ==
    /\ run[r].status # "running"
    /\ starts < MaxAttempts /\ starts' = starts + 1
    /\ run' = [run EXCEPT ![r] = [attempt |-> @.attempt + 1, status |-> "running", jobs |-> "running"]]
    /\ UNCHANGED <<uploads, gone, succeeded, changes, local, process>>

\* The attempt uploads one evidence file; the artifact's name says which attempt.
Upload(r, body) ==
    /\ run[r].status = "running" /\ Len(uploads) < MaxUploads
    /\ \A i \in DOMAIN uploads :
           ~ (uploads[i].run = r /\ uploads[i].attempt = run[r].attempt /\ uploads[i].label = body.label)
    /\ uploads' = Append(uploads, [run |-> r, attempt |-> run[r].attempt,
                                   label |-> body.label, body |-> body])
    /\ UNCHANGED <<run, gone, succeeded, starts, changes, local, process>>

\* Its test jobs end.
FinishJobs(r, result) ==
    /\ run[r].jobs = "running"
    /\ run' = [run EXCEPT ![r].jobs = result]
    /\ UNCHANGED <<uploads, gone, succeeded, starts, changes, local, process>>

\* It ends, in failure if another job of it failed.
FinishRun(r, result) ==
    /\ run[r].status = "running" /\ run[r].jobs # "running"
    /\ result = "success" => run[r].jobs = "success"
    /\ run' = [run EXCEPT ![r].status = result]
    /\ succeeded' = IF result = "success" THEN succeeded \cup {<<r, run[r].attempt>>} ELSE succeeded
    /\ UNCHANGED <<uploads, gone, starts, changes, local, process>>

Expire(id) ==
    /\ id \in DOMAIN uploads \ gone
    /\ gone' = gone \cup {id}
    /\ changes < MaxChanges /\ changes' = changes + 1
    /\ UNCHANGED <<run, uploads, succeeded, starts, local, process>>

\* Someone replaces or removes an evidence file.
Replace(l, bodies) ==
    /\ changes < MaxChanges
    /\ local' = [local EXCEPT ![l] = bodies]
    /\ changes' = changes + 1
    /\ UNCHANGED <<run, uploads, gone, succeeded, starts, process>>

GitHubOrPeople ==
    \/ \E r \in Run :
           \/ StartAttempt(r)
           \/ \E body \in Evidence : Upload(r, body)
           \/ \E result \in {"success", "failure"} : FinishJobs(r, result) \/ FinishRun(r, result)
    \/ \E id \in DOMAIN uploads : Expire(id)
    \/ \E l \in Label : Replace(l, {}) \/ \E b \in Evidence : Replace(l, {b})

-----------------------------------------------------------------------------
(* Validation.                                                             *)

world == <<github, local, certificate, calls>>

\* The evidence in an artifact, and in its archive.
ContentOf(id) == uploads[id].body

\* What a person can write into a certificate: any commit, and attempts, artifacts
\* and evidence files that there are.  GitHub does not find others.
Claims ==
    [ci : [Project -> {k \in CIResult : k.attempt <= run[k.run].attempt}],
     artifact : [Label -> {[id |-> i, archive |-> ContentOf(i)] : i \in DOMAIN uploads}],
     evidence : {e \in [Label -> UNION {local[l] : l \in Label}] : \A l \in Label : local[l] = {e[l]}}]

Start(c, claim, writes) ==
    /\ certifier[c].phase = "idle" /\ calls < MaxCalls
    /\ certifier' = [certifier EXCEPT ![c] =
           [Idle EXCEPT !.phase = "evidence", !.claim = claim, !.writes = writes,
                        !.labels = EvidenceOrder]]
    /\ calls' = calls + 1
    /\ UNCHANGED <<github, local, certificate>>

\* The file at the evidence path has the claimed digest.
Present(claim, l) == claim.evidence[l] \in local[l]

\* It is evidence of the right kind, for the commit whose run is claimed.
Convincing(claim, l) ==
    LET body == claim.evidence[l] IN
    /\ body.label = l
    /\ body.commit = claim.ci[OwnerOf(l)].commit
    /\ body.passes

\* Mutated form: one label too many.
AfterLabelLate(me, next) ==
    IF Len(me.labels) > 0 THEN [me EXCEPT !.labels = Tail(@)] ELSE next

\* The next label of those that are still to be looked at, or the next phase.
AfterLabel(me, next) ==
    IF Len(me.labels) > 1 THEN [me EXCEPT !.labels = Tail(@)] ELSE next

ToRuns(me) == [me EXCEPT !.phase = "run", !.labels = <<>>, !.projects = ProjectOrder]

\* Mutated form: evidence of any commit will do.
ReadEvidenceOfAnyCommit(c) ==
    LET me == certifier[c]  l == Head(me.labels)  body == me.claim.evidence[l] IN
    /\ me.phase = "evidence"
    /\ Present(me.claim, l) /\ body.label = l /\ body.passes
    /\ certifier' = [certifier EXCEPT ![c] = AfterLabel(@, ToRuns(@))]
    /\ UNCHANGED world

ReadEvidence(c) ==
    LET me == certifier[c]  l == Head(me.labels) IN
    /\ me.phase = "evidence"
    /\ Present(me.claim, l) /\ Convincing(me.claim, l)
    /\ certifier' = [certifier EXCEPT ![c] = AfterLabel(@, ToRuns(@))]
    /\ UNCHANGED world

\* Mutated form: the latest attempt succeeded, whichever was claimed.
ReadRunOfAnyAttempt(c) ==
    LET me == certifier[c]  k == me.claim.ci[Head(me.projects)] IN
    /\ me.phase = "run"
    /\ ProjectOf[k.run] = Head(me.projects) /\ HeadOf[k.run] = k.commit
    /\ run[k.run].status = "success"
    /\ certifier' = [certifier EXCEPT ![c].phase = "jobs"]
    /\ UNCHANGED world

\* GitHub knows the claimed run, and its latest attempt is the claimed one and
\* has succeeded.
ReadRun(c) ==
    LET me == certifier[c]  k == me.claim.ci[Head(me.projects)] IN
    /\ me.phase = "run"
    /\ ProjectOf[k.run] = Head(me.projects) /\ HeadOf[k.run] = k.commit
    /\ run[k.run].attempt = k.attempt /\ run[k.run].status = "success"
    /\ certifier' = [certifier EXCEPT ![c].phase = "jobs"]
    /\ UNCHANGED world

ToNextProject(me) ==
    [me EXCEPT !.projects = Tail(@), !.labels = <<>>, !.listed = {},
               !.phase = IF Len(me.projects) > 1 THEN "run" ELSE "valid"]

\* The jobs are those of the latest attempt, which may be a later one by now.
\* A project that must prove nothing is done with them.
ReadJobs(c) ==
    LET me == certifier[c]
        p == Head(me.projects)
        bound == {me.claim.artifact[Required[p][i]].id : i \in DOMAIN Required[p]} IN
    /\ me.phase = "jobs"
    /\ run[me.claim.ci[p].run].jobs = "success"
    /\ Cardinality(bound) = Len(Required[p])
    /\ certifier' = [certifier EXCEPT ![c] =
           IF Required[p] = <<>> THEN ToNextProject(@)
                                 ELSE [@ EXCEPT !.phase = "artifacts", !.labels = Required[p]]]
    /\ UNCHANGED world

\* The run's artifacts, of all its attempts.
ListArtifacts(c) ==
    LET me == certifier[c]  k == me.claim.ci[Head(me.projects)] IN
    /\ me.phase = "artifacts"
    /\ certifier' = [certifier EXCEPT ![c].phase = "download",
                                      ![c].listed = {i \in DOMAIN uploads : uploads[i].run = k.run} \ gone]
    /\ UNCHANGED world

\* Mutated form: the artifact's name need not say the claimed attempt.
DownloadOfAnyAttempt(c) ==
    LET me == certifier[c]  l == Head(me.labels)  b == me.claim.artifact[l] IN
    /\ me.phase = "download"
    /\ b.id \in me.listed \ gone
    /\ uploads[b.id].label = l
    /\ ContentOf(b.id) = b.archive
    /\ Present(me.claim, l) /\ b.archive = me.claim.evidence[l]
    /\ certifier' = [certifier EXCEPT ![c] = AfterLabel(@, ToNextProject(@))]
    /\ UNCHANGED world

\* The artifact was listed under the name of the claimed attempt, can still be
\* had, and is the evidence that lies beside the certificate.
Download(c) ==
    LET me == certifier[c]
        k == me.claim.ci[Head(me.projects)]
        l == Head(me.labels)
        b == me.claim.artifact[l] IN
    /\ me.phase = "download"
    /\ b.id \in me.listed \ gone
    /\ uploads[b.id].label = l /\ uploads[b.id].attempt = k.attempt
    /\ HeadOf[uploads[b.id].run] = k.commit
    /\ ContentOf(b.id) = b.archive
    /\ Present(me.claim, l) /\ b.archive = me.claim.evidence[l]
    /\ certifier' = [certifier EXCEPT ![c] = AfterLabel(@, ToNextProject(@))]
    /\ UNCHANGED world

\* An error, a request that fails, the end of the call, or death of the process.
Leave(c) ==
    /\ certifier[c].phase # "idle"
    /\ certifier' = [certifier EXCEPT ![c] = Idle]
    /\ UNCHANGED world

-----------------------------------------------------------------------------
(* Publication.                                                            *)

\* The body is written under a temporary name, which is the process's own; then
\* the wanted name must be free.
LookForCertificate(c) ==
    /\ certifier[c].phase = "valid" /\ certifier[c].writes
    /\ certificate = {}
    /\ certifier' = [certifier EXCEPT ![c].phase = "free"]
    /\ UNCHANGED world

\* A hard link to a name that is taken fails.
Link(c) ==
    /\ certifier[c].phase = "free"
    /\ certificate = {}
    /\ certificate' = {certifier[c].claim}
    /\ certifier' = [certifier EXCEPT ![c].phase = "linked"]
    /\ UNCHANGED <<github, local, calls>>

Certify(c) ==
    \/ \E claim \in Claims, writes \in BOOLEAN : Start(c, claim, writes)
    \/ \E claim \in certificate : Start(c, claim, FALSE)
    \/ ReadEvidence(c) \/ ReadRun(c) \/ ReadJobs(c)
    \/ ListArtifacts(c) \/ Download(c) \/ Leave(c)
    \/ LookForCertificate(c) \/ Link(c)

Next == GitHubOrPeople \/ \E c \in Certifier : Certify(c)

Spec == Init /\ [][Next]_vars

-----------------------------------------------------------------------------
(* Properties.                                                             *)

\* Type invariant.  There is at most one file under a name, and a certifier that
\* looks at labels, projects or listed artifacts has some to look at.
TypeOK ==
    /\ run \in [Run -> [attempt : 0..MaxAttempts, status : Result, jobs : Result]]
    /\ uploads \in Seq(Artifact) /\ Len(uploads) <= MaxUploads
    /\ gone \subseteq DOMAIN uploads
    /\ local \in [Label -> SUBSET Body]
    /\ \A l \in Label : \A a, b \in local[l] : a = b
    /\ certifier \in [Certifier -> Local]
    /\ \A c \in Certifier :
           /\ certifier[c].phase # "idle" => certifier[c].claim \in Certificate
           /\ certifier[c].listed \subseteq DOMAIN uploads
           /\ certifier[c].phase \in {"evidence", "download"} => certifier[c].labels # <<>>
           /\ certifier[c].phase \in {"run", "jobs", "artifacts", "download"} =>
                  certifier[c].projects # <<>>
    /\ certificate \subseteq Certificate /\ \A m, n \in certificate : m = n
    /\ succeeded \subseteq Run \X (1..MaxAttempts)
    /\ starts \in 0..MaxAttempts /\ changes \in 0..MaxChanges /\ calls \in 0..MaxCalls

\* What a certificate says happened: the claimed attempt of the claimed run, for
\* the claimed commit, succeeded, and that attempt uploaded the claimed evidence
\* about that commit.
RunAsClaimed(claim, p) ==
    LET k == claim.ci[p] IN
    /\ ProjectOf[k.run] = p /\ HeadOf[k.run] = k.commit
    /\ <<k.run, k.attempt>> \in succeeded

EvidenceAsClaimed(claim, p, l) ==
    LET k == claim.ci[p]  body == claim.evidence[l] IN
    /\ body.label = l /\ body.commit = k.commit /\ body.passes
    /\ [run |-> k.run, attempt |-> k.attempt, label |-> l, body |-> body]
           \in {uploads[i] : i \in DOMAIN uploads}

Happened(claim) ==
    /\ \A p \in Project : RunAsClaimed(claim, p)
    /\ \A l \in Label : EvidenceAsClaimed(claim, OwnerOf(l), l)

\* A certificate that a validation has accepted, or that has been published,
\* says what happened, although the run may have been started again, artifacts
\* may have expired and files may have been replaced between any two of the
\* validation's requests: it borrows neither another run's success nor another
\* attempt's artifact (validate_m7_certification, _github_ci_issues).
Attested ==
    /\ \A c \in Certifier :
           certifier[c].phase \in {"valid", "free", "linked"} => Happened(certifier[c].claim)
    /\ \A claim \in certificate : Happened(claim)
=============================================================================
