# TLA+ models of quant-workspace

quant-workspace is the operations layer of a set of research and trading repositories: it pins them to
revisions, builds and accepts a release from them, switches the release in force, starts and stops the local
Studio service in the chosen runtime, and packs, backs up and restores files. It is a set of command-line
programs that share nothing but the file system. There is no server that serialises them: two operators, the
local controller, Studio's requests and the programs that write research results all run at once, each may die
at any line, and each file may be unwritable. What keeps them apart is a handful of lock files, marker files,
compare-and-swap digests and renames. These are what this directory models, checks with TLC and proves with
TLAPS.

- [Inventory](#inventory): the parts of the system
- [Modules](#modules): which module models what, and how
- [What TLC checks](#what-tlc-checks): runs, bounds, fairness
- [What is proved](#what-is-proved)
- [Disagreements](#disagreements) between the code and its own words
- [Not modelled](#not-modelled) and [Plan](#plan)

Paths are relative to the repository; `delivery.py` etc. are in `src/quant_workspace/`.

## Inventory

| part | state it keeps | operations | what is hard | what makes it correct |
|---|---|---|---|---|
| **release activation** `delivery.py` | `.release.lock`, `candidates/<sha>.json`, `receipts/<sha>-<uuid>.json`, `current.json` in the release state directory | `activate_candidate`, `current_release` | several processes at once; death or a full disk in the middle of a file; readers without the lock; people who clear dead locks | one activation at a time; the pointer always leads to whole files; the receipts are its history; it moves only from what the caller expected |
| **preparation and acceptance** `delivery.py` | the prepared tree, its environments, the evidence file | `create_candidate`, `prepare_candidate`, `run_acceptance`, `verify_acceptance` | sources, outputs and environments that change during minutes of work; old outputs | an accepted release was built and run from exactly what the candidate pins |
| **maintenance gate** `local_control.py`, `studio_host.py` | `.local-admission.lock` (an OS lock), `.local-maintenance.json` (the marker), Studio's job files | `admission_lock`, `maintenance_gate`, `check_idle`; `submit` as `install_admission_guard` replaces it | a request that has looked for the marker against a controller that looks for jobs; crash in the window | no job is active in a window, none is admitted while a marker exists, no marker stays without a crash |
| **local control** `local_control.py` | `process.json`, `runtime.json`, `last-operation.json`, receipts, the stop file; the release pointer, shared with the above | `preview`, `execute` (start, stop, restart, activate, rollback), `status` | a transaction of stop, start, commit, record in which each step may fail, time out or be interrupted; a service that acts on its own; release commands that do not take the controller's locks | success means all of it; after failure the records explain what runs; no commit is hidden; no service is forgotten; it ends |
| **transfer** `transfer.py` | an archive, a restored directory | `create_transfer_package`, `verify_transfer_package`, `restore_transfer_package` | reading many files one by one while others write them; two packagers for one path; an archive exchanged between two opens | an archive is what its files were at one moment; a directory appears whole or not at all |
| **operational backup** `operational_backup.py` | `backup.json`, `restore.json`, the archive, a lock | `preview`, `backup`, `restore_drill` | a reviewed plan that is minutes old; three scans and an archive that look at different moments; readers that open the copy | what is approved is what was reviewed; "verified" is said of a copy with the right bytes |
| **ETF release** `etf_release.py` | `etf-current.json`, `etf-receipts/` in the release state directory | `current`, `verify`, `activate` | controllers of several services share one directory; acceptance and installation are read two or three times while they may change; a failed switch restores a pointer | the pointer moves only from the reviewed pointer to a verified installation; a failed switch leaves what was reviewed |
| **runtime readiness** `runtime_readiness.py` | environments, `bootstrap-<n>.log` | `check_runtime`, `bootstrap` | two bootstraps of one environment; interrupts and timeouts; metadata that leaves patch or implementation open; extras that ask for each other in circles | an environment is built once, from an unchanged profile; "ready" is never a guess |
| **stack manifest** `stack_manifest.py` | a published manifest | `discover_stack`, `validate_stack_manifest`, `write_stack_manifest` | cycle detection; two writers of one path | release-ready only without an error; a manifest is never overwritten |
| **M7 certification** `m7_certification.py` | a published certificate | `validate_m7_certification`, `write_m7_certification` | four kinds of requests to GitHub, one after the other, about a run that may be started again | an accepted certificate says what happened, of one run and one attempt |
| **ETF scheduler** `etf_scheduler.py` | the Windows task (external) | `inspect_task`, `start_studio` | the task changes between inspection and switch | the daily writer is paused while its runtime changes |
| **platform status, capabilities, runtime identity, loader and models, CLI** | none | reports, catalogs, digests, YAML, argument parsing | nothing concurrent | pure |
| **profiles** `profiles/` | their own environments | set-up scripts and numerical examples | sequential, over third-party libraries | outside the core |

How they interact:

- `execute` (local control) holds its own `_state_lock` on the controller's directory, then enters
  `maintenance_gate`, and inside calls `activate_candidate` (or `etf_release.activate`), which takes the
  `_state_lock` of the *release* directory. The release command calls `activate_candidate` directly and
  takes neither of the controller's locks; it is the controller's main source of interference.
- Studio imports `studio_host`, whose `submit` takes the admission lock and looks for the marker: the only
  code that runs in both worlds.
- `check_idle` calls `operational_backup.native_read`; `backup` calls `create_transfer_package`, and
  `restore_drill` calls `verify_transfer_package` and `restore_transfer_package`.
- `activate_candidate` calls `verify_acceptance`, which calls `check_runtime`.
- `_state_lock` (`delivery.py:657`) is an exclusively created file; a process that dies leaves it and a person
  removes it. `admission_lock` is an operating-system lock and dies with its holder. Models keep the
  difference.

## Modules

```
 CasRegister  <=refines=  ReleaseState         --- ReleaseStateProofs
 WorkGate     <=refines=  MaintenanceGate      --- LocalControlProofs
     ^ INSTANCE
 LocalControl      (activate_candidate is one step: CasRegister)
                                               --- LocalControlProofs
 AtomicTransfer <=refines= Transfer            --- TransferProofs
 OperationalBackup (packing and restoring are one step each: AtomicTransfer)
                                               --- OperationalBackupProofs
 EtfRelease                                    --- EtfReleaseProofs
 Acceptance                                    --- EnvironmentProofs
   (check_runtime is one look here: RuntimeReadiness opens it)
 RuntimeReadiness --EXTENDS--> PythonVersions  --- EnvironmentProofs
 StackManifest    --EXTENDS--> DependencyOrder --- StackManifestProofs
 M7Certification                               --- M7CertificationProofs
```

Modules whose proofs stand in one file have names of their own where they would meet: the definitions of
`MaintenanceGate` are `GateInit`, `GateNext`, `GateSpec`, `GateTypeOK`, those of `RuntimeReadiness` `CheckInit`,
`CheckNext`, `CheckSpec`, `CheckTypeOK`.

The abstract modules are what lets the modules above them stay small. `LocalControl` instantiates `WorkGate` rather
than the marker protocol and treats an activation as one step; `OperationalBackup` packs and restores in one step
each. The refinements, checked and proved, say why they may; that `LocalControl` in turn keeps to `WorkGate` is
proved too.

**ReleaseState** (`activate_candidate`, `current_release`, `_state_lock`, `_write_new`, `_write_atomic`).
`lock`, `store`, `receipts` and `pointer` are the four kinds of file; `phase` and `job` are each operator's
program counter and locals. `_write_new` opens the final name and then writes, so it is two actions
(`OpenStore`/`WriteStore`, `OpenReceipt`/`WriteReceipt`) with a truncated file between; `_write_atomic` is a
rename and one action (`Publish`). `WriteFails` and `Crash` are possible at each. `Verify` stands for the
checks made before the lock is taken. `Release` unlinks the lock without looking whose it is, as
the code does. A reader reads the pointer and then the receipt it names. `published` is a history
variable. Directions of a state contract (`delivery.py:701-716`) are `Admissible`.

**CasRegister** is a register with pending calls: each takes effect at one moment, only if the register holds
what the caller expected, and reports truthfully.

**MaintenanceGate** models controllers (`LockAdmission`, `CreateMarker`, `CheckIdle` or `NotIdle`,
`UnlockAdmission`, the window, `EndMaintenance`) and submitting requests (`LockForSubmit`, `LookForMarker`,
`Enqueue` or `EnqueueFails`, `LeaveSubmit`). `StrandMarker` is a marker that the code creates but does not
remove: writing its JSON fails after the exclusive open, or the final unlink fails. `ControllerDies` frees the admission
lock, because it is the operating system's, and leaves the marker. **WorkGate** is what others see: a
maintainer or none, a set of active jobs, and never both.

**LocalControl** models one controller directory, its service processes, a foreign process that may hold the
port, Studio's jobs, and release commands by others. Every line of `execute`, `_stop` and `_start` that changes
a file or a process is an action, with its failure as another: waiting loops end in success or in their
deadline. `op` holds the locals of `execute` (`stopped`, `started`, `before`, `committed`, ...), `op.stage`
says from where `_stop` and `_start` were called (forward, cleanup, recovery), `op.own` is history: what this
operation published. `Interrupt` is a `KeyboardInterrupt`, in the try body or in the exception handler: no `except`
of `execute` sees it, and the `finally` writes the receipt as it is, "failed" from the handler on. `InterruptLate` is
one between the effect of a step and the note of it. An interrupt within the `finally` is `Finish` with the first
receipt kept. `op.interrupted` is history: `OutcomeTruthful` promises a word on the pointer only without it.
`rollback` differs from `activate` only in the direction that `activate_candidate` records and is not a separate
action. A member of `Proc` is a PID together with its creation token, so a reused PID is another member; they are
numbered in the order of their creation, so that each state stands for its renamings without a symmetry set, which
would be unsound under liveness. The pointer is that of candidate runtimes, whose CAS compares the candidate's
digest only.

**Transfer** models files that anybody may rewrite, delete and recreate, packagers
that stat and read them one by one and afterwards compare identity (`CheckIdentity`) and digest (`CheckDigest`)
of each, and restorers that verify the archive, read it again, stage its files and rename the staging
directory. The identity that `stat` gives is modelled by what it is used for: whether the file was written since
it was read. `CheckIdentity` and `CheckDigest` are two actions because the code stats and then opens.
**AtomicTransfer** is what others may take a transfer for: a packager takes all its files at one moment and
publishes them later or drops them, a restorer holds the archive that it found and puts it in place whole or not at
all. It has no partial state, and it says nothing of archives that replace each other.

**OperationalBackup** models files under the configured roots, a person who reviews a preview, and the three
scans of `backup` (plan, list, after the archive), one file at a time. Packing ends with the rename (`Pack`); the
digest for the receipt is another look at the archive path (`HashArchive`). Then the drill's three looks at the
archive (digest, verify, restore) and the readers that may write to the copy. Another packager of the same path is
`RemoveArchive` and `TransferCommand`, which together replace an archive.

**Acceptance** (`prepare_candidate`, `bootstrap`, `run_acceptance`, `verify_acceptance`, and what `check_runtime`
decides) models source checkouts, one prepared directory with its environments, the expected outputs and the
evidence files. None of these functions takes a lock: what orders them is the rename that publishes the prepared
directory, the exclusive `mkdir` of an environment, and looking again. `Touch` is other people changing a
source, a prepared checkout, an environment or an output, which they may also remove. `bootstrap` makes an environment look ready before its
last command has run (`InstallFinishes`), because `check_runtime` asks for an interpreter and installed versions
and nothing marks the end. `hands`, `by` and `found` are history: which calls worked on an environment, which call
wrote an output, and which projects a verification has found ready. The model gives a builder one environment at
a time in the order of the code, and an acceptor its cases one at a time.

**EtfRelease** (`etf_release.py`, and what `execute` does with `etf-current.json`) models controllers of several
services that share a release directory. `job` is the locals of one call of `execute`: `expected` (the pointer in
the reviewed plan), `before` (`pointer_before`), `document` (the acceptance as it was judged), `actual` (what the
installer reports), `receipt` and `acceptance` (the digests that go into the pointer), `committed`. Each read of
the disk in `verify` is an action of its own (`ReadAcceptance`, `CheckFiles`, `CheckEvidence`, `VerifyInstalled`,
`CompareSaved`, `HashReceipt`, `HashAcceptance`), because the owner may accept anew (`Accept`) and people may
install anew (`InstallPackages`, then `InstallReceipt`) between any two of them; a digest is the thing digested.
The service that `execute` stops and starts is `LocalControl`'s subject; here `StartFails` is all that matters of
it. `SelectFails` is the write of `runtime.json` that fails after the commit, from which the restoration begins
(`AcquireAgain`, `Restore`, `ReleaseAgain`). Acquiring a lock or reading a file may fail at each place
(`AccessFails`), processes die and are interrupted everywhere. An interrupted call ends with the receipt as it is:
"failed" in the exception handler (`Undoing`), where it may leave the pointer published without a word on it, and
otherwise "running" (`unknown`) or "failed", the latter if it follows an exception at once. `steady`, `alone` and
`interrupted` are history: nobody changed the runtime since its acceptance was read, no other controller moved the
pointer since the plan, the call was cut short. `CheckFiles` reads the profile's files together with the receipt:
an installation is one set of both.

**PythonVersions** is `_version_matches`: a constraint against a version of which the patch may be unknown, with
the answers "yes", "no" and "undecided". What a clause accepts is the library `packaging`, external, for released
versions, with any number of components: an interpreter has three, so everything a clause names after its third is one
number (`rest`), 0 or not. The code takes `~=3.12.0.0`, `<3.12.0.1` and `>=3.12.0.1` for clauses that no patch decides,
because it looks at the boundary's patch and no further; `FinerThanPatch` names exactly these (`FinerMisread`), and what
is said of the verdicts excepts them. **RuntimeReadiness** is `check_runtime` for one project of a profile. An environment is a `world` (what
the interpreter really is) and what its metadata says of it; `Known` is which facts the metadata names, a marker is
what it cites and where it holds, and `Undecided` is what `_marker_applies` answers with `None`. The loop over the
requirements is modelled step by step: `Follow` is one distribution of a pass, in any order (the code's order is
that of a directory listing), `NextPass` and `EndPasses` are the `while`. `EditLock` and `EditProfile` are people
who edit between the two looks at the sources. The environment itself stands still; those who change it are in
`Acceptance`.

**DependencyOrder** is the cycle detection of a manifest (`_has_cycle`, Kahn's algorithm) node by node over a
declared graph that may name projects outside it. **StackManifest** extends it: people edit, commit and tag in the
repositories; `discover_stack` reads them with one git command after another (`ReadMetadata`, `ReadHead`,
`ReadStatus`, `ReadTags`), project after project, in a fixed order because the code sorts them; the validation
builds the graph of the records and rules on it; `write_stack_manifest` looks for the file, opens a temporary,
writes it, publishes it by hard link and unlinks the temporary, with its exceptions and with death at each line.
A validation is local to its process: letting one process at a time use the variables of `DependencyOrder` loses
no behaviour. A project's declarations are its requirements (each with the version it resolves to) and one bit
for everything else that a release wants of them.

**M7Certification** models GitHub (runs with attempts, test jobs, artifacts named after label and attempt that may
expire; external, from how `_github_ci_issues` uses it), the local evidence files, and certifiers whose `claim` is
anything a person can compose from runs, artifacts and files that exist. A validation reads each evidence file
(`ReadEvidence`), then per project the run (`ReadRun`), its jobs (`ReadJobs`), its artifacts (`ListArtifacts`) and
per label the archive and the evidence file again (`Download`). `ReadRun` and `ReadJobs` ask about the *latest*
attempt at the moment of each request. The code collects errors and goes on; since an error is never taken back,
the model ends a validation at its first (`Leave`). Publication is by hard link, as in `StackManifest`, where its
temporary file is modelled too.

Mutated forms: beside some actions stands an operator whose comment begins *Mutated form*. It is the action
with a plausible bug and is used by no specification: each property is known to fail when one of these replaces
the action it is named in PROJECT.json with.

## What TLC checks

Each run finishes in less than about three minutes on two workers. Deadlock is checked only for the gate; everywhere
else calls are bounded and a person need not act, so the system may stop.

| run | instance and bounds | shows |
|---|---|---|
| `release_state` (`MCReleaseState.cfg`) | 2 operators, 1 reader, 2 candidates of 2 contracts, 3 receipt names, 3 calls; 382 000 states | `PointerSound`, `ReceiptChain`, `ReadersNeverBreak`; that the protocol is a `CasRegister`; `LockReleased` under fairness |
| `maintenance_gate` | 2 controllers, 2 requests, 3 jobs, unbounded behaviour; 5 600 states | `NoJobUnderMaintenance`, `FailsClosed`, `MarkerRemoved`, and that it is a `WorkGate` |
| `local_control` | 2 runtimes (a baseline and an accepted one), 2 candidates, 3 processes, 1 job, 2 operations, 2 publications; 1 741 000 states | `RunningRuntimeExplained`, `OutcomeTruthful`, `NeverForgotten`; `OperationEnds` under fairness |
| `transfer` | 2 files, 2 contents, 3 writes, 2 packagers, 1 restorer, 2 packages; 1 965 000 states | `ArchiveIsSnapshot`, and that it is an `AtomicTransfer` |
| `operational_backup` | 2 files, an ordinary and a busy content, 2 operators, 2 writes, 3 calls, 2 archives; 1 550 000 states | `SteadyFilesAsReviewed`, `VerifiedCopyIsWhole` |
| `acceptance` | 2 projects, 1 case, 2 builders, 1 acceptor, 3 calls, 1 change by people; 831 000 states | `BuiltByOne`, `PreparedStays` |
| `stack_manifest` (`MCStackManifest.cfg`) | 3 projects and an outside name; every graph over them with one quiet command, and one chain with 2 moves by people or 2 concurrent commands; 2 595 000 states | `VerdictMatchesReference` (the reference is a search for closed walks), `ReleaseInstallable`, `WrittenStays` |
| `m7_certification` (`MCM7Certification.cfg`) | 1 project with 2 labels, 2 runs of different commits, 2 attempts in all, 3 evidence bodies, 2 artifacts, 1 expiry or replaced file, 1 validation from the beginning or 2 after a re-run, symmetric certifiers; 1 831 000 states | `Attested` |
| `runtime_readiness` (`MCRuntimeReadiness.cfg`) | 1 project with up to 4 distributions, 2 extras, 2 patches, 2 implementations, 10 specifiers, of which 2 are finer than a patch, 2 edits; 127 000 states | `ExtrasRight`, `ReadySound`, `BlockedSound`; `CheckEnds` under fairness |
| `etf_release` (`MCEtfRelease.cfg`) | 2 controllers (symmetric), 2 runtimes of 2 contracts, 3 acceptances, 3 calls, 1 change by owners or installers, starting with the second runtime whole or with its receipt yet to come; 6 649 000 states | `ReplacesReviewed`, `PublishedTruthful`, `FailureUndone` |
| `commit_read`, `stale_output` | the same modules, smaller | the [disagreements](#disagreements): TLC finds the behaviour |

Why the bounds are enough for the cases that matter:

- Activation: two calls that overlap and one more, so that a crash, a stale lock cleared by a person and a third
  call all fit; a move of contracts that was executed and one that was not; three receipt names, one per call,
  because each call draws a fresh UUID.
- Gate: nothing in it counts, so the state space is finite without a bound. Two of each role are what a race
  needs, and a third job lets one run, one wait and one arrive.
- Local control: two operations, so that the second meets whatever the first left (stop file, record, unmanaged
  listener, half-done activation). Three processes are the old one, the new one and the one of the recovery.
- Transfer: three writes are what A, B, A needs after the first read; two files are what "not at one moment"
  needs.
- Acceptance: three calls are two builders of one environment and an acceptor that looks at them, or a preparation,
  an acceptance and a second one; one change by people lets a look pass that the next one would refuse. Two
  projects are what "one is built while another is read" needs.
- Manifest: three nodes are the least graph with a cycle behind a node that is no part of it, and with a node
  that waits for two; the cycle detection itself is proved for every graph. Two versions (`MaxHead`) are what a
  stale requirement needs, two moves are a commit between two reads and another after them, and two commands are
  what a race for one name needs. `MCInit` lets people move or a second command run only on the chain, which
  keeps the product of all graphs and all moves out of reach of the run.
- Certification: two attempts are a run that failed and was started again, or two runs of which one succeeded: the
  two ways to borrow a success. Two artifacts are one of each kind, or one of each attempt. Two validations, which
  a race for one name and the verification of a published certificate need, start from a state with one re-run
  behind it (`Later`, reachable from `Init`), to keep the product with all remote histories out of the run.
- Readiness: the initial states come in three groups (`MCInit`): every choice of requirements with extras, including
  a cycle of extras through two distributions, under complete metadata; every completeness of the metadata, with
  markers that cite each fact, under fixed requirements; and an environment that is right by another lock than the
  pinned one, the only group in which people edit. Two patches, of which one is 0, are what taking an unknown patch
  for 0 needs. Two edits are a lock exchanged and put back; `ReadySound` says nothing of them, because the code
  reads the lock three times without keeping it, and promises no more.
- ETF: a controller, another that overtakes it, and a third call that finds what they left; an acceptance revoked
  or exchanged for the other runtime's between any two reads. An installation writes packages first and the receipt
  last: the initial state where the receipt is yet to come lets one change stand for the second half. The first runtime's contract may be followed by the second's and not the other
  way round, so a rollback is refused unless no contract changes.
- Backup: two writes are a change and its undoing; three calls are a review, a backup and a drill.

Bounds are conjuncts of guards and constants of the modules: `MaxAttempts`, `MaxOperations`, `MaxPublished`,
`MaxWrites`, `MaxPacked`, `MaxStarts`, `MaxArchives`, `MaxCalls`, `MaxTouches`, `MaxChanges`, `MaxUploads`, `MaxHead`, `MaxMoves`.

Fairness. A live process continues its own call (`WF` on a process's own steps) because no step waits on another
process: locks are tried once and refused (`delivery.py:661`), every polling loop has a deadline, subprocesses
have timeouts. The one blocking lock is `admission_lock`, held for a bounded check. Nothing is assumed of people,
of the service, of jobs, of crashes or of the start of a call: `LockReleased` and `MarkerRemoved` are therefore
weakened by "or the process died", and `OperationEnds` by "or crashed". `CheckEnds` assumes only that a check goes on
(`WF` on its own `Step`); that its loop over extras ends is what it shows.

## What is proved

For every value of the constants that satisfies the named assumptions, by `tlapm` to the last leaf. First what holds
of the code as it is:

| theorem | says |
|---|---|
| `ReleaseStateProofs!TypeCorrect`, `LockExcludes`, `PointerAlwaysSound`, `AuditTrailUnbroken`, `UnlockedReadersSucceed` | the invariants of `release_state`, and that one activation at a time is inside the lock |
| `ReleaseStateProofs!ImplementsCasRegister` | `Spec => Cas!Spec` |
| `LocalControlProofs!GateTypeCorrect`, `WorkNeverInterrupted`, `GateFailsClosed`, `ImplementsWorkGate` | the gate's safety and its refinement |
| `LocalControlProofs!TypeCorrect`, `LastReceiptExplains`, `OutcomesTruthful`, `ServicesNeverForgotten` | all safety properties of `local_control` |
| `LocalControlProofs!ObeysWorkGate`, `NoWorkDuringOperation` | operations and jobs keep to the abstract gate; no job is active during an operation |
| `StackManifestProofs!OrderInvariant`, `CycleDetectionRight` | the cycle detection says "cycle" exactly when some projects wait for each other, for every finite graph |
| `StackManifestProofs!VerdictsRight` | the same with paths: it says "cycle" exactly when some project reaches itself in at most as many steps as there are projects |
| `StackManifestProofs!TypeCorrect`, `ManifestsStay`, `ReleasesInstallable` | a published manifest is whole and stays; there is an order in which a published release can be installed |
| `M7CertificationProofs!TypeCorrect`, `CertificatesTrue` | what is accepted or published did happen |
| `TransferProofs!TypeCorrect`, `ArchivesAreSnapshots`, `RestoresAreWhole` | the transfer's safety; that a destination is one whole snapshot (`RestoredWhole`) |
| `TransferProofs!ImplementsAtomicTransfer` | `Spec => Atomic!Spec` |
| `OperationalBackupProofs!TypeCorrect`, `OneAtATime`, `ApprovedAsReviewed`, `VerifiedCopiesWhole` | all properties of `operational_backup`, and that its lock excludes |
| `EnvironmentProofs!TypeCorrect`, `EnvironmentsOfOneCall`, `PreparationsStay` | all properties of `acceptance` |
| `EtfReleaseProofs!TypeCorrect`, `ReplacementsReviewed`, `PublicationsTruthful`, `FailuresUndone` | all properties of `etf_release` |
| `EnvironmentProofs!PatchNeverGuessed`, `FinerMisread` | an answer that `_version_matches` gives without the patch is right for every patch, if no clause is finer than a patch; a clause that is has an answer that some patch belies |
| `EnvironmentProofs!CheckTypeCorrect`, `ExtrasAlwaysRight`, `ReadyNeverGuessed`, `BlockedForCause` | the loop over extras stops at the least closure; "ready" is right in every world the metadata leaves possible, if the patch is known or no constraint is finer than it; "blocked", with everything known and nobody editing, means that something is wrong |

`OutcomesTruthful` and `FailuresUndone` say what a failure without a word on the pointer means only of operations that
no interrupt cut short; the rest of them holds of interrupted ones too. The first of the [weak spots](#disagreements)
is why. `ObeysWorkGate` says little more than that `LocalControl` moves the gate by the actions of `WorkGate` alone; the
weight is in `ImplementsWorkGate`, and `NoWorkDuringOperation` is what an operation has of both.

Then what holds where the code promises less than one would like. Each names the one thing that must not happen, and
so says that nothing else is the cause; the behaviours it excludes are those of the [weak spots](#disagreements).

| theorem | if | then |
|---|---|---|
| `LocalControlProofs!RestorationsRight` | the pointer does not move between a call's plan and its read of `pointer_before`, nor between its commit and its read of `pointer_committed` (`WindowsQuiet`) | a restoration takes back what this operation published, and puts back the candidate that its plan expected |
| `LocalControlProofs!OnlyLaunchesAreLost` | every child that `_start` launches gets into `process.json` (`LaunchesRecorded`) | whatever runs is what a later stop will reach, and no two services run at a time |
| `EnvironmentProofs!FreshOutputsAreOwn` | a case starts without its output, and until it is read only its command writes it (`OutputsFresh`) | accepted evidence is about outputs of its own commands |
| `OperationalBackupProofs!CopiesAsReviewed` | nobody else writes to the archive path between the rename and the digest of a backup, nor between the comparison of the digest and the opening of a drill (`ArchiveQuiet`) | a copy reported verified holds what the person reviewed, of each file not written to during the backup (`VerifiedAsReviewed`) |
| `TransferProofs!OnePackagerKeepsArchives` | one packager works at a time (`OneAtATime`) | an archive is never replaced |

*Release state.* None of the properties is inductive. `IInv` adds `LockInv` (whoever is inside holds the lock
file; in particular a crashed holder still owns it until a person acts, which is why the blind unlink of
`Release` is harmless), `JobInv` (what the locals mean at each phase: the pointer still is what `Compare` saw,
the stored candidate and the receipt are whole once written), `FileInv` (the candidate and the receipt of an operator inside are
its own and as far along as its phase says), `PublishedWhole` (published receipts never change) and
`PointerShape`. Each conjunct has its own step lemma (`TypeStep`, `LockStep`, ...). The refinement uses `IInv`
in one place that matters: at `Publish` the register still holds the expected value.

*Gate.* `GateInv` says who may hold the admission lock at each phase, that a controller past `CreateMarker` owns the
marker, and that in its window no job is active. `GateFailsClosed` is an action property proved from it. The
refinement maps the maintainer to the controller whose window is open.

*Local control.* The three properties look at moments at which nothing is under way or an operation leaves; `IInv`
says what is true on the way there. `NotYetSelected`: until the last forward step the selected runtime is the
reviewed one, so whatever fails before it has a runtime to go back to. `Gone`: a runtime is launched only where the
recorded process is gone, which is all of `ServicesNeverForgotten`; it survives the service's own steps, because
no process comes back from the dead (`RecordLasts`). `Launched` follows the child from the launch to its record,
`TargetStarted` and `Success` carry what was verified through commit and selection to the final receipt, `Restored`
the same for a recovery. `Told` is the sentence about failures: once the pointer was attempted, an operation past
`failing` with a failure has said something on the pointer, or was interrupted. `FirstReceipt` and `Explained` are the reason for the
receipt that `execute` writes before it does anything: while it stands, whatever runs is explained. `Course` ties status and
stage to the phase. `Moves` is a step of the operation that
publishes no record and selects nothing, `Around` one of everything else; each action is one of these or has a
lemma of its own. `Deaths` is all that services, ports and jobs can do to the proof.

*Transfer.* `ReadInv` and `CheckInv` carry the argument: a file not written since it was read still holds what was
read, so a file that passes the identity check held it at the moment the last read ended. That gives `ArchiveIsSnapshot`, which is not obvious from the code: reads and checks are both one
file at a time and no two files are ever looked at together.

The refinement needs the moment to be found before it is known to be one: a packager that begins to check has taken
its files (`Taken`) if all it read is still there, and nothing otherwise, for then a check will refuse it.
`CheckInv` closes the gap: one that publishes has passed every check, so it had taken what it publishes.
Each action maps to a step of `AtomicTransfer` or to none (`PackMaps`, `RestoreMaps`, `WriteMaps`); `MapInv` says
that the empty tree, which stands for "nothing", is never an archive.

*Operational backup.* The lock is a file that a dead process leaves, so `HoldsLock` includes the crashed. Under it one
scan follows another, and `ScanRight`, `PlanRight` and `PackRight` are one statement about three documents: of a file
nobody has touched since the backup began, what was listed, planned or packed is what is on disk. The plan was
compared with the reviewed one, so the receipt's files, taken from the archive, are the reviewed ones.
`CopyWhole` is the loop invariant of the last comparison: the files compared so far are whole, and nobody writes
to the copy after the readers are done.

*Acceptance.* There is no lock, so the invariant is about a directory: `Apart` (no two builders work on one
environment), `Owns` (a builder's environment exists, and only its own call has worked on it) and `OneHand` (one
that does not exist was never worked on) hold because `mkdir` fails if the directory is there, and because no path
leads from "there" back to "not there" or to another builder: an interrupted call leaves what it made to nobody.
`Past` is the other half: what is complete has a builder at the last install or beyond, or none. A verification
may find an environment ready in the middle of that install, and `Past` says that the commands which would take it
apart again are behind it. `Aims` says what the locals are while they are used. A builder step either leaves the
work (`BuilderLeaves`), creates the directory (`Makes`) or goes on with what the builder alone has (`WorkGoesOn`).

*ETF release.* `Inv` is five predicates of one controller besides its types. `Excludes` (between creating and removing
the lock, the lock names it) makes the other controllers' moves impossible while `Reviewed` (the pointer is the
expected one, and the judged acceptance allows the transition) is needed. `Steady` carries one equation per check
passed, and becomes void when somebody changes the runtime; `Written` is the receipt before the pointer. `Alone`
says what a call without interference knows of `expected`, `before` and the pointer at each phase, which is what
`FailureUndone` rests on: `before` is read after the plan and without the lock, and only the absence of other
moves makes the two equal. One lemma per shape of a step (`OneMoves`, `MoveKeeps`, `ChangeKeeps`, `RefusedKeeps`)
keeps the 28 cases of `InvStep` short.

*Readiness.* `LoopInv` is the usual pair for a closure: what is requested is contained in every closed request
set, and as long as the pass has changed nothing, each distribution already visited asks for nothing more. Since
`Follow` reads and writes the same sets, the second half needs that nothing changed *since the pass began*, which
is what the flag says; resetting it per distribution (a mutant) breaks exactly this. `JudgedInv` says what an empty
set of issues has excluded at each phase; that the same verdict holds in every possible world follows from
`PatchNeverGuessed` (through `NothingFiner`, which only the environment and the profile decide) and from a marker's truth depending only on the facts that it cites. `CausedInv` is the
converse: each issue has a cause, in the lock and interpreter (`LockWrong`) or in a distribution judged by exact
requests (`DistributionWrong`); with nothing left open (`Decided`) a cause contradicts `RightIn`.

*Cycle detection.* "A cycle exists" is said without paths: a `Knot` is a non-empty set of projects each of which
depends on one in the set, and a finite graph has a cycle exactly if it has a knot. `OrderInv` ties the counters
to the set of nodes taken: a node's indegree is the number of its dependencies not yet taken, the queue is the
nodes not taken that wait for none, and `visited` counts the taken ones. Two facts follow. A taken node waited for nothing
untaken, so no knot contains a taken node, and all nodes taken means no knot. When nothing is ready, each node
left waits for a node left, so what is left is a knot if it is not empty. From knots to paths (`VerdictsRight`) is a matter of counting: a closed walk is a knot
(`CircularHasKnot`), and in a knot one can walk as many steps as there are projects, so by the pigeonhole principle
two of them are in the same place, and the walk between them is closed (`KnotIsCircular`). `CycleDetectionRight` is
about the step by step algorithm under `OrderSpec`; `StackManifest` interleaves exactly these steps with the rest of the command, and
its invariant contains `OrderInv`.

*Stack manifest.* `Checked` (while one process looks for cycles, the graph is that of its own draft), `CallsDistinct`
(one process at a time does) and `OrderInv` give `Sealed`: a draft that is called ready is `Installable`, that is,
its records require each other at the recorded commits, and no set of them is a knot. That an order of installation
exists (`InstallableHasOrder`) follows by growing one: of the projects that are left, one requires none of the
others. Nothing is assumed of people:
they may commit between any two git commands, and the validation compares only what was recorded. `Whole`, `Stays`
and `FileRight` are the publication: a temporary is whole before it is linked, a link is never replaced.

*Certification.* What a validation has found out stays true, because GitHub forgets neither the success of an attempt
nor what it uploaded (`Remembers`): expiry hides artifacts, and a new attempt changes what the *latest* attempt is,
not what an earlier one did. So the locals of a certifier say what is not yet known to have happened: `EvidenceRead`
(labels left), `RunsRead` (projects left, and the run of the one at hand), `ArtifactsRead` (labels left of that
run's artifacts). `Booked` is GitHub's own bookkeeping; it is where "the latest attempt is the claimed one and has
succeeded" becomes a lasting fact.

*The conditional theorems.* Their hypotheses are about steps, so each invariant is shown to survive every step that
the hypothesis allows, and TLC has seen the interesting case happen under each. `Known` is a ledger of the
operation at hand: what it expected, what it read and what it published, at each phase. `InReach` is the
converse of `NeverForgotten`: that one says what the record names, this one that nothing else runs. `PathFree` says
that while an archive is there, nobody packs. `Ledger` in the backup's proofs is what a call has learned of archive
and receipt: numbers stand for digests, and one number is never of two archives.

*Induction.* An induction over numbers is done through the least counterexample (`LeastNumber`, from the
well-foundedness of `<` on the naturals), because the library's induction rules take an operator as a parameter,
which the installed provers cannot instantiate.

Only model-checked is liveness (`LockReleased`, `MarkerRemoved`, `OperationEnds`, `CheckEnds`), which is beyond the
prover along with `ENABLED`. Every other property of a passing run is the subject of a theorem. There are no
`RECURSIVE` operators in any module.

Assumptions on constants: absence (`None`, `Absent`, `Foreign`) differs from every real value, bounds are
naturals, each accepted runtime has a candidate. TLC evaluates each in the runs.

## Disagreements

Each is a run that TLC ends with a counterexample; PROJECT.json quotes the words it is about.

1. `commit_read` — `execute` reads `pointer_committed` after the release lock is free (`local_control.py:685`).
   A release command in between becomes "its" commit, and a later failure restores over another's pointer although
   the code means to refuse that (`:703`). `RestorationsRight` says that this window and the one before
   `pointer_before` are the only causes.
2. `stale_output` — a case whose command ends with 0 but writes nothing is credited with the file that an earlier run
   left at its output path (`delivery.py:558`), although the docstring says "hash their real output artifacts" (`:524`). Removing the output before each
   command would do, if nobody else writes there (`FreshOutputsAreOwn`).

Other weak spots, which are no runs; the hazards of PROJECT.json name most of them:

- A failure is noted (`local_control.py:692`) and a keyboard interrupt comes before the handler has noted what became
  of the pointer (`:709`). The handler's own `except` (`:710`) does not see it, and the `finally` writes a failed
  receipt without `pointer_recovery` while the new pointer is in force, although `docs/windows-local-control.md:213`
  says that the failure receipt records it; `observed_pointer_after` is all that tells. TLC finds this when
  `interrupted` is dropped from `OutcomeTruthful`, or from `FailureUndone` for the ETF pointer. Noting an unconfirmed
  recovery before the restoration begins would close it.
- A boundary with a fourth component is judged by its third alone (`plain_zero`, `runtime_readiness.py:462`), so
  `~=3.12.0.0` and `<3.12.0.1` are answered "yes", as for 3.12.0, where the metadata names 3.12 only, although the
  docstring (`:452`) promises None and `docs/RUNTIME_READINESS.md:22` that a missing patch is never taken for .0. It is
  a theorem (`FinerMisread`) that each such clause is misjudged for some patch, and TLC finds an environment wrongly
  called ready when `NothingFiner` is dropped from `ReadySound`. Taking a clause for safe only if all components after
  the second are 0, and for `~=` at most three are written, would close it: all other answers are right
  (`PatchNeverGuessed`).
- Two packagers of one path both see it free (`transfer.py:245`), and the second's `replace` (`:314`) overwrites the
  first's archive. One at a time, none does (`OnePackagerKeepsArchives`).
- The digest that `create_transfer_package` returns is taken of the archive path after the rename (`transfer.py:318`).
  If another packager has replaced the archive by then, the receipt of a backup approves that one (`archive_sha256`
  beside the `manifest_sha256` of its own), and `restore_drill`, which compares only the former, reports a copy
  verified that nobody reviewed. TLC finds this, and the window between `:325` and `:331` of
  `operational_backup.py`, when `ArchiveQuiet` is dropped from `CopiesAsReviewed`. Returning the digest of the
  temporary, and comparing both digests in the drill, would close them.
- A child that was started and not recorded (`local_control.py:567`), because the write fails or the controller is
  interrupted or dies first, runs on where no later stop reaches it. This is the only way to lose a service
  (`OnlyLaunchesAreLost`).
- A file changes after the second scan of a backup, is archived, and changes back before the third
  (`operational_backup.py:299`): a receipt approves an archive that nobody reviewed. What does hold is
  `SteadyFilesAsReviewed`.
- A pointer that goes A, B, A. For candidates the CAS compares only the candidate's digest (`delivery.py:698`), so
  the restoration may bring back an older receipt. The ETF CAS compares the whole pointer, and pointers differ in their
  time, but a restoration brings an old one back whole: if controller 1 reads its plan at A, another controller
  publishes B, controller 1 reads `pointer_before` (B, `local_control.py:657`), and the other controller's failing
  switch restores A, then controller 1 commits over A as reviewed and, should it fail, "restores" B, which
  had been withdrawn. TLC finds this when `alone` is dropped from `FailureUndone`. Reading `pointer_before` under
  the lock, or taking it from the plan, would close it.
- A stop that timed out leaves its stop file (`local_control.py:492`), so the service may stop after the operation
  has ended and work is admitted again.
- The drill's archive, whose digest is compared once and whose path is opened again
  (`operational_backup.py:325`, `:331`, `:333`); a backup that fails after its archive was written and so refuses
  the next one (`:298`).
- A manifest record whose HEAD and tags were read at different commits (`stack_manifest.py:721`).

## Not modelled

- What is pure: the validation of candidates, suites, profiles, allowlists, manifests and certificates, and digests.
  A digest is its content: collisions are not modelled.
- Durability below the file system: a rename that was reported done stays done, as everywhere in the code but in
  `write_stack_manifest`, which calls `fsync`.
- Directories in a backup (compared like files, not archived); symbolic links and path escapes, which are
  rejected before anything is read.
- `create_candidate` (it reads everything once and writes one new file), `create_profile` and `write_profile` (likewise), `load_stack_manifest` and the canonical bytes, and a manifest's structural rules (order, duplicates,
  spelling), which are properties of one value.
- An `unlink` of a manifest's temporary that fails.
- The fields that a certificate repeats of its evidence, the thresholds they must meet (one bit, `passes`), whether the
  certificate is `rc-ready` or `ga-ready` (a function of one evidence file), its parsing and its own hash.
- Of `check_runtime`: the report on bootstrap tools, which decides nothing; epochs, pre-, post- and local releases
  in constraints, and `===`; transient failures of its reads, beyond an environment that cannot be read at all (each
  adds an issue and blocks); several projects of one profile, which are judged alike, one after the other; an environment
  that changes while it is read.
- The ETF pointer inside `LocalControl` and the service inside `EtfRelease`: the two share `execute` but no file.
- Attempts, artifacts and evidence files that come into being while a certificate that claims them is being checked:
  a claim is composed of what exists when its validation starts. The requests about them look only at what is there
  at that moment, so such a validation could as well have started later.
- The native readers and the Windows task scheduler, which are external. `check_idle` appears as what it decides.
- The components marked `not_modelled` in PROJECT.json, with reasons there.

## Plan

In order; the first ten are done.

1. `ReleaseState`, `CasRegister` and their proofs.
2. `WorkGate`, `MaintenanceGate` and their proofs.
3. `LocalControl` over both.
4. `Transfer` with proofs, `AtomicTransfer`, `OperationalBackup` over it.
5. `Acceptance`, with proofs.
6. `DependencyOrder` with proofs, `StackManifest` over it.
7. `M7Certification`.
8. `EtfRelease`: the whole-pointer CAS under the lock; the re-reads of acceptance and installation
   (`etf_release.py:43`, `:97`, `:92`, `:96`), with proofs.
9. The inside of `check_runtime` (`runtime_readiness.py:495`): which environments count as ready, with proofs.
10. Proofs of `StackManifest`, `M7Certification`, `LocalControl` and `OperationalBackup`, and of what holds where the
    code promises less.
11. The Windows scheduled writer beside `LocalControl`: it is inspected in `preview` only (`local_control.py:356`).

A new module may join a run of its neighbour where both concern one question.
