----------------------------- MODULE EtfRelease -----------------------------
(***************************************************************************)
(* The release of the ETF runtime: etf-current.json, the adapter that      *)
(* verifies an installation against its owner's acceptance and publishes   *)
(* it, and what local_control.execute does around it.                      *)
(*                                                                         *)
(* Controllers of several services may share one release_state_dir; each   *)
(* has its own gate, and only .release.lock is common.  The adapter reads  *)
(* the acceptance and the receipt of the installation twice, to judge them *)
(* and to hash them; meanwhile the owner may accept anew and anybody may   *)
(* install anew.  A controller may die anywhere; a person clears the lock  *)
(* of a dead one.                                                          *)
(***************************************************************************)
EXTENDS Naturals

CONSTANTS
    Controller,     \* processes in local_control.execute
    Root,           \* ETF runtimes: etf_root and its acceptance
    Document,       \* the acceptances that the owner may write
    Stack,          \* what may be installed: packages, lock and profile
    Contract,       \* application-state contracts
    Evidence,       \* what the recorded outputs of the checks may be
    None,           \* no process, no pointer
    MaxCalls,       \* bound on calls of execute
    MaxChanges      \* bound on what owners and installers change

\* A document is a digest of it, too.  "evidence" stands for the recorded digests
\* of the outputs of the four checks, "passed" for the rest of the structure.
ASSUME EtfAssumption ==
    /\ Document \subseteq [stack : Stack, contract : Contract, evidence : Evidence,
                           passed : BOOLEAN, transitions : SUBSET (Contract \X Contract)]
    /\ None \notin Controller
    /\ MaxCalls \in Nat /\ MaxChanges \in Nat

\* The pointer and its receipt have one content; "number" is verified_at.
Pointer == [root : Root, receipt : Stack, acceptance : Document, contract : Contract,
            number : 1..MaxCalls]

VARIABLES
    lock,           \* .release.lock: the controller that created it, or None
    pointer,        \* etf-current.json, or None
    receipts,       \* etf-receipts/<sha>.json
    disk,           \* acceptance, evidence, receipt and packages of each root
    phase,          \* where each controller is
    job,            \* local variables of each controller's last call
    calls,          \* calls so far; the number of a call is its time
    changes         \* changes so far

state == <<lock, pointer, receipts>>
vars == <<state, disk, phase, job, calls, changes>>

\* The phases of a live controller between creating the lock and removing it.
Holding == {"locked", "judged", "listed", "evidenced", "native", "saved", "hashed", "verified",
            "receipted", "published", "restoring", "restored"}
Phase == Holding \cup {"idle", "planned", "started", "committed", "selecting", "undoing", "crashed"}

\* "steady", "alone" and "interrupted" are history: nobody has changed the root
\* since the acceptance was read, no other controller has moved the pointer since
\* the plan, a KeyboardInterrupt ended the call.
NoJob == [root |-> None, expected |-> None, before |-> None, document |-> None, actual |-> None,
          receipt |-> None, acceptance |-> None, committed |-> None, number |-> 0,
          steady |-> TRUE, alone |-> TRUE, interrupted |-> FALSE,
          result |-> "none", recovery |-> "none"]

Job == [root : Root \cup {None}, expected : Pointer \cup {None}, before : Pointer \cup {None},
        document : Document \cup {None}, actual : Stack \cup {None}, receipt : Stack \cup {None},
        acceptance : Document \cup {None}, committed : Pointer \cup {None},
        number : 0..MaxCalls, steady : BOOLEAN, alone : BOOLEAN, interrupted : BOOLEAN,
        result : {"none", "succeeded", "failed", "unknown"},
        recovery : {"none", "not confirmed", "restored", "failed"}]

Disk == [acceptance : Document, evidence : Evidence, receipt : Stack, packages : Stack]

Init ==
    /\ lock = None
    /\ pointer = None
    /\ receipts = {}
    /\ disk \in [Root -> Disk]
    /\ phase = [c \in Controller |-> "idle"]
    /\ job = [c \in Controller |-> NoJob]
    /\ calls = 0
    /\ changes = 0

Goto(c, next) == phase' = [phase EXCEPT ![c] = next]

\* activate raises: the lock, if it is held, is removed in a finally; the call
\* ends, and cannot tell what became of the pointer.
Refused(c) ==
    /\ Goto(c, "idle")
    /\ job' = [job EXCEPT ![c].result = "failed", ![c].recovery = "not confirmed"]
    /\ lock' = IF lock = c /\ phase[c] \in Holding THEN None ELSE lock
    /\ UNCHANGED <<pointer, receipts>>

\* A step of the verification, which raises unless "condition".
Check(c, condition, next) ==
    IF condition
    THEN Goto(c, next) /\ UNCHANGED <<state, job>>
    ELSE Refused(c)

Move(c, value) ==
    /\ pointer' = value
    /\ job' = [d \in Controller |->
                  IF d = c THEN job[d] ELSE [job[d] EXCEPT !.alone = FALSE]]

-----------------------------------------------------------------------------
(* Owners, installers, and the person who clears a dead controller's lock. *)

Change(r, value) ==
    /\ changes < MaxChanges
    /\ value # disk[r]
    /\ disk' = [disk EXCEPT ![r] = value]
    /\ job' = [c \in Controller |->
                  IF job[c].root = r THEN [job[c] EXCEPT !.steady = FALSE] ELSE job[c]]
    /\ changes' = changes + 1
    /\ UNCHANGED <<state, phase, calls>>

Accept(r, d) == Change(r, [disk[r] EXCEPT !.acceptance = d, !.evidence = d.evidence])

ChangeEvidence(r, e) == Change(r, [disk[r] EXCEPT !.evidence = e])

\* bootstrap builds the environment and then writes the receipt.
InstallPackages(r, s) == Change(r, [disk[r] EXCEPT !.packages = s])

InstallReceipt(r) == Change(r, [disk[r] EXCEPT !.receipt = disk[r].packages])

Crash(c) ==
    /\ phase[c] \notin {"idle", "crashed"}
    /\ Goto(c, "crashed")
    /\ job' = [job EXCEPT ![c].result = "unknown"]
    /\ UNCHANGED <<state, disk, calls, changes>>

\* The phases of the exception handler, which has noted the failure.
Undoing == {"undoing", "restoring", "restored"}

\* KeyboardInterrupt: no "except" of execute sees it, only the finally clauses
\* run.  The receipt says what it said, with no word on the pointer: "running",
\* and "failed" in the handler, where an exception of any step in the try body
\* has led when the interrupt follows at once.
Interrupt(c) ==
    /\ phase[c] \notin {"idle", "crashed"}
    /\ Goto(c, "idle")
    /\ \E result \in {"unknown", "failed"} :
           /\ phase[c] \in Undoing => result = "failed"
           /\ phase[c] = "planned" => result = "unknown"
           /\ job' = [job EXCEPT ![c].result = result, ![c].interrupted = TRUE]
    /\ lock' = IF lock = c /\ phase[c] \in Holding THEN None ELSE lock
    /\ UNCHANGED <<pointer, receipts, disk, calls, changes>>

ClearLock ==
    /\ lock # None
    /\ phase[lock] = "crashed"
    /\ lock' = None
    /\ UNCHANGED <<pointer, receipts, disk, phase, job, calls, changes>>

-----------------------------------------------------------------------------
(* execute.                                                                *)

NewJob(r) == [NoJob EXCEPT !.root = r, !.expected = pointer, !.number = calls + 1]

\* The plan is previewed again at the beginning, with the pointer in it.  Its
\* own verification only decides whether the call goes on.
Plan(c, r) ==
    /\ phase[c] = "idle" \/ (phase[c] = "crashed" /\ lock # c)
    /\ calls < MaxCalls
    /\ job' = [job EXCEPT ![c] = NewJob(r)]
    /\ calls' = calls + 1
    /\ Goto(c, "planned")
    /\ UNCHANGED <<state, disk, changes>>

ReadBefore(c) ==
    /\ phase[c] = "planned"
    /\ job' = [job EXCEPT ![c].before = pointer]
    /\ Goto(c, "started")
    /\ UNCHANGED <<state, disk, calls, changes>>

\* The service cannot be stopped or started: the pointer has not been touched.
StartFails(c) ==
    /\ phase[c] = "started"
    /\ job' = [job EXCEPT ![c].result = "failed"]
    /\ Goto(c, "idle")
    /\ UNCHANGED <<state, disk, calls, changes>>

Acquire(c) ==
    /\ phase[c] = "started"
    /\ IF lock = None
       THEN lock' = c /\ Goto(c, "locked") /\ UNCHANGED <<pointer, receipts, job>>
       ELSE Refused(c)
    /\ UNCHANGED <<disk, calls, changes>>

\* The contract in force is followed by the same or by an accepted one.
Follows(previous, document) ==
    \/ previous = None
    \/ previous.contract = document.contract
    \/ <<previous.contract, document.contract>> \in document.transitions

\* Mutated form: the contract is judged against the pointer of the preview.
ReadAcceptanceAsPlanned(c) ==
    /\ phase[c] = "locked"
    /\ LET document == disk[job[c].root].acceptance IN
       IF document.passed /\ Follows(job[c].expected, document)
       THEN /\ job' = [job EXCEPT ![c].document = document, ![c].steady = TRUE]
            /\ Goto(c, "judged")
            /\ UNCHANGED state
       ELSE Refused(c)
    /\ UNCHANGED <<disk, calls, changes>>

\* The pointer is compared as a whole; then the acceptance is read and judged.
ReadAcceptance(c) ==
    /\ phase[c] = "locked"
    /\ LET document == disk[job[c].root].acceptance IN
       IF pointer = job[c].expected /\ document.passed /\ Follows(pointer, document)
       THEN /\ job' = [job EXCEPT ![c].document = document, ![c].steady = TRUE]
            /\ Goto(c, "judged")
            /\ UNCHANGED state
       ELSE Refused(c)
    /\ UNCHANGED <<disk, calls, changes>>

CheckFiles(c) ==
    /\ phase[c] = "judged"
    /\ Check(c, disk[job[c].root].receipt = job[c].document.stack, "listed")
    /\ UNCHANGED <<disk, calls, changes>>

CheckEvidence(c) ==
    /\ phase[c] = "listed"
    /\ Check(c, disk[job[c].root].evidence = job[c].document.evidence, "evidenced")
    /\ UNCHANGED <<disk, calls, changes>>

\* bootstrap --verify-installed prints what is installed; it may fail.
VerifyInstalled(c) ==
    /\ phase[c] = "evidenced"
    /\ \/ /\ job' = [job EXCEPT ![c].actual = disk[job[c].root].packages]
          /\ Goto(c, "native")
          /\ UNCHANGED state
       \/ Refused(c)
    /\ UNCHANGED <<disk, calls, changes>>

\* Mutated form: the output of bootstrap is not compared with the receipt.
CompareSavedNever(c) ==
    /\ phase[c] = "native"
    /\ Check(c, TRUE, "saved")
    /\ UNCHANGED <<disk, calls, changes>>

CompareSaved(c) ==
    /\ phase[c] = "native"
    /\ Check(c, disk[job[c].root].receipt = job[c].actual, "saved")
    /\ UNCHANGED <<disk, calls, changes>>

HashReceipt(c) ==
    /\ phase[c] = "saved"
    /\ job' = [job EXCEPT ![c].receipt = disk[job[c].root].receipt]
    /\ Goto(c, "hashed")
    /\ UNCHANGED <<state, disk, calls, changes>>

\* Mutated form: the pointer does not say which contract is in force.
NewBare(c) == [root |-> job[c].root, receipt |-> job[c].receipt, acceptance |-> job[c].acceptance,
               number |-> job[c].number]

\* The pointer that the call is about to write.
New(c) == [root |-> job[c].root, receipt |-> job[c].receipt, acceptance |-> job[c].acceptance,
           contract |-> job[c].document.contract, number |-> job[c].number]

HashAcceptance(c) ==
    /\ phase[c] = "hashed"
    /\ job' = [job EXCEPT ![c].acceptance = disk[job[c].root].acceptance]
    /\ Goto(c, "verified")
    /\ UNCHANGED <<state, disk, calls, changes>>

\* Both files are renamed into place.
WriteReceipt(c) ==
    /\ phase[c] = "verified"
    /\ receipts' = receipts \cup {New(c)}
    /\ Goto(c, "receipted")
    /\ UNCHANGED <<lock, pointer, disk, job, calls, changes>>

Publish(c) ==
    /\ phase[c] = "receipted"
    /\ Move(c, New(c))
    /\ Goto(c, "published")
    /\ UNCHANGED <<lock, receipts, disk, calls, changes>>

\* A file cannot be read or written.
AccessFails(c) ==
    /\ phase[c] \in Holding \ {"published", "restoring", "restored"}
    /\ Refused(c)
    /\ UNCHANGED <<disk, calls, changes>>

Release(c) ==
    /\ phase[c] = "published"
    /\ lock' = None
    /\ Goto(c, "committed")
    /\ UNCHANGED <<pointer, receipts, disk, job, calls, changes>>

\* The pointer is read back without the lock, or cannot be read.
ReadCommitted(c) ==
    /\ phase[c] = "committed"
    /\ \/ /\ job' = [job EXCEPT ![c].committed = pointer]
          /\ Goto(c, "selecting")
          /\ UNCHANGED state
       \/ Refused(c)
    /\ UNCHANGED <<disk, calls, changes>>

Select(c) ==
    /\ phase[c] = "selecting"
    /\ job' = [job EXCEPT ![c].result = "succeeded"]
    /\ Goto(c, "idle")
    /\ UNCHANGED <<state, disk, calls, changes>>

\* Mutated form: the failure is reported, and the pointer stays.
SelectFailsSilently(c) ==
    /\ phase[c] = "selecting"
    /\ job' = [job EXCEPT ![c].result = "failed"]
    /\ Goto(c, "idle")
    /\ UNCHANGED <<state, disk, calls, changes>>

\* runtime.json cannot be written.  A pointer that was gone when it was read back
\* counts as a commit that cannot be confirmed.
SelectFails(c) ==
    /\ phase[c] = "selecting"
    /\ job' = [job EXCEPT ![c].result = "failed",
                         ![c].recovery = IF job[c].committed = None THEN "not confirmed" ELSE "none"]
    /\ Goto(c, IF job[c].committed = None THEN "idle" ELSE "undoing")
    /\ UNCHANGED <<state, disk, calls, changes>>

RestorationFails(c) ==
    /\ job' = [job EXCEPT ![c].recovery = "failed"]
    /\ lock' = IF phase[c] = "undoing" THEN lock ELSE None
    /\ Goto(c, "idle")
    /\ UNCHANGED <<pointer, receipts>>

AcquireAgain(c) ==
    /\ phase[c] = "undoing"
    /\ IF lock = None
       THEN lock' = c /\ Goto(c, "restoring") /\ UNCHANGED <<pointer, receipts, job>>
       ELSE RestorationFails(c)
    /\ UNCHANGED <<disk, calls, changes>>

\* "Pointer changed concurrently; automatic restoration refused."
Restore(c) ==
    /\ phase[c] = "restoring"
    /\ \/ /\ pointer = job[c].committed
          /\ Move(c, job[c].before)
          /\ Goto(c, "restored")
          /\ UNCHANGED <<lock, receipts>>
       \/ RestorationFails(c)
    /\ UNCHANGED <<disk, calls, changes>>

ReleaseAgain(c) ==
    /\ phase[c] = "restored"
    /\ lock' = None
    /\ job' = [job EXCEPT ![c].recovery = "restored"]
    /\ Goto(c, "idle")
    /\ UNCHANGED <<pointer, receipts, disk, calls, changes>>

Execute(c) ==
    \/ \E r \in Root : Plan(c, r)
    \/ ReadBefore(c) \/ StartFails(c) \/ Acquire(c)
    \/ ReadAcceptance(c) \/ CheckFiles(c) \/ CheckEvidence(c)
    \/ VerifyInstalled(c) \/ CompareSaved(c) \/ HashReceipt(c) \/ HashAcceptance(c)
    \/ WriteReceipt(c) \/ Publish(c) \/ AccessFails(c) \/ Release(c)
    \/ ReadCommitted(c) \/ Select(c) \/ SelectFails(c)
    \/ AcquireAgain(c) \/ Restore(c) \/ ReleaseAgain(c)

Others ==
    \/ \E r \in Root :
           \/ \E d \in Document : Accept(r, d)
           \/ \E e \in Evidence : ChangeEvidence(r, e)
           \/ \E s \in Stack : InstallPackages(r, s)
           \/ InstallReceipt(r)
    \/ \E c \in Controller : Crash(c) \/ Interrupt(c)
    \/ ClearLock

Next == Others \/ \E c \in Controller : Execute(c)

Spec == Init /\ [][Next]_vars
-----------------------------------------------------------------------------
\* Type invariant of the ETF release state and its controllers.
TypeOK ==
    /\ lock \in Controller \cup {None}
    /\ pointer \in Pointer \cup {None}
    /\ receipts \subseteq Pointer
    /\ disk \in [Root -> Disk]
    /\ phase \in [Controller -> Phase]
    /\ job \in [Controller -> Job]
    /\ calls \in 0..MaxCalls
    /\ changes \in 0..MaxChanges

Publishes(c) == phase[c] = "receipted" /\ phase'[c] = "published"

\* "ETF release pointer changed since preview" and "state transition was not
\* accepted": what a controller replaces, at the moment at which it does, is the
\* pointer that was reviewed, and the acceptance that it has judged lets the new
\* contract follow the one in force; restorations by other controllers, deaths
\* and cleared locks notwithstanding.
ReplacesReviewed ==
    [][\A c \in Controller :
          Publishes(c) => pointer = job[c].expected /\ Follows(pointer, job[c].document)]_vars

\* A pointer is published after its receipt.  It names one acceptance, that of its
\* contract, and the installation that this acceptance is about and that is there,
\* whole and verified, unless somebody changed the root during the verification.
PublishedTruthful ==
    [][\A c \in Controller :
          Publishes(c) =>
              /\ pointer' \in receipts
              /\ job[c].steady =>
                    LET here == disk[pointer'.root] IN
                    /\ pointer'.acceptance = here.acceptance
                    /\ here.acceptance.passed
                    /\ pointer'.contract = here.acceptance.contract
                    /\ here.evidence = here.acceptance.evidence
                    /\ {pointer'.receipt, here.receipt, here.packages} = {here.acceptance.stack}]_vars

\* "The controller restores the original pointer": a call that says that it
\* restored it, or that failed and has no word of warning about the pointer, has
\* left the pointer that was reviewed, as long as no other controller moved it and
\* no interrupt cut the call short before it could warn.
FailureUndone ==
    \A c \in Controller :
        /\ phase[c] = "idle" /\ job[c].result = "failed"
        /\ job[c].recovery = "restored" \/ (job[c].recovery = "none" /\ ~job[c].interrupted)
        /\ job[c].alone
        => pointer = job[c].expected
=============================================================================
