---------------------------- MODULE LocalControl ----------------------------
(***************************************************************************)
(* The transaction of quant_workspace.local_control.execute: under the     *)
(* controller's own lock and the maintenance gate, stop the Studio         *)
(* service, start it in the target runtime, publish the release pointer,   *)
(* record the runtime; and, when a step fails, put the pointer and the     *)
(* previous runtime back.                                                  *)
(*                                                                         *)
(* Around it: the service processes, which bind the port, notice the stop  *)
(* file and die as they like; a foreign process that may take the port;    *)
(* jobs; and other operators, who switch the release pointer with the      *)
(* release command and hold neither of the controller's locks.             *)
(*                                                                         *)
(* The gate enters through WorkGate, which MaintenanceGate implements.     *)
(* activate_candidate and the restoration of the pointer are one step      *)
(* each: both run under the lock of the release state, and ReleaseState    *)
(* shows that a call takes effect at one moment.  A lock that another      *)
(* operation holds is one of the reasons for which they may fail.          *)
(***************************************************************************)
EXTENDS Naturals, FiniteSets

CONSTANTS
    Runtime,        \* the configured runtimes
    InitialRuntime, \* initial_runtime
    Accepted,       \* runtimes with an accepted candidate; the others are baselines
    Candidate,      \* release candidates
    CandidateOf,    \* the candidate of each accepted runtime
    Proc,           \* service processes, numbered in the order of their creation; a
                    \* number stands for PID and creation token
    Job,            \* Studio jobs
    Operation,      \* the name under which an operation holds the gate
    Foreign,        \* a process that is nobody's service
    None,           \* absence
    MaxOperations,  \* bound on calls of execute
    MaxPublished    \* bound on pointers ever published

ASSUME ControlAssumption ==
    /\ InitialRuntime \in Runtime
    /\ Accepted \subseteq Runtime
    /\ CandidateOf \in [Accepted -> Candidate]
    /\ Proc \subseteq Nat
    /\ None \notin Proc \cup Candidate \cup {Operation}
    /\ Foreign \notin Proc \cup {None}
    /\ MaxOperations \in Nat /\ MaxPublished \in Nat

VARIABLES
    procs,          \* runtime and condition of each service process
    port,           \* who listens: None, a process or Foreign
    stopFile,       \* whether the stop file exists
    record,         \* process.json
    selected,       \* runtime.json, or the initial runtime
    pointer,        \* current.json; "number" tells publications of one candidate apart
    receipt,        \* last-operation.json
    plan,           \* the preview an operator has reviewed
    phase,          \* where execute is
    op,             \* local variables of execute
    maintainer,     \* the gate, as WorkGate sees it
    active,         \* active jobs, as WorkGate sees them
    operations,     \* calls of execute so far
    publications    \* pointers published so far

service == <<procs, port, stopFile>>
books == <<record, selected, receipt>>
gate == <<maintainer, active>>
counts == <<operations, publications>>
vars == <<service, books, pointer, plan, phase, op, gate, counts>>

Work == INSTANCE WorkGate WITH Controller <- {Operation}

NoRecord == [proc |-> None, verified |-> FALSE]
NoPointer == [candidate |-> None, number |-> 0]
NoReceipt == [status |-> "none", recovery |-> "none", pointerRecovery |-> "none"]
NoPlan == [action |-> "none", target |-> None, previous |-> None, expected |-> None,
           process |-> NoRecord]

\* "committed" is the pointer that the operation read back.  "interrupted" and
\* "own" are history: that a KeyboardInterrupt ended it, and the pointer it
\* published.
NoOp == [stage |-> "forward", status |-> "running", wasRunning |-> FALSE, child |-> None,
         stopped |-> FALSE, started |-> FALSE,
         before |-> NoPointer, attempted |-> FALSE, committed |-> NoPointer,
         recovery |-> "none", pointerRecovery |-> "none",
         interrupted |-> FALSE, own |-> NoPointer]

Init ==
    /\ procs = [p \in Proc |-> [runtime |-> InitialRuntime, is |-> "unborn"]]
    /\ port = None
    /\ stopFile = FALSE
    /\ record = NoRecord
    /\ selected = InitialRuntime
    /\ pointer = NoPointer
    /\ receipt = NoReceipt
    /\ plan = NoPlan
    /\ phase = "idle"
    /\ op = NoOp
    /\ Work!Init
    /\ operations = 0
    /\ publications = 0

Alive(p) == p \in Proc /\ procs[p].is \in {"starting", "serving"}

-----------------------------------------------------------------------------
(* The service, its port and its jobs.                                     *)

Bind(p) ==
    /\ procs[p].is = "starting" /\ port = None
    /\ procs' = [procs EXCEPT ![p].is = "serving"]
    /\ port' = p
    /\ UNCHANGED <<stopFile, books, pointer, plan, phase, op, gate, counts>>

\* A serving process notices the stop file.
StopOnRequest(p) ==
    /\ procs[p].is = "serving" /\ stopFile
    /\ procs' = [procs EXCEPT ![p].is = "stopped"]
    /\ port' = None
    /\ UNCHANGED <<stopFile, books, pointer, plan, phase, op, gate, counts>>

Die(p) ==
    /\ Alive(p)
    /\ procs' = [procs EXCEPT ![p].is = "dead"]
    /\ port' = IF port = p THEN None ELSE port
    /\ UNCHANGED <<stopFile, books, pointer, plan, phase, op, gate, counts>>

ForeignListener ==
    /\ port \in {None, Foreign}
    /\ port' = IF port = None THEN Foreign ELSE None
    /\ UNCHANGED <<procs, stopFile, books, pointer, plan, phase, op, gate, counts>>

Jobs(j) ==
    /\ \/ port \in Proc /\ j \notin active /\ Work!Admit(j)
       \/ j \in active /\ Work!Finish(j)
    /\ UNCHANGED <<service, books, pointer, plan, phase, op, counts>>

\* Another operator activates a candidate with the release command.
ReleaseCommand(c) ==
    /\ publications < MaxPublished
    /\ publications' = publications + 1
    /\ pointer' = [candidate |-> c, number |-> publications + 1]
    /\ UNCHANGED <<service, books, plan, phase, op, gate, operations>>

-----------------------------------------------------------------------------
(* preview, and the entry into execute.                                    *)

\* What preview puts into a plan.  Of the pointer it keeps the candidate only.
Preview(a, t) ==
    [action |-> a, target |-> t, previous |-> selected, expected |-> pointer.candidate,
     process |-> record]

\* start, stop and restart are for the selected runtime; a switch is for an
\* accepted one; nothing is previewed while work is active.
Previewable(a, t) ==
    /\ active = {}
    /\ a \in {"start", "stop", "restart"} => t = selected
    /\ a = "activate" => t \in Accepted

Review(a, t) ==
    /\ phase = "idle" /\ operations < MaxOperations
    /\ Previewable(a, t)
    /\ plan' = Preview(a, t)
    /\ UNCHANGED <<service, books, pointer, phase, op, gate, counts>>

\* _state_lock of the controller and maintenance_gate.
Enter ==
    /\ phase = "idle" /\ plan # NoPlan /\ operations < MaxOperations
    /\ Work!Begin(Operation)
    /\ operations' = operations + 1
    /\ phase' = "entered"
    /\ UNCHANGED <<service, books, pointer, plan, op, publications>>

\* Mutated form: the plan is executed without comparing it with a new preview.
BeginUnchecked ==
    /\ phase = "entered"
    /\ op' = [NoOp EXCEPT !.wasRunning = Alive(record.proc)]
    /\ receipt' = [NoReceipt EXCEPT !.status = "running"]
    /\ phase' = "begun"
    /\ UNCHANGED <<service, record, selected, pointer, plan, gate, counts>>

\* The preview is computed again and is the reviewed one; the first receipt.
Begin ==
    /\ phase = "entered"
    /\ Previewable(plan.action, plan.target)
    /\ plan = Preview(plan.action, plan.target)
    /\ ~(plan.action = "start" /\ Alive(record.proc))
    /\ op' = [NoOp EXCEPT !.wasRunning = Alive(record.proc)]
    /\ receipt' = [NoReceipt EXCEPT !.status = "running"]
    /\ phase' = "begun"
    /\ UNCHANGED <<service, record, selected, pointer, plan, gate, counts>>

\* The preview is stale, the runtime already runs, the target or the old
\* runtime does not verify, the receipt cannot be written or the pointer not be
\* read: the exception is raised before the try.
Decline ==
    /\ phase \in {"entered", "begun"}
    /\ phase' = "leaving"
    /\ UNCHANGED <<service, books, pointer, plan, op, gate, counts>>

\* pointer_before is read without the release lock.
ReadBefore ==
    /\ phase = "begun"
    /\ op' = [op EXCEPT !.before = pointer]
    /\ phase' = IF plan.action = "start" THEN "starting" ELSE "stopping"
    /\ UNCHANGED <<service, books, pointer, plan, gate, counts>>

-----------------------------------------------------------------------------
(* What an exception means, by stage: the try body, the cleanup of a        *)
(* started target, the restart of the previous runtime.                     *)
Raised ==
    \/ /\ op.stage = "forward"
       /\ op' = [op EXCEPT !.status = "failed"]
       /\ phase' = "failing"
    \/ /\ op.stage = "cleanup"
       /\ op' = op
       /\ phase' = "recovering"
    \/ /\ op.stage = "recovery"
       /\ op' = [op EXCEPT !.recovery = "failed"]
       /\ phase' = "finishing"

Stopped ==
    \/ /\ op.stage = "forward"
       /\ op' = [op EXCEPT !.stopped = TRUE,
                           !.status = IF plan.action = "stop" THEN "succeeded" ELSE @]
       /\ phase' = IF plan.action = "stop" THEN "finishing" ELSE "starting"
    \/ /\ op.stage = "cleanup"
       /\ op' = op
       /\ phase' = "recovering"
    \/ /\ op.stage = "recovery"
       /\ op' = op
       /\ phase' = "starting"

-----------------------------------------------------------------------------
(* _stop.                                                                  *)

\* The recorded process runs: write the stop file and wait.
AskToStop ==
    /\ phase = "stopping"
    /\ Alive(record.proc)
    /\ stopFile' = TRUE
    /\ phase' = "awaiting"
    /\ UNCHANGED <<procs, port, books, pointer, plan, op, gate, counts>>

\* No recorded process runs and nobody listens: nothing to stop.
NothingToStop ==
    /\ phase = "stopping"
    /\ ~Alive(record.proc) /\ port = None
    /\ Stopped
    /\ UNCHANGED <<service, books, pointer, plan, gate, counts>>

\* An unmanaged listener, a port taken by another process, a PID that now
\* belongs to another process, or an OSError: nothing was stopped.
StopRefused ==
    /\ phase = "stopping"
    /\ Raised
    /\ UNCHANGED <<service, books, pointer, plan, gate, counts>>

SeenStopped ==
    /\ phase = "awaiting"
    /\ ~Alive(record.proc) /\ port = None
    /\ Stopped
    /\ UNCHANGED <<service, books, pointer, plan, gate, counts>>

\* Mutated form: a deadline that passes counts as a stop.
StopOverdue ==
    /\ phase = "awaiting"
    /\ Alive(record.proc) \/ port # None
    /\ Stopped
    /\ UNCHANGED <<service, books, pointer, plan, gate, counts>>

\* The deadline passes, or another process took the port at once.  The stop
\* file stays where it is.
StopFails ==
    /\ phase = "awaiting"
    /\ Alive(record.proc) \/ port # None
    /\ Raised
    /\ UNCHANGED <<service, books, pointer, plan, gate, counts>>

-----------------------------------------------------------------------------
(* _start.                                                                 *)
\* Mutated form: the recovery launches the target again.
LaunchingTarget == plan.target

Launching == IF op.stage = "forward" THEN plan.target ELSE plan.previous

\* The port is free; the stop file of an earlier request is removed; Popen.
Launch(p) ==
    /\ phase = "starting"
    /\ port = None
    /\ \A q \in Proc : procs[q].is = "unborn" <=> q >= p
    /\ procs' = [procs EXCEPT ![p] = [runtime |-> Launching, is |-> "starting"]]
    /\ stopFile' = FALSE
    /\ op' = [op EXCEPT !.child = p]
    /\ phase' = "launched"
    /\ UNCHANGED <<port, books, pointer, plan, gate, counts>>

\* The port is occupied, or a file or the process cannot be created.
LaunchFails ==
    /\ phase = "starting"
    /\ stopFile' \in {stopFile, FALSE}
    /\ Raised
    /\ UNCHANGED <<procs, port, books, pointer, plan, gate, counts>>

RecordLaunch ==
    /\ phase = "launched"
    /\ record' = [proc |-> op.child, verified |-> FALSE]
    /\ phase' = "watching"
    /\ UNCHANGED <<service, selected, receipt, pointer, plan, op, gate, counts>>

\* process.json cannot be replaced.  This is before the try of _start, so the
\* child is not killed.
RecordLaunchFails ==
    /\ phase = "launched"
    /\ Raised
    /\ UNCHANGED <<service, books, pointer, plan, gate, counts>>

Started ==
    \/ /\ op.stage = "forward"
       /\ op' = [op EXCEPT !.started = TRUE]
       /\ phase' = "protecting"
    \/ /\ op.stage = "recovery"
       /\ op' = [op EXCEPT !.recovery = "restored"]
       /\ phase' = "finishing"

\* The child listens, answers, and is what was checked.
VerifyLaunch ==
    /\ phase = "watching"
    /\ port = op.child
    /\ record' = [record EXCEPT !.verified = TRUE]
    /\ Started
    /\ UNCHANGED <<service, selected, receipt, pointer, plan, gate, counts>>

\* Removing the child by taskkill, which may not succeed.
KillChild ==
    \/ /\ procs' = [procs EXCEPT ![op.child].is = IF Alive(op.child) THEN "dead" ELSE @]
       /\ port' = IF port = op.child THEN None ELSE port
    \/ UNCHANGED <<procs, port>>

\* It exited, is not what was checked, or the deadline passed.
LaunchRejected ==
    /\ phase = "watching"
    /\ KillChild
    /\ Raised
    /\ UNCHANGED <<stopFile, books, pointer, plan, gate, counts>>

-----------------------------------------------------------------------------
(* The rest of the try body.                                               *)

\* The protected settings and bindings are those of the plan.
ProtectedUnchanged ==
    /\ phase = "protecting"
    /\ phase' = IF plan.action = "activate" THEN "committing" ELSE "selecting"
    /\ UNCHANGED <<service, books, pointer, plan, op, gate, counts>>

ProtectedChanged ==
    /\ phase = "protecting"
    /\ Raised
    /\ UNCHANGED <<service, books, pointer, plan, gate, counts>>

\* activate_candidate took effect, and its caller is told so or gets an error
\* from the release of the lock.
Commit ==
    /\ phase = "committing"
    /\ pointer.candidate = plan.expected
    /\ publications < MaxPublished
    /\ publications' = publications + 1
    /\ pointer' = [candidate |-> CandidateOf[plan.target], number |-> publications + 1]
    /\ \E told \in BOOLEAN :
           /\ op' = [op EXCEPT !.attempted = TRUE, !.own = pointer',
                               !.status = IF told THEN @ ELSE "failed"]
           /\ phase' = IF told THEN "committed" ELSE "failing"
    /\ UNCHANGED <<service, books, plan, gate, operations>>

\* A CAS mismatch, a release state locked by another operation, an acceptance
\* that no longer verifies, a failed write.
CommitFails ==
    /\ phase = "committing"
    /\ op' = [op EXCEPT !.attempted = TRUE, !.status = "failed"]
    /\ phase' = "failing"
    /\ UNCHANGED <<service, books, pointer, plan, gate, counts>>

\* pointer_committed is read when the release lock is already given up.
ReadCommitted ==
    /\ phase = "committed"
    /\ op' = [op EXCEPT !.committed = pointer]
    /\ phase' = "selecting"
    /\ UNCHANGED <<service, books, pointer, plan, gate, counts>>

ReadCommittedFails ==
    /\ phase = "committed"
    /\ Raised
    /\ UNCHANGED <<service, books, pointer, plan, gate, counts>>

Select ==
    /\ phase = "selecting"
    /\ selected' = plan.target
    /\ op' = [op EXCEPT !.status = "succeeded"]
    /\ phase' = "finishing"
    /\ UNCHANGED <<service, record, receipt, pointer, plan, gate, counts>>

SelectFails ==
    /\ phase = "selecting"
    /\ Raised
    /\ UNCHANGED <<service, books, pointer, plan, gate, counts>>

-----------------------------------------------------------------------------
(* The exception handler.                                                  *)
\* No pointer was read back; whether one was published may be unknown.
NothingCommitted ==
    /\ phase = "failing"
    /\ op.committed = NoPointer
    /\ op' = [op EXCEPT !.pointerRecovery = IF op.attempted THEN "unconfirmed" ELSE @]
    /\ phase' = "cleaning"
    /\ UNCHANGED <<service, books, pointer, plan, gate, counts>>

\* Mutated form: there being no earlier pointer, its absence is written down.
RestoreNull ==
    /\ phase = "failing"
    /\ op.committed # NoPointer
    /\ pointer = op.committed
    /\ pointer' = IF op.before = NoPointer THEN None ELSE op.before
    /\ op' = [op EXCEPT !.pointerRecovery = "restored"]
    /\ phase' = "cleaning"
    /\ UNCHANGED <<service, books, plan, gate, counts>>

\* Under the release lock: the pointer is still the one read back, so the one
\* read at the beginning replaces it.
RestorePointer ==
    /\ phase = "failing"
    /\ op.committed # NoPointer
    /\ pointer = op.committed
    /\ pointer' = op.before
    /\ op' = [op EXCEPT !.pointerRecovery = "restored"]
    /\ phase' = "cleaning"
    /\ UNCHANGED <<service, books, plan, gate, counts>>

\* It changed, the release state is locked, or a file operation fails: also the
\* removal of the lock, when the pointer is already back.
RestoreFails ==
    /\ phase = "failing"
    /\ op.committed # NoPointer
    /\ pointer' \in {pointer} \cup {k \in {op.before} : pointer = op.committed}
    /\ op' = [op EXCEPT !.pointerRecovery = "failed"]
    /\ phase' = "cleaning"
    /\ UNCHANGED <<service, books, plan, gate, counts>>

\* A target that was started is stopped.
CleanUpTarget ==
    /\ phase = "cleaning"
    /\ op' = [op EXCEPT !.stage = "cleanup"]
    /\ phase' = IF op.started THEN "stopping" ELSE "recovering"
    /\ UNCHANGED <<service, books, pointer, plan, gate, counts>>

\* The previous runtime is restarted if this operation stopped it, and stopped
\* once more before, unless the protected bindings drifted.
Recover ==
    /\ phase = "recovering"
    /\ \/ /\ op.stopped /\ op.wasRunning
          /\ op' = [op EXCEPT !.stage = "recovery"]
          /\ phase' = "stopping"
       \/ /\ op.stopped /\ op.wasRunning
          /\ op' = [op EXCEPT !.recovery = "failed"]
          /\ phase' = "finishing"
       \/ /\ ~(op.stopped /\ op.wasRunning)
          /\ op' = op
          /\ phase' = "finishing"
    /\ UNCHANGED <<service, books, pointer, plan, gate, counts>>

-----------------------------------------------------------------------------
(* The finally, the end of the gate, and abrupt ends.                      *)

\* last-operation.json gets the final receipt, or keeps the first one when it
\* cannot be replaced.
Finish ==
    /\ phase = "finishing"
    /\ receipt' \in {receipt, [status |-> op.status, recovery |-> op.recovery,
                               pointerRecovery |-> op.pointerRecovery]}
    /\ phase' = "leaving"
    /\ UNCHANGED <<service, record, selected, pointer, plan, op, gate, counts>>

\* Mutated form: lock and marker are given back after a success only.
LeaveAfterSuccess ==
    /\ phase = "leaving" /\ op.status = "succeeded"
    /\ Work!End
    /\ phase' = "idle"
    /\ op' = NoOp
    /\ plan' = NoPlan
    /\ UNCHANGED <<service, books, pointer, counts>>

\* The end of the gate and of the controller's lock, whatever happened.
Leave ==
    /\ phase = "leaving"
    /\ Work!End
    /\ phase' = "idle"
    /\ op' = NoOp
    /\ plan' = NoPlan
    /\ UNCHANGED <<service, books, pointer, counts>>

Body == {"stopping", "awaiting", "starting", "launched", "watching", "protecting",
         "committing", "committed", "selecting"}

Handler == {"failing", "cleaning", "recovering"}

\* KeyboardInterrupt is seen by no "except" of execute, neither the one after
\* the try body nor those within the handler.  The finally runs with the receipt
\* as it is: "running" in the try body, "failed" from the handler on.
Interrupted ==
    /\ op' = [op EXCEPT !.interrupted = TRUE]
    /\ phase' = "finishing"

\* In the try body or in the handler; _start kills its child.
Interrupt ==
    /\ phase \in Body \cup Handler
    /\ Interrupted
    /\ IF phase = "watching" THEN KillChild ELSE UNCHANGED <<procs, port>>
    /\ UNCHANGED <<stopFile, books, pointer, plan, gate, counts>>

\* The interrupt falls between the effect of a step and the note of it: the stop
\* file is removed, process.json names a verified process, runtime.json the
\* target, or the earlier pointer is back.
InterruptLate ==
    /\ Interrupted
    /\ \/ /\ phase = "starting" /\ port = None
          /\ stopFile' = FALSE
          /\ UNCHANGED <<procs, port, books, pointer>>
       \/ /\ phase = "watching" /\ port = op.child
          /\ record' = [record EXCEPT !.verified = TRUE]
          /\ KillChild
          /\ UNCHANGED <<stopFile, selected, receipt, pointer>>
       \/ /\ phase = "selecting"
          /\ selected' = plan.target
          /\ UNCHANGED <<service, record, receipt, pointer>>
       \/ /\ phase = "failing" /\ op.committed # NoPointer /\ pointer = op.committed
          /\ pointer' = op.before
          /\ UNCHANGED <<service, books>>
    /\ UNCHANGED <<plan, gate, counts>>

\* The controller dies.  Its lock, the marker and the first receipt stay.
Crash ==
    /\ phase \notin {"idle", "crashed"}
    /\ phase' = "crashed"
    /\ UNCHANGED <<service, books, pointer, plan, op, gate, counts>>

\* A person has inspected receipts, processes and accounts, and removes lock
\* and marker.  No code does this.
Inspect ==
    /\ phase = "crashed"
    /\ Work!End
    /\ phase' = "idle"
    /\ op' = NoOp
    /\ plan' = NoPlan
    /\ UNCHANGED <<service, books, pointer, counts>>

-----------------------------------------------------------------------------
Execute ==
    \/ Begin \/ Decline \/ ReadBefore
    \/ AskToStop \/ NothingToStop \/ StopRefused \/ SeenStopped \/ StopFails
    \/ \E p \in Proc : Launch(p)
    \/ LaunchFails \/ RecordLaunch \/ RecordLaunchFails \/ VerifyLaunch \/ LaunchRejected
    \/ ProtectedUnchanged \/ ProtectedChanged
    \/ Commit \/ CommitFails \/ ReadCommitted \/ ReadCommittedFails \/ Select \/ SelectFails
    \/ NothingCommitted \/ RestorePointer \/ RestoreFails \/ CleanUpTarget \/ Recover
    \/ Finish \/ Leave

Environment ==
    \/ \E p \in Proc : Bind(p) \/ StopOnRequest(p) \/ Die(p)
    \/ ForeignListener
    \/ \E j \in Job : Jobs(j)
    \/ \E c \in Candidate : ReleaseCommand(c)

Next ==
    \/ \E a \in {"start", "stop", "restart", "activate"}, t \in Runtime : Review(a, t)
    \/ Enter
    \/ Execute
    \/ Interrupt \/ InterruptLate
    \/ Crash
    \/ Inspect
    \/ Environment

Spec == Init /\ [][Next]_vars

\* Every wait of execute has a deadline, so a live controller keeps going
\* whatever the service does.  Nothing else is owed.
FairSpec == Spec /\ WF_vars(Execute)

-----------------------------------------------------------------------------
Process == [runtime : Runtime, is : {"unborn", "starting", "serving", "stopped", "dead"}]
Pointer == [candidate : Candidate \cup {None}, number : 0..MaxPublished]
Record == [proc : Proc \cup {None}, verified : BOOLEAN]
Outcome == {"none", "restored", "failed"}
Receipt == [status : {"none", "running", "failed", "succeeded"}, recovery : Outcome,
            pointerRecovery : Outcome \cup {"unconfirmed"}]
Plan == [action : {"none", "start", "stop", "restart", "activate"},
         target : Runtime \cup {None}, previous : Runtime \cup {None},
         expected : Candidate \cup {None}, process : Record]
Phase == Body \cup Handler \cup {"idle", "entered", "begun", "finishing", "leaving", "crashed"}

\* What execute knows.
Local == [stage : {"forward", "cleanup", "recovery"},
          status : {"running", "failed", "succeeded"}, wasRunning : BOOLEAN,
          child : Proc \cup {None}, stopped : BOOLEAN, started : BOOLEAN,
          before : Pointer, attempted : BOOLEAN, committed : Pointer,
          recovery : Outcome, pointerRecovery : Outcome \cup {"unconfirmed"},
          interrupted : BOOLEAN, own : Pointer]

\* Type invariant: every variable holds a value of its kind.
TypeOK ==
    /\ procs \in [Proc -> Process]
    /\ port \in Proc \cup {None, Foreign} /\ stopFile \in BOOLEAN
    /\ record \in Record /\ selected \in Runtime
    /\ pointer \in Pointer /\ receipt \in Receipt
    /\ plan \in Plan
    /\ phase \in Phase /\ op \in Local
    /\ maintainer \in {Operation, None} /\ active \in SUBSET Job
    /\ operations \in 0..MaxOperations /\ publications \in 0..MaxPublished

\* The records explain the service.  A managed, verified service that runs in
\* another runtime than the selected one is never the outcome of an operation
\* that says it succeeded, nor of a recovery that says it restored: the last
\* receipt says "running" or "failed".  Deaths of the controller and of the
\* service, interrupts and unwritable files included.
RunningRuntimeExplained ==
    phase = "idle" /\ record.verified /\ Alive(record.proc)
                   /\ procs[record.proc].runtime # selected
        => \/ receipt.status = "running"
           \/ receipt.status = "failed" /\ receipt.recovery # "restored"

\* An operation that says it succeeded has done all of it: the selected
\* runtime is the target and process.json names the verified process that was
\* started in it; after a stop, no managed process is left.  One that failed and
\* published a pointer says so, unless it was interrupted: of an operation that
\* ended by itself, "failed" without a word on the pointer means that it
\* published none.
OutcomeTruthful ==
    phase = "leaving" =>
        /\ op.status = "succeeded" =>
               IF plan.action = "stop" THEN ~Alive(record.proc)
               ELSE /\ selected = plan.target
                    /\ record.verified
                    /\ procs[record.proc].runtime = plan.target
                    /\ plan.action = "activate" => op.own.candidate = CandidateOf[plan.target]
        /\ op.status = "failed" /\ op.pointerRecovery = "none" /\ ~op.interrupted
               => op.own = NoPointer

\* process.json never forgets a running service: whatever was refused, timed
\* out, failed or died before, the record moves to another process only when
\* the recorded one is gone, so a later stop can still reach it.
NeverForgotten ==
    [][\A p \in Proc :
          Alive(p) /\ record.proc = p => record'.proc = p]_vars

\* A live controller finishes its operation and gives the gate back, whatever
\* the service, the port and the disk do.
OperationEnds ==
    phase = "entered" ~> phase \in {"idle", "crashed"}

-----------------------------------------------------------------------------
\* "Pointer changed concurrently; automatic restoration refused": the pointer
\* that a restoration replaces is the one that the failed operation published.
RestoresOwnCommit ==
    [][op.pointerRecovery = "none" /\ op'.pointerRecovery = "restored"
          => pointer = op.own]_vars
=============================================================================
