-------------------------- MODULE MaintenanceGate --------------------------
(***************************************************************************)
(* The protocol between the local controller, which wants the Studio       *)
(* service to itself, and Studio's job submission, which wants to enqueue  *)
(* work (local_control.maintenance_gate and admission_lock, and the submit *)
(* that studio_host.install_admission_guard installs).                     *)
(*                                                                         *)
(* Two files under runs_root carry it: .local-admission.lock, locked       *)
(* through the operating system, which a dying process gives up; and       *)
(* .local-maintenance.json, the marker, whose existence alone matters and  *)
(* which a dying process leaves behind.                                    *)
(***************************************************************************)
CONSTANTS
    Controller,     \* processes that run local_control.execute
    Submitter,      \* Studio requests that submit a job
    JobFile,        \* job files under runs_root/.jobs
    Nobody          \* absence: no holder, no marker

ASSUME GateAssumption ==
    /\ Nobody \notin Controller
    /\ Nobody \notin Submitter
    /\ Controller \cap Submitter = {}

VARIABLES
    admission,      \* holder of the operating-system lock, or Nobody
    marker,         \* the controller whose marker file exists, or Nobody
    job,            \* status of each job file: unsubmitted, active or ended
    gatePhase,      \* where each controller is in maintenance_gate
    alive,          \* whether each controller's process runs
    submit          \* where each submitter is in submit

gateVars == <<admission, marker, job, gatePhase, alive, submit>>

GateInit ==
    /\ admission = Nobody
    /\ marker = Nobody
    /\ job = [j \in JobFile |-> "unsubmitted"]
    /\ gatePhase = [c \in Controller |-> "outside"]
    /\ alive = [c \in Controller |-> TRUE]
    /\ submit = [s \in Submitter |-> "outside"]

ActiveJobs == {j \in JobFile : job[j] = "active"}

-----------------------------------------------------------------------------
(* maintenance_gate.                                                       *)

\* admission_lock: LK_NBLCK / LOCK_NB raises at once if another holds it.
LockAdmission(c) ==
    /\ alive[c] /\ gatePhase[c] = "outside"
    /\ admission = Nobody
    /\ admission' = c
    /\ gatePhase' = [gatePhase EXCEPT ![c] = "admitted"]
    /\ UNCHANGED <<marker, job, alive, submit>>

\* Mutated form: an existing marker is overwritten, open("w") for open("x").
OverwriteMarker(c) ==
    /\ alive[c] /\ gatePhase[c] = "admitted"
    /\ marker' = c
    /\ gatePhase' = [gatePhase EXCEPT ![c] = "marked"]
    /\ UNCHANGED <<admission, job, alive, submit>>

\* open("x"): an existing marker raises, and the admission lock is given up.
CreateMarker(c) ==
    /\ alive[c] /\ gatePhase[c] = "admitted"
    /\ \/ /\ marker = Nobody
          /\ marker' = c
          /\ gatePhase' = [gatePhase EXCEPT ![c] = "marked"]
          /\ UNCHANGED admission
       \/ /\ marker # Nobody
          /\ gatePhase' = [gatePhase EXCEPT ![c] = "outside"]
          /\ admission' = Nobody
          /\ UNCHANGED marker
    /\ UNCHANGED <<job, alive, submit>>

\* Mutated form: the gate opens without looking at the jobs.
CheckNothing(c) ==
    /\ alive[c] /\ gatePhase[c] = "marked"
    /\ gatePhase' = [gatePhase EXCEPT ![c] = "checked"]
    /\ UNCHANGED <<admission, marker, job, alive, submit>>

\* check_idle found every job file in a final state.
CheckIdle(c) ==
    /\ alive[c] /\ gatePhase[c] = "marked"
    /\ ActiveJobs = {}
    /\ gatePhase' = [gatePhase EXCEPT ![c] = "checked"]
    /\ UNCHANGED <<admission, marker, job, alive, submit>>

\* Mutated form: the marker is left in place when the check fails.
GiveUpKeepingMarker(c) ==
    /\ alive[c] /\ gatePhase[c] = "marked"
    /\ admission' = Nobody
    /\ gatePhase' = [gatePhase EXCEPT ![c] = "outside"]
    /\ UNCHANGED <<marker, job, alive, submit>>

\* check_idle raised: a job is active, or a file could not be read or parsed.
\* The marker is removed before the admission lock is given up.
NotIdle(c) ==
    /\ alive[c] /\ gatePhase[c] = "marked"
    /\ marker' = Nobody
    /\ gatePhase' = [gatePhase EXCEPT ![c] = "refused"]
    /\ UNCHANGED <<admission, job, alive, submit>>

\* The finally of admission_lock.
UnlockAdmission(c) ==
    /\ alive[c] /\ gatePhase[c] \in {"checked", "refused"}
    /\ admission' = Nobody
    /\ gatePhase' = [gatePhase EXCEPT ![c] = IF gatePhase[c] = "checked" THEN "maintaining" ELSE "outside"]
    /\ UNCHANGED <<marker, job, alive, submit>>

\* The body of the gate is over, well or badly: unlink the marker.
EndMaintenance(c) ==
    /\ alive[c] /\ gatePhase[c] = "maintaining"
    /\ marker' = Nobody
    /\ gatePhase' = [gatePhase EXCEPT ![c] = "outside"]
    /\ UNCHANGED <<admission, job, alive, submit>>

\* The marker file exists but its content could not be written, which raises
\* outside the try; or the unlink of the marker raises.  The controller gives up
\* the lock and reports an error, and the marker stays.
StrandMarker(c) ==
    /\ alive[c]
    /\ \/ gatePhase[c] = "admitted" /\ marker = Nobody
       \/ gatePhase[c] \in {"marked", "maintaining"}
    /\ marker' = c
    /\ admission' = IF admission = c THEN Nobody ELSE admission
    /\ gatePhase' = [gatePhase EXCEPT ![c] = "stranded"]
    /\ UNCHANGED <<job, alive, submit>>

\* The controller dies.  The operating system releases its lock; its marker
\* stays, "intentionally fail-closed after a controller crash".
ControllerDies(c) ==
    /\ alive[c] /\ gatePhase[c] # "outside"
    /\ alive' = [alive EXCEPT ![c] = FALSE]
    /\ admission' = IF admission = c THEN Nobody ELSE admission
    /\ UNCHANGED <<marker, job, gatePhase, submit>>

\* A person has checked receipts, processes and accounts, and removes what the
\* dead or failed controller left.  No code does this.
CleanUp(c) ==
    /\ ~alive[c] \/ gatePhase[c] = "stranded"
    /\ marker' = IF marker = c THEN Nobody ELSE marker
    /\ alive' = [alive EXCEPT ![c] = TRUE]
    /\ gatePhase' = [gatePhase EXCEPT ![c] = "outside"]
    /\ UNCHANGED <<admission, job, submit>>

-----------------------------------------------------------------------------
(* submit, as guarded by install_admission_guard.                          *)

LockForSubmit(s) ==
    /\ submit[s] = "outside"
    /\ admission = Nobody
    /\ admission' = s
    /\ submit' = [submit EXCEPT ![s] = "admitted"]
    /\ UNCHANGED <<marker, job, gatePhase, alive>>

\* Mutated form: the marker is looked at before the lock is taken.
LookBeforeLocking(s) ==
    /\ submit[s] \in {"outside", "admitted"}
    /\ submit' = [submit EXCEPT ![s] = IF marker = Nobody THEN "clear" ELSE "leaving"]
    /\ UNCHANGED <<admission, marker, job, gatePhase, alive>>

\* A marker raises; its absence lets the original submit run, still locked.
LookForMarker(s) ==
    /\ submit[s] = "admitted"
    /\ submit' = [submit EXCEPT ![s] = IF marker = Nobody THEN "clear" ELSE "leaving"]
    /\ UNCHANGED <<admission, marker, job, gatePhase, alive>>

\* Mutated form: the job file starts in a status that check_idle does not know.
EnqueuePending(s, j) ==
    /\ submit[s] = "clear"
    /\ job[j] = "unsubmitted"
    /\ job' = [job EXCEPT ![j] = "pending"]
    /\ submit' = [submit EXCEPT ![s] = "leaving"]
    /\ UNCHANGED <<admission, marker, gatePhase, alive>>

\* The original submit writes the job file and enqueues it.
Enqueue(s, j) ==
    /\ submit[s] = "clear"
    /\ job[j] = "unsubmitted"
    /\ job' = [job EXCEPT ![j] = "active"]
    /\ submit' = [submit EXCEPT ![s] = "leaving"]
    /\ UNCHANGED <<admission, marker, gatePhase, alive>>

\* The original submit raises before it writes anything.
EnqueueFails(s) ==
    /\ submit[s] = "clear"
    /\ submit' = [submit EXCEPT ![s] = "leaving"]
    /\ UNCHANGED <<admission, marker, job, gatePhase, alive>>

\* The finally of submit; also the death of the submitting process, whose lock
\* the operating system releases wherever it was.
LeaveSubmit(s) ==
    /\ submit[s] # "outside"
    /\ admission' = IF admission = s THEN Nobody ELSE admission
    /\ submit' = [submit EXCEPT ![s] = "outside"]
    /\ UNCHANGED <<marker, job, gatePhase, alive>>

\* A worker brings the job to a final state.
EndJob(j) ==
    /\ job[j] = "active"
    /\ job' = [job EXCEPT ![j] = "ended"]
    /\ UNCHANGED <<admission, marker, gatePhase, alive, submit>>

-----------------------------------------------------------------------------
Gate(c) ==
    \/ CreateMarker(c)
    \/ CheckIdle(c)
    \/ NotIdle(c)
    \/ UnlockAdmission(c)
    \/ EndMaintenance(c)
    \/ StrandMarker(c)

Submission(s) ==
    \/ LookForMarker(s)
    \/ \E j \in JobFile : Enqueue(s, j)
    \/ EnqueueFails(s)
    \/ LeaveSubmit(s)

GateNext ==
    \/ \E c \in Controller : LockAdmission(c) \/ Gate(c) \/ ControllerDies(c) \/ CleanUp(c)
    \/ \E s \in Submitter : LockForSubmit(s) \/ Submission(s)
    \/ \E j \in JobFile : EndJob(j)

GateSpec == GateInit /\ [][GateNext]_gateVars

\* A controller or a submitter that runs keeps running: none of these steps
\* waits for another process, and the body of the gate is bounded by its own
\* stop and start timeouts.  Trying to begin, dying, cleaning up and finishing
\* a job are not owed to anyone.
GateFairSpec ==
    /\ GateSpec
    /\ \A c \in Controller : WF_gateVars(Gate(c))
    /\ \A s \in Submitter : WF_gateVars(Submission(s))

-----------------------------------------------------------------------------
\* Type invariant: every variable holds a value of its kind.
GateTypeOK ==
    /\ admission \in Controller \cup Submitter \cup {Nobody}
    /\ marker \in Controller \cup {Nobody}
    /\ job \in [JobFile -> {"unsubmitted", "active", "ended"}]
    /\ gatePhase \in [Controller -> {"outside", "admitted", "marked", "checked", "refused",
                                     "maintaining", "stranded"}]
    /\ alive \in [Controller -> BOOLEAN]
    /\ submit \in [Submitter -> {"outside", "admitted", "clear", "leaving"}]

Exclusive(c) == gatePhase[c] \in {"checked", "maintaining"}

\* The controller never stops or replaces a service that has work: from the
\* idle check until the marker is removed, even by a person after a crash, no
\* job is active, although the lock under which the check was made is long gone.
NoJobUnderMaintenance ==
    \A c \in Controller : Exclusive(c) => ActiveJobs = {}

\* While a marker exists, a dead controller's included, no job is admitted and
\* no controller newly obtains the service: the gate fails closed.
FailsClosed ==
    [][marker # Nobody =>
          /\ ActiveJobs' \subseteq ActiveJobs
          /\ \A c \in Controller : Exclusive(c)' => Exclusive(c) \/ marker = c]_gateVars

\* A controller gives the service back, whether its work went well, failed or
\* was refused: only one that died, or whose own file operation on the marker
\* failed, leaves its marker.
MarkerRemoved ==
    \A c \in Controller : marker = c ~> (marker # c \/ ~alive[c] \/ gatePhase[c] = "stranded")

Maintainer ==
    IF \E c \in Controller : Exclusive(c)
    THEN CHOOSE c \in Controller : Exclusive(c)
    ELSE Nobody

Exclusion == INSTANCE WorkGate WITH
    Job <- JobFile, None <- Nobody, maintainer <- Maintainer, active <- ActiveJobs

\* The lock and the marker implement mutual exclusion of work and maintenance.
RefinesWorkGate == Exclusion!Spec
=============================================================================
