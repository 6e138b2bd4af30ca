------------------------- MODULE LocalControlProofs -------------------------
(***************************************************************************)
(* What MaintenanceGate and LocalControl guarantee for any number of       *)
(* controllers, submitters, jobs, runtimes, processes and operations.      *)
(*                                                                         *)
(* The gate.  The admission lock is held exactly by those between taking   *)
(* and giving it up (HolderInv); a controller past the creation of its     *)
(* marker owns the one marker there is (MarkerInv); a submission that saw  *)
(* no marker still holds the lock, so there still is none (ClearInv);      *)
(* hence nothing is enqueued between a check that found no work and the    *)
(* removal of the marker.                                                  *)
(*                                                                         *)
(* The operation under the gate.  A runtime is launched only when the      *)
(* recorded one is gone (Gone), so the record never moves from a process   *)
(* that runs; what is launched is followed from the child to the record    *)
(* (Launched, TargetStarted) and to the verdict (Success, Restored); a     *)
(* failure passes through the recovery of the pointer (Told); and while    *)
(* anything is under way the receipt says "running" (FirstReceipt), so     *)
(* that the last receipt explains what runs (Explained).                   *)
(*                                                                         *)
(* Two things that the code does not guarantee hold under a condition,     *)
(* which says where the fault is: a restoration of the pointer is right if *)
(* no release command falls into either of two windows (Known), and no     *)
(* service gets out of reach unless a launch went unrecorded (InReach).    *)
(***************************************************************************)
EXTENDS LocalControl, MaintenanceGate, TLAPS

-----------------------------------------------------------------------------
(* The gate.                                                               *)

HolderInv ==
    /\ \A c \in Controller :
           admission = c <=> alive[c] /\ gatePhase[c] \in {"admitted", "marked", "checked", "refused"}
    /\ \A s \in Submitter : admission = s <=> submit[s] # "outside"

MarkerInv ==
    \A c \in Controller : gatePhase[c] \in {"marked", "checked", "maintaining"} => marker = c

ClearInv == \A s \in Submitter : submit[s] = "clear" => marker = Nobody

GateInv == GateTypeOK /\ HolderInv /\ MarkerInv /\ ClearInv /\ NoJobUnderMaintenance

-----------------------------------------------------------------------------
(* The initial states have the invariant.                                  *)
LEMMA InitGateInv == GateInit => GateInv
  BY GateAssumption
  DEF GateInit, GateInv, GateTypeOK, HolderInv, MarkerInv, ClearInv, NoJobUnderMaintenance,
      Exclusive, ActiveJobs

(* Every step of a controller keeps the invariant.                         *)
LEMMA ControllerStep ==
  ASSUME GateInv, NEW c \in Controller,
         LockAdmission(c) \/ Gate(c) \/ ControllerDies(c) \/ CleanUp(c)
  PROVE  GateInv'
<1> USE GateAssumption DEF GateInv, GateTypeOK, HolderInv, MarkerInv, ClearInv,
        NoJobUnderMaintenance, Exclusive, ActiveJobs
<1>1. CASE LockAdmission(c)  BY <1>1 DEF LockAdmission
<1>2. CASE CreateMarker(c)  BY <1>2 DEF CreateMarker
<1>3. CASE CheckIdle(c)  BY <1>3 DEF CheckIdle
<1>4. CASE NotIdle(c)  BY <1>4 DEF NotIdle
<1>5. CASE UnlockAdmission(c)  BY <1>5 DEF UnlockAdmission
<1>6. CASE EndMaintenance(c)  BY <1>6 DEF EndMaintenance
<1>7. CASE StrandMarker(c)  BY <1>7 DEF StrandMarker
<1>8. CASE ControllerDies(c)  BY <1>8 DEF ControllerDies
<1>9. CASE CleanUp(c)  BY <1>9 DEF CleanUp
<1>10. QED  BY <1>1, <1>2, <1>3, <1>4, <1>5, <1>6, <1>7, <1>8, <1>9 DEF Gate

(* Every step of a submission keeps the invariant.                         *)
LEMMA SubmitterStep ==
  ASSUME GateInv, NEW s \in Submitter, LockForSubmit(s) \/ Submission(s)
  PROVE  GateInv'
<1> USE GateAssumption DEF GateInv, GateTypeOK, HolderInv, MarkerInv, ClearInv,
        NoJobUnderMaintenance, Exclusive, ActiveJobs
<1>1. CASE LockForSubmit(s)  BY <1>1 DEF LockForSubmit
<1>2. CASE LookForMarker(s)  BY <1>2 DEF LookForMarker
<1>3. CASE \E j \in JobFile : Enqueue(s, j)
  <2>1. PICK j \in JobFile : Enqueue(s, j)  BY <1>3
  <2>2. marker = Nobody  BY <2>1 DEF Enqueue
  <2>3. \A c \in Controller : ~Exclusive(c)  BY <2>2
  <2>4. QED  BY <2>1, <2>2, <2>3 DEF Enqueue
<1>4. CASE EnqueueFails(s)  BY <1>4 DEF EnqueueFails
<1>5. CASE LeaveSubmit(s)  BY <1>5 DEF LeaveSubmit
<1>6. QED  BY <1>1, <1>2, <1>3, <1>4, <1>5 DEF Submission

(* A job that ends keeps the invariant.                                    *)
LEMMA JobStep ==
  ASSUME GateInv, NEW j \in JobFile, EndJob(j)
  PROVE  GateInv'
  BY GateAssumption
  DEF EndJob, GateInv, GateTypeOK, HolderInv, MarkerInv, ClearInv, NoJobUnderMaintenance,
      Exclusive, ActiveJobs

(* The invariant is inductive.                                             *)
LEMMA NextGateInv == GateInv /\ [GateNext]_gateVars => GateInv'
<1> SUFFICES ASSUME GateInv, [GateNext]_gateVars PROVE GateInv'
  OBVIOUS
<1>1. CASE GateNext  BY <1>1, ControllerStep, SubmitterStep, JobStep DEF GateNext
<1>2. CASE UNCHANGED gateVars
  BY <1>2 DEF gateVars, GateInv, GateTypeOK, HolderInv, MarkerInv, ClearInv, NoJobUnderMaintenance,
              Exclusive, ActiveJobs
<1>3. QED  BY <1>1, <1>2

(* The invariant holds in every reachable state.                           *)
THEOREM GateInvariance == GateSpec => []GateInv
<1>1. GateInit => GateInv  BY InitGateInv
<1>2. GateInv /\ [GateNext]_gateVars => GateInv'  BY NextGateInv
<1>3. QED  BY <1>1, <1>2, PTL DEF GateSpec

-----------------------------------------------------------------------------
(* The variables of MaintenanceGate hold values of their kinds.            *)
THEOREM GateTypeCorrect == GateSpec => []GateTypeOK
<1>1. GateInv => GateTypeOK  BY DEF GateInv
<1>2. QED  BY <1>1, GateInvariance, PTL

(* maintenance_gate: a service under maintenance has no active job, from   *)
(* the idle check to the removal of the marker, crashes included.          *)
THEOREM WorkNeverInterrupted == GateSpec => []NoJobUnderMaintenance
<1>1. GateInv => NoJobUnderMaintenance  BY DEF GateInv
<1>2. QED  BY <1>1, GateInvariance, PTL

(* A marker, also one that a dead controller left, keeps jobs and other    *)
(* controllers out.                                                        *)
THEOREM GateFailsClosed == GateSpec => FailsClosed
<1> DEFINE Closed ==
      marker # Nobody =>
          /\ ActiveJobs' \subseteq ActiveJobs
          /\ \A c \in Controller : Exclusive(c)' => Exclusive(c) \/ marker = c
<1>1. GateInv /\ [GateNext]_gateVars => [Closed]_gateVars
  <2> SUFFICES ASSUME GateInv, GateNext, marker # Nobody
               PROVE  /\ ActiveJobs' \subseteq ActiveJobs
                      /\ \A c \in Controller : Exclusive(c)' => Exclusive(c) \/ marker = c
    OBVIOUS
  <2> USE DEF GateInv, GateTypeOK, ActiveJobs, Exclusive
  <2>1. ASSUME NEW c \in Controller, LockAdmission(c) \/ Gate(c) \/ ControllerDies(c) \/ CleanUp(c)
        PROVE  /\ ActiveJobs' \subseteq ActiveJobs
               /\ \A d \in Controller : Exclusive(d)' => Exclusive(d) \/ marker = d
    BY <2>1 DEF Gate, LockAdmission, CreateMarker, CheckIdle, NotIdle, UnlockAdmission,
                EndMaintenance, StrandMarker, ControllerDies, CleanUp, MarkerInv
  <2>2. ASSUME NEW s \in Submitter, LockForSubmit(s) \/ Submission(s)
        PROVE  UNCHANGED <<job, gatePhase>>
    BY <2>2 DEF Submission, LockForSubmit, LookForMarker, Enqueue, EnqueueFails, LeaveSubmit,
                ClearInv
  <2>3. ASSUME NEW j \in JobFile, EndJob(j)
        PROVE  ActiveJobs' \subseteq ActiveJobs /\ UNCHANGED gatePhase
    BY <2>3 DEF EndJob
  <2>4. QED  BY <2>1, <2>2, <2>3 DEF GateNext
<1>2. QED  BY <1>1, GateInvariance, PTL DEF GateSpec, FailsClosed

-----------------------------------------------------------------------------
(* The marker is one, so the controller that has the service is one.       *)
LEMMA OneMaintainer ==
  ASSUME GateInv, NEW c \in Controller, Exclusive(c)
  PROVE  Maintainer = c
  BY DEF GateInv, MarkerInv, Exclusive, Maintainer

(* Without such a controller nobody has the service.                       *)
LEMMA NoMaintainer ==
  ASSUME \A c \in Controller : ~Exclusive(c)
  PROVE  Maintainer = Nobody
  BY DEF Maintainer

(* A step that leaves the exclusive controllers alone leaves Maintainer.   *)
LEMMA SameMaintainer ==
  ASSUME \A c \in Controller : Exclusive(c)' <=> Exclusive(c)
  PROVE  Maintainer' = Maintainer
<1>1. ASSUME NEW c \in Controller PROVE Exclusive(c)' = Exclusive(c)
  BY <1>1 DEF Exclusive
<1>2. QED  BY <1>1 DEF Maintainer

(* Initially nobody works and nobody maintains.                            *)
LEMMA InitWork == GateInit => Exclusion!Init
  BY DEF GateInit, Exclusion!Init, ActiveJobs, Maintainer, Exclusive

(* A controller's step begins, ends or leaves alone the maintenance.       *)
LEMMA ControllerWork ==
  ASSUME GateInv, GateInv', NEW c \in Controller,
         LockAdmission(c) \/ Gate(c) \/ ControllerDies(c) \/ CleanUp(c)
  PROVE  [Exclusion!Next]_(Exclusion!vars)
<1>1. UNCHANGED ActiveJobs
  BY DEF Gate, LockAdmission, CreateMarker, CheckIdle, NotIdle, UnlockAdmission,
         EndMaintenance, StrandMarker, ControllerDies, CleanUp, ActiveJobs
<1>2. CASE CheckIdle(c)
  <2>1. \A d \in Controller : ~Exclusive(d)
    BY <1>2 DEF CheckIdle, GateInv, MarkerInv, Exclusive
  <2>2. Maintainer = Nobody  BY <2>1, NoMaintainer
  <2>3. Exclusive(c)'  BY <1>2 DEF CheckIdle, Exclusive, GateInv, GateTypeOK
  <2>4. Maintainer' = c  BY <2>3 DEF GateInv, MarkerInv, Exclusive, Maintainer
  <2>5. ActiveJobs = {}  BY <1>2 DEF CheckIdle
  <2>6. Exclusion!Begin(c)  BY <1>1, <2>2, <2>4, <2>5 DEF Exclusion!Begin
  <2>7. QED  BY <2>6 DEF Exclusion!Next
<1>3. CASE EndMaintenance(c) \/ StrandMarker(c) \/ CleanUp(c)
  <2>1. ~Exclusive(c)'
    BY <1>3 DEF EndMaintenance, StrandMarker, CleanUp, Exclusive, GateInv, GateTypeOK
  <2>2. \A d \in Controller : d # c => (Exclusive(d)' <=> Exclusive(d))
    BY <1>3 DEF EndMaintenance, StrandMarker, CleanUp, Exclusive, GateInv, GateTypeOK
  <2>3. CASE Exclusive(c)
    <3>1. \A d \in Controller : ~Exclusive(d)'
      BY <2>1, <2>2, <2>3 DEF GateInv, MarkerInv, Exclusive
    <3>2. Maintainer' = Nobody  BY <3>1 DEF Maintainer
    <3>3. Exclusion!End  BY <1>1, <3>2 DEF Exclusion!End
    <3>4. QED  BY <3>3 DEF Exclusion!Next
  <2>4. CASE ~Exclusive(c)
    <3>1. Maintainer' = Maintainer  BY <2>1, <2>2, <2>4, SameMaintainer
    <3>2. QED  BY <1>1, <3>1 DEF Exclusion!vars
  <2>5. QED  BY <2>3, <2>4
<1>4. CASE LockAdmission(c) \/ CreateMarker(c) \/ NotIdle(c) \/ UnlockAdmission(c) \/ ControllerDies(c)
  <2>1. \A d \in Controller : Exclusive(d)' <=> Exclusive(d)
    BY <1>4 DEF LockAdmission, CreateMarker, NotIdle, UnlockAdmission, ControllerDies, Exclusive,
                GateInv, GateTypeOK
  <2>2. Maintainer' = Maintainer  BY <2>1, SameMaintainer
  <2>3. QED  BY <1>1, <2>2 DEF Exclusion!vars
<1>5. QED  BY <1>2, <1>3, <1>4 DEF Gate

(* A submission admits a job, when nobody maintains, or changes nothing.   *)
LEMMA SubmitterWork ==
  ASSUME GateInv, NEW s \in Submitter, LockForSubmit(s) \/ Submission(s)
  PROVE  [Exclusion!Next]_(Exclusion!vars)
<1>1. UNCHANGED gatePhase
  BY DEF Submission, LockForSubmit, LookForMarker, Enqueue, EnqueueFails, LeaveSubmit
<1>2. Maintainer' = Maintainer  BY <1>1, SameMaintainer DEF Exclusive
<1>3. CASE \E j \in JobFile : Enqueue(s, j)
  <2>1. PICK j \in JobFile : Enqueue(s, j)  BY <1>3
  <2>2. \A c \in Controller : ~Exclusive(c)
    BY <2>1, GateAssumption DEF Enqueue, GateInv, ClearInv, MarkerInv, Exclusive
  <2>3. Maintainer = Nobody  BY <2>2, NoMaintainer
  <2>4. ActiveJobs' = ActiveJobs \cup {j}
    BY <2>1 DEF Enqueue, ActiveJobs, GateInv, GateTypeOK
  <2>5. Exclusion!Admit(j)  BY <1>2, <2>3, <2>4 DEF Exclusion!Admit
  <2>6. QED  BY <2>5 DEF Exclusion!Next
<1>4. CASE LockForSubmit(s) \/ LookForMarker(s) \/ EnqueueFails(s) \/ LeaveSubmit(s)
  <2>1. UNCHANGED ActiveJobs
    BY <1>4 DEF LockForSubmit, LookForMarker, EnqueueFails, LeaveSubmit, ActiveJobs
  <2>2. QED  BY <1>2, <2>1 DEF Exclusion!vars
<1>5. QED  BY <1>3, <1>4 DEF Submission

(* A job that ends finishes.                                               *)
LEMMA JobWork ==
  ASSUME GateInv, NEW j \in JobFile, EndJob(j)
  PROVE  [Exclusion!Next]_(Exclusion!vars)
<1>1. UNCHANGED gatePhase  BY DEF EndJob
<1>2. Maintainer' = Maintainer  BY <1>1, SameMaintainer DEF Exclusive
<1>3. ActiveJobs' = ActiveJobs \ {j}  BY DEF EndJob, ActiveJobs, GateInv, GateTypeOK
<1>4. Exclusion!Finish(j)  BY <1>2, <1>3 DEF Exclusion!Finish
<1>5. QED  BY <1>4 DEF Exclusion!Next

(* The marker and the admission lock implement the exclusion of work and   *)
(* maintenance that WorkGate states.                                       *)
THEOREM ImplementsWorkGate == GateSpec => RefinesWorkGate
<1>1. GateInit => Exclusion!Init  BY InitWork
<1>2. GateInv /\ GateInv' /\ [GateNext]_gateVars => [Exclusion!Next]_(Exclusion!vars)
  <2> SUFFICES ASSUME GateInv, GateInv', [GateNext]_gateVars PROVE [Exclusion!Next]_(Exclusion!vars)
    OBVIOUS
  <2>1. CASE GateNext  BY <2>1, ControllerWork, SubmitterWork, JobWork DEF GateNext
  <2>2. CASE UNCHANGED gateVars
    <3>1. UNCHANGED ActiveJobs  BY <2>2 DEF gateVars, ActiveJobs
    <3>2. UNCHANGED gatePhase  BY <2>2 DEF gateVars
    <3>3. Maintainer' = Maintainer  BY <3>2, SameMaintainer DEF Exclusive
    <3>4. QED  BY <3>1, <3>3 DEF Exclusion!vars
  <2>3. QED  BY <2>1, <2>2
<1>3. QED  BY <1>1, <1>2, GateInvariance, PTL DEF GateSpec, RefinesWorkGate, Exclusion!Spec

-----------------------------------------------------------------------------
(* The operation: the inductive invariant.                                 *)

\* Between the first receipt and the last.
Active == Body \cup {"begun", "failing", "cleaning", "recovering", "finishing"}

\* The plan that is executed was made by preview.
Planned ==
    /\ phase # "idle" => plan # NoPlan
    /\ plan # NoPlan => /\ plan.action # "none"
                        /\ plan.target \in Runtime /\ plan.previous \in Runtime
                        /\ plan.action = "activate" => plan.target \in Accepted
    /\ phase \in {"committing", "committed"} => plan.action = "activate"

\* What starts something goes beyond a stop.
BeyondStop ==
    phase \in {"starting", "launched", "watching", "protecting", "committing", "committed", "selecting"}
        /\ op.stage = "forward" => plan.action # "stop"

\* What is recorded was once created.
Recorded ==
    /\ record.proc \in Proc => procs[record.proc].is # "unborn"
    /\ record.verified => record.proc \in Proc

\* The stages and verdicts o that go with a phase f.
Course(f, o) ==
    /\ f \in {"idle", "entered", "begun", "protecting", "committing", "committed", "selecting"}
           => o.stage = "forward"
    /\ f \in {"idle", "entered", "begun"} \cup Body /\ o.stage = "forward"
           => o.status = "running"
    /\ f \in {"failing", "cleaning", "recovering"} \/ o.stage # "forward"
           => o.status = "failed"
    /\ f \in {"starting", "launched", "watching"} => o.stage # "cleanup"
    /\ f \in {"idle", "entered"} \cup (Active \ {"finishing"}) => o.recovery = "none"

\* A failure does not pass a commit over in silence, unless an interrupt ends it.
Told(f, o) ==
    /\ o.own # NoPointer => o.attempted
    /\ f \notin {"failing", "crashed"} /\ o.status = "failed" /\ o.attempted /\ ~o.interrupted
           => o.pointerRecovery # "none"

\* Until the operation selects its target, the runtime reviewed is selected, and
\* so it is when that runtime is restored.
NotYetSelected ==
    phase \in Active /\ (phase = "finishing" => op.recovery = "restored")
        => selected = plan.previous

FirstReceipt == phase \in Active => receipt.status = "running"

\* A runtime is launched when the recorded one is gone.
Gone ==
    /\ phase \in {"starting", "launched"} => ~Alive(record.proc)
    /\ phase = "begun" /\ plan.action = "start" => ~Alive(record.proc)

\* The child runs what it was launched for, and is the recorded one once watched.
Launched ==
    phase \in {"launched", "watching"} =>
        /\ op.child \in Proc
        /\ procs[op.child].is # "unborn" /\ procs[op.child].runtime = Launching
        /\ phase = "watching" => record.proc = op.child

\* The recorded process was verified in runtime r.
RecordedIn(r) == record.verified /\ record.proc \in Proc /\ procs[record.proc].runtime = r

TargetStarted ==
    /\ phase \in {"protecting", "committing", "committed", "selecting"} => RecordedIn(plan.target)
    /\ phase \in {"committed", "selecting"} /\ plan.action = "activate"
           => op.own.candidate = CandidateOf[plan.target]

Success ==
    phase \in {"finishing", "leaving"} /\ op.status = "succeeded" =>
        IF plan.action = "stop" THEN ~Alive(record.proc)
        ELSE /\ selected = plan.target /\ RecordedIn(plan.target)
             /\ plan.action = "activate" => op.own.candidate = CandidateOf[plan.target]

Restored == phase = "finishing" /\ op.recovery = "restored" => RecordedIn(plan.previous)

\* The last receipt explains a service in another runtime than the selected one.
Explained ==
    record.verified /\ Alive(record.proc) /\ procs[record.proc].runtime # selected
        => \/ receipt.status = "running"
           \/ receipt.status = "failed" /\ receipt.recovery # "restored"

IInv ==
    /\ TypeOK
    /\ Planned /\ BeyondStop /\ Recorded /\ Course(phase, op) /\ Told(phase, op)
    /\ NotYetSelected /\ FirstReceipt /\ Gone /\ Launched
    /\ TargetStarted /\ Success /\ Restored /\ Explained

-----------------------------------------------------------------------------
(* What happens to the processes.                                          *)

\* No process comes into being or changes its runtime.
Deaths ==
    /\ procs' \in [Proc -> Process]
    /\ \A p \in Proc : /\ procs'[p].runtime = procs[p].runtime
                       /\ procs[p].is # "unborn" => procs'[p].is # "unborn"
                       /\ procs'[p].is \in {"starting", "serving"}
                              => procs[p].is \in {"starting", "serving"}

LEMMA NobodyDied ==
  ASSUME IInv, procs' = procs
  PROVE  Deaths
  BY DEF IInv, TypeOK, Deaths

\* A process takes on another condition.
LEMMA OneChanges ==
  ASSUME IInv, NEW p \in Proc, NEW c \in {"serving", "stopped", "dead"},
         procs' = [procs EXCEPT ![p].is = c],
         c = "serving" => procs[p].is = "starting"
  PROVE  Deaths
<1>1. PICK r \in Process : r = procs[p]  BY DEF IInv, TypeOK
<1>2. PICK n : n = [r EXCEPT !.is = c]  OBVIOUS
<1>3. n \in Process /\ n.runtime = r.runtime /\ n.is = c  BY <1>2 DEF Process
<1>4. procs' = [procs EXCEPT ![p] = n]  BY <1>1, <1>2
<1>5. procs \in [Proc -> Process]  BY DEF IInv, TypeOK
<1>6. \A q \in Proc : procs'[q] = IF q = p THEN n ELSE procs[q]  BY <1>4, <1>5
<1>7. procs' \in [Proc -> Process]  BY <1>3, <1>4, <1>5
<1>8. QED  BY <1>1, <1>3, <1>6, <1>7 DEF Deaths

LEMMA ChildKilled ==
  ASSUME IInv, phase = "watching", KillChild
  PROVE  Deaths /\ port' \in Proc \cup {None, Foreign}
<1>1. op.child \in Proc  BY DEF IInv, Launched
<1>2. port' \in Proc \cup {None, Foreign}  BY DEF IInv, TypeOK, KillChild
<1>3. CASE Alive(op.child) /\ procs' # procs
  <2>1. procs' = [procs EXCEPT ![op.child].is = "dead"]  BY <1>3 DEF KillChild
  <2>2. QED  BY <1>1, <1>2, <2>1, OneChanges
<1>4. CASE ~Alive(op.child) \/ procs' = procs
  <2>1. procs' = procs  BY <1>4 DEF KillChild, IInv, TypeOK, Process
  <2>2. QED  BY <1>2, <2>1, NobodyDied
<1>5. QED  BY <1>3, <1>4

\* What is known of the recorded process survives deaths.
LEMMA RecordLasts ==
  ASSUME IInv, Deaths, record' = record
  PROVE  /\ Recorded'
         /\ ~Alive(record.proc) => ~Alive(record.proc)'
         /\ \A r \in Runtime : RecordedIn(r) => RecordedIn(r)'
  BY DEF IInv, Recorded, Deaths, Alive, RecordedIn

\* The services, their surroundings and other operators do as they like: what
\* holds of the operation stays true.
LEMMA Around ==
  ASSUME IInv, Deaths, UNCHANGED <<record, selected, receipt, plan, phase, op>>, TypeOK'
  PROVE  IInv'
<1>1. Planned' /\ BeyondStop'  BY DEF IInv, Planned, BeyondStop
<1>2. Recorded'  BY RecordLasts
<1>3. Course(phase, op)' /\ Told(phase, op)'  BY DEF IInv, Course, Told
<1>4. NotYetSelected' /\ FirstReceipt'  BY DEF IInv, NotYetSelected, FirstReceipt
<1>5. Gone'  BY RecordLasts DEF IInv, Gone
<1>6. Launched'  BY DEF IInv, Launched, Launching, Deaths
<1>7. phase # "idle" => plan.target \in Runtime /\ plan.previous \in Runtime
  BY DEF IInv, Planned
<1>8. TargetStarted'  BY <1>7, RecordLasts DEF IInv, TargetStarted
<1>9. Success'  BY <1>7, RecordLasts DEF IInv, Success
<1>10. Restored'  BY <1>7, RecordLasts DEF IInv, Restored
<1>11. Explained'  BY DEF IInv, Explained, Recorded, Deaths, Alive
<1>12. QED
  BY <1>1, <1>2, <1>3, <1>4, <1>5, <1>6, <1>8, <1>9, <1>10, <1>11 DEF IInv

\* A step of the operation that publishes no record and selects nothing.
LEMMA Moves ==
  ASSUME IInv, Deaths, UNCHANGED <<record, selected, receipt, plan, gate, operations>>,
         port' \in Proc \cup {None, Foreign}, stopFile' \in BOOLEAN,
         pointer' \in Pointer, publications' \in 0..MaxPublished,
         NEW n \in Local, op' = n, NEW f \in Phase, phase' = f, phase # "idle",
         Course(f, n), Told(f, n),
         f \in Active => phase \in Active \ {"finishing"},
         f \notin {"idle", "begun", "launched", "watching"},
         f = "starting" => ~Alive(record.proc),
         f \in {"starting", "protecting", "committing", "committed", "selecting"}
             /\ n.stage = "forward" => plan.action # "stop",
         f \in {"protecting", "committing", "committed", "selecting"} =>
             phase \in {"protecting", "committing", "committed"},
         f \in {"committing", "committed"} => plan.action = "activate",
         f \in {"committed", "selecting"} /\ plan.action = "activate" =>
             n.own.candidate = CandidateOf[plan.target],
         f \in {"finishing", "leaving"} /\ n.status = "succeeded" =>
             plan.action = "stop" /\ ~Alive(record.proc),
         f = "finishing" => n.recovery # "restored"
  PROVE  IInv'
<1>1. TypeOK'  BY DEF IInv, TypeOK, Deaths, gate
<1>2. Planned' /\ BeyondStop'  BY DEF IInv, Planned, BeyondStop
<1>3. Recorded'  BY RecordLasts
<1>4. Course(phase, op)' /\ Told(phase, op)'  BY DEF Course, Told
<1>5. phase \in Active \ {"finishing"} => op.status # "succeeded"
  BY DEF IInv, Course, Active
<1>6. NotYetSelected' /\ FirstReceipt'
  BY <1>5 DEF IInv, NotYetSelected, FirstReceipt
<1>7. Gone'  BY RecordLasts DEF Gone
<1>8. Launched'  BY DEF Launched
<1>9. plan.target \in Runtime  BY DEF IInv, Planned
<1>10. TargetStarted'  BY <1>9, RecordLasts DEF IInv, TargetStarted
<1>11. Success'  BY RecordLasts DEF Success
<1>12. Restored'  BY DEF Restored
<1>13. Explained'  BY DEF IInv, Explained, Recorded, Deaths, Alive
<1>14. QED
  BY <1>1, <1>2, <1>3, <1>4, <1>6, <1>7, <1>8, <1>10, <1>11, <1>12, <1>13 DEF IInv

\* The local variables of the operation.
LEMMA Mine ==
  ASSUME IInv
  PROVE  op \in Local /\ Course(phase, op) /\ Told(phase, op)
  BY DEF IInv, TypeOK

-----------------------------------------------------------------------------
(* What an exception and a stop mean.                                      *)

LEMMA RaisedStep ==
  ASSUME IInv, phase \in Body, Raised, Deaths,
         UNCHANGED <<record, selected, receipt, plan, pointer, gate, counts>>,
         port' \in Proc \cup {None, Foreign}, stopFile' \in BOOLEAN
  PROVE  IInv'
<1>1. PICK o \in Local : o = op /\ Course(phase, o) /\ Told(phase, o)  BY Mine
<1>2. /\ phase \in Active \ {"finishing"} /\ phase # "idle"
      /\ pointer' \in Pointer /\ publications' \in 0..MaxPublished /\ UNCHANGED <<gate, operations>>
  BY DEF Body, Active, IInv, TypeOK, counts
<1>3. o.recovery = "none"  BY <1>1, <1>2 DEF Course
<1>4. CASE op.stage = "forward"
  <2>1. PICK n : n = [o EXCEPT !.status = "failed"]  OBVIOUS
  <2>2. /\ n \in Local /\ n.stage = "forward" /\ n.status = "failed" /\ n.recovery = "none"
        /\ n.own = o.own /\ n.attempted = o.attempted
    BY <1>1, <1>3, <1>4, <2>1 DEF Local
  <2>3. op' = n /\ phase' = "failing"  BY <1>1, <1>4, <2>1 DEF Raised
  <2>4. Course("failing", n) /\ Told("failing", n)
    BY <1>1, <2>2 DEF Course, Told, Body
  <2>5. "failing" \in Phase  BY DEF Phase, Handler
  <2>6. QED  BY <1>2, <2>2, <2>3, <2>4, <2>5, Moves
<1>5. CASE op.stage = "cleanup"
  <2>1. op' = o /\ phase' = "recovering"  BY <1>1, <1>5 DEF Raised
  <2>2. Course("recovering", o) /\ Told("recovering", o)
    BY <1>1, <1>2, <1>3, <1>5 DEF Course, Told, Body, Active
  <2>3. "recovering" \in Phase  BY DEF Phase, Handler
  <2>4. QED  BY <1>2, <2>1, <2>2, <2>3, Moves
<1>6. CASE op.stage = "recovery"
  <2>1. PICK n : n = [o EXCEPT !.recovery = "failed"]  OBVIOUS
  <2>2. /\ n \in Local /\ n.stage = "recovery" /\ n.status = o.status /\ n.recovery = "failed"
        /\ n.own = o.own /\ n.attempted = o.attempted /\ n.pointerRecovery = o.pointerRecovery
        /\ n.interrupted = o.interrupted
    BY <1>1, <1>6, <2>1 DEF Local, Outcome
  <2>3. op' = n /\ phase' = "finishing"  BY <1>1, <1>6, <2>1 DEF Raised
  <2>4. Course("finishing", n) /\ Told("finishing", n) /\ n.status = "failed"
    BY <1>1, <1>2, <1>6, <2>2 DEF Course, Told, Body, Active
  <2>5. "finishing" \in Phase  BY DEF Phase, Handler
  <2>6. QED  BY <1>2, <2>2, <2>3, <2>4, <2>5, Moves
<1>7. QED  BY <1>4, <1>5, <1>6 DEF Raised

LEMMA StoppedStep ==
  ASSUME IInv, phase \in {"stopping", "awaiting"}, Stopped, ~Alive(record.proc),
         UNCHANGED <<service, books, plan, pointer, gate, counts>>
  PROVE  IInv'
<1>1. PICK o \in Local : o = op /\ Course(phase, o) /\ Told(phase, o)  BY Mine
<1>2. /\ phase \in Active \ {"finishing"} /\ phase # "idle" /\ phase \in Body
      /\ pointer' \in Pointer /\ publications' \in 0..MaxPublished
      /\ port' \in Proc \cup {None, Foreign} /\ stopFile' \in BOOLEAN
      /\ UNCHANGED <<record, selected, receipt, plan, gate, operations>>
  BY DEF Body, Active, IInv, TypeOK, service, books, counts
<1>3. Deaths  BY NobodyDied DEF service
<1>4. o.recovery = "none" /\ "finishing" \in Phase /\ "starting" \in Phase /\ "recovering" \in Phase
  BY <1>1, <1>2 DEF Course, Phase, Handler, Body
<1>5. CASE op.stage = "forward"
  <2>1. PICK v \in {"running", "failed", "succeeded"} :
            v = IF plan.action = "stop" THEN "succeeded" ELSE o.status
    BY DEF Local
  <2>2. PICK n : n = [o EXCEPT !.stopped = TRUE, !.status = v]  OBVIOUS
  <2>3. /\ n \in Local /\ n.stage = "forward" /\ n.status = v /\ n.recovery = "none"
        /\ n.own = o.own /\ n.attempted = o.attempted
    BY <1>1, <1>4, <1>5, <2>2 DEF Local
  <2>4. PICK f \in {"finishing", "starting"} :
            f = IF plan.action = "stop" THEN "finishing" ELSE "starting"
    OBVIOUS
  <2>5. op' = n /\ phase' = f  BY <1>1, <1>5, <2>1, <2>2, <2>4 DEF Stopped
  <2>6. o.status = "running"  BY <1>1, <1>2, <1>5 DEF Course
  <2>7. Course(f, n) /\ Told(f, n)
    BY <1>1, <2>1, <2>3, <2>4, <2>6 DEF Course, Told, Body, Active
  <2>8. n.status = "succeeded" => plan.action = "stop"  BY <2>1, <2>3, <2>6
  <2>9. QED  BY <1>2, <1>3, <1>4, <2>3, <2>4, <2>5, <2>7, <2>8, Moves
<1>6. CASE op.stage = "cleanup"
  <2>1. op' = o /\ phase' = "recovering"  BY <1>1, <1>6 DEF Stopped
  <2>2. Course("recovering", o) /\ Told("recovering", o)
    BY <1>1, <1>2, <1>4, <1>6 DEF Course, Told, Body, Active
  <2>3. QED  BY <1>2, <1>3, <1>4, <2>1, <2>2, Moves
<1>7. CASE op.stage = "recovery"
  <2>1. op' = o /\ phase' = "starting"  BY <1>1, <1>7 DEF Stopped
  <2>2. Course("starting", o) /\ Told("starting", o)
    BY <1>1, <1>2, <1>4, <1>7 DEF Course, Told, Body, Active
  <2>3. QED  BY <1>1, <1>2, <1>3, <1>4, <1>7, <2>1, <2>2, Moves
<1>8. QED  BY <1>5, <1>6, <1>7 DEF Stopped

\* The actions that stop, or fail.
LEMMA StoppingStep ==
  ASSUME IInv, NothingToStop \/ SeenStopped
  PROVE  IInv'
  BY StoppedStep DEF NothingToStop, SeenStopped

LEMMA RaisingStep ==
  ASSUME IInv,
         \/ StopRefused \/ StopFails \/ LaunchFails \/ RecordLaunchFails \/ LaunchRejected
         \/ ProtectedChanged \/ ReadCommittedFails \/ SelectFails
  PROVE  IInv'
<1>1. CASE LaunchRejected
  <2>1. Deaths /\ port' \in Proc \cup {None, Foreign}  BY <1>1, ChildKilled DEF LaunchRejected
  <2>2. stopFile' \in BOOLEAN  BY <1>1 DEF LaunchRejected, IInv, TypeOK
  <2>3. QED  BY <1>1, <2>1, <2>2, RaisedStep DEF LaunchRejected, books, Body
<1>2. CASE ~LaunchRejected
  <2>1. /\ procs' = procs /\ port' = port /\ stopFile' \in {stopFile, FALSE}
        /\ UNCHANGED <<record, selected, receipt, plan, pointer, gate, counts>>
        /\ Raised /\ phase \in Body
    BY <1>2 DEF StopRefused, StopFails, LaunchFails, RecordLaunchFails, ProtectedChanged,
                ReadCommittedFails, SelectFails, service, books, Body
  <2>2. Deaths  BY <2>1, NobodyDied
  <2>3. port' \in Proc \cup {None, Foreign} /\ stopFile' \in BOOLEAN  BY <2>1 DEF IInv, TypeOK
  <2>4. QED  BY <2>1, <2>2, <2>3, RaisedStep
<1>3. QED  BY <1>1, <1>2

-----------------------------------------------------------------------------
(* The course of an operation.                                             *)

\* The surroundings of a step that is the operation's own.
LEMMA Quiet ==
  ASSUME IInv, UNCHANGED <<procs, port, record, selected, receipt, plan, gate, operations>>
  PROVE  /\ Deaths /\ port' \in Proc \cup {None, Foreign}
         /\ UNCHANGED <<record, selected, receipt, plan, gate, operations>>
         /\ stopFile' = stopFile => stopFile' \in BOOLEAN
         /\ pointer' = pointer => pointer' \in Pointer
         /\ publications' = publications => publications' \in 0..MaxPublished
  BY NobodyDied DEF IInv, TypeOK

LEMMA DeclineStep ==
  ASSUME IInv, Decline
  PROVE  IInv'
<1>1. PICK o \in Local : o = op /\ Course(phase, o) /\ Told(phase, o)  BY Mine
<1>2. /\ op' = o /\ phase' = "leaving" /\ phase \in {"entered", "begun"}
      /\ UNCHANGED <<service, books, pointer, plan, gate, counts>>
  BY <1>1 DEF Decline
<1>3. o.status = "running"  BY <1>1, <1>2 DEF Course
<1>4. Course("leaving", o) /\ Told("leaving", o)
  BY <1>1, <1>2, <1>3 DEF Course, Told, Body, Active
<1>5. "leaving" \in Phase /\ "leaving" \notin Active  BY DEF Phase, Handler, Active, Body
<1>6. QED  BY <1>2, <1>3, <1>4, <1>5, Quiet, Moves DEF service, books, counts

LEMMA ReadBeforeStep ==
  ASSUME IInv, ReadBefore
  PROVE  IInv'
<1>1. PICK o \in Local : o = op /\ Course(phase, o) /\ Told(phase, o)  BY Mine
<1>2. phase = "begun" /\ UNCHANGED <<service, books, pointer, plan, gate, counts>>
  BY DEF ReadBefore
<1>3. o.stage = "forward" /\ o.status = "running" /\ o.recovery = "none"
  BY <1>1, <1>2 DEF Course, Active
<1>4. PICK n : n = [o EXCEPT !.before = pointer]  OBVIOUS
<1>5. /\ n \in Local /\ n.stage = "forward" /\ n.status = "running" /\ n.recovery = "none"
      /\ n.own = o.own /\ n.attempted = o.attempted
  BY <1>1, <1>3, <1>4 DEF Local, IInv, TypeOK
<1>6. PICK f \in {"starting", "stopping"} :
          f = IF plan.action = "start" THEN "starting" ELSE "stopping"
  OBVIOUS
<1>7. op' = n /\ phase' = f  BY <1>1, <1>4, <1>6 DEF ReadBefore
<1>8. Course(f, n) /\ Told(f, n)  BY <1>1, <1>5, <1>6 DEF Course, Told, Body, Active
<1>9. /\ f \in Phase /\ phase \in Active \ {"finishing"}
      /\ f = "starting" => ~Alive(record.proc)
  BY <1>2, <1>6 DEF Phase, Handler, Active, Body, IInv, Gone
<1>10. QED
  BY <1>2, <1>5, <1>6, <1>7, <1>8, <1>9, Quiet, Moves DEF service, books, counts

LEMMA AskToStopStep ==
  ASSUME IInv, AskToStop
  PROVE  IInv'
<1>1. PICK o \in Local : o = op /\ Course(phase, o) /\ Told(phase, o)  BY Mine
<1>2. /\ op' = o /\ phase = "stopping" /\ phase' = "awaiting" /\ stopFile' = TRUE
      /\ UNCHANGED <<procs, port, books, pointer, plan, gate, counts>>
  BY <1>1 DEF AskToStop
<1>3. Course("awaiting", o) /\ Told("awaiting", o)
  BY <1>1, <1>2 DEF Course, Told, Body, Active
<1>4. "awaiting" \in Phase /\ phase \in Active \ {"finishing"}  BY <1>2 DEF Phase, Handler, Active, Body
<1>5. QED  BY <1>2, <1>3, <1>4, Quiet, Moves DEF books, counts

LEMMA ProtectedUnchangedStep ==
  ASSUME IInv, ProtectedUnchanged
  PROVE  IInv'
<1>1. PICK o \in Local : o = op /\ Course(phase, o) /\ Told(phase, o)  BY Mine
<1>2. PICK f \in {"committing", "selecting"} :
          f = IF plan.action = "activate" THEN "committing" ELSE "selecting"
  OBVIOUS
<1>3. /\ op' = o /\ phase = "protecting" /\ phase' = f
      /\ UNCHANGED <<service, books, pointer, plan, gate, counts>>
  BY <1>1, <1>2 DEF ProtectedUnchanged
<1>4. Course(f, o) /\ Told(f, o)
  BY <1>1, <1>2, <1>3 DEF Course, Told, Body, Active
<1>5. f \in Phase /\ phase \in Active \ {"finishing"} /\ plan.action # "stop"
  BY <1>1, <1>2, <1>3 DEF Phase, Handler, Active, Body, Course, IInv, BeyondStop
<1>6. QED  BY <1>2, <1>3, <1>4, <1>5, Quiet, Moves DEF service, books, counts

LEMMA CommitStep ==
  ASSUME IInv, Commit
  PROVE  IInv'
<1>1. PICK o \in Local : o = op /\ Course(phase, o) /\ Told(phase, o)  BY Mine
<1>2. PICK k : k = [candidate |-> CandidateOf[plan.target], number |-> publications + 1]
  OBVIOUS
<1>3. PICK told \in BOOLEAN :
          /\ op' = [op EXCEPT !.attempted = TRUE, !.own = k,
                              !.status = IF told THEN @ ELSE "failed"]
          /\ phase' = IF told THEN "committed" ELSE "failing"
  BY <1>2 DEF Commit
<1>4. /\ phase = "committing" /\ pointer' = k /\ publications' = publications + 1
      /\ publications < MaxPublished
      /\ UNCHANGED <<service, books, plan, gate, operations>>
  BY <1>2 DEF Commit
<1>5. publications' \in 0..MaxPublished
  BY <1>4, ControlAssumption DEF IInv, TypeOK
<1>6. plan.action = "activate" => k.candidate = CandidateOf[plan.target]
  BY <1>2
<1>7. k \in Pointer
  <2>1. plan.target \in Accepted  BY <1>4 DEF IInv, Planned
  <2>2. QED  BY <1>2, <1>4, <1>5, <2>1, ControlAssumption DEF Pointer
<1>8. o.status = "running" /\ o.stage = "forward" /\ o.recovery = "none"
  BY <1>1, <1>4 DEF Course, Body, Active
<1>9. PICK v \in {"running", "failed"} : v = IF told THEN "running" ELSE "failed"  OBVIOUS
<1>10. PICK n : n = [o EXCEPT !.attempted = TRUE, !.own = k, !.status = v]  OBVIOUS
<1>11. /\ n \in Local /\ n.stage = "forward" /\ n.status = v /\ n.recovery = "none"
       /\ n.own = k /\ n.attempted = TRUE
  BY <1>7, <1>8, <1>10 DEF Local
<1>12. PICK f \in {"committed", "failing"} : f = IF told THEN "committed" ELSE "failing"  OBVIOUS
<1>13. op' = n /\ phase' = f  BY <1>1, <1>3, <1>8, <1>9, <1>10, <1>12
<1>14. Course(f, n) /\ Told(f, n)
  BY <1>9, <1>11, <1>12 DEF Course, Told, Body, Active
<1>15. /\ f \in Phase /\ phase \in Active \ {"finishing"} /\ plan.action = "activate"
       /\ n.own.candidate = CandidateOf[plan.target]
  BY <1>4, <1>6, <1>11, <1>12 DEF Phase, Handler, Active, Body, IInv, Planned
<1>16. QED
  BY <1>4, <1>5, <1>7, <1>9, <1>11, <1>12, <1>13, <1>14, <1>15, Quiet, Moves DEF service, books

LEMMA CommitFailsStep ==
  ASSUME IInv, CommitFails
  PROVE  IInv'
<1>1. PICK o \in Local : o = op /\ Course(phase, o) /\ Told(phase, o)  BY Mine
<1>2. phase = "committing" /\ UNCHANGED <<service, books, pointer, plan, gate, counts>>
  BY DEF CommitFails
<1>3. o.stage = "forward" /\ o.recovery = "none"  BY <1>1, <1>2 DEF Course, Body, Active
<1>4. PICK n : n = [o EXCEPT !.attempted = TRUE, !.status = "failed"]  OBVIOUS
<1>5. /\ n \in Local /\ n.stage = "forward" /\ n.status = "failed" /\ n.recovery = "none"
      /\ n.own = o.own /\ n.attempted = TRUE
  BY <1>1, <1>3, <1>4 DEF Local
<1>6. op' = n /\ phase' = "failing"  BY <1>1, <1>4 DEF CommitFails
<1>7. Course("failing", n) /\ Told("failing", n)  BY <1>5 DEF Course, Told, Body, Active
<1>8. "failing" \in Phase /\ phase \in Active \ {"finishing"}  BY <1>2 DEF Phase, Handler, Active, Body
<1>9. QED  BY <1>2, <1>5, <1>6, <1>7, <1>8, Quiet, Moves DEF service, books, counts

LEMMA ReadCommittedStep ==
  ASSUME IInv, ReadCommitted
  PROVE  IInv'
<1>1. PICK o \in Local : o = op /\ Course(phase, o) /\ Told(phase, o)  BY Mine
<1>2. phase = "committed" /\ UNCHANGED <<service, books, pointer, plan, gate, counts>>
  BY DEF ReadCommitted
<1>3. o.stage = "forward" /\ o.status = "running" /\ o.recovery = "none"
  BY <1>1, <1>2 DEF Course, Body, Active
<1>4. PICK n : n = [o EXCEPT !.committed = pointer]  OBVIOUS
<1>5. /\ n \in Local /\ n.stage = "forward" /\ n.status = "running" /\ n.recovery = "none"
      /\ n.own = o.own /\ n.attempted = o.attempted
  BY <1>1, <1>3, <1>4 DEF Local, IInv, TypeOK
<1>6. op' = n /\ phase' = "selecting"  BY <1>1, <1>4 DEF ReadCommitted
<1>7. Course("selecting", n) /\ Told("selecting", n)
  BY <1>1, <1>5 DEF Course, Told, Body, Active
<1>8. /\ "selecting" \in Phase /\ phase \in Active \ {"finishing"}
      /\ plan.action = "activate" /\ n.own.candidate = CandidateOf[plan.target]
  BY <1>1, <1>2, <1>5 DEF Phase, Handler, Active, Body, IInv, Planned, TargetStarted
<1>9. QED  BY <1>2, <1>5, <1>6, <1>7, <1>8, Quiet, Moves DEF service, books, counts

\* The recovery of the pointer, whichever way it goes, is told.
LEMMA PointerRecoveryStep ==
  ASSUME IInv, NothingCommitted \/ RestorePointer \/ RestoreFails
  PROVE  IInv'
<1>1. PICK o \in Local : o = op /\ Course(phase, o) /\ Told(phase, o)  BY Mine
<1>2. /\ phase = "failing" /\ phase' = "cleaning" /\ pointer' \in {pointer, o.before}
      /\ UNCHANGED <<service, books, plan, gate, counts>>
  BY <1>1 DEF NothingCommitted, RestorePointer, RestoreFails
<1>3. o.status = "failed" /\ o.recovery = "none"  BY <1>1, <1>2 DEF Course, Body, Active
<1>4. PICK v \in Outcome \cup {"unconfirmed"} :
          /\ op' = [o EXCEPT !.pointerRecovery = v]
          /\ o.attempted => v # "none"
  BY <1>1 DEF NothingCommitted, RestorePointer, RestoreFails, Outcome, Local
<1>5. PICK n : n = [o EXCEPT !.pointerRecovery = v]  OBVIOUS
<1>6. /\ n \in Local /\ n.stage = o.stage /\ n.status = "failed" /\ n.recovery = "none"
      /\ n.own = o.own /\ n.attempted = o.attempted /\ n.pointerRecovery = v
  BY <1>1, <1>3, <1>5 DEF Local
<1>7. Course("cleaning", n) /\ Told("cleaning", n)
  BY <1>1, <1>4, <1>6 DEF Course, Told, Body, Active
<1>8. "cleaning" \in Phase /\ phase \in Active \ {"finishing"}  BY <1>2 DEF Phase, Handler, Active, Body
<1>9. pointer' \in Pointer  BY <1>1, <1>2 DEF IInv, TypeOK, Local
<1>10. QED
  BY <1>2, <1>4, <1>5, <1>6, <1>7, <1>8, <1>9, Quiet, Moves DEF service, books, counts

LEMMA CleanUpTargetStep ==
  ASSUME IInv, CleanUpTarget
  PROVE  IInv'
<1>1. PICK o \in Local : o = op /\ Course(phase, o) /\ Told(phase, o)  BY Mine
<1>2. phase = "cleaning" /\ UNCHANGED <<service, books, pointer, plan, gate, counts>>
  BY DEF CleanUpTarget
<1>3. o.status = "failed" /\ o.recovery = "none"  BY <1>1, <1>2 DEF Course, Body, Active
<1>4. PICK n : n = [o EXCEPT !.stage = "cleanup"]  OBVIOUS
<1>5. /\ n \in Local /\ n.stage = "cleanup" /\ n.status = "failed" /\ n.recovery = "none"
      /\ n.own = o.own /\ n.attempted = o.attempted /\ n.pointerRecovery = o.pointerRecovery
        /\ n.interrupted = o.interrupted
  BY <1>1, <1>3, <1>4 DEF Local
<1>6. PICK f \in {"stopping", "recovering"} :
          f = IF o.started THEN "stopping" ELSE "recovering"
  OBVIOUS
<1>7. op' = n /\ phase' = f  BY <1>1, <1>4, <1>6 DEF CleanUpTarget
<1>8. Course(f, n) /\ Told(f, n)
  BY <1>1, <1>2, <1>3, <1>5, <1>6 DEF Course, Told, Body, Active
<1>9. f \in Phase /\ phase \in Active \ {"finishing"}  BY <1>2, <1>6 DEF Phase, Handler, Active, Body
<1>10. QED  BY <1>2, <1>5, <1>6, <1>7, <1>8, <1>9, Quiet, Moves DEF service, books, counts

LEMMA RecoverStep ==
  ASSUME IInv, Recover
  PROVE  IInv'
<1>1. PICK o \in Local : o = op /\ Course(phase, o) /\ Told(phase, o)  BY Mine
<1>2. phase = "recovering" /\ UNCHANGED <<service, books, pointer, plan, gate, counts>>
  BY DEF Recover
<1>3. o.status = "failed" /\ o.recovery = "none"  BY <1>1, <1>2 DEF Course, Body, Active
<1>4. phase \in Active \ {"finishing"} /\ "stopping" \in Phase /\ "finishing" \in Phase
  BY <1>2 DEF Phase, Handler, Active, Body
<1>5. CASE op' = [op EXCEPT !.stage = "recovery"] /\ phase' = "stopping"
  <2>1. PICK n : n = [o EXCEPT !.stage = "recovery"]  OBVIOUS
  <2>2. /\ n \in Local /\ n.stage = "recovery" /\ n.status = "failed" /\ n.recovery = "none"
        /\ n.own = o.own /\ n.attempted = o.attempted /\ n.pointerRecovery = o.pointerRecovery
        /\ n.interrupted = o.interrupted
    BY <1>1, <1>3, <2>1 DEF Local
  <2>3. Course("stopping", n) /\ Told("stopping", n)
    BY <1>1, <1>2, <1>3, <2>2 DEF Course, Told, Body, Active
  <2>4. op' = n  BY <1>1, <1>5, <2>1
  <2>5. QED  BY <1>2, <1>4, <1>5, <2>2, <2>3, <2>4, Quiet, Moves DEF service, books, counts
<1>6. CASE op' = [op EXCEPT !.recovery = "failed"] /\ phase' = "finishing"
  <2>1. PICK n : n = [o EXCEPT !.recovery = "failed"]  OBVIOUS
  <2>2. /\ n \in Local /\ n.stage = o.stage /\ n.status = "failed" /\ n.recovery = "failed"
        /\ n.own = o.own /\ n.attempted = o.attempted /\ n.pointerRecovery = o.pointerRecovery
        /\ n.interrupted = o.interrupted
    BY <1>1, <1>3, <2>1 DEF Local, Outcome
  <2>3. Course("finishing", n) /\ Told("finishing", n)
    BY <1>1, <1>2, <1>3, <2>2 DEF Course, Told, Body, Active
  <2>4. op' = n  BY <1>1, <1>6, <2>1
  <2>5. QED  BY <1>2, <1>4, <1>6, <2>2, <2>3, <2>4, Quiet, Moves DEF service, books, counts
<1>7. CASE op' = op /\ phase' = "finishing"
  <2>1. Course("finishing", o) /\ Told("finishing", o)
    BY <1>1, <1>2, <1>3 DEF Course, Told, Body, Active
  <2>2. QED  BY <1>1, <1>2, <1>3, <1>4, <1>7, <2>1, Quiet, Moves DEF service, books, counts
<1>8. QED  BY <1>5, <1>6, <1>7 DEF Recover

\* Until a try body or a handler ends, there is no verdict on it: it runs, or it
\* has failed.
LEMMA NoVerdict ==
  ASSUME IInv, phase \in Body \cup Handler
  PROVE  /\ phase \in Active \ {"finishing"} /\ phase # "idle"
         /\ op.recovery = "none" /\ op.status \in {"running", "failed"}
         /\ receipt.status = "running"
<1>1. phase \in Active \ {"finishing"} /\ phase # "idle"  BY DEF Active, Body, Handler
<1>2. QED  BY <1>1, Mine DEF Course, Local, Body, Handler, Active, IInv, FirstReceipt

\* What an interrupt leaves of the local variables.
LEMMA InterruptedVariables ==
  ASSUME IInv, phase \in Body \cup Handler, Interrupted
  PROVE  /\ op' \in Local /\ op'.interrupted = TRUE
         /\ op'.status = op.status /\ op'.stage = op.stage /\ op'.recovery = op.recovery
         /\ op'.own = op.own /\ op'.before = op.before /\ op'.committed = op.committed
         /\ op'.pointerRecovery = op.pointerRecovery
         /\ Course("finishing", op') /\ Told("finishing", op')
         /\ phase' = "finishing" /\ phase' \in Phase
<1>1. PICK o \in Local : o = op /\ Course(phase, o) /\ Told(phase, o)  BY Mine
<1>2. PICK n : n = [o EXCEPT !.interrupted = TRUE]  OBVIOUS
<1>3. /\ n \in Local /\ n.interrupted = TRUE
      /\ n.status = o.status /\ n.stage = o.stage /\ n.recovery = o.recovery
      /\ n.own = o.own /\ n.before = o.before /\ n.committed = o.committed
      /\ n.attempted = o.attempted /\ n.pointerRecovery = o.pointerRecovery
  BY <1>1, <1>2 DEF Local
<1>4. op' = n /\ phase' = "finishing"  BY <1>1, <1>2 DEF Interrupted
<1>5. Course("finishing", n) /\ Told("finishing", n)
  BY <1>1, <1>3 DEF Course, Told, Body, Active
<1>6. QED  BY <1>1, <1>3, <1>4, <1>5 DEF Phase, Handler

\* An interrupt that leaves records and selection alone.
LEMMA InterruptMoves ==
  ASSUME IInv, phase \in Body \cup Handler, Interrupted, Deaths,
         UNCHANGED <<books, plan, gate, counts>>,
         port' \in Proc \cup {None, Foreign}, stopFile' \in BOOLEAN, pointer' \in Pointer
  PROVE  IInv'
<1>1. PICK n \in Local :
          /\ n = op' /\ Course("finishing", n) /\ Told("finishing", n)
          /\ n.status = op.status /\ n.recovery = op.recovery
  BY InterruptedVariables
<1>2. /\ phase \in Active \ {"finishing"} /\ phase # "idle" /\ phase' = "finishing"
      /\ phase' \in Phase /\ n.status # "succeeded" /\ n.recovery # "restored"
  BY <1>1, NoVerdict, InterruptedVariables
<1>3. publications' \in 0..MaxPublished  BY DEF IInv, TypeOK, counts
<1>4. QED  BY <1>1, <1>2, <1>3, Moves DEF books, counts

LEMMA InterruptStep ==
  ASSUME IInv, Interrupt
  PROVE  IInv'
<1>1. /\ phase \in Body \cup Handler /\ Interrupted
      /\ UNCHANGED <<stopFile, books, pointer, plan, gate, counts>>
  BY DEF Interrupt
<1>2. Deaths /\ port' \in Proc \cup {None, Foreign}
  <2>1. CASE phase = "watching"  BY <2>1, ChildKilled DEF Interrupt
  <2>2. CASE phase # "watching"
    <3>1. procs' = procs /\ port' = port  BY <2>2 DEF Interrupt
    <3>2. QED  BY <3>1, NobodyDied DEF IInv, TypeOK
  <2>3. QED  BY <2>1, <2>2
<1>3. pointer' \in Pointer /\ stopFile' \in BOOLEAN  BY <1>1 DEF IInv, TypeOK
<1>4. QED  BY <1>1, <1>2, <1>3, InterruptMoves

\* What an interrupt does after the effect of a step, and the phases it meets.
LEMMA InterruptLateStep ==
  ASSUME IInv, InterruptLate
  PROVE  IInv'
<1>1. /\ phase \in Body \cup Handler /\ Interrupted /\ UNCHANGED <<plan, gate, counts>>
  BY DEF InterruptLate, Body, Handler
<1>2. CASE phase \in {"starting", "failing"}
  <2>1. /\ stopFile' \in {stopFile, FALSE} /\ pointer' \in {pointer, op.before}
        /\ UNCHANGED <<procs, port, books>>
    BY <1>2 DEF InterruptLate, service
  <2>2. op.before \in Pointer  BY Mine DEF Local
  <2>3. /\ stopFile' \in BOOLEAN /\ pointer' \in Pointer
        /\ Deaths /\ port' \in Proc \cup {None, Foreign}
    BY <2>1, <2>2, NobodyDied DEF IInv, TypeOK
  <2>4. QED  BY <1>1, <2>1, <2>3, InterruptMoves
<1>3. phase' = "finishing" /\ op' \in Local /\ phase' \in Phase
      /\ op'.status # "succeeded" /\ op'.recovery # "restored"
  BY <1>1, NoVerdict, InterruptedVariables
<1>4. Course(phase, op)' /\ Told(phase, op)'  BY <1>1, <1>3, InterruptedVariables
<1>5. Planned' /\ BeyondStop'
  BY <1>1, <1>3, NoVerdict DEF IInv, Planned, BeyondStop
<1>6. receipt' = receipt => NotYetSelected' /\ FirstReceipt'
  BY <1>1, <1>3, NoVerdict DEF NotYetSelected, FirstReceipt
<1>7. Gone' /\ Launched' /\ TargetStarted' /\ Success' /\ Restored'
  BY <1>3 DEF Gone, Launched, TargetStarted, Success, Restored
<1>8. receipt' = receipt => Explained'  BY <1>1, NoVerdict DEF Explained
<1>9. CASE phase = "watching"
  <2>1. /\ record' = [record EXCEPT !.verified = TRUE] /\ KillChild
        /\ UNCHANGED <<stopFile, selected, receipt, pointer>>
    BY <1>9 DEF InterruptLate
  <2>2. Deaths /\ port' \in Proc \cup {None, Foreign}  BY <1>9, <2>1, ChildKilled
  <2>3. record.proc = op.child /\ op.child \in Proc /\ procs[op.child].is # "unborn"
    BY <1>9 DEF IInv, Launched
  <2>4. record' \in Record /\ record'.proc = op.child
    BY <2>1, <2>3 DEF IInv, TypeOK, Record
  <2>5. TypeOK'
    BY <1>1, <1>3, <2>1, <2>2, <2>4 DEF IInv, TypeOK, Deaths, gate, counts
  <2>6. Recorded'  BY <2>2, <2>3, <2>4 DEF Recorded, Deaths
  <2>7. QED  BY <1>4, <1>5, <1>6, <1>7, <1>8, <2>1, <2>5, <2>6 DEF IInv
<1>10. CASE phase = "selecting"
  <2>1. /\ selected' = plan.target
        /\ UNCHANGED <<procs, port, stopFile, record, receipt, pointer>>
    BY <1>10 DEF InterruptLate, service
  <2>2. plan.target \in Runtime  BY <1>10 DEF IInv, Planned
  <2>3. TypeOK'  BY <1>1, <1>3, <2>1, <2>2 DEF IInv, TypeOK, gate, counts
  <2>4. Recorded'  BY <2>1 DEF IInv, Recorded
  <2>5. QED  BY <1>4, <1>5, <1>6, <1>7, <1>8, <2>1, <2>3, <2>4 DEF IInv
<1>11. QED  BY <1>2, <1>9, <1>10 DEF InterruptLate

LEMMA CrashStep ==
  ASSUME IInv, Crash
  PROVE  IInv'
<1>1. PICK o \in Local : o = op /\ Course(phase, o) /\ Told(phase, o)  BY Mine
<1>2. /\ op' = o /\ phase # "idle" /\ phase' = "crashed"
      /\ UNCHANGED <<service, books, pointer, plan, gate, counts>>
  BY <1>1 DEF Crash
<1>3. Course("crashed", o) /\ Told("crashed", o)
  BY <1>1, <1>2 DEF Course, Told, Body, Active
<1>4. "crashed" \in Phase /\ "crashed" \notin Active  BY DEF Phase, Handler, Active, Body
<1>5. QED  BY <1>2, <1>3, <1>4, Quiet, Moves DEF service, books, counts

-----------------------------------------------------------------------------
(* Launching, recording and selecting.                                     *)

LEMMA LaunchStep ==
  ASSUME IInv, NEW p \in Proc, Launch(p)
  PROVE  IInv'
<1>1. PICK o \in Local : o = op /\ Course(phase, o) /\ Told(phase, o)  BY Mine
<1>2. /\ phase = "starting" /\ phase' = "launched" /\ port' = port /\ stopFile' = FALSE
      /\ UNCHANGED <<record, selected, receipt, pointer, plan, gate, counts>>
  BY DEF Launch, books
<1>3. procs[p].is = "unborn"
  <2>1. p >= p  BY ControlAssumption
  <2>2. QED  BY <2>1 DEF Launch
<1>4. PICK r \in Runtime : r = Launching
  BY <1>2 DEF IInv, Planned, Launching
<1>5. PICK k \in Process : k = [runtime |-> r, is |-> "starting"]  BY DEF Process
<1>6. procs' = [procs EXCEPT ![p] = k]  BY <1>4, <1>5 DEF Launch
<1>7. /\ procs' \in [Proc -> Process] /\ procs'[p] = k
      /\ \A q \in Proc \ {p} : procs'[q] = procs[q]
      /\ k.runtime = r /\ k.is = "starting"
  BY <1>5, <1>6 DEF IInv, TypeOK
<1>8. record.proc # p  BY <1>3 DEF IInv, Recorded
<1>9. PICK n : n = [o EXCEPT !.child = p]  OBVIOUS
<1>10. /\ n \in Local /\ n.stage = o.stage /\ n.status = o.status /\ n.recovery = o.recovery
       /\ n.own = o.own /\ n.attempted = o.attempted /\ n.pointerRecovery = o.pointerRecovery
        /\ n.interrupted = o.interrupted
       /\ n.child = p
  BY <1>1, <1>9 DEF Local
<1>11. op' = n  BY <1>1, <1>9 DEF Launch
<1>12. TypeOK'
  BY <1>2, <1>7, <1>10, <1>11 DEF IInv, TypeOK, Phase, Handler, Body, gate, counts
<1>13. Planned' /\ BeyondStop'
  BY <1>1, <1>2, <1>10, <1>11 DEF IInv, Planned, BeyondStop
<1>14. Recorded'  BY <1>2, <1>7, <1>8 DEF IInv, Recorded
<1>15. Course(phase, op)' /\ Told(phase, op)'
  BY <1>1, <1>2, <1>10, <1>11 DEF Course, Told, Body, Active
<1>16. NotYetSelected' /\ FirstReceipt'
  BY <1>1, <1>2, <1>10, <1>11 DEF IInv, NotYetSelected, FirstReceipt, Active, Body
<1>17. Gone'  BY <1>2, <1>7, <1>8 DEF IInv, Gone, Alive
<1>18. Launched'
  BY <1>1, <1>2, <1>4, <1>5, <1>7, <1>10, <1>11 DEF Launched, Launching
<1>19. TargetStarted' /\ Success' /\ Restored'  BY <1>2 DEF TargetStarted, Success, Restored
<1>20. Explained'  BY <1>2 DEF IInv, FirstReceipt, Active, Body, Explained
<1>21. QED
  BY <1>12, <1>13, <1>14, <1>15, <1>16, <1>17, <1>18, <1>19, <1>20 DEF IInv

LEMMA RecordLaunchStep ==
  ASSUME IInv, RecordLaunch
  PROVE  IInv'
<1>1. /\ phase = "launched" /\ phase' = "watching"
      /\ record' = [proc |-> op.child, verified |-> FALSE]
      /\ UNCHANGED <<procs, port, stopFile, selected, receipt, pointer, plan, op, gate, counts>>
  BY DEF RecordLaunch, service
<1>2. op.child \in Proc /\ procs[op.child].is # "unborn"  BY <1>1 DEF IInv, Launched
<1>3. record'.proc = op.child /\ record'.verified = FALSE /\ record' \in Record
  BY <1>1, <1>2 DEF Record
<1>4. TypeOK'  BY <1>1, <1>3 DEF IInv, TypeOK, Phase, Handler, Body, gate, counts
<1>5. Planned' /\ BeyondStop'  BY <1>1 DEF IInv, Planned, BeyondStop
<1>6. Recorded'  BY <1>1, <1>2, <1>3 DEF Recorded
<1>7. Course(phase, op)' /\ Told(phase, op)'
  BY <1>1, Mine DEF Course, Told, Body, Active
<1>8. NotYetSelected' /\ FirstReceipt'
  BY <1>1 DEF IInv, NotYetSelected, FirstReceipt, Active, Body
<1>9. Gone'  BY <1>1 DEF Gone
<1>10. Launched'  BY <1>1, <1>3 DEF IInv, Launched, Launching
<1>11. TargetStarted' /\ Success' /\ Restored'  BY <1>1 DEF TargetStarted, Success, Restored
<1>12. Explained'  BY <1>3 DEF Explained
<1>13. QED
  BY <1>4, <1>5, <1>6, <1>7, <1>8, <1>9, <1>10, <1>11, <1>12 DEF IInv

LEMMA VerifyLaunchStep ==
  ASSUME IInv, VerifyLaunch
  PROVE  IInv'
<1>1. PICK o \in Local : o = op /\ Course(phase, o) /\ Told(phase, o)  BY Mine
<1>2. /\ phase = "watching" /\ record' = [record EXCEPT !.verified = TRUE] /\ Started
      /\ UNCHANGED <<procs, port, stopFile, selected, receipt, pointer, plan, gate, counts>>
  BY DEF VerifyLaunch, service
<1>3. /\ o.child \in Proc /\ procs[o.child].is # "unborn" /\ record.proc = o.child
      /\ procs[o.child].runtime = IF o.stage = "forward" THEN plan.target ELSE plan.previous
  BY <1>1, <1>2 DEF IInv, Launched, Launching
<1>4. record' \in Record /\ record'.proc = o.child /\ record'.verified = TRUE
  BY <1>2, <1>3 DEF IInv, TypeOK, Record
<1>5. Planned' /\ BeyondStop'
  BY <1>1, <1>2 DEF IInv, Planned, BeyondStop, Started
<1>6. Recorded'  BY <1>2, <1>3, <1>4 DEF Recorded
<1>7. Explained'  BY <1>2 DEF IInv, FirstReceipt, Active, Body, Explained
<1>8. o.recovery = "none"  BY <1>1, <1>2 DEF Course, Active, Body
<1>9. CASE o.stage = "forward"
  <2>1. PICK n : n = [o EXCEPT !.started = TRUE]  OBVIOUS
  <2>2. /\ n \in Local /\ n.stage = "forward" /\ n.status = o.status /\ n.recovery = "none"
        /\ n.own = o.own /\ n.attempted = o.attempted /\ n.pointerRecovery = o.pointerRecovery
        /\ n.interrupted = o.interrupted
    BY <1>1, <1>8, <1>9, <2>1 DEF Local
  <2>3. op' = n /\ phase' = "protecting"  BY <1>1, <1>2, <1>9, <2>1 DEF Started
  <2>4. TypeOK'
    BY <1>2, <1>4, <2>2, <2>3 DEF IInv, TypeOK, Phase, Handler, Body, gate, counts
  <2>5. Course(phase, op)' /\ Told(phase, op)'
    BY <1>1, <1>2, <1>9, <2>2, <2>3 DEF Course, Told, Body, Active
  <2>6. NotYetSelected' /\ FirstReceipt'
    BY <1>1, <1>2, <2>2, <2>3 DEF IInv, NotYetSelected, FirstReceipt, Active, Body
  <2>7. Gone' /\ Launched' /\ Success' /\ Restored'
    BY <2>3 DEF Gone, Launched, Success, Restored
  <2>8. TargetStarted'
    BY <1>2, <1>3, <1>4, <1>9, <2>3 DEF TargetStarted, RecordedIn
  <2>9. QED
    BY <1>5, <1>6, <1>7, <2>3, <2>4, <2>5, <2>6, <2>7, <2>8 DEF IInv
<1>10. CASE o.stage # "forward"
  <2>1. PICK n : n = [o EXCEPT !.recovery = "restored"]  OBVIOUS
  <2>2. /\ n \in Local /\ n.stage = o.stage /\ n.status = o.status /\ n.recovery = "restored"
        /\ n.own = o.own /\ n.attempted = o.attempted /\ n.pointerRecovery = o.pointerRecovery
        /\ n.interrupted = o.interrupted
    BY <1>1, <2>1 DEF Local, Outcome
  <2>3. op' = n /\ phase' = "finishing"  BY <1>1, <1>2, <1>10, <2>1 DEF Started
  <2>4. TypeOK'
    BY <1>2, <1>4, <2>2, <2>3 DEF IInv, TypeOK, Phase, Handler, Body, gate, counts
  <2>5. Course(phase, op)' /\ Told(phase, op)'
    BY <1>1, <1>2, <1>10, <2>2, <2>3 DEF Course, Told, Body, Active
  <2>6. NotYetSelected' /\ FirstReceipt'
    <3>1. phase \in Active \ {"finishing"}  BY <1>2 DEF Active, Body
    <3>2. QED  BY <1>2, <2>3, <3>1 DEF IInv, NotYetSelected, FirstReceipt
  <2>7. Gone' /\ Launched' /\ TargetStarted'
    BY <2>3 DEF Gone, Launched, TargetStarted
  <2>8. o.status = "failed"  BY <1>1, <1>10 DEF Course
  <2>9. Success'  BY <2>2, <2>3, <2>8 DEF Success
  <2>10. Restored'
    BY <1>2, <1>3, <1>4, <1>10, <2>3 DEF Restored, RecordedIn
  <2>11. QED
    BY <1>5, <1>6, <1>7, <2>3, <2>4, <2>5, <2>6, <2>7, <2>9, <2>10 DEF IInv
<1>11. QED  BY <1>9, <1>10

LEMMA SelectStep ==
  ASSUME IInv, Select
  PROVE  IInv'
<1>1. PICK o \in Local : o = op /\ Course(phase, o) /\ Told(phase, o)  BY Mine
<1>2. /\ phase = "selecting" /\ phase' = "finishing" /\ selected' = plan.target
      /\ UNCHANGED <<procs, port, stopFile, record, receipt, pointer, plan, gate, counts>>
  BY DEF Select, service
<1>3. o.stage = "forward" /\ o.recovery = "none"  BY <1>1, <1>2 DEF Course, Active, Body
<1>4. PICK n : n = [o EXCEPT !.status = "succeeded"]  OBVIOUS
<1>5. /\ n \in Local /\ n.stage = "forward" /\ n.status = "succeeded" /\ n.recovery = "none"
      /\ n.own = o.own /\ n.attempted = o.attempted
  BY <1>1, <1>3, <1>4 DEF Local
<1>6. op' = n  BY <1>1, <1>4 DEF Select
<1>7. plan.target \in Runtime  BY <1>2 DEF IInv, Planned
<1>8. TypeOK'
  BY <1>2, <1>5, <1>6, <1>7 DEF IInv, TypeOK, Phase, Handler, Body, gate, counts
<1>9. Planned' /\ BeyondStop' /\ Recorded'  BY <1>2 DEF IInv, Planned, BeyondStop, Recorded
<1>10. Course(phase, op)' /\ Told(phase, op)'
  BY <1>1, <1>2, <1>5, <1>6 DEF Course, Told, Body, Active
<1>11. NotYetSelected' /\ FirstReceipt'
  BY <1>2, <1>5, <1>6 DEF IInv, NotYetSelected, FirstReceipt, Active, Body
<1>12. Gone' /\ Launched' /\ TargetStarted' /\ Restored'
  BY <1>2, <1>5, <1>6 DEF Gone, Launched, TargetStarted, Restored
<1>13. RecordedIn(plan.target)' /\
       (plan.action = "activate" => o.own.candidate = CandidateOf[plan.target])
  BY <1>1, <1>2 DEF IInv, TargetStarted, RecordedIn
<1>14. plan.action # "stop"  BY <1>1, <1>2, <1>3 DEF IInv, BeyondStop
<1>15. Success'  BY <1>1, <1>2, <1>5, <1>6, <1>13, <1>14 DEF Success, RecordedIn
<1>16. Explained'  BY <1>2 DEF IInv, FirstReceipt, Active, Body, Explained
<1>17. QED  BY <1>8, <1>9, <1>10, <1>11, <1>12, <1>15, <1>16 DEF IInv

-----------------------------------------------------------------------------
(* The beginning and the end of an operation.                              *)

LEMMA ReviewStep ==
  ASSUME IInv, NEW a \in {"start", "stop", "restart", "activate"}, NEW t \in Runtime, Review(a, t)
  PROVE  IInv'
<1>1. /\ phase = "idle" /\ plan' = Preview(a, t) /\ (a = "activate" => t \in Accepted)
      /\ UNCHANGED <<procs, port, stopFile, record, selected, receipt, pointer, phase, op, gate, counts>>
  BY DEF Review, Previewable, service, books
<1>2. PICK b \in Plan : b = plan' /\ b.action = a /\ b.target = t /\ b.previous = selected
  <2>1. pointer.candidate \in Candidate \cup {None}  BY DEF IInv, TypeOK, Pointer
  <2>2. Preview(a, t) \in Plan  BY <2>1 DEF Preview, Plan, IInv, TypeOK
  <2>3. QED  BY <1>1, <2>2 DEF Preview
<1>3. TypeOK'  BY <1>1, <1>2 DEF IInv, TypeOK, gate, counts
<1>4. Planned' /\ BeyondStop'  BY <1>1, <1>2, <1>3 DEF Planned, BeyondStop, IInv, TypeOK
<1>5. Recorded'  BY <1>1 DEF IInv, Recorded
<1>6. Course(phase, op)' /\ Told(phase, op)'  BY <1>1, Mine DEF Course, Told
<1>7. NotYetSelected' /\ FirstReceipt' /\ Gone' /\ Launched'
  BY <1>1 DEF NotYetSelected, FirstReceipt, Gone, Launched, Active, Body
<1>8. TargetStarted' /\ Success' /\ Restored'  BY <1>1 DEF TargetStarted, Success, Restored
<1>9. Explained'  BY <1>1 DEF IInv, Explained, Alive
<1>10. QED  BY <1>3, <1>4, <1>5, <1>6, <1>7, <1>8, <1>9 DEF IInv

LEMMA EnterStep ==
  ASSUME IInv, Enter
  PROVE  IInv'
<1>1. /\ phase = "idle" /\ phase' = "entered" /\ plan # NoPlan
      /\ UNCHANGED <<procs, port, stopFile, record, selected, receipt, pointer, plan, op, publications>>
  BY DEF Enter, service, books
<1>2. maintainer' \in {Operation, None} /\ active' \in SUBSET Job
  BY DEF Enter, Work!Begin, IInv, TypeOK
<1>3. operations' \in 0..MaxOperations
  BY ControlAssumption DEF Enter, IInv, TypeOK
<1>4. TypeOK'  BY <1>1, <1>2, <1>3 DEF IInv, TypeOK, Phase, Handler
<1>5. Planned' /\ BeyondStop'  BY <1>1 DEF IInv, Planned, BeyondStop
<1>6. Recorded'  BY <1>1 DEF IInv, Recorded
<1>7. Course(phase, op)' /\ Told(phase, op)'  BY <1>1, Mine DEF Course, Told, Active, Body
<1>8. NotYetSelected' /\ FirstReceipt' /\ Gone' /\ Launched'
  BY <1>1 DEF NotYetSelected, FirstReceipt, Gone, Launched, Active, Body
<1>9. TargetStarted' /\ Success' /\ Restored'  BY <1>1 DEF TargetStarted, Success, Restored
<1>10. Explained'  BY <1>1 DEF IInv, Explained, Alive
<1>11. QED  BY <1>4, <1>5, <1>6, <1>7, <1>8, <1>9, <1>10 DEF IInv

\* The local variables at the beginning.
LEMMA NoOpType ==
  /\ NoPointer \in Pointer /\ NoOp \in Local
  /\ NoOp.stage = "forward" /\ NoOp.status = "running" /\ NoOp.recovery = "none"
  /\ NoOp.own = NoPointer /\ NoOp.attempted = FALSE
<1>1. NoPointer \in Pointer  BY ControlAssumption DEF NoPointer, Pointer
<1>2. QED  BY <1>1 DEF NoOp, Local, Outcome

LEMMA BeginStep ==
  ASSUME IInv, Begin
  PROVE  IInv'
<1>1. /\ phase = "entered" /\ phase' = "begun" /\ plan.previous = selected
      /\ UNCHANGED <<procs, port, stopFile, record, selected, pointer, plan, gate, counts>>
  BY DEF Begin, service, Preview
<1>2. plan.action = "start" => ~Alive(record.proc)  BY DEF Begin
<1>3. PICK b \in BOOLEAN : b = Alive(record.proc)
  <2>1. Alive(record.proc) \in BOOLEAN  BY DEF Alive
  <2>2. QED  BY <2>1
<1>4. PICK n : n = [NoOp EXCEPT !.wasRunning = b]  OBVIOUS
<1>5. /\ n \in Local /\ n.stage = "forward" /\ n.status = "running" /\ n.recovery = "none"
      /\ n.own = NoPointer /\ n.attempted = FALSE
  BY <1>4, NoOpType DEF Local
<1>6. op' = n  BY <1>3, <1>4 DEF Begin
<1>7. receipt' \in Receipt /\ receipt'.status = "running"
  BY DEF Begin, NoReceipt, Receipt, Outcome
<1>8. TypeOK'  BY <1>1, <1>5, <1>6, <1>7 DEF IInv, TypeOK, Phase, Handler, gate, counts
<1>9. Planned' /\ BeyondStop'  BY <1>1 DEF IInv, Planned, BeyondStop
<1>10. Recorded'  BY <1>1 DEF IInv, Recorded
<1>11. Course(phase, op)' /\ Told(phase, op)'
  BY <1>1, <1>5, <1>6 DEF Course, Told, Active, Body
<1>12. NotYetSelected' /\ FirstReceipt'
  BY <1>1, <1>7 DEF NotYetSelected, FirstReceipt
<1>13. Gone'  BY <1>1, <1>2 DEF Gone, Alive
<1>14. Launched' /\ TargetStarted' /\ Success' /\ Restored'
  BY <1>1 DEF Launched, TargetStarted, Success, Restored
<1>15. Explained'  BY <1>7 DEF Explained
<1>16. QED
  BY <1>8, <1>9, <1>10, <1>11, <1>12, <1>13, <1>14, <1>15 DEF IInv

LEMMA FinishStep ==
  ASSUME IInv, Finish
  PROVE  IInv'
<1>1. PICK o \in Local : o = op /\ Course(phase, o) /\ Told(phase, o)  BY Mine
<1>2. PICK v \in Receipt : v = [status |-> o.status, recovery |-> o.recovery,
                                pointerRecovery |-> o.pointerRecovery]
  BY DEF Local, Receipt
<1>3. v.status = o.status /\ v.recovery = o.recovery  BY <1>2
<1>4. /\ phase = "finishing" /\ phase' = "leaving" /\ op' = o /\ receipt' \in {receipt, v}
      /\ UNCHANGED <<procs, port, stopFile, record, selected, pointer, plan, gate, counts>>
  BY <1>1, <1>2 DEF Finish, service
<1>5. TypeOK'  BY <1>4 DEF IInv, TypeOK, Phase, Handler, gate, counts
<1>6. Planned' /\ BeyondStop'  BY <1>4 DEF IInv, Planned, BeyondStop
<1>7. Recorded'  BY <1>4 DEF IInv, Recorded
<1>8. Course(phase, op)' /\ Told(phase, op)'
  BY <1>1, <1>4 DEF Course, Told, Active, Body
<1>9. NotYetSelected' /\ FirstReceipt'
  BY <1>4 DEF NotYetSelected, FirstReceipt, Active, Body
<1>10. Gone' /\ Launched' /\ TargetStarted' /\ Restored'
  BY <1>4 DEF Gone, Launched, TargetStarted, Restored
<1>11. Success'  BY <1>1, <1>4 DEF IInv, Success, RecordedIn, Alive
<1>12. Explained'
  <2>1. CASE receipt' = receipt  BY <1>4, <2>1 DEF IInv, Explained, Alive
  <2>2. CASE receipt' = v /\ o.status = "succeeded"
    BY <1>1, <1>4, <2>2 DEF IInv, Success, RecordedIn, Explained, Alive
  <2>3. CASE receipt' = v /\ o.status = "failed" /\ o.recovery = "restored"
    <3>1. RecordedIn(plan.previous)  BY <1>1, <1>4, <2>3 DEF IInv, Restored
    <3>2. selected = plan.previous
      BY <1>1, <1>4, <2>3 DEF IInv, NotYetSelected, Active
    <3>3. QED  BY <1>4, <3>1, <3>2 DEF RecordedIn, Explained
  <2>4. CASE receipt' = v /\ (o.status = "running" \/ (o.status = "failed" /\ o.recovery # "restored"))
    BY <1>3, <2>4 DEF Explained
  <2>5. QED  BY <1>4, <2>1, <2>2, <2>3, <2>4 DEF Local
<1>13. QED
  BY <1>5, <1>6, <1>7, <1>8, <1>9, <1>10, <1>11, <1>12 DEF IInv

\* The books stay as they are when the operation is over.
LEMMA LeaveStep ==
  ASSUME IInv, Leave \/ Inspect
  PROVE  IInv'
<1>1. /\ phase' = "idle" /\ op' = NoOp /\ plan' = NoPlan
      /\ UNCHANGED <<procs, port, stopFile, record, selected, receipt, pointer, counts>>
  BY DEF Leave, Inspect, service, books
<1>2. maintainer' \in {Operation, None} /\ active' \in SUBSET Job
  BY DEF Leave, Inspect, Work!End, IInv, TypeOK
<1>3. NoPlan \in Plan  BY DEF NoPlan, Plan, NoRecord, Record
<1>4. TypeOK'  BY <1>1, <1>2, <1>3, NoOpType DEF IInv, TypeOK, Phase, Handler, counts
<1>5. Planned' /\ BeyondStop'  BY <1>1 DEF Planned, BeyondStop
<1>6. Recorded'  BY <1>1 DEF IInv, Recorded
<1>7. Course(phase, op)' /\ Told(phase, op)'  BY <1>1, NoOpType DEF Course, Told
<1>8. NotYetSelected' /\ FirstReceipt'
  BY <1>1 DEF NotYetSelected, FirstReceipt, Active, Body
<1>9. Gone' /\ Launched' /\ TargetStarted' /\ Success' /\ Restored'
  BY <1>1 DEF Gone, Launched, TargetStarted, Success, Restored
<1>10. Explained'  BY <1>1 DEF IInv, Explained, Alive
<1>11. QED  BY <1>4, <1>5, <1>6, <1>7, <1>8, <1>9, <1>10 DEF IInv

-----------------------------------------------------------------------------
(* The service, its port and its jobs, and the release command.            *)

LEMMA EnvironmentStep ==
  ASSUME IInv, Environment
  PROVE  IInv'
<1>1. ASSUME NEW p \in Proc, Bind(p) \/ StopOnRequest(p) \/ Die(p)
      PROVE  IInv'
  <2>1. PICK c \in {"serving", "stopped", "dead"} :
            /\ procs' = [procs EXCEPT ![p].is = c]
            /\ c = "serving" => procs[p].is = "starting"
    BY <1>1 DEF Bind, StopOnRequest, Die
  <2>2. Deaths  BY <2>1, OneChanges
  <2>3. port' \in Proc \cup {None, Foreign}
    BY <1>1 DEF Bind, StopOnRequest, Die, IInv, TypeOK
  <2>4. UNCHANGED <<stopFile, record, selected, receipt, pointer, plan, phase, op, gate, counts>>
    BY <1>1 DEF Bind, StopOnRequest, Die, books
  <2>5. TypeOK'  BY <2>2, <2>3, <2>4 DEF IInv, TypeOK, Deaths, gate, counts
  <2>6. QED  BY <2>2, <2>4, <2>5, Around
<1>2. CASE ForeignListener
  <2>1. TypeOK'  BY <1>2 DEF ForeignListener, IInv, TypeOK, books, gate, counts
  <2>2. QED  BY <1>2, <2>1, NobodyDied, Around DEF ForeignListener, books
<1>3. ASSUME NEW j \in Job, Jobs(j)
      PROVE  IInv'
  <2>1. maintainer' = maintainer /\ active' \in SUBSET Job
    BY <1>3 DEF Jobs, Work!Admit, Work!Finish, IInv, TypeOK
  <2>2. TypeOK'  BY <1>3, <2>1 DEF Jobs, IInv, TypeOK, service, books, counts
  <2>3. QED  BY <1>3, <2>2, NobodyDied, Around DEF Jobs, service, books
<1>4. ASSUME NEW c \in Candidate, ReleaseCommand(c)
      PROVE  IInv'
  <2>1. publications' \in 0..MaxPublished /\ publications' = publications + 1
    BY <1>4, ControlAssumption DEF ReleaseCommand, IInv, TypeOK
  <2>2. pointer' \in Pointer  BY <1>4, <2>1 DEF ReleaseCommand, Pointer
  <2>3. TypeOK'  BY <1>4, <2>1, <2>2 DEF ReleaseCommand, IInv, TypeOK, service, books, gate
  <2>4. QED  BY <1>4, <2>3, NobodyDied, Around DEF ReleaseCommand, service, books
<1>5. QED  BY <1>1, <1>2, <1>3, <1>4 DEF Environment

-----------------------------------------------------------------------------
(* The operation: the theorems.                                            *)

LEMMA InitInv == Init => IInv
<1> SUFFICES ASSUME Init PROVE IInv
  OBVIOUS
<1>1. NoRecord \in Record /\ NoPlan \in Plan /\ NoReceipt \in Receipt
  BY DEF NoRecord, Record, NoPlan, Plan, NoReceipt, Receipt, Outcome
<1>2. procs \in [Proc -> Process]  BY ControlAssumption DEF Init, Process
<1>3. maintainer = None /\ active = {}  BY DEF Init, Work!Init
<1>4. TypeOK
  <2>1. /\ port \in Proc \cup {None, Foreign} /\ stopFile \in BOOLEAN
        /\ record \in Record /\ receipt \in Receipt /\ plan \in Plan
        /\ pointer \in Pointer /\ op \in Local
    BY <1>1, NoOpType DEF Init
  <2>2. selected \in Runtime /\ phase \in Phase  BY ControlAssumption DEF Init, Phase
  <2>3. operations \in 0..MaxOperations /\ publications \in 0..MaxPublished
    BY ControlAssumption DEF Init
  <2>4. QED  BY <1>2, <1>3, <2>1, <2>2, <2>3 DEF TypeOK
<1>5. Planned /\ BeyondStop  BY DEF Init, Planned, BeyondStop
<1>6. Recorded  BY ControlAssumption DEF Init, Recorded, NoRecord
<1>7. Course(phase, op) /\ Told(phase, op)  BY NoOpType DEF Init, Course, Told
<1>8. NotYetSelected /\ FirstReceipt  BY DEF Init, NotYetSelected, FirstReceipt, Active, Body
<1>9. Gone /\ Launched /\ TargetStarted /\ Success /\ Restored
  BY DEF Init, Gone, Launched, TargetStarted, Success, Restored
<1>10. Explained  BY DEF Init, Explained, NoRecord
<1>11. QED  BY <1>4, <1>5, <1>6, <1>7, <1>8, <1>9, <1>10 DEF IInv

LEMMA NextInv == IInv /\ [Next]_vars => IInv'
<1> SUFFICES ASSUME IInv, [Next]_vars PROVE IInv'
  OBVIOUS
<1>1. CASE Execute
  BY <1>1, BeginStep, DeclineStep, ReadBeforeStep, AskToStopStep, StoppingStep, RaisingStep,
     LaunchStep, RecordLaunchStep, VerifyLaunchStep, ProtectedUnchangedStep, CommitStep,
     CommitFailsStep, ReadCommittedStep, SelectStep, PointerRecoveryStep, CleanUpTargetStep,
     RecoverStep, FinishStep, LeaveStep DEF Execute
<1>2. CASE UNCHANGED vars
  <2>1. TypeOK'  BY <1>2 DEF vars, service, books, gate, counts, IInv, TypeOK
  <2>2. QED  BY <1>2, <2>1, NobodyDied, Around DEF vars, service, books
<1>3. QED
  BY <1>1, <1>2, ReviewStep, EnterStep, InterruptStep, InterruptLateStep,
     CrashStep, LeaveStep, EnvironmentStep
  DEF Next

\* Every reachable state satisfies the inductive invariant.
THEOREM InvariantHolds == Spec => []IInv
BY InitInv, NextInv, PTL DEF Spec

\* Every variable holds a value of its kind, whatever fails, dies or interferes.
THEOREM TypeCorrect == Spec => []TypeOK
<1>1. IInv => TypeOK  BY DEF IInv
<1>2. QED  BY <1>1, InvariantHolds, PTL

\* execute: whenever nothing is under way, a verified service in another runtime
\* than the selected one is one that the last receipt does not vouch for.
THEOREM LastReceiptExplains == Spec => []RunningRuntimeExplained
<1>1. IInv => RunningRuntimeExplained  BY DEF IInv, Explained, RunningRuntimeExplained
<1>2. QED  BY <1>1, InvariantHolds, PTL

\* execute: success is whole, and a failure that published a pointer says so if
\* no interrupt cut its handler short.
THEOREM OutcomesTruthful == Spec => []OutcomeTruthful
<1>1. IInv => OutcomeTruthful
  BY DEF IInv, Success, RecordedIn, Told, OutcomeTruthful
<1>2. QED  BY <1>1, InvariantHolds, PTL

\* process.json moves to another process only when the recorded one is gone.
THEOREM ServicesNeverForgotten == Spec => NeverForgotten
<1> DEFINE Stays ==
      \A p \in Proc : Alive(p) /\ record.proc = p => record'.proc = p
<1>1. IInv /\ [Next]_vars => [Stays]_vars
  <2> SUFFICES ASSUME IInv, [Next]_vars, NEW p \in Proc, Alive(p), record.proc = p, record'.proc # p
               PROVE  FALSE
    OBVIOUS
  <2>1. RecordLaunch
    BY DEF Next, Review, Enter, Execute, Begin, Decline, ReadBefore, AskToStop, NothingToStop,
           StopRefused, SeenStopped, StopFails, Launch, LaunchFails, RecordLaunchFails,
           VerifyLaunch, LaunchRejected, ProtectedUnchanged, ProtectedChanged, Commit,
           CommitFails, ReadCommitted, ReadCommittedFails, Select, SelectFails,
           NothingCommitted, RestorePointer, RestoreFails, CleanUpTarget, Recover, Finish,
           Leave, Interrupt, InterruptLate, Interrupted, Crash, Inspect, Environment, Bind, StopOnRequest, Die,
           ForeignListener, Jobs, ReleaseCommand, vars, books, IInv, TypeOK, Record
  <2>2. QED  BY <2>1 DEF RecordLaunch, IInv, Gone
<1>2. QED  BY <1>1, InvariantHolds, PTL DEF Spec, NeverForgotten

-----------------------------------------------------------------------------
(* The operation and the gate.                                             *)

\* Every step begins or ends the maintenance, admits or finishes a job, or does
\* nothing to the gate.
LEMMA GateStep ==
  ASSUME [Next]_vars
  PROVE  [Work!Next]_(Work!vars)
<1>1. CASE Enter  BY <1>1 DEF Enter, Work!Next
<1>2. CASE Leave \/ Inspect  BY <1>2 DEF Leave, Inspect, Work!Next
<1>3. CASE \E j \in Job : Jobs(j)  BY <1>3 DEF Jobs, Work!Next
<1>4. CASE ~(Enter \/ Leave \/ Inspect \/ \E j \in Job : Jobs(j))
  <2>1. UNCHANGED gate
    BY <1>4 DEF Next, Review, Execute, Begin, Decline, ReadBefore, AskToStop, NothingToStop,
           StopRefused, SeenStopped, StopFails, Launch, LaunchFails, RecordLaunch,
           RecordLaunchFails, VerifyLaunch, LaunchRejected, ProtectedUnchanged,
           ProtectedChanged, Commit, CommitFails, ReadCommitted, ReadCommittedFails, Select,
           SelectFails, NothingCommitted, RestorePointer, RestoreFails, CleanUpTarget, Recover,
           Finish, Interrupt, InterruptLate, Interrupted, Crash, Environment, Bind, StopOnRequest,
           Die, ForeignListener, ReleaseCommand, vars
  <2>2. QED  BY <2>1 DEF gate, Work!vars
<1>5. QED  BY <1>1, <1>2, <1>3, <1>4

\* maintenance_gate as execute uses it is the gate that the lock and the marker
\* implement (ImplementsWorkGate).
THEOREM ObeysWorkGate == Spec => Work!Spec
<1>1. Init => Work!Init  BY DEF Init
<1>2. QED  BY <1>1, GateStep, PTL DEF Spec, Work!Spec

\* Whoever is in execute has the service to itself.
Undisturbed == phase # "idle" => maintainer # None /\ active = {}

\* From the entry to the exit of execute, and until a person has looked after a
\* crash, no job is admitted.
THEOREM NoWorkDuringOperation == Spec => []Undisturbed
<1>1. Init => Undisturbed  BY DEF Init, Undisturbed
<1>2. Undisturbed /\ [Next]_vars => Undisturbed'
  <2> SUFFICES ASSUME Undisturbed, [Next]_vars PROVE Undisturbed'
    OBVIOUS
  <2>1. CASE Enter  BY <2>1, ControlAssumption DEF Enter, Work!Begin, Undisturbed
  <2>2. CASE Leave \/ Inspect  BY <2>2 DEF Leave, Inspect, Undisturbed
  <2>3. CASE \E j \in Job : Jobs(j)
    BY <2>3 DEF Jobs, Work!Admit, Work!Finish, Undisturbed
  <2>4. CASE ~(Enter \/ Leave \/ Inspect \/ \E j \in Job : Jobs(j))
    <3>1. UNCHANGED gate /\ (phase = "idle" => phase' = "idle")
      BY <2>4 DEF Next, Review, Execute, Begin, Decline, ReadBefore, AskToStop, NothingToStop,
           StopRefused, SeenStopped, StopFails, Launch, LaunchFails, RecordLaunch,
           RecordLaunchFails, VerifyLaunch, LaunchRejected, ProtectedUnchanged,
           ProtectedChanged, Commit, CommitFails, ReadCommitted, ReadCommittedFails, Select,
           SelectFails, NothingCommitted, RestorePointer, RestoreFails, CleanUpTarget, Recover,
           Finish, Interrupt, InterruptLate, Interrupted, Crash, Environment, Bind, StopOnRequest,
           Die, ForeignListener, ReleaseCommand, vars, Body, Handler
    <3>2. QED  BY <3>1 DEF gate, Undisturbed
  <2>5. QED  BY <2>1, <2>2, <2>3, <2>4
<1>3. QED  BY <1>1, <1>2, PTL DEF Spec

-----------------------------------------------------------------------------
(* The pointer that a restoration replaces.  The release command may        *)
(* replace the pointer at any time.  Of all those times two matter: between *)
(* the comparison of the preview and the reading of pointer_before, and     *)
(* between the commit and the reading of pointer_committed.                 *)

\* What execute knows of the pointer k, given what the plan expects.
Ledger(f, k, e, o) ==
    /\ f = "begun" => k.candidate = e
    /\ f = "committed" => k = o.own
    /\ f = "failing" => o.stage = "forward"
    /\ f \in Body \cup {"failing"} /\ o.stage = "forward" => o.before.candidate = e
    /\ f \in {"idle", "entered", "begun"} \cup (Body \ {"selecting"}) /\ o.stage = "forward"
           => o.committed = NoPointer
    /\ o.committed # NoPointer => o.committed = o.own

Known == Ledger(phase, pointer, plan.expected, op)

\* The fields of the local variables that concern the pointer.
Carried(o, n) ==
    /\ n.own = o.own /\ n.before = o.before /\ n.committed = o.committed
    /\ n.stage = "forward" => o.stage = "forward"

\* All the steps of execute but five carry them on.
LEMMA ExecuteCarries ==
  ASSUME IInv, Execute, ~(Begin \/ ReadBefore \/ Commit \/ ReadCommitted \/ Leave)
  PROVE  /\ Carried(op, op') /\ plan' = plan
         /\ phase' \notin {"idle", "entered", "begun", "committed"}
         /\ phase' \in Body \cup {"failing"} /\ op'.stage = "forward" => phase \in Body
         /\ phase' \in Body \ {"selecting"} /\ op'.stage = "forward" => phase # "selecting"
         /\ phase' = "failing" => op'.stage = "forward"
<1>1. PICK o \in Local : o = op  BY DEF IInv, TypeOK
<1>2. ASSUME Raised
      PROVE  /\ Carried(op, op') /\ phase' \in {"failing", "recovering", "finishing"}
             /\ phase' = "failing" => op'.stage = "forward"
  BY <1>1, <1>2 DEF Raised, Carried, Local
<1>3. ASSUME Stopped
      PROVE  /\ Carried(op, op') /\ phase' \in {"starting", "recovering", "finishing"}
  BY <1>1, <1>3 DEF Stopped, Carried, Local
<1>4. ASSUME Started
      PROVE  Carried(op, op') /\ phase' \in {"protecting", "finishing"}
  BY <1>1, <1>4 DEF Started, Carried, Local
<1>5. CASE StopRefused \/ StopFails \/ LaunchFails \/ RecordLaunchFails \/ LaunchRejected
           \/ ProtectedChanged \/ ReadCommittedFails \/ SelectFails
  BY <1>2, <1>5 DEF StopRefused, StopFails, LaunchFails, RecordLaunchFails, LaunchRejected,
       ProtectedChanged, ReadCommittedFails, SelectFails, Body
<1>6. CASE NothingToStop \/ SeenStopped \/ VerifyLaunch
  BY <1>3, <1>4, <1>6 DEF NothingToStop, SeenStopped, VerifyLaunch, Body
<1>7. CASE Decline \/ AskToStop \/ RecordLaunch \/ ProtectedUnchanged \/ Finish
  BY <1>7 DEF Decline, AskToStop, RecordLaunch, ProtectedUnchanged, Finish, Carried, Body
<1>8. CASE (\E p \in Proc : Launch(p)) \/ CommitFails \/ Select
  <2>1. Carried(op, op') /\ op'.stage = op.stage
    BY <1>1, <1>8 DEF Launch, CommitFails, Select, Carried, Local
  <2>2. phase = "committing" => op.stage = "forward"  BY DEF IInv, Course
  <2>3. QED  BY <1>8, <2>1, <2>2 DEF Launch, CommitFails, Select, Body
<1>9. CASE NothingCommitted \/ RestorePointer \/ RestoreFails
  <2>1. Carried(op, op')
    BY <1>1, <1>9 DEF NothingCommitted, RestorePointer, RestoreFails, Carried, Local
  <2>2. QED  BY <1>9, <2>1 DEF NothingCommitted, RestorePointer, RestoreFails, Body
<1>10. CASE CleanUpTarget \/ Recover
  <2>1. Carried(op, op') /\ (phase' = "stopping" => op'.stage # "forward")
    BY <1>1, <1>10 DEF CleanUpTarget, Recover, Carried, Local
  <2>2. QED  BY <1>10, <2>1 DEF CleanUpTarget, Recover, Body
<1>11. QED  BY <1>5, <1>6, <1>7, <1>8, <1>9, <1>10 DEF Execute

\* The books are right as long as the release command keeps out of the two
\* windows.
LEMMA StaysKnown ==
  ASSUME IInv, Known, [Next]_vars, phase \in {"begun", "committed"} => pointer' = pointer
  PROVE  Known'
<1>1. PICK o \in Local : o = op  BY DEF IInv, TypeOK
<1>2. Ledger(phase, pointer, plan.expected, o)  BY <1>1 DEF Known
<1>3. CASE Begin
  <2>1. PICK b \in BOOLEAN : b = Alive(record.proc)
    <3>1. Alive(record.proc) \in BOOLEAN  BY DEF Alive
    <3>2. QED  BY <3>1
  <2>2. op'.committed = NoPointer /\ op'.stage = "forward"
    BY <1>3, <2>1 DEF Begin, NoOp
  <2>3. phase' = "begun" /\ plan' = plan /\ pointer' = pointer /\ plan.expected = pointer.candidate
    BY <1>3 DEF Begin, Preview
  <2>4. QED  BY <2>2, <2>3 DEF Known, Ledger, Body
<1>4. CASE ReadBefore
  <2>1. PICK n : n = [o EXCEPT !.before = pointer]  OBVIOUS
  <2>2. /\ op' = n /\ n.before = pointer /\ n.committed = o.committed /\ n.own = o.own
        /\ n.stage = o.stage
    BY <1>1, <1>4, <2>1 DEF ReadBefore, Local
  <2>3. /\ phase = "begun" /\ phase' \in {"starting", "stopping"} /\ plan' = plan
        /\ pointer' = pointer
    BY <1>4 DEF ReadBefore
  <2>4. QED  BY <1>2, <2>2, <2>3 DEF Known, Ledger, Body
<1>5. CASE Commit
  <2>1. PICK k : k = pointer'  OBVIOUS
  <2>2. /\ op'.own = k /\ op'.before = o.before /\ op'.committed = o.committed
        /\ op'.stage = o.stage
    BY <1>1, <1>5, <2>1 DEF Commit, Local
  <2>3. /\ phase = "committing" /\ phase' \in {"committed", "failing"} /\ plan' = plan
    BY <1>5 DEF Commit
  <2>4. o.stage = "forward"  BY <1>1, <2>3 DEF IInv, Course
  <2>5. QED  BY <1>2, <2>1, <2>2, <2>3, <2>4 DEF Known, Ledger, Body
<1>6. CASE ReadCommitted
  <2>1. /\ op'.own = o.own /\ op'.before = o.before /\ op'.committed = pointer
        /\ op'.stage = o.stage
    BY <1>1, <1>6 DEF ReadCommitted, Local
  <2>2. phase = "committed" /\ phase' = "selecting" /\ plan' = plan
    BY <1>6 DEF ReadCommitted
  <2>3. QED  BY <1>2, <2>1, <2>2 DEF Known, Ledger, Body
<1>7. CASE Leave \/ Inspect
  <2>1. phase' = "idle" /\ op' = NoOp /\ op'.committed = NoPointer
    BY <1>7 DEF Leave, Inspect, NoOp
  <2>2. QED  BY <2>1 DEF Known, Ledger, Body
<1>8. CASE Execute /\ ~(Begin \/ ReadBefore \/ Commit \/ ReadCommitted \/ Leave)
  <2>1. /\ op'.own = o.own /\ op'.before = o.before /\ op'.committed = o.committed
        /\ op'.stage = "forward" => o.stage = "forward"
    BY <1>1, <1>8, ExecuteCarries DEF Carried
  <2>2. QED  BY <1>1, <1>2, <1>8, <2>1, ExecuteCarries DEF Known, Ledger
<1>9. CASE Crash \/ Interrupt \/ InterruptLate
  <2>1. /\ op'.own = o.own /\ op'.before = o.before /\ op'.committed = o.committed
        /\ op'.stage = o.stage /\ plan' = plan /\ phase' \in {"crashed", "finishing"}
    BY <1>1, <1>9 DEF Crash, Interrupt, InterruptLate, Interrupted, Local
  <2>2. QED  BY <1>1, <1>2, <2>1 DEF Known, Ledger, Body
<1>10. CASE \E a \in {"start", "stop", "restart", "activate"}, t \in Runtime : Review(a, t)
  <2>1. op' = op /\ phase = "idle" /\ phase' = "idle"  BY <1>10 DEF Review
  <2>2. QED  BY <1>1, <1>2, <2>1 DEF Known, Ledger, Body
<1>11. CASE Enter
  <2>1. op' = op /\ phase = "idle" /\ phase' = "entered"  BY <1>11 DEF Enter
  <2>2. QED  BY <1>1, <1>2, <2>1 DEF Known, Ledger, Body
<1>12. CASE Environment \/ UNCHANGED vars
  <2>1. UNCHANGED <<op, phase, plan>>
    BY <1>12 DEF Environment, Bind, StopOnRequest, Die, ForeignListener, Jobs, ReleaseCommand, vars
  <2>2. QED  BY <1>1, <1>2, <2>1 DEF Known, Ledger
<1>13. QED
  BY <1>3, <1>4, <1>5, <1>6, <1>7, <1>8, <1>9, <1>10, <1>11, <1>12 DEF Next

\* No release command falls into one of the two windows.
WindowsQuiet == [][(phase \in {"begun", "committed"}) => pointer' = pointer]_vars

\* A restoration puts back the candidate that the reviewed plan expected.
RestoresExpected ==
    [][op.pointerRecovery = "none" /\ op'.pointerRecovery = "restored"
          => pointer'.candidate = plan.expected]_vars

\* execute: the two unlocked reads are all that is wrong with the restoration of
\* the pointer.  If no release command comes between the preview and
\* pointer_before, nor between the commit and pointer_committed, then whatever
\* else happens a restoration takes back what this operation published and puts
\* back what the plan expected.
THEOREM RestorationsRight == Spec /\ WindowsQuiet => RestoresOwnCommit /\ RestoresExpected
<1> DEFINE Calm == phase \in {"begun", "committed"} => pointer' = pointer
           Restoring == op.pointerRecovery = "none" /\ op'.pointerRecovery = "restored"
           Right == Restoring => pointer = op.own /\ pointer'.candidate = plan.expected
<1>1. Init => Known  BY DEF Init, Known, Ledger, NoOp, Body
<1>2. IInv /\ Known /\ [Next]_vars /\ [Calm]_vars => Known'
  BY StaysKnown DEF vars
<1>3. IInv /\ Known /\ [Next]_vars => [Right]_vars
  <2> SUFFICES ASSUME IInv, Known, Next, Restoring
               PROVE  pointer = op.own /\ pointer'.candidate = plan.expected
    OBVIOUS
  <2>1. PICK o \in Local : o = op  BY DEF IInv, TypeOK
  <2>2. RestorePointer
    <3>1. ~Raised /\ ~Stopped /\ ~Started
      BY <2>1 DEF Raised, Stopped, Started, Local
    <3>2. ~(Begin \/ Leave \/ Inspect)  BY DEF Begin, Leave, Inspect, NoOp
    <3>3. QED
      BY <2>1, <3>1, <3>2
      DEF Next, Review, Enter, Execute, Decline, ReadBefore, AskToStop,
          NothingToStop, StopRefused, SeenStopped, StopFails, Launch, LaunchFails, RecordLaunch,
          RecordLaunchFails, VerifyLaunch, LaunchRejected, ProtectedUnchanged,
          ProtectedChanged, Commit, CommitFails, ReadCommitted, ReadCommittedFails, Select,
          SelectFails, NothingCommitted, RestoreFails, CleanUpTarget, Recover, Finish,
          Interrupt, InterruptLate, Interrupted, Crash, Environment, Bind, StopOnRequest, Die, ForeignListener, Jobs,
          ReleaseCommand, Local
  <2>3. phase = "failing" /\ o.committed # NoPointer /\ pointer = o.committed /\ pointer' = o.before
    BY <2>1, <2>2 DEF RestorePointer
  <2>4. QED  BY <2>1, <2>3 DEF Known, Ledger
<1>4. QED
  BY <1>1, <1>2, <1>3, InvariantHolds, PTL
     DEF Spec, WindowsQuiet, RestoresOwnCommit, RestoresExpected

-----------------------------------------------------------------------------
(* The services that are out of reach.  A later stop reaches the process    *)
(* that process.json names, and no other.                                   *)

\* Whatever runs is the recorded process, or the child that is about to be it.
InReach ==
    \A p \in Proc : Alive(p) => \/ p = record.proc
                                \/ phase = "launched" /\ p = op.child

\* Processes die at most and the record names whom it named; a child that was
\* launched is so still.
LEMMA ReachKept ==
  ASSUME IInv, InReach, Deaths, record'.proc = record.proc,
         phase # "launched" \/ UNCHANGED <<phase, op>>
  PROVE  InReach'
<1> SUFFICES ASSUME NEW p \in Proc, Alive(p)'
             PROVE  (p = record.proc \/ (phase = "launched" /\ p = op.child))'
  BY DEF InReach
<1>1. Alive(p)  BY DEF Alive, Deaths
<1>2. QED  BY <1>1 DEF InReach

LEMMA LaunchReaches ==
  ASSUME IInv, InReach, NEW p \in Proc, Launch(p)
  PROVE  InReach'
<1>1. \A q \in Proc : ~Alive(q)  BY DEF Launch, IInv, Gone, InReach
<1>2. PICK o \in Local : o = op  BY DEF IInv, TypeOK
<1>3. op'.child = p /\ phase' = "launched"  BY <1>2 DEF Launch, Local
<1>4. \A q \in Proc \ {p} : procs'[q] = procs[q]  BY DEF Launch, IInv, TypeOK
<1>5. QED  BY <1>1, <1>3, <1>4 DEF InReach, Alive

LEMMA RecordReaches ==
  ASSUME IInv, InReach, RecordLaunch
  PROVE  InReach'
<1>1. /\ record'.proc = op.child /\ procs' = procs /\ ~Alive(record.proc)
  BY DEF RecordLaunch, IInv, Gone, service
<1>2. QED  BY <1>1 DEF InReach, Alive

LEMMA StaysInReach ==
  ASSUME IInv, InReach, [Next]_vars,
         phase = "launched" => phase' \in {"launched", "watching"}
  PROVE  InReach'
<1>1. CASE \E p \in Proc : Launch(p)  BY <1>1, LaunchReaches
<1>2. CASE RecordLaunch  BY <1>2, RecordReaches
<1>3. CASE Environment \/ UNCHANGED vars
  <2>1. record' = record /\ UNCHANGED <<phase, op>>
    BY <1>3 DEF Environment, Bind, StopOnRequest, Die, ForeignListener, Jobs, ReleaseCommand,
         vars, books
  <2>2. Deaths
    <3>1. CASE \E p \in Proc : Bind(p) \/ StopOnRequest(p) \/ Die(p)
      <4>1. PICK p \in Proc : Bind(p) \/ StopOnRequest(p) \/ Die(p)  BY <3>1
      <4>2. PICK c \in {"serving", "stopped", "dead"} :
                /\ procs' = [procs EXCEPT ![p].is = c]
                /\ c = "serving" => procs[p].is = "starting"
        BY <4>1 DEF Bind, StopOnRequest, Die
      <4>3. QED  BY <4>2, OneChanges
    <3>2. CASE procs' = procs  BY <3>2, NobodyDied
    <3>3. QED
      BY <1>3, <3>1, <3>2
      DEF Environment, ForeignListener, Jobs, ReleaseCommand, vars, service
  <2>3. QED  BY <2>1, <2>2, ReachKept
<1>4. CASE LaunchRejected \/ Interrupt \/ InterruptLate
  <2>1. phase # "launched" /\ record'.proc = record.proc
    BY <1>4 DEF LaunchRejected, Interrupt, InterruptLate, Interrupted, books, IInv, TypeOK, Record
  <2>2. Deaths
    BY <1>4, ChildKilled, NobodyDied DEF LaunchRejected, Interrupt, InterruptLate, service
  <2>3. QED  BY <2>1, <2>2, ReachKept
<1>5. CASE ~((\E p \in Proc : Launch(p)) \/ RecordLaunch \/ Environment \/ LaunchRejected
             \/ Interrupt \/ InterruptLate \/ UNCHANGED vars)
  <2>1. procs' = procs /\ (phase # "launched" \/ phase' \notin {"launched", "watching"})
    BY <1>5
    DEF Next, Review, Enter, Execute, Begin, Decline, ReadBefore, AskToStop, NothingToStop,
        StopRefused, SeenStopped, StopFails, LaunchFails, RecordLaunchFails, VerifyLaunch,
        ProtectedUnchanged, ProtectedChanged, Commit, CommitFails, ReadCommitted,
        ReadCommittedFails, Select, SelectFails, NothingCommitted, RestorePointer,
        RestoreFails, CleanUpTarget, Recover, Finish, Leave, Crash, Inspect, Raised, service
  <2>2. record'.proc = record.proc
    BY <1>5
    DEF Next, Review, Enter, Execute, Begin, Decline, ReadBefore, AskToStop, NothingToStop,
        StopRefused, SeenStopped, StopFails, LaunchFails, RecordLaunchFails, VerifyLaunch,
        ProtectedUnchanged, ProtectedChanged, Commit, CommitFails, ReadCommitted,
        ReadCommittedFails, Select, SelectFails, NothingCommitted, RestorePointer,
        RestoreFails, CleanUpTarget, Recover, Finish, Leave, Crash, Inspect, books,
        IInv, TypeOK, Record
  <2>3. QED  BY <2>1, <2>2, NobodyDied, ReachKept
<1>6. QED  BY <1>1, <1>2, <1>3, <1>4, <1>5

\* No two services run.
OneService == \A p, q \in Proc : Alive(p) /\ Alive(q) => p = q

\* A child that was launched is recorded: process.json can be written, and the
\* controller is neither interrupted nor dies between the two.
LaunchesRecorded == [][phase = "launched" => phase' \in {"launched", "watching"}]_vars

\* _start: a service gets out of the reach of a later stop in one way only, by a
\* launch that was not recorded.  Refused and overdue stops, failed kills, failed
\* recoveries and deaths of the controller anywhere else lose none; and no two
\* services run at a time.
THEOREM OnlyLaunchesAreLost == Spec /\ LaunchesRecorded => [](InReach /\ OneService)
<1> DEFINE Safe == phase = "launched" => phase' \in {"launched", "watching"}
<1>1. Init => InReach  BY DEF Init, InReach, Alive
<1>2. IInv /\ InReach /\ [Next]_vars /\ [Safe]_vars => InReach'
  BY StaysInReach DEF vars
<1>3. IInv /\ InReach => OneService  BY DEF IInv, Gone, InReach, OneService
<1>4. QED  BY <1>1, <1>2, <1>3, InvariantHolds, PTL DEF Spec, LaunchesRecorded
=============================================================================
