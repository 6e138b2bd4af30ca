------------------------------ MODULE WorkGate ------------------------------
(***************************************************************************)
(* What the maintenance gate promises: work and maintenance exclude each   *)
(* other.  Jobs are admitted only while nobody maintains the service, and  *)
(* maintenance begins only when no job is active.  MaintenanceGate is the  *)
(* detailed protocol of files and locks that implements this.              *)
(***************************************************************************)
CONSTANTS
    Controller,     \* processes that stop, start and switch the service
    Job,            \* units of work submitted to the service
    None            \* nobody

VARIABLES
    maintainer,     \* the controller that has the service to itself, or None
    active          \* jobs admitted and not finished

vars == <<maintainer, active>>

Init ==
    /\ maintainer = None
    /\ active = {}

Admit(j) ==
    /\ maintainer = None
    /\ active' = active \cup {j}
    /\ UNCHANGED maintainer

Finish(j) ==
    /\ active' = active \ {j}
    /\ UNCHANGED maintainer

Begin(c) ==
    /\ maintainer = None
    /\ active = {}
    /\ maintainer' = c
    /\ UNCHANGED active

End ==
    /\ maintainer' = None
    /\ UNCHANGED active

Next ==
    \/ \E j \in Job : Admit(j) \/ Finish(j)
    \/ \E c \in Controller : Begin(c)
    \/ End

Spec == Init /\ [][Next]_vars
=============================================================================
