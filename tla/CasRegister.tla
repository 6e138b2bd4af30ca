---------------------------- MODULE CasRegister ----------------------------
(***************************************************************************)
(* What quant_workspace.delivery promises to the people who switch         *)
(* releases: the current release is a register that changes only by        *)
(* compare-and-swap.  A caller names the candidate it wants and the one it *)
(* believes to be current; the register moves only if the belief is right  *)
(* and the move between the two application-state contracts was executed   *)
(* by the target's acceptance; a caller that is told "error" moved         *)
(* nothing, and a caller that is told "ok" moved it exactly once.          *)
(*                                                                         *)
(* No lock, file, receipt or crash point appears here.  ReleaseState is    *)
(* the detailed protocol and is shown to implement this module.            *)
(***************************************************************************)
CONSTANTS
    Operator,       \* processes that call activate_candidate
    Candidate,      \* release candidates, each bound to its SHA-256
    None,           \* no candidate: the register before the first activation
    StateContract,  \* the application-state contract of each candidate
    Transitions     \* contract moves executed by a candidate's acceptance

VARIABLES
    current,        \* the candidate in force, or None
    request,        \* what each operator asked for
    status,         \* how far each operator's call has got
    outcome         \* what each operator's last call told its caller

vars == <<current, request, status, outcome>>

Idle == [candidate |-> None, expected |-> None]

\* The target's acceptance ran the move from the state of e to the state of n.
Admissible(e, n) ==
    \/ e = None
    \/ StateContract[e] = StateContract[n]
    \/ <<StateContract[e], StateContract[n]>> \in Transitions[n]

Init ==
    /\ current = None
    /\ request = [o \in Operator |-> Idle]
    /\ status = [o \in Operator |-> "idle"]
    /\ outcome = [o \in Operator |-> "none"]

Invoke(o, e, n) ==
    /\ status[o] = "idle"
    /\ status' = [status EXCEPT ![o] = "pending"]
    /\ request' = [request EXCEPT ![o] = [candidate |-> n, expected |-> e]]
    /\ UNCHANGED <<current, outcome>>

\* The one moment at which a call takes effect.
Commit(o) ==
    /\ status[o] = "pending"
    /\ current = request[o].expected
    /\ Admissible(current, request[o].candidate)
    /\ current' = request[o].candidate
    /\ status' = [status EXCEPT ![o] = "committed"]
    /\ UNCHANGED <<request, outcome>>

\* The answer says whether the call took effect.
Return(o) ==
    /\ status[o] # "idle"
    /\ status' = [status EXCEPT ![o] = "idle"]
    /\ request' = [request EXCEPT ![o] = Idle]
    /\ outcome' = [outcome EXCEPT ![o] = IF status[o] = "committed" THEN "ok" ELSE "error"]
    /\ UNCHANGED current

\* The process dies: its caller learns nothing.
Vanish(o) ==
    /\ status[o] # "idle"
    /\ status' = [status EXCEPT ![o] = "idle"]
    /\ request' = [request EXCEPT ![o] = Idle]
    /\ outcome' = [outcome EXCEPT ![o] = "lost"]
    /\ UNCHANGED current

Next ==
    \E o \in Operator :
        \/ \E e \in Candidate \cup {None}, n \in Candidate : Invoke(o, e, n)
        \/ Commit(o)
        \/ Return(o)
        \/ Vanish(o)

Spec == Init /\ [][Next]_vars
=============================================================================
