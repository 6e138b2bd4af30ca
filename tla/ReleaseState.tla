---------------------------- MODULE ReleaseState ----------------------------
(***************************************************************************)
(* The release state directory of quant_workspace.delivery and the         *)
(* protocol of activate_candidate over it: the exclusive lock file         *)
(* .release.lock, the candidate store candidates/<sha>.json, the           *)
(* receipts/<sha>-<uuid>.json and the pointer current.json.                *)
(*                                                                         *)
(* Any number of operators (CLI processes, the local controller) call      *)
(* activate_candidate at once; any number of readers call current_release  *)
(* without the lock.  A process may die at any point, and any file write   *)
(* may fail.  _write_new opens the final name and then writes it, so a     *)
(* death or an error between the two leaves a truncated file; _write_atomic*)
(* writes a temporary and renames it, one step here.                       *)
(***************************************************************************)
EXTENDS Naturals, Sequences

CONSTANTS
    Operator,       \* processes that call activate_candidate
    Reader,         \* processes that call current_release and hold no lock
    Candidate,      \* release candidates, each bound to its SHA-256
    ReceiptId,      \* receipt file names; each carries a fresh uuid4
    None,           \* absence: no candidate, no receipt, no lock holder
    StateContract,  \* the application-state contract of each candidate
    Transitions,    \* contract moves executed by a candidate's acceptance
    MaxAttempts     \* bound on the number of calls in a behaviour

ASSUME NoneAssumption == None \notin Candidate /\ None \notin ReceiptId /\ None \notin Operator
ASSUME AttemptsAssumption == MaxAttempts \in Nat

VARIABLES
    lock,           \* .release.lock: the process that created it, or None
    store,          \* candidates/<sha>.json, by candidate
    receipts,       \* receipts/<sha>-<uuid>.json, by name
    pointer,        \* current.json
    phase,          \* where each operator is in activate_candidate
    job,            \* each operator's arguments and local variables
    outcome,        \* what each operator's last call told its caller
    snapshot,       \* the pointer each reader has read, before its receipt
    published,      \* history: the receipts current.json has named, in order
    attempts        \* calls started so far

files == <<lock, store, receipts, pointer, published>>
vars == <<lock, store, receipts, pointer, phase, job, outcome, snapshot, published, attempts>>

FileState == {"absent", "truncated", "whole"}
NoPointer == [candidate |-> None, receipt |-> None]
NoReceipt == [file |-> "absent", candidate |-> None, previous |-> None]
NoJob == [candidate |-> None, expected |-> None, found |-> None, receipt |-> None]

Init ==
    /\ lock = None
    /\ store = [c \in Candidate |-> "absent"]
    /\ receipts = [r \in ReceiptId |-> NoReceipt]
    /\ pointer = NoPointer
    /\ phase = [o \in Operator |-> "idle"]
    /\ job = [o \in Operator |-> NoJob]
    /\ outcome = [o \in Operator |-> "none"]
    /\ snapshot = [r \in Reader |-> NoPointer]
    /\ published = <<>>
    /\ attempts = 0

-----------------------------------------------------------------------------
\* current_release accepts a pointer whose receipt is present, has the bytes
\* the pointer's digest names, and is about the pointer's candidate.
ValidPointer(p) ==
    \/ p = NoPointer
    \/ /\ p.receipt \in ReceiptId
       /\ receipts[p.receipt].file = "whole"
       /\ receipts[p.receipt].candidate = p.candidate

\* The state-contract rule.  The old contract is read from the current
\* receipt, the moves from the target's own passed state_compatibility cases.
Admissible(e, n) ==
    \/ e = None
    \/ StateContract[e] = StateContract[n]
    \/ <<StateContract[e], StateContract[n]>> \in Transitions[n]

-----------------------------------------------------------------------------
(* activate_candidate, in program order.                                   *)

\* The candidate loads and its acceptance re-verifies (lines that raise before
\* the lock change nothing and are not steps).
Verify(o, c, e) ==
    /\ phase[o] = "idle"
    /\ attempts < MaxAttempts
    /\ attempts' = attempts + 1
    /\ phase' = [phase EXCEPT ![o] = "verified"]
    /\ job' = [job EXCEPT ![o] =
           [candidate |-> c, expected |-> e, found |-> None, receipt |-> None]]
    /\ UNCHANGED <<files, outcome, snapshot>>

\* O_CREAT | O_EXCL: creation fails if the file exists, and never waits.
Acquire(o) ==
    /\ phase[o] = "verified"
    /\ lock = None
    /\ lock' = o
    /\ phase' = [phase EXCEPT ![o] = "locked"]
    /\ UNCHANGED <<store, receipts, pointer, published, job, outcome, snapshot, attempts>>

\* "Release state is locked by another operation": raised outside the try, so
\* the lock of the other operation is left alone.
Refuse(o) ==
    /\ phase[o] = "verified"
    /\ lock # None
    /\ phase' = [phase EXCEPT ![o] = "idle"]
    /\ job' = [job EXCEPT ![o] = NoJob]
    /\ outcome' = [outcome EXCEPT ![o] = "error"]
    /\ UNCHANGED <<files, snapshot, attempts>>

\* Mutated form: the current release is read, but never compared.
CompareAnything(o) ==
    /\ phase[o] = "locked"
    /\ job' = [job EXCEPT ![o].found = pointer.candidate]
    /\ phase' = [phase EXCEPT ![o] =
           IF ValidPointer(pointer) /\ Admissible(pointer.candidate, job[o].candidate)
           THEN "compared" ELSE "raising"]
    /\ UNCHANGED <<files, outcome, snapshot, attempts>>

\* The compare of the compare-and-swap, and the state-contract rule.
Compare(o) ==
    /\ phase[o] = "locked"
    /\ job' = [job EXCEPT ![o].found = pointer.candidate]
    /\ phase' = [phase EXCEPT ![o] =
           IF /\ ValidPointer(pointer)
              /\ pointer.candidate = job[o].expected
              /\ Admissible(pointer.candidate, job[o].candidate)
           THEN "compared" ELSE "raising"]
    /\ UNCHANGED <<files, outcome, snapshot, attempts>>

\* Mutated form: a stored copy is taken as good without being loaded.
OpenStoreTrusting(o) ==
    /\ phase[o] = "compared"
    /\ LET c == job[o].candidate IN
       IF store[c] = "absent"
       THEN /\ store' = [store EXCEPT ![c] = "truncated"]
            /\ phase' = [phase EXCEPT ![o] = "storing"]
       ELSE /\ phase' = [phase EXCEPT ![o] = "stored"]
            /\ UNCHANGED store
    /\ UNCHANGED <<lock, receipts, pointer, published, job, outcome, snapshot, attempts>>

\* candidates/<sha>.json: a stored copy must load and be equal, and a
\* truncated one raises; otherwise _write_new opens the final name.
OpenStore(o) ==
    /\ phase[o] = "compared"
    /\ LET c == job[o].candidate IN
       \/ /\ store[c] = "whole"
          /\ phase' = [phase EXCEPT ![o] = "stored"]
          /\ UNCHANGED store
       \/ /\ store[c] = "truncated"
          /\ phase' = [phase EXCEPT ![o] = "raising"]
          /\ UNCHANGED store
       \/ /\ store[c] = "absent"
          /\ store' = [store EXCEPT ![c] = "truncated"]
          /\ phase' = [phase EXCEPT ![o] = "storing"]
    /\ UNCHANGED <<lock, receipts, pointer, published, job, outcome, snapshot, attempts>>

WriteStore(o) ==
    /\ phase[o] = "storing"
    /\ store' = [store EXCEPT ![job[o].candidate] = "whole"]
    /\ phase' = [phase EXCEPT ![o] = "stored"]
    /\ UNCHANGED <<lock, receipts, pointer, published, job, outcome, snapshot, attempts>>

\* Mutated form: the name is the candidate's digest alone, so a later
\* activation of the same candidate opens the receipt of an earlier one.
OpenReceiptReusingName(o, r) ==
    /\ phase[o] = "stored"
    /\ receipts[r].file = "absent" \/ receipts[r].candidate = job[o].candidate
    /\ receipts' = [receipts EXCEPT ![r] =
           [file |-> "truncated", candidate |-> job[o].candidate, previous |-> job[o].found]]
    /\ job' = [job EXCEPT ![o].receipt = r]
    /\ phase' = [phase EXCEPT ![o] = "receipting"]
    /\ UNCHANGED <<lock, store, pointer, published, outcome, snapshot, attempts>>

\* The receipt of this call, under a fresh uuid4 name, opened by _write_new.
OpenReceipt(o, r) ==
    /\ phase[o] = "stored"
    /\ receipts[r].file = "absent"
    /\ receipts' = [receipts EXCEPT ![r] =
           [file |-> "truncated", candidate |-> job[o].candidate, previous |-> job[o].found]]
    /\ job' = [job EXCEPT ![o].receipt = r]
    /\ phase' = [phase EXCEPT ![o] = "receipting"]
    /\ UNCHANGED <<lock, store, pointer, published, outcome, snapshot, attempts>>

WriteReceipt(o) ==
    /\ phase[o] = "receipting"
    /\ receipts' = [receipts EXCEPT ![job[o].receipt].file = "whole"]
    /\ phase' = [phase EXCEPT ![o] = "receipted"]
    /\ UNCHANGED <<lock, store, pointer, published, job, outcome, snapshot, attempts>>

\* Mutated form: the pointer is renamed into place before its receipt is written.
PublishEarly(o) ==
    /\ phase[o] \in {"receipting", "receipted"}
    /\ pointer' = [candidate |-> job[o].candidate, receipt |-> job[o].receipt]
    /\ published' = Append(published, job[o].receipt)
    /\ phase' = [phase EXCEPT ![o] = "returning"]
    /\ UNCHANGED <<lock, store, receipts, job, outcome, snapshot, attempts>>

\* Mutated form: the pointer is written without the receipt it rests on.
PublishBare(o) ==
    /\ phase[o] = "receipted"
    /\ pointer' = [candidate |-> job[o].candidate]
    /\ published' = Append(published, job[o].receipt)
    /\ phase' = [phase EXCEPT ![o] = "returning"]
    /\ UNCHANGED <<lock, store, receipts, job, outcome, snapshot, attempts>>

\* _write_atomic replaces current.json.
Publish(o) ==
    /\ phase[o] = "receipted"
    /\ pointer' = [candidate |-> job[o].candidate, receipt |-> job[o].receipt]
    /\ published' = Append(published, job[o].receipt)
    /\ phase' = [phase EXCEPT ![o] = "returning"]
    /\ UNCHANGED <<lock, store, receipts, job, outcome, snapshot, attempts>>

\* An OSError from any of the three writes, or from reading the state: what is
\* on disk stays as it is and the exception runs into the finally.
WriteFails(o) ==
    /\ phase[o] \in {"locked", "compared", "storing", "stored", "receipting", "receipted"}
    /\ phase' = [phase EXCEPT ![o] = "raising"]
    /\ UNCHANGED <<files, job, outcome, snapshot, attempts>>

\* Mutated form: the lock is removed on success only, not in a finally.
ReleaseOnSuccessOnly(o) ==
    /\ phase[o] \in {"returning", "raising"}
    /\ lock' = IF phase[o] = "returning" THEN None ELSE lock
    /\ outcome' = [outcome EXCEPT ![o] = IF phase[o] = "returning" THEN "ok" ELSE "error"]
    /\ phase' = [phase EXCEPT ![o] = "idle"]
    /\ job' = [job EXCEPT ![o] = NoJob]
    /\ UNCHANGED <<store, receipts, pointer, published, snapshot, attempts>>

\* The finally of _state_lock: unlink the lock file, whoever created it.
Release(o) ==
    /\ phase[o] \in {"returning", "raising"}
    /\ lock' = None
    /\ outcome' = [outcome EXCEPT ![o] = IF phase[o] = "returning" THEN "ok" ELSE "error"]
    /\ phase' = [phase EXCEPT ![o] = "idle"]
    /\ job' = [job EXCEPT ![o] = NoJob]
    /\ UNCHANGED <<store, receipts, pointer, published, snapshot, attempts>>

-----------------------------------------------------------------------------
(* Processes that die, people who clean up, readers.                       *)

\* The process dies with the lock, or cannot unlink it: the file stays behind.
\* (A process that dies without the lock leaves nothing and is not a step.)
Crash(o) ==
    /\ lock = o
    /\ phase[o] # "crashed"
    /\ phase' = [phase EXCEPT ![o] = "crashed"]
    /\ job' = [job EXCEPT ![o] = NoJob]
    /\ outcome' = [outcome EXCEPT ![o] = "lost"]
    /\ UNCHANGED <<files, snapshot, attempts>>

\* Nothing in the code clears a stale lock: a person does, having checked that
\* the process it names is gone.
ClearStaleLock(o) ==
    /\ phase[o] = "crashed"
    /\ lock' = None
    /\ phase' = [phase EXCEPT ![o] = "idle"]
    /\ UNCHANGED <<store, receipts, pointer, published, job, outcome, snapshot, attempts>>

\* current_release reads current.json, then the receipt it names, in two steps.
ReadPointer(r) ==
    /\ snapshot[r] = NoPointer
    /\ pointer # NoPointer
    /\ snapshot' = [snapshot EXCEPT ![r] = pointer]
    /\ UNCHANGED <<files, phase, job, outcome, attempts>>

ReadReceipt(r) ==
    /\ snapshot[r] # NoPointer
    /\ snapshot' = [snapshot EXCEPT ![r] = NoPointer]
    /\ UNCHANGED <<files, phase, job, outcome, attempts>>

-----------------------------------------------------------------------------
Call(o) ==
    \/ Acquire(o)
    \/ Refuse(o)
    \/ Compare(o)
    \/ OpenStore(o)
    \/ WriteStore(o)
    \/ \E r \in ReceiptId : OpenReceipt(o, r)
    \/ WriteReceipt(o)
    \/ Publish(o)
    \/ WriteFails(o)
    \/ Release(o)

Next ==
    \/ \E o \in Operator :
        \/ \E c \in Candidate, e \in Candidate \cup {None} : Verify(o, c, e)
        \/ Call(o)
        \/ Crash(o)
        \/ ClearStaleLock(o)
    \/ \E r \in Reader : ReadPointer(r) \/ ReadReceipt(r)

Spec == Init /\ [][Next]_vars

\* No step of a call waits for another process, so a live process finishes it.
\* Starting a call, dying and cleaning up are nobody's duty.
FairSpec == Spec /\ \A o \in Operator : WF_vars(Call(o))

-----------------------------------------------------------------------------
Phase == {"idle", "verified", "locked", "compared", "storing", "stored", "receipting",
          "receipted", "returning", "raising", "crashed"}
Pointer == [candidate : Candidate \cup {None}, receipt : ReceiptId \cup {None}]
Receipt == [file : FileState, candidate : Candidate \cup {None}, previous : Candidate \cup {None}]
Job == [candidate : Candidate \cup {None}, expected : Candidate \cup {None},
        found : Candidate \cup {None}, receipt : ReceiptId \cup {None}]

\* Type invariant: every variable holds a value of its kind.
TypeOK ==
    /\ lock \in Operator \cup {None}
    /\ store \in [Candidate -> FileState]
    /\ receipts \in [ReceiptId -> Receipt]
    /\ pointer \in Pointer
    /\ phase \in [Operator -> Phase]
    /\ job \in [Operator -> Job]
    /\ outcome \in [Operator -> {"none", "ok", "error", "lost"}]
    /\ snapshot \in [Reader -> Pointer]
    /\ published \in Seq(ReceiptId)
    /\ attempts \in Nat

\* Between acquiring the lock file and removing it.
Inside(o) == phase[o] \notin {"idle", "verified"}

\* The lock file serialises activations, across failed calls, dead processes
\* and people who clear a dead holder's lock: two operators are never both
\* between their acquire and their release, although release unlinks the file
\* without looking whose it is.
MutualExclusion ==
    \A o, p \in Operator : Inside(o) /\ Inside(p) => o = p

\* Whatever died or failed before, current.json names a receipt that is whole
\* and about the pointer's candidate, and the candidate's stored copy is whole:
\* a truncated file is never reachable from the pointer.
PointerSound ==
    pointer # NoPointer =>
        /\ ValidPointer(pointer)
        /\ store[pointer.candidate] = "whole"

\* The audit trail.  Following the receipts current.json has named, each one
\* names as its predecessor exactly the candidate it replaced, the first
\* replaced nothing, the last is the one in force, and every move between two
\* state contracts was one its target had executed.
ReceiptChain ==
    /\ pointer.candidate =
           IF published = <<>> THEN None ELSE receipts[published[Len(published)]].candidate
    /\ \A i \in 1..Len(published) :
           LET this == receipts[published[i]]
               before == IF i = 1 THEN None ELSE receipts[published[i - 1]].candidate
           IN  this.previous = before /\ Admissible(before, this.candidate)

\* A reader that holds no lock never fails: the pointer it read still leads to
\* a valid receipt when it gets there, however many activations, failures and
\* deaths came in between.
ReadersNeverBreak ==
    \A r \in Reader : ValidPointer(snapshot[r])

\* A live operator that holds the lock gives it back: only a dead process can
\* leave the release state locked.
LockReleased ==
    \A o \in Operator : lock = o ~> (lock # o \/ phase[o] = "crashed")

-----------------------------------------------------------------------------
(* The abstract register.  A call is pending from Verify on, takes effect   *)
(* at Publish and vanishes with its process.                                *)
AbstractStatus ==
    [o \in Operator |->
        CASE phase[o] \in {"idle", "crashed"} -> "idle"
          [] phase[o] = "returning" -> "committed"
          [] OTHER -> "pending"]

AbstractRequest ==
    [o \in Operator |-> [candidate |-> job[o].candidate, expected |-> job[o].expected]]

Cas == INSTANCE CasRegister WITH
           current <- pointer.candidate,
           request <- AbstractRequest,
           status <- AbstractStatus

\* The lock, the store, the receipts and the rename implement a
\* compare-and-swap register: the pointer moves only from what its caller
\* expected, a caller told "error" moved nothing, one told "ok" moved it once.
RefinesCasRegister == Cas!Spec
=============================================================================
