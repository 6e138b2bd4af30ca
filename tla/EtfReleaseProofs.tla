-------------------------- MODULE EtfReleaseProofs --------------------------
(***************************************************************************)
(* The safety of the ETF release: the lock keeps the pointer as it was     *)
(* compared until it is replaced, what was judged stays as it was unless   *)
(* somebody changes it, and a failed call leaves the pointer as it was     *)
(* reviewed unless another controller moves it.                            *)
(***************************************************************************)
EXTENDS EtfRelease, TLAPS

\* From judging the acceptance to publishing the pointer.
Judged == {"judged", "listed", "evidenced", "native", "saved", "hashed", "verified", "receipted"}

\* What the local variables of a controller hold at each phase.
Good(j, p) ==
    /\ j \in Job /\ p \in Phase
    /\ p \notin {"idle", "crashed"} => j.root \in Root /\ j.number \in 1..MaxCalls
    /\ p \in Judged => j.document \in Document
    /\ p \in {"hashed", "verified", "receipted"} => j.receipt \in Stack
    /\ p \in {"verified", "receipted"} => j.acceptance \in Document

TypeInv == TypeOK /\ \A c \in Controller : Good(job[c], phase[c])

\* A step in which only controller c moves.
Only(c) ==
    /\ job' = [d \in Controller |-> job'[d]]
    /\ phase' = [d \in Controller |-> phase'[d]]
    /\ \A d \in Controller \ {c} : job'[d] = job[d] /\ phase'[d] = phase[d]

\* Whoever is between creating and removing the lock is named by it.
Excludes(c) == phase[c] \in Holding => lock = c

\* The pointer stays as it was compared and judged.
Reviewed(c) == phase[c] \in Judged => pointer = job[c].expected /\ Follows(pointer, job[c].document)

\* What each check has established, as long as nobody changes the root.
Steady(c) ==
    phase[c] \in Judged /\ job[c].steady =>
        LET here == disk[job[c].root] IN
        /\ here.acceptance = job[c].document /\ here.acceptance.passed
        /\ phase[c] # "judged" => here.receipt = here.acceptance.stack
        /\ phase[c] \notin {"judged", "listed"} => here.evidence = here.acceptance.evidence
        /\ phase[c] \notin {"judged", "listed", "evidenced"} => job[c].actual = here.packages
        /\ phase[c] \in {"saved", "hashed", "verified", "receipted"} => job[c].actual = here.receipt
        /\ phase[c] \in {"hashed", "verified", "receipted"} => job[c].receipt = here.receipt
        /\ phase[c] \in {"verified", "receipted"} => job[c].acceptance = here.acceptance

Written(c) == phase[c] = "receipted" => New(c) \in receipts

\* A call that nobody interferes with knows what the pointer is and was.
Alone(c) ==
    job[c].alone =>
        /\ phase[c] \in {"planned", "started", "locked", "restored"} \cup Judged
              => pointer = job[c].expected
        /\ phase[c] \in {"started", "locked", "published", "committed", "selecting", "undoing",
                         "restoring"} \cup Judged
              => job[c].before = job[c].expected
        /\ phase[c] = "idle" /\ job[c].result = "failed"
              /\ (job[c].recovery = "restored" \/ (job[c].recovery = "none" /\ ~job[c].interrupted))
              => pointer = job[c].expected
        /\ phase[c] \notin {"idle", "crashed"} => job[c].recovery # "restored"

Safe(c) == Excludes(c) /\ Reviewed(c) /\ Steady(c) /\ Written(c) /\ Alone(c)

Inv == TypeInv /\ \A c \in Controller : Safe(c)

-----------------------------------------------------------------------------
LEMMA NoJobTyped == NoJob \in Job
BY EtfAssumption DEF NoJob, Job

LEMMA NewJobTyped ==
    ASSUME NEW r \in Root, pointer \in Pointer \cup {None}, calls + 1 \in 0..MaxCalls
    PROVE  NewJob(r) \in Job /\ NewJob(r).root = r /\ NewJob(r).number = calls + 1
<1>1. ASSUME NEW j \in Job, NEW k, k = [j EXCEPT !.root = r, !.expected = pointer, !.number = calls + 1]
      PROVE  k \in Job /\ k.root = r /\ k.number = calls + 1
    BY <1>1 DEF Job
<1> QED
    BY <1>1, NoJobTyped DEF NewJob

LEMMA InvInit == Init => Inv
<1> SUFFICES ASSUME Init PROVE Inv
    OBVIOUS
<1>1. \A c \in Controller : Good(job[c], phase[c])
    BY NoJobTyped DEF Init, Good, Phase, Judged
<1>2. TypeInv
    BY <1>1, NoJobTyped, EtfAssumption DEF Init, TypeInv, TypeOK, Phase
<1>3. \A c \in Controller : Safe(c)
    BY DEF Init, NoJob, Safe, Excludes, Reviewed, Steady, Written, Alone, Holding, Judged
<1> QED
    BY <1>2, <1>3 DEF Inv

\* Whoever does not move stays safe when nothing it relies on changes.
LEMMA OthersSafe ==
    ASSUME Inv, NEW d \in Controller, job'[d] = job[d], phase'[d] = phase[d],
           UNCHANGED <<pointer, disk>>, receipts \subseteq receipts',
           phase[d] \in Holding => lock' = lock
    PROVE  Safe(d)'
<1>1. Safe(d)
    BY DEF Inv
<1> QED
    BY <1>1 DEF Safe, Excludes, Reviewed, Steady, Written, Alone, Follows, New

\* A controller that moves alone has to keep its own variables good and itself safe.
LEMMA OneMoves ==
    ASSUME Inv, NEW c \in Controller, Only(c), Good(job'[c], phase'[c]), Safe(c)',
           lock' \in Controller \cup {None}, lock' = lock \/ lock = c \/ lock = None,
           receipts \subseteq receipts', receipts' \subseteq Pointer,
           UNCHANGED <<pointer, disk, changes>>, calls' \in 0..MaxCalls
    PROVE  Inv'
<1>1. \A d \in Controller : Good(job'[d], phase'[d])
    BY DEF Inv, TypeInv, Only
<1>2. job' \in [Controller -> Job] /\ phase' \in [Controller -> Phase]
    BY <1>1 DEF Only, Good
<1>3. ASSUME NEW d \in Controller PROVE Safe(d)'
    <2>1. CASE d = c
        BY <2>1
    <2>2. CASE d # c
        <3>1. phase[d] \in Holding => lock' = lock
            BY <2>2, EtfAssumption DEF Inv, Safe, Excludes
        <3> QED
            BY <2>2, <3>1, OthersSafe DEF Only
    <2> QED
        BY <2>1, <2>2
<1> QED
    BY <1>1, <1>2, <1>3 DEF Inv, TypeInv, TypeOK

LEMMA RefusedKeeps ==
    ASSUME Inv, NEW c \in Controller, Refused(c), UNCHANGED <<disk, calls, changes>>
    PROVE  Inv'
<1>0. /\ job \in [Controller -> Job] /\ phase \in [Controller -> Phase] /\ job[c] \in Job
      /\ lock \in Controller \cup {None}
    BY DEF Inv, TypeInv, TypeOK
<1>1. /\ Only(c) /\ phase'[c] = "idle" /\ UNCHANGED <<pointer, receipts>>
      /\ lock' \in Controller \cup {None} /\ (lock' = lock \/ lock = c)
    BY <1>0 DEF Refused, Goto, Only
<1>2. job'[c] = [job[c] EXCEPT !.result = "failed", !.recovery = "not confirmed"]
    BY <1>0 DEF Refused
<1>3. job'[c] \in Job /\ job'[c].recovery = "not confirmed"
    BY <1>0, <1>2 DEF Job
<1>4. Good(job'[c], phase'[c])
    BY <1>1, <1>3 DEF Good, Phase, Judged
<1>5. Safe(c)'
    BY <1>1, <1>3 DEF Safe, Excludes, Reviewed, Steady, Written, Alone, Holding, Judged
<1> QED
    BY <1>1, <1>4, <1>5, OneMoves DEF Inv, TypeInv, TypeOK

LEMMA RestorationFailsKeeps ==
    ASSUME Inv, NEW c \in Controller, RestorationFails(c), phase[c] \in {"undoing", "restoring"},
           UNCHANGED <<disk, calls, changes>>
    PROVE  Inv'
<1>0. /\ job \in [Controller -> Job] /\ phase \in [Controller -> Phase] /\ job[c] \in Job
      /\ lock \in Controller \cup {None} /\ (phase[c] = "restoring" => lock = c)
    BY DEF Inv, TypeInv, TypeOK, Safe, Excludes, Holding
<1>1. /\ Only(c) /\ phase'[c] = "idle" /\ UNCHANGED <<pointer, receipts>>
      /\ lock' \in Controller \cup {None} /\ (lock' = lock \/ lock = c)
    BY <1>0 DEF RestorationFails, Goto, Only
<1>2. job'[c] = [job[c] EXCEPT !.recovery = "failed"]
    BY <1>0 DEF RestorationFails
<1>3. job'[c] \in Job /\ job'[c].recovery = "failed"
    BY <1>0, <1>2 DEF Job
<1>4. Good(job'[c], phase'[c])
    BY <1>1, <1>3 DEF Good, Phase, Judged
<1>5. Safe(c)'
    BY <1>1, <1>3 DEF Safe, Excludes, Reviewed, Steady, Written, Alone, Holding, Judged
<1> QED
    BY <1>1, <1>4, <1>5, OneMoves DEF Inv, TypeInv, TypeOK

LEMMA MoveKeeps ==
    ASSUME Inv, NEW c \in Controller, NEW value \in Pointer \cup {None}, Move(c, value),
           NEW p \in {"published", "restored"}, Goto(c, p), phase[c] \in Holding,
           p = "restored" /\ job[c].alone => value = job[c].expected,
           job[c].alone => job[c].before = job[c].expected,
           UNCHANGED <<lock, receipts, disk, calls, changes>>
    PROVE  Inv'
<1>0. job \in [Controller -> Job] /\ phase \in [Controller -> Phase] /\ Good(job[c], phase[c])
    BY DEF Inv, TypeInv, TypeOK
<1>1. ASSUME NEW d \in Controller PROVE Good(job'[d], phase'[d])
    <2>0. Good(job[d], phase[d]) /\ job[d] \in Job
        BY DEF Inv, TypeInv, Good
    <2>1. CASE d = c
        <3>1. job'[c] = job[c] /\ phase'[c] = p
            BY <1>0 DEF Move, Goto
        <3> QED
            BY <1>0, <2>0, <2>1, <3>1 DEF Good, Phase, Holding, Judged
    <2>2. CASE d # c
        <3>1. job'[d] = [job[d] EXCEPT !.alone = FALSE] /\ phase'[d] = phase[d]
            BY <1>0, <2>2 DEF Move, Goto
        <3>2. /\ job'[d] \in Job /\ job'[d].root = job[d].root /\ job'[d].number = job[d].number
              /\ job'[d].document = job[d].document /\ job'[d].receipt = job[d].receipt
              /\ job'[d].acceptance = job[d].acceptance
            BY <2>0, <3>1 DEF Job
        <3> QED
            BY <2>0, <3>1, <3>2 DEF Good
    <2> QED
        BY <2>1, <2>2
<1>2. job' \in [Controller -> Job] /\ phase' \in [Controller -> Phase]
    BY <1>0, <1>1 DEF Good, Move, Goto, Phase, Holding
<1>3. ASSUME NEW d \in Controller PROVE Safe(d)'
    <2>1. CASE d = c
        <3>1. job'[c] = job[c] /\ phase'[c] = p /\ pointer' = value /\ lock = c
            BY <1>0 DEF Move, Goto, Inv, Safe, Excludes
        <3>2. job[c].alone => job[c].recovery # "restored"
            BY DEF Inv, Safe, Alone, Holding
        <3> QED
            BY <2>1, <3>1, <3>2 DEF Safe, Excludes, Reviewed, Steady, Written, Alone, Holding, Judged
    <2>2. CASE d # c
        <3>1. job[d] \in Job /\ job'[d] = [job[d] EXCEPT !.alone = FALSE] /\ phase'[d] = phase[d]
            BY <1>0, <2>2 DEF Move, Goto
        <3>2. ~job'[d].alone /\ phase'[d] \notin Holding
            BY <2>2, <3>1 DEF Job, Inv, Safe, Excludes
        <3> QED
            BY <3>2 DEF Safe, Excludes, Reviewed, Steady, Written, Alone, Holding, Judged
    <2> QED
        BY <2>1, <2>2
<1> QED
    BY <1>1, <1>2, <1>3 DEF Inv, TypeInv, TypeOK, Move

LEMMA ChangeKeeps ==
    ASSUME Inv, NEW r \in Root, NEW value \in Disk, Change(r, value)
    PROVE  Inv'
<1>0. job \in [Controller -> Job] /\ disk \in [Root -> Disk]
    BY DEF Inv, TypeInv, TypeOK
<1>1. ASSUME NEW d \in Controller PROVE Good(job'[d], phase'[d])
    <2>0. Good(job[d], phase[d]) /\ job[d] \in Job /\ phase'[d] = phase[d]
        BY DEF Inv, TypeInv, Good, Change
    <2>1. job'[d] = job[d] \/ job'[d] = [job[d] EXCEPT !.steady = FALSE]
        BY <1>0 DEF Change
    <2>2. /\ job'[d] \in Job /\ job'[d].root = job[d].root /\ job'[d].number = job[d].number
          /\ job'[d].document = job[d].document /\ job'[d].receipt = job[d].receipt
          /\ job'[d].acceptance = job[d].acceptance
        BY <2>0, <2>1 DEF Job
    <2> QED
        BY <2>0, <2>2 DEF Good
<1>2. job' \in [Controller -> Job]
    <2>1. job' = [d \in Controller |-> job'[d]]
        BY DEF Change
    <2> QED
        BY <1>1, <2>1 DEF Good
<1>3. disk' \in [Root -> Disk] /\ changes' \in 0..MaxChanges
    BY <1>0, EtfAssumption DEF Inv, TypeInv, TypeOK, Change
<1>4. ASSUME NEW d \in Controller PROVE Safe(d)'
    <2>0. Safe(d) /\ job[d] \in Job /\ UNCHANGED <<phase, pointer, lock, receipts>>
        BY <1>0 DEF Inv, Change, state
    <2>1. CASE job[d].root = r
        <3>1. job'[d] = [job[d] EXCEPT !.steady = FALSE]
            BY <1>0, <2>1 DEF Change
        <3>2. /\ ~job'[d].steady /\ job'[d].alone = job[d].alone
              /\ job'[d].root = job[d].root /\ job'[d].number = job[d].number
              /\ job'[d].document = job[d].document /\ job'[d].receipt = job[d].receipt
              /\ job'[d].acceptance = job[d].acceptance
            BY <2>0, <3>1 DEF Job
        <3>3. /\ job'[d].expected = job[d].expected /\ job'[d].before = job[d].before
              /\ job'[d].result = job[d].result /\ job'[d].recovery = job[d].recovery
              /\ job'[d].interrupted = job[d].interrupted
            BY <2>0, <3>1 DEF Job
        <3>4. New(d)' = New(d)
            BY <3>2 DEF New
        <3> QED
            BY <2>0, <3>2, <3>3, <3>4 DEF Safe, Excludes, Reviewed, Steady, Written, Alone, Follows
    <2>2. CASE job[d].root # r
        <3>1. job'[d] = job[d] /\ disk'[job[d].root] = disk[job[d].root]
            BY <1>0, <2>2 DEF Change
        <3> QED
            BY <2>0, <3>1 DEF Safe, Excludes, Reviewed, Steady, Written, Alone, Follows, New
    <2> QED
        BY <2>1, <2>2
<1> QED
    BY <1>1, <1>2, <1>3, <1>4 DEF Inv, TypeInv, TypeOK, Change, state

LEMMA InvStep == Inv /\ [Next]_vars => Inv'
<1> SUFFICES ASSUME Inv, [Next]_vars PROVE Inv'
    OBVIOUS
<1>0. /\ job \in [Controller -> Job] /\ phase \in [Controller -> Phase] /\ disk \in [Root -> Disk]
      /\ lock \in Controller \cup {None} /\ pointer \in Pointer \cup {None} /\ receipts \subseteq Pointer
      /\ calls \in 0..MaxCalls /\ MaxCalls \in Nat
      /\ \A c \in Controller : Good(job[c], phase[c]) /\ Safe(c)
    BY EtfAssumption DEF Inv, TypeInv, TypeOK
<1>1. ASSUME NEW r \in Root, NEW d \in Document, Accept(r, d) PROVE Inv'
    <2>1. [disk[r] EXCEPT !.acceptance = d, !.evidence = d.evidence] \in Disk
        BY <1>0, EtfAssumption DEF Disk
    <2> QED
        BY <1>1, <2>1, ChangeKeeps DEF Accept
<1>2. ASSUME NEW r \in Root, NEW e \in Evidence, ChangeEvidence(r, e) PROVE Inv'
    <2>1. [disk[r] EXCEPT !.evidence = e] \in Disk
        BY <1>0 DEF Disk
    <2> QED
        BY <1>2, <2>1, ChangeKeeps DEF ChangeEvidence
<1>3. ASSUME NEW r \in Root, NEW s \in Stack, InstallPackages(r, s) PROVE Inv'
    <2>1. [disk[r] EXCEPT !.packages = s] \in Disk
        BY <1>0 DEF Disk
    <2> QED
        BY <1>3, <2>1, ChangeKeeps DEF InstallPackages
<1>4. ASSUME NEW r \in Root, InstallReceipt(r) PROVE Inv'
    <2>1. [disk[r] EXCEPT !.receipt = disk[r].packages] \in Disk
        BY <1>0 DEF Disk
    <2> QED
        BY <1>4, <2>1, ChangeKeeps DEF InstallReceipt
<1>5. CASE ClearLock
    <2>1. ASSUME NEW d \in Controller PROVE Safe(d)'
        <3>1. phase[d] \in Holding => lock # d
            BY <1>5 DEF ClearLock, Holding
        <3> QED
            BY <1>0, <1>5, <3>1, OthersSafe DEF ClearLock, Safe, Excludes
    <2> QED
        BY <1>0, <1>5, <2>1 DEF ClearLock, Inv, TypeInv, TypeOK
<1>6. ASSUME NEW c \in Controller, Crash(c) PROVE Inv'
    <2>1. Only(c) /\ job'[c] = [job[c] EXCEPT !.result = "unknown"] /\ phase'[c] = "crashed"
        BY <1>0, <1>6 DEF Crash, Goto, Only, state
    <2>2. Good(job[c], phase[c]) /\ job[c] \in Job
        BY <1>0
    <2>3. Good(job'[c], phase'[c])
        BY <1>0, <2>1, <2>2 DEF Good, Job, Phase, Holding, Judged
    <2>4. Safe(c)'
        BY <1>0, <1>6, <2>1, <2>2 DEF Safe, Excludes, Reviewed, Steady, Written, Alone, Follows, New,
               Holding, Judged, Job, Crash, state
    <2> QED
        BY <1>0, <1>6, <2>1, <2>3, <2>4, OneMoves DEF Crash, state
<1>7. ASSUME NEW c \in Controller, Interrupt(c) PROVE Inv'
    <2>1. PICK result \in {"unknown", "failed"} :
              job' = [job EXCEPT ![c].result = result, ![c].interrupted = TRUE]
        BY <1>7 DEF Interrupt
    <2>2. /\ Only(c) /\ phase'[c] = "idle"
          /\ job'[c] = [job[c] EXCEPT !.result = result, !.interrupted = TRUE]
        BY <1>0, <1>7, <2>1 DEF Interrupt, Goto, Only
    <2>3. Good(job[c], phase[c]) /\ job[c] \in Job /\ Alone(c)
        BY <1>0 DEF Safe
    <2>4. /\ job'[c] \in Job /\ job'[c].interrupted
          /\ job'[c].recovery = job[c].recovery /\ job'[c].alone = job[c].alone
        BY <2>2, <2>3 DEF Job
    <2>5. Good(job'[c], phase'[c])
        BY <2>2, <2>4 DEF Good, Phase, Judged
    <2>6. Safe(c)'
        BY <1>0, <1>7, <2>2, <2>3, <2>4
        DEF Safe, Excludes, Reviewed, Steady, Written, Alone, Holding, Judged, Interrupt
    <2> QED
        BY <1>0, <1>7, <2>2, <2>5, <2>6, OneMoves DEF Interrupt
<1>8. ASSUME NEW c \in Controller, NEW r \in Root, Plan(c, r) PROVE Inv'
    <2>1. calls + 1 \in 1..MaxCalls
        BY <1>0, <1>8 DEF Plan
    <2>2. Only(c) /\ phase'[c] = "planned" /\ job'[c] = NewJob(r)
        BY <1>0, <1>8 DEF Plan, Goto, Only, state
    <2>3. job'[c] \in Job /\ job'[c].root = r /\ job'[c].number = calls + 1
        <3>1. pointer \in Pointer \cup {None} /\ calls + 1 \in 0..MaxCalls
            BY <1>0, <2>1
        <3> QED
            BY <2>2, <3>1, NewJobTyped
    <2>4. Good(job'[c], phase'[c])
        BY <2>1, <2>2, <2>3 DEF Good, Phase, Judged
    <2>5. Safe(c)'
        BY <1>0, <1>8, <2>2 DEF Safe, Excludes, Reviewed, Steady, Written, Alone, Follows, New,
               Holding, Judged, NoJob, NewJob, Plan, state
    <2> QED
        BY <1>0, <1>8, <2>2, <2>4, <2>1, <2>5, OneMoves DEF Plan, state
<1>9. ASSUME NEW c \in Controller, ReadBefore(c) PROVE Inv'
    <2>1. Only(c) /\ phase[c] = "planned" /\ phase'[c] = "started"
          /\ job'[c] = [job[c] EXCEPT !.before = pointer]
        BY <1>0, <1>9 DEF ReadBefore, Goto, Only, state
    <2>2. Good(job[c], phase[c]) /\ job[c] \in Job
        BY <1>0
    <2>3. Good(job'[c], phase'[c])
        BY <1>0, <2>1, <2>2 DEF Good, Job, Phase, Holding, Judged
    <2>4. Safe(c)'
        BY <1>0, <1>9, <2>1, <2>2 DEF Safe, Excludes, Reviewed, Steady, Written, Alone, Follows, New,
               Holding, Judged, Job, ReadBefore, state
    <2> QED
        BY <1>0, <1>9, <2>1, <2>3, <2>4, OneMoves DEF ReadBefore, state
<1>10. ASSUME NEW c \in Controller, StartFails(c) PROVE Inv'
    <2>1. Only(c) /\ job'[c] = [job[c] EXCEPT !.result = "failed"] /\ phase'[c] = "idle"
        BY <1>0, <1>10 DEF StartFails, Goto, Only, state
    <2>2. Good(job[c], phase[c]) /\ job[c] \in Job
        BY <1>0
    <2>3. Good(job'[c], phase'[c])
        BY <1>0, <2>1, <2>2 DEF Good, Job, Phase, Holding, Judged
    <2>4. Safe(c)'
        BY <1>0, <1>10, <2>1, <2>2 DEF Safe, Excludes, Reviewed, Steady, Written, Alone, Follows, New,
               Holding, Judged, Job, StartFails, state
    <2> QED
        BY <1>0, <1>10, <2>1, <2>3, <2>4, OneMoves DEF StartFails, state
<1>11. ASSUME NEW c \in Controller, Acquire(c) PROVE Inv'
    <2>1. SUFFICES ASSUME ~Refused(c) PROVE Inv'
        BY <1>11, RefusedKeeps DEF Acquire
    <2>2. Only(c) /\ phase[c] = "started" /\ job'[c] = job[c] /\ phase'[c] = "locked"
        BY <1>0, <2>1, <1>11 DEF Acquire, Goto, Only, state
    <2>3. Good(job[c], phase[c]) /\ job[c] \in Job
        BY <1>0
    <2>4. Good(job'[c], phase'[c])
        BY <1>0, <2>2, <2>3 DEF Good, Job, Phase, Holding, Judged
    <2>5. Safe(c)'
        BY <1>0, <2>1, <1>11, <2>2, <2>3 DEF Safe, Excludes, Reviewed, Steady, Written, Alone, Follows, New,
               Holding, Judged, Job, Acquire, state
    <2> QED
        BY <1>0, <2>1, <1>11, <2>2, <2>4, <2>5, OneMoves DEF Acquire, state
<1>12. ASSUME NEW c \in Controller, ReadAcceptance(c) PROVE Inv'
    <2>1. SUFFICES ASSUME ~Refused(c) PROVE Inv'
        BY <1>12, RefusedKeeps DEF ReadAcceptance
    <2>2. disk[job[c].root].acceptance \in Document
        BY <1>0, <1>12 DEF ReadAcceptance, Good, Disk
    <2>3. Only(c) /\ phase[c] = "locked" /\ phase'[c] = "judged"
          /\ job'[c] = [job[c] EXCEPT !.document = disk[job[c].root].acceptance, !.steady = TRUE]
        BY <1>0, <2>1, <1>12 DEF ReadAcceptance, Goto, Only, state
    <2>4. Good(job[c], phase[c]) /\ job[c] \in Job
        BY <1>0
    <2>5. Good(job'[c], phase'[c])
        BY <1>0, <2>3, <2>4, <2>2 DEF Good, Job, Phase, Holding, Judged
    <2>6. /\ pointer = job[c].expected /\ disk[job[c].root].acceptance.passed
          /\ Follows(pointer, disk[job[c].root].acceptance) /\ UNCHANGED <<state, disk>>
        BY <2>1, <1>12 DEF ReadAcceptance
    <2>7. /\ job'[c].document = disk[job[c].root].acceptance /\ job'[c].root = job[c].root
          /\ job'[c].expected = job[c].expected /\ job'[c].before = job[c].before
          /\ job'[c].alone = job[c].alone
        BY <2>3, <2>4 DEF Job
    <2>8. Reviewed(c)'
        BY <2>3, <2>6, <2>7 DEF Reviewed, Follows, state
    <2>9. (Excludes(c) /\ Steady(c) /\ Written(c) /\ Alone(c))'
        BY <1>0, <2>3, <2>6, <2>7 DEF Safe, Excludes, Steady, Written, Alone, Holding, Judged, state
    <2>10. Safe(c)'
        BY <2>8, <2>9 DEF Safe
    <2> QED
        BY <1>0, <2>1, <1>12, <2>3, <2>5, <2>10, OneMoves DEF ReadAcceptance, state
<1>13. ASSUME NEW c \in Controller, CheckFiles(c) PROVE Inv'
    <2>1. SUFFICES ASSUME ~Refused(c) PROVE Inv'
        BY <1>13, RefusedKeeps DEF CheckFiles, Check
    <2>2. Only(c) /\ phase[c] = "judged" /\ job'[c] = job[c] /\ phase'[c] = "listed"
        BY <1>0, <2>1, <1>13 DEF CheckFiles, Goto, Only, state, Check
    <2>3. Good(job[c], phase[c]) /\ job[c] \in Job
        BY <1>0
    <2>4. Good(job'[c], phase'[c])
        BY <1>0, <2>2, <2>3 DEF Good, Job, Phase, Holding, Judged
    <2>5. disk[job[c].root].receipt = job[c].document.stack /\ UNCHANGED <<state, disk>>
        BY <2>1, <1>13 DEF CheckFiles, Check
    <2>6. Safe(c)'
        BY <1>0, <2>2, <2>5 DEF Safe, Excludes, Reviewed, Steady, Written, Alone, New, Holding, Judged, state
    <2> QED
        BY <1>0, <2>1, <1>13, <2>2, <2>4, <2>6, OneMoves DEF CheckFiles, state, Check
<1>14. ASSUME NEW c \in Controller, CheckEvidence(c) PROVE Inv'
    <2>1. SUFFICES ASSUME ~Refused(c) PROVE Inv'
        BY <1>14, RefusedKeeps DEF CheckEvidence, Check
    <2>2. Only(c) /\ phase[c] = "listed" /\ job'[c] = job[c] /\ phase'[c] = "evidenced"
        BY <1>0, <2>1, <1>14 DEF CheckEvidence, Goto, Only, state, Check
    <2>3. Good(job[c], phase[c]) /\ job[c] \in Job
        BY <1>0
    <2>4. Good(job'[c], phase'[c])
        BY <1>0, <2>2, <2>3 DEF Good, Job, Phase, Holding, Judged
    <2>5. disk[job[c].root].evidence = job[c].document.evidence /\ UNCHANGED <<state, disk>>
        BY <2>1, <1>14 DEF CheckEvidence, Check
    <2>6. Safe(c)'
        BY <1>0, <2>2, <2>5 DEF Safe, Excludes, Reviewed, Steady, Written, Alone, New, Holding, Judged, state
    <2> QED
        BY <1>0, <2>1, <1>14, <2>2, <2>4, <2>6, OneMoves DEF CheckEvidence, state, Check
<1>15. ASSUME NEW c \in Controller, VerifyInstalled(c) PROVE Inv'
    <2>1. SUFFICES ASSUME ~Refused(c) PROVE Inv'
        BY <1>15, RefusedKeeps DEF VerifyInstalled
    <2>2. disk[job[c].root].packages \in Stack
        BY <1>0, <1>15 DEF VerifyInstalled, Good, Disk
    <2>3. Only(c) /\ phase[c] = "evidenced" /\ phase'[c] = "native"
          /\ job'[c] = [job[c] EXCEPT !.actual = disk[job[c].root].packages]
        BY <1>0, <2>1, <1>15 DEF VerifyInstalled, Goto, Only, state
    <2>4. Good(job[c], phase[c]) /\ job[c] \in Job
        BY <1>0
    <2>5. Good(job'[c], phase'[c])
        BY <1>0, <2>3, <2>4, <2>2 DEF Good, Job, Phase, Holding, Judged
    <2>6. UNCHANGED <<state, disk>>
        BY <2>1, <1>15 DEF VerifyInstalled
    <2>7. /\ job'[c].actual = disk[job[c].root].packages
          /\ job'[c].root = job[c].root /\ job'[c].document = job[c].document
          /\ job'[c].steady = job[c].steady /\ job'[c].alone = job[c].alone
          /\ job'[c].expected = job[c].expected /\ job'[c].before = job[c].before
        BY <2>3, <2>4 DEF Job
    <2>8. Safe(c)'
        BY <1>0, <2>3, <2>6, <2>7 DEF Safe, Excludes, Reviewed, Steady, Written, Alone, Follows,
               Holding, Judged, state
    <2> QED
        BY <1>0, <2>1, <1>15, <2>3, <2>5, <2>8, OneMoves DEF VerifyInstalled, state
<1>16. ASSUME NEW c \in Controller, CompareSaved(c) PROVE Inv'
    <2>1. SUFFICES ASSUME ~Refused(c) PROVE Inv'
        BY <1>16, RefusedKeeps DEF CompareSaved, Check
    <2>2. Only(c) /\ phase[c] = "native" /\ job'[c] = job[c] /\ phase'[c] = "saved"
        BY <1>0, <2>1, <1>16 DEF CompareSaved, Goto, Only, state, Check
    <2>3. Good(job[c], phase[c]) /\ job[c] \in Job
        BY <1>0
    <2>4. Good(job'[c], phase'[c])
        BY <1>0, <2>2, <2>3 DEF Good, Job, Phase, Holding, Judged
    <2>5. disk[job[c].root].receipt = job[c].actual /\ UNCHANGED <<state, disk>>
        BY <2>1, <1>16 DEF CompareSaved, Check
    <2>6. Safe(c)'
        BY <1>0, <2>2, <2>5 DEF Safe, Excludes, Reviewed, Steady, Written, Alone, New, Holding, Judged, state
    <2> QED
        BY <1>0, <2>1, <1>16, <2>2, <2>4, <2>6, OneMoves DEF CompareSaved, state, Check
<1>17. ASSUME NEW c \in Controller, HashReceipt(c) PROVE Inv'
    <2>1. disk[job[c].root].receipt \in Stack
        BY <1>0, <1>17 DEF HashReceipt, Good, Disk
    <2>2. Only(c) /\ phase[c] = "saved" /\ phase'[c] = "hashed"
          /\ job'[c] = [job[c] EXCEPT !.receipt = disk[job[c].root].receipt]
        BY <1>0, <1>17 DEF HashReceipt, Goto, Only, state
    <2>3. Good(job[c], phase[c]) /\ job[c] \in Job
        BY <1>0
    <2>4. Good(job'[c], phase'[c])
        BY <1>0, <2>2, <2>3, <2>1 DEF Good, Job, Phase, Holding, Judged
    <2>5. Safe(c)'
        BY <1>0, <1>17, <2>2, <2>3 DEF Safe, Excludes, Reviewed, Steady, Written, Alone, Follows, New,
               Holding, Judged, Job, HashReceipt, state
    <2> QED
        BY <1>0, <1>17, <2>2, <2>4, <2>5, OneMoves DEF HashReceipt, state
<1>18. ASSUME NEW c \in Controller, HashAcceptance(c) PROVE Inv'
    <2>1. disk[job[c].root].acceptance \in Document
        BY <1>0, <1>18 DEF HashAcceptance, Good, Disk
    <2>2. Only(c) /\ phase[c] = "hashed" /\ phase'[c] = "verified"
          /\ job'[c] = [job[c] EXCEPT !.acceptance = disk[job[c].root].acceptance]
        BY <1>0, <1>18 DEF HashAcceptance, Goto, Only, state
    <2>3. Good(job[c], phase[c]) /\ job[c] \in Job
        BY <1>0
    <2>4. Good(job'[c], phase'[c])
        BY <1>0, <2>2, <2>3, <2>1 DEF Good, Job, Phase, Holding, Judged
    <2>5. Safe(c)'
        BY <1>0, <1>18, <2>2, <2>3 DEF Safe, Excludes, Reviewed, Steady, Written, Alone, Follows, New,
               Holding, Judged, Job, HashAcceptance, state
    <2> QED
        BY <1>0, <1>18, <2>2, <2>4, <2>5, OneMoves DEF HashAcceptance, state
<1>19. ASSUME NEW c \in Controller, WriteReceipt(c) PROVE Inv'
    <2>1. New(c) \in Pointer
        BY <1>0, <1>19, EtfAssumption DEF WriteReceipt, Good, Judged, New, Pointer
    <2>2. Only(c) /\ phase[c] = "verified" /\ job'[c] = job[c] /\ phase'[c] = "receipted"
        BY <1>0, <1>19 DEF WriteReceipt, Goto, Only
    <2>3. Good(job'[c], phase'[c])
        BY <1>0, <2>2 DEF Good, Phase, Holding, Judged
    <2>4. Safe(c)'
        BY <1>0, <1>19, <2>2 DEF Safe, Excludes, Reviewed, Steady, Written, Alone, Follows, New,
               Holding, Judged, Job, WriteReceipt, state
    <2> QED
        BY <1>0, <1>19, <2>1, <2>2, <2>3, <2>4, OneMoves DEF WriteReceipt
<1>20. ASSUME NEW c \in Controller, Publish(c) PROVE Inv'
    <2>1. New(c) \in Pointer
        BY <1>0, <1>20, EtfAssumption DEF Publish, Good, Judged, New, Pointer
    <2> QED
        <3>1. phase[c] \in Holding /\ phase[c] \in Judged
            BY <1>20 DEF Publish, Holding, Judged
        <3>2. job[c].alone => job[c].before = job[c].expected
            BY <1>0, <3>1 DEF Safe, Alone
        <3> QED
            BY <1>20, <2>1, <3>1, <3>2, MoveKeeps DEF Publish
<1>21. ASSUME NEW c \in Controller, AccessFails(c) PROVE Inv'
    BY <1>21, RefusedKeeps DEF AccessFails
<1>22. ASSUME NEW c \in Controller, Release(c) PROVE Inv'
    <2>1. Only(c) /\ phase[c] = "published" /\ job'[c] = job[c] /\ phase'[c] = "committed"
        BY <1>0, <1>22 DEF Release, Goto, Only, state
    <2>2. Good(job[c], phase[c]) /\ job[c] \in Job
        BY <1>0
    <2>3. Good(job'[c], phase'[c])
        BY <1>0, <2>1, <2>2 DEF Good, Job, Phase, Holding, Judged
    <2>4. Safe(c)'
        BY <1>0, <1>22, <2>1, <2>2 DEF Safe, Excludes, Reviewed, Steady, Written, Alone, Follows, New,
               Holding, Judged, Job, Release, state
    <2> QED
        BY <1>0, <1>22, <2>1, <2>3, <2>4, OneMoves DEF Release, Safe, Excludes, Holding
<1>23. ASSUME NEW c \in Controller, ReadCommitted(c) PROVE Inv'
    <2>1. SUFFICES ASSUME ~Refused(c) PROVE Inv'
        BY <1>23, RefusedKeeps DEF ReadCommitted
    <2>2. Only(c) /\ phase[c] = "committed" /\ phase'[c] = "selecting"
          /\ job'[c] = [job[c] EXCEPT !.committed = pointer]
        BY <1>0, <2>1, <1>23 DEF ReadCommitted, Goto, Only, state
    <2>3. Good(job[c], phase[c]) /\ job[c] \in Job
        BY <1>0
    <2>4. Good(job'[c], phase'[c])
        BY <1>0, <2>2, <2>3 DEF Good, Job, Phase, Holding, Judged
    <2>5. Safe(c)'
        BY <1>0, <2>1, <1>23, <2>2, <2>3 DEF Safe, Excludes, Reviewed, Steady, Written, Alone, Follows, New,
               Holding, Judged, Job, ReadCommitted, state
    <2> QED
        BY <1>0, <2>1, <1>23, <2>2, <2>4, <2>5, OneMoves DEF ReadCommitted, state
<1>24. ASSUME NEW c \in Controller, Select(c) PROVE Inv'
    <2>1. Only(c) /\ job'[c] = [job[c] EXCEPT !.result = "succeeded"] /\ phase'[c] = "idle"
        BY <1>0, <1>24 DEF Select, Goto, Only, state
    <2>2. Good(job[c], phase[c]) /\ job[c] \in Job
        BY <1>0
    <2>3. Good(job'[c], phase'[c])
        BY <1>0, <2>1, <2>2 DEF Good, Job, Phase, Holding, Judged
    <2>4. Safe(c)'
        BY <1>0, <1>24, <2>1, <2>2 DEF Safe, Excludes, Reviewed, Steady, Written, Alone, Follows, New,
               Holding, Judged, Job, Select, state
    <2> QED
        BY <1>0, <1>24, <2>1, <2>3, <2>4, OneMoves DEF Select, state
<1>25. ASSUME NEW c \in Controller, SelectFails(c) PROVE Inv'
    <2>1. Only(c) /\ phase[c] = "selecting" /\ phase'[c] \in {"idle", "undoing"}
          /\ job'[c] = [job[c] EXCEPT !.result = "failed",
                                      !.recovery = IF job[c].committed = None THEN "not confirmed" ELSE "none"]
        BY <1>0, <1>25 DEF SelectFails, Goto, Only, state
    <2>2. Good(job[c], phase[c]) /\ job[c] \in Job
        BY <1>0
    <2>3. Good(job'[c], phase'[c])
        BY <1>0, <2>1, <2>2 DEF Good, Job, Phase, Holding, Judged
    <2>4. /\ job'[c].alone = job[c].alone
          /\ job'[c].expected = job[c].expected /\ job'[c].before = job[c].before
          /\ phase'[c] = "idle" => job'[c].recovery = "not confirmed"
        BY <1>0, <1>25, <2>1, <2>2 DEF SelectFails, Goto, Job
    <2>5. UNCHANGED <<state, disk>> /\ Alone(c)
        BY <1>0, <1>25 DEF SelectFails, Safe
    <2>6. Alone(c)'
        BY <2>1, <2>4, <2>5 DEF Alone, Judged, state
    <2>7. Safe(c)'
        BY <2>1, <2>6 DEF Safe, Excludes, Reviewed, Steady, Written, Holding, Judged
    <2> QED
        BY <1>0, <1>25, <2>1, <2>3, <2>7, OneMoves DEF SelectFails, state
<1>26. ASSUME NEW c \in Controller, AcquireAgain(c) PROVE Inv'
    <2>1. SUFFICES ASSUME ~RestorationFails(c) PROVE Inv'
        BY <1>26, RestorationFailsKeeps DEF AcquireAgain
    <2>2. Only(c) /\ phase[c] = "undoing" /\ job'[c] = job[c] /\ phase'[c] = "restoring"
        BY <1>0, <2>1, <1>26 DEF AcquireAgain, Goto, Only, state
    <2>3. Good(job[c], phase[c]) /\ job[c] \in Job
        BY <1>0
    <2>4. Good(job'[c], phase'[c])
        BY <1>0, <2>2, <2>3 DEF Good, Job, Phase, Holding, Judged
    <2>5. Safe(c)'
        BY <1>0, <2>1, <1>26, <2>2, <2>3 DEF Safe, Excludes, Reviewed, Steady, Written, Alone, Follows, New,
               Holding, Judged, Job, AcquireAgain, state
    <2> QED
        BY <1>0, <2>1, <1>26, <2>2, <2>4, <2>5, OneMoves DEF AcquireAgain, state
<1>27. ASSUME NEW c \in Controller, Restore(c) PROVE Inv'
    <2>1. job[c].before \in Pointer \cup {None}
        BY <1>0 DEF Job
    <2> QED
        <3>1. phase[c] = "restoring" /\ phase[c] \in Holding
            BY <1>27 DEF Restore, Holding
        <3>2. job[c].alone => job[c].before = job[c].expected
            BY <1>0, <3>1 DEF Safe, Alone
        <3> QED
            BY <1>27, <2>1, <3>1, <3>2, MoveKeeps, RestorationFailsKeeps DEF Restore
<1>28. ASSUME NEW c \in Controller, ReleaseAgain(c) PROVE Inv'
    <2>1. Only(c) /\ job'[c] = [job[c] EXCEPT !.recovery = "restored"] /\ phase'[c] = "idle"
        BY <1>0, <1>28 DEF ReleaseAgain, Goto, Only, state
    <2>2. Good(job[c], phase[c]) /\ job[c] \in Job
        BY <1>0
    <2>3. Good(job'[c], phase'[c])
        BY <1>0, <2>1, <2>2 DEF Good, Job, Phase, Holding, Judged
    <2>4. Safe(c)'
        BY <1>0, <1>28, <2>1, <2>2 DEF Safe, Excludes, Reviewed, Steady, Written, Alone, Follows, New,
               Holding, Judged, Job, ReleaseAgain, state
    <2> QED
        BY <1>0, <1>28, <2>1, <2>3, <2>4, OneMoves DEF ReleaseAgain, Safe, Excludes, Holding
<1>29. CASE UNCHANGED vars
    <2>1. ASSUME NEW d \in Controller PROVE Safe(d)'
        BY <1>29, OthersSafe DEF vars, state
    <2> QED
        BY <1>29, <2>1 DEF vars, state, Inv, TypeInv, TypeOK
<1> QED
    BY <1>1, <1>2, <1>3, <1>4, <1>5, <1>6, <1>7, <1>8, <1>9, <1>10, <1>11, <1>12, <1>13,
       <1>14, <1>15, <1>16, <1>17, <1>18, <1>19, <1>20, <1>21, <1>22, <1>23, <1>24, <1>25,
       <1>26, <1>27, <1>28, <1>29
    DEF Next, Others, Execute

LEMMA Invariant == Spec => []Inv
BY InvInit, InvStep, PTL DEF Spec

\* Every reachable state is well typed.
THEOREM TypeCorrect == Spec => []TypeOK
<1>1. Inv => TypeOK
    BY DEF Inv, TypeInv
<1> QED
    BY <1>1, Invariant, PTL

\* A publication replaces the reviewed pointer under a transition that was accepted.
THEOREM ReplacementsReviewed == Spec => ReplacesReviewed
<1>1. ASSUME Inv, NEW c \in Controller, Publishes(c)
      PROVE  pointer = job[c].expected /\ Follows(pointer, job[c].document)
    BY <1>1 DEF Inv, Safe, Reviewed, Publishes, Judged
<1>2. Inv /\ [Next]_vars =>
          [\A c \in Controller :
              Publishes(c) => pointer = job[c].expected /\ Follows(pointer, job[c].document)]_vars
    BY <1>1
<1> QED
    BY <1>2, Invariant, PTL DEF Spec, ReplacesReviewed

\* Only Publish leads from "receipted" to "published".
LEMMA OnlyPublish ==
    ASSUME Inv, [Next]_vars, NEW c \in Controller, Publishes(c)
    PROVE  Publish(c)
<1>0. phase \in [Controller -> Phase] /\ phase[c] = "receipted" /\ phase'[c] = "published"
    BY DEF Inv, TypeInv, TypeOK, Publishes
<1>1. CASE UNCHANGED vars
    BY <1>0, <1>1 DEF vars
<1>2. CASE Others
    BY <1>0, <1>2 DEF Others, Accept, ChangeEvidence, InstallPackages, InstallReceipt, Change, Crash,
                      Interrupt, ClearLock, Goto
<1>3. ASSUME NEW d \in Controller, Execute(d) PROVE Publish(c)
    <2>1. CASE \E r \in Root : Plan(d, r)
        BY <1>0, <2>1 DEF Plan, Goto
    <2>2. CASE ReadBefore(d) \/ StartFails(d) \/ Acquire(d) \/ ReadAcceptance(d) \/ CheckFiles(d) \/ CheckEvidence(d)
        BY <1>0, <2>2 DEF ReadBefore, StartFails, Acquire, ReadAcceptance, CheckFiles, CheckEvidence,
                          Check, Refused, Goto
    <2>3. CASE VerifyInstalled(d) \/ CompareSaved(d) \/ HashReceipt(d) \/ HashAcceptance(d) \/ WriteReceipt(d)
        BY <1>0, <2>3 DEF VerifyInstalled, CompareSaved, HashReceipt, HashAcceptance, WriteReceipt,
                          Check, Refused, Goto
    <2>4. CASE Publish(d)
        BY <1>0, <2>4 DEF Publish, Goto
    <2>5. CASE AccessFails(d) \/ Release(d) \/ ReadCommitted(d) \/ Select(d) \/ SelectFails(d)
        BY <1>0, <2>5 DEF AccessFails, Release, ReadCommitted, Select, SelectFails, Refused, Goto
    <2>6. CASE AcquireAgain(d) \/ Restore(d) \/ ReleaseAgain(d)
        BY <1>0, <2>6 DEF AcquireAgain, Restore, ReleaseAgain, RestorationFails, Goto
    <2> QED
        BY <1>3, <2>1, <2>2, <2>3, <2>4, <2>5, <2>6 DEF Execute
<1> QED
    BY <1>1, <1>2, <1>3 DEF Next

\* What is published is what was verified, unless somebody changed it meanwhile.
THEOREM PublicationsTruthful == Spec => PublishedTruthful
<1> DEFINE Truthful ==
      \A c \in Controller :
          Publishes(c) =>
              /\ pointer' \in receipts
              /\ job[c].steady =>
                    LET here == disk[pointer'.root] IN
                    /\ pointer'.acceptance = here.acceptance
                    /\ here.acceptance.passed
                    /\ pointer'.contract = here.acceptance.contract
                    /\ here.evidence = here.acceptance.evidence
                    /\ {pointer'.receipt, here.receipt, here.packages} = {here.acceptance.stack}
<1>1. ASSUME Inv, [Next]_vars PROVE Truthful
    <2> SUFFICES ASSUME NEW c \in Controller, Publishes(c)
                 PROVE  /\ New(c) \in receipts
                        /\ job[c].steady =>
                              LET here == disk[New(c).root] IN
                              /\ New(c).acceptance = here.acceptance
                              /\ here.acceptance.passed
                              /\ New(c).contract = here.acceptance.contract
                              /\ here.evidence = here.acceptance.evidence
                              /\ {New(c).receipt, here.receipt, here.packages} = {here.acceptance.stack}
        BY <1>1, OnlyPublish DEF Publish, Move
    <2>1. phase[c] = "receipted" /\ phase[c] \in Judged /\ Written(c) /\ Steady(c)
        BY <1>1 DEF Publishes, Judged, Inv, Safe
    <2>2. /\ New(c).root = job[c].root /\ New(c).receipt = job[c].receipt
          /\ New(c).acceptance = job[c].acceptance /\ New(c).contract = job[c].document.contract
        BY DEF New
    <2> QED
        BY <2>1, <2>2 DEF Written, Steady
<1>2. Inv /\ [Next]_vars => [Truthful]_vars
    BY <1>1
<1> QED
    BY <1>2, Invariant, PTL DEF Spec, PublishedTruthful

\* A failed call that nobody interferes with has left or restored the reviewed pointer.
THEOREM FailuresUndone == Spec => []FailureUndone
<1>1. Inv => FailureUndone
    BY DEF Inv, Safe, Alone, FailureUndone
<1> QED
    BY <1>1, Invariant, PTL
=============================================================================
