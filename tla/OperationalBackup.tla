-------------------------- MODULE OperationalBackup --------------------------
(***************************************************************************)
(* quant_workspace.operational_backup: a person reviews a plan (the files  *)
(* under the configured roots and their digests), backup turns it into an  *)
(* archive and a receipt, and restore_drill restores the archive beside    *)
(* the running system and has the native readers look at it.               *)
(*                                                                         *)
(* Nothing keeps other programs from writing under the roots, so every     *)
(* scan looks at one file after the other.  Packing is one step here and   *)
(* restore_transfer_package another: Transfer implements AtomicTransfer,   *)
(* where they are.  Another packager of the same path replaces an archive: *)
(* RemoveArchive and TransferCommand.  An archive's number stands for its  *)
(* digest.  Directories, which are compared like files but not archived,   *)
(* are left out.                                                           *)
(***************************************************************************)
EXTENDS Naturals

CONSTANTS
    File,           \* what may be under the configured roots
    Content,        \* what a file may hold
    Busy,           \* contents that say that work is queued or running
    Absent,         \* no such file
    Operator,       \* processes that run the backup command
    None,           \* no plan, no lock holder, no destination
    MaxWrites,      \* bound on writes under the roots
    MaxStarts,      \* bound on calls of preview, backup and restore_drill
    MaxArchives     \* bound on archives written to the archive path

ASSUME BackupAssumption ==
    /\ Busy \subseteq Content
    /\ Absent \notin Content
    /\ None \notin Operator
    /\ MaxWrites \in Nat /\ MaxStarts \in Nat /\ MaxArchives \in Nat

VARIABLES
    disk,           \* the files under the roots
    writes,         \* writes to them so far
    lock,           \* holder of the lock of the backup's state_dir
    op,             \* each operator: where it is, and its local variables
    starts,         \* calls so far
    archive,        \* the file at the archive path
    archives,       \* archives written there so far
    receipt,        \* backup.json
    destination,    \* the restored files, or None
    drill           \* restore.json

sources == <<disk, writes>>
results == <<archive, archives, receipt, destination, drill>>
vars == <<sources, lock, op, starts, results>>

Disk == [File -> Content \cup {Absent}]
Trees == UNION {[A -> Content] : A \in SUBSET File}

\* What a tree says of a file.
Of(tree, f) == IF f \in DOMAIN tree THEN tree[f] ELSE Absent

\* A tree in which f holds c.
With(tree, f, c) == [g \in DOMAIN tree \cup {f} |-> IF g = f THEN c ELSE tree[g]]

NoArchive == [number |-> 0, files |-> <<>>]
NoDrill == [number |-> 0, status |-> "none"]

\* "reviewed" and "steady" are history: the plan the person had reviewed, and
\* the files nobody wrote to during the backup.
NoReceipt == [number |-> 0, files |-> <<>>, plan |-> <<>>, reviewed |-> <<>>, steady |-> {}]

\* "touched" is history: the files written since this backup began.
AtRest == [phase |-> "idle", reviewed |-> None, todo |-> {}, seen |-> <<>>, plan |-> <<>>,
           result |-> NoArchive, touched |-> {}]

Init ==
    /\ disk \in Disk
    /\ writes = 0
    /\ lock = None
    /\ op = [o \in Operator |-> AtRest]
    /\ starts = 0
    /\ archive = NoArchive
    /\ archives = 0
    /\ receipt = NoReceipt
    /\ destination = None
    /\ drill = NoDrill

-----------------------------------------------------------------------------
(* Everybody else.                                                         *)

\* A program writes, creates or deletes a file under the roots.
Write(f, c) ==
    /\ writes < MaxWrites
    /\ writes' = writes + 1
    /\ disk' = [disk EXCEPT ![f] = c]
    /\ op' = [o \in Operator |->
           IF lock = o THEN [op[o] EXCEPT !.touched = @ \cup {f}] ELSE op[o]]
    /\ UNCHANGED <<lock, starts, results>>

\* A person removes the archive, or damages it beyond use.
RemoveArchive ==
    /\ archive # NoArchive
    /\ archive' = NoArchive
    /\ UNCHANGED <<sources, lock, op, starts, archives, receipt, destination, drill>>

\* The transfer-package command writes an archive of its own to the path.
TransferCommand(A) ==
    /\ archive = NoArchive /\ archives < MaxArchives
    /\ \A f \in A : disk[f] # Absent
    /\ archive' = [number |-> archives + 1, files |-> [f \in A |-> disk[f]]]
    /\ archives' = archives + 1
    /\ UNCHANGED <<sources, lock, op, starts, receipt, destination, drill>>

\* A person removes the restored copy when no drill runs.
RemoveDestination ==
    /\ destination # None /\ lock = None
    /\ destination' = None
    /\ UNCHANGED <<sources, lock, op, starts, archive, archives, receipt, drill>>

-----------------------------------------------------------------------------
(* _files, one file at a time.                                             *)

Scanning == {"previewing", "planning", "listing", "rescanning"}

\* Mutated form: a file that is not there is listed all the same.
LookAtMissing(o, f) ==
    /\ op[o].phase \in Scanning
    /\ f \in op[o].todo
    /\ disk[f] \notin Busy
    /\ op' = [op EXCEPT ![o].todo = @ \ {f}, ![o].seen = With(@, f, disk[f])]
    /\ UNCHANGED <<sources, lock, starts, results>>

\* A file that is there is hashed; one that says that work is active raises.
Look(o, f) ==
    /\ op[o].phase \in Scanning
    /\ f \in op[o].todo
    /\ disk[f] \notin Busy
    /\ op' = [op EXCEPT ![o].todo = @ \ {f},
                        ![o].seen = IF disk[f] = Absent THEN @ ELSE With(@, f, disk[f])]
    /\ UNCHANGED <<sources, lock, starts, results>>

\* An operator is done; the digest of the reviewed plan is still at hand.
Rest(o) == [AtRest EXCEPT !.reviewed = op[o].reviewed]

\* An operator goes on to the next scan.
Scan(o, phase) == [op[o] EXCEPT !.phase = phase, !.todo = File, !.seen = <<>>]

StartPreview(o) ==
    /\ op[o].phase = "idle" /\ starts < MaxStarts
    /\ starts' = starts + 1
    /\ op' = [op EXCEPT ![o] = Scan(o, "previewing")]
    /\ UNCHANGED <<sources, lock, results>>

\* The native readers pass, and the person reviews the plan.
EndPreview(o) ==
    /\ op[o].phase = "previewing" /\ op[o].todo = {}
    /\ op' = [op EXCEPT ![o] = [AtRest EXCEPT !.reviewed = op[o].seen]]
    /\ UNCHANGED <<sources, lock, starts, results>>

-----------------------------------------------------------------------------
(* backup.                                                                 *)

StartBackup(o) ==
    /\ op[o].phase = "idle" /\ starts < MaxStarts
    /\ op[o].reviewed # None
    /\ lock = None
    /\ lock' = o
    /\ starts' = starts + 1
    /\ op' = [op EXCEPT ![o] = [Scan(o, "planning") EXCEPT !.touched = {}]]
    /\ UNCHANGED <<sources, results>>

\* Mutated form: the plan is not compared with the reviewed one.
AcceptAnyPlan(o) ==
    /\ op[o].phase = "planning" /\ op[o].todo = {}
    /\ op' = [op EXCEPT ![o] = [Scan(o, "listing") EXCEPT !.plan = op[o].seen]]
    /\ UNCHANGED <<sources, lock, starts, results>>

\* The preview computed now is the reviewed one; a stale one raises.
AcceptPlan(o) ==
    /\ op[o].phase = "planning" /\ op[o].todo = {}
    /\ op[o].seen = op[o].reviewed
    /\ op' = [op EXCEPT ![o] = [Scan(o, "listing") EXCEPT !.plan = op[o].seen]]
    /\ UNCHANGED <<sources, lock, starts, results>>

\* create_transfer_package of the files that the second scan saw, up to its
\* rename: the archive path is free and every file is there.
Pack(o) ==
    /\ op[o].phase = "listing" /\ op[o].todo = {}
    /\ archive = NoArchive /\ archives < MaxArchives
    /\ \A f \in DOMAIN op[o].seen : disk[f] # Absent
    /\ archive' = [number |-> archives + 1, files |-> [f \in DOMAIN op[o].seen |-> disk[f]]]
    /\ archives' = archives + 1
    /\ op' = [op EXCEPT ![o].phase = "packed", ![o].result.files = archive'.files]
    /\ UNCHANGED <<sources, lock, starts, receipt, destination, drill>>

\* create_transfer_package opens the archive path again for the digest that it
\* returns: that of whatever is there by now, which may be somebody else's.
HashArchive(o) ==
    /\ op[o].phase = "packed"
    /\ op' = [op EXCEPT ![o] = [Scan(o, "rescanning") EXCEPT !.result.number = archive.number]]
    /\ UNCHANGED <<sources, lock, starts, results>>

\* The third scan agrees with the plan, and backup.json is replaced.
Approve(o) ==
    /\ op[o].phase = "rescanning" /\ op[o].todo = {}
    /\ op[o].seen = op[o].plan
    /\ receipt' = [number |-> op[o].result.number, files |-> op[o].result.files,
                   plan |-> op[o].plan, reviewed |-> op[o].reviewed,
                   steady |-> File \ op[o].touched]
    /\ lock' = None
    /\ op' = [op EXCEPT ![o] = Rest(o)]
    /\ UNCHANGED <<sources, starts, archive, archives, destination, drill>>

-----------------------------------------------------------------------------
(* restore_drill.  "result" holds the receipt's digest and the manifest.   *)

\* The archive has the digest of the receipt; another one raises.
StartDrill(o) ==
    /\ op[o].phase = "idle" /\ starts < MaxStarts
    /\ lock = None
    /\ receipt # NoReceipt /\ archive.number = receipt.number
    /\ lock' = o
    /\ starts' = starts + 1
    /\ op' = [op EXCEPT ![o] =
           [Rest(o) EXCEPT !.phase = "verifying", !.result.number = receipt.number]]
    /\ UNCHANGED <<sources, results>>

\* verify_transfer_package opens the archive path again.
VerifyArchive(o) ==
    /\ op[o].phase = "verifying"
    /\ archive # NoArchive
    /\ op' = [op EXCEPT ![o].phase = "restoring", ![o].result.files = archive.files]
    /\ UNCHANGED <<sources, lock, starts, results>>

\* restore_transfer_package opens it once more; the destination is absent.
RestoreArchive(o) ==
    /\ op[o].phase = "restoring"
    /\ archive # NoArchive /\ destination = None
    /\ destination' = archive.files
    /\ op' = [op EXCEPT ![o].phase = "reading"]
    /\ UNCHANGED <<sources, lock, starts, archive, archives, receipt, drill>>

\* A native reader, which should only read, writes to the copy.
ReaderWrites(o, f, c) ==
    /\ op[o].phase = "reading"
    /\ f \in DOMAIN destination
    /\ destination' = [destination EXCEPT ![f] = c]
    /\ UNCHANGED <<sources, lock, op, starts, archive, archives, receipt, drill>>

\* Mutated form: the restored bytes are not compared after the readers.
TrustReaders(o) ==
    /\ op[o].phase = "reading"
    /\ op' = [op EXCEPT ![o].phase = "comparing", ![o].todo = {}]
    /\ UNCHANGED <<sources, lock, starts, results>>

\* All native readers have passed.
ReadersPass(o) ==
    /\ op[o].phase = "reading"
    /\ op' = [op EXCEPT ![o].phase = "comparing", ![o].todo = DOMAIN op[o].result.files]
    /\ UNCHANGED <<sources, lock, starts, results>>

\* A restored file has the digest of the manifest.
Compare(o, f) ==
    /\ op[o].phase = "comparing"
    /\ f \in op[o].todo \cap DOMAIN destination
    /\ destination[f] = op[o].result.files[f]
    /\ op' = [op EXCEPT ![o].todo = @ \ {f}]
    /\ UNCHANGED <<sources, lock, starts, results>>

EndDrill(o) ==
    /\ op[o].phase = "comparing" /\ op[o].todo = {}
    /\ drill' = [number |-> op[o].result.number, status |-> "verified"]
    /\ lock' = None
    /\ op' = [op EXCEPT ![o] = Rest(o)]
    /\ UNCHANGED <<sources, starts, archive, archives, receipt, destination>>

\* A reader fails or a byte differs: restore.json says so.
DrillFails(o) ==
    /\ op[o].phase \in {"reading", "comparing"}
    /\ drill' = [number |-> op[o].result.number, status |-> "failed"]
    /\ lock' = None
    /\ op' = [op EXCEPT ![o] = Rest(o)]
    /\ UNCHANGED <<sources, starts, archive, archives, receipt, destination>>

-----------------------------------------------------------------------------
(* Failures.                                                               *)

\* Anything else raises: nothing is written, and what was stays.
Fails(o) ==
    /\ op[o].phase \in Scanning \cup {"packed", "verifying", "restoring"}
    /\ lock' = IF lock = o THEN None ELSE lock
    /\ op' = [op EXCEPT ![o] = Rest(o)]
    /\ UNCHANGED <<sources, starts, results>>

\* The process dies, or cannot write its last file, and the lock stays.
Crash(o) ==
    /\ lock = o /\ op[o].phase # "crashed"
    /\ op' = [op EXCEPT ![o] = [Rest(o) EXCEPT !.phase = "crashed"]]
    /\ UNCHANGED <<sources, lock, starts, results>>

\* A person removes the lock of a dead process.
ClearStaleLock(o) ==
    /\ op[o].phase = "crashed"
    /\ lock' = None
    /\ op' = [op EXCEPT ![o] = Rest(o)]
    /\ UNCHANGED <<sources, starts, results>>

-----------------------------------------------------------------------------
Run(o) ==
    \/ \E f \in File : Look(o, f) \/ Compare(o, f)
    \/ EndPreview(o)
    \/ AcceptPlan(o) \/ Pack(o) \/ HashArchive(o) \/ Approve(o)
    \/ VerifyArchive(o) \/ RestoreArchive(o) \/ ReadersPass(o) \/ EndDrill(o)
    \/ DrillFails(o) \/ Fails(o)

Next ==
    \/ \E f \in File, c \in Content \cup {Absent} : Write(f, c)
    \/ RemoveArchive \/ RemoveDestination
    \/ \E A \in SUBSET File : TransferCommand(A)
    \/ \E o \in Operator :
        \/ StartPreview(o) \/ StartBackup(o) \/ StartDrill(o)
        \/ Run(o)
        \/ \E f \in File, c \in Content : ReaderWrites(o, f, c)
        \/ Crash(o) \/ ClearStaleLock(o)

Spec == Init /\ [][Next]_vars

\* A call that runs goes on to its end; every step is its own.
FairSpec == Spec /\ \A o \in Operator : WF_vars(Run(o))

-----------------------------------------------------------------------------
Archive == [number : 0..MaxArchives, files : Trees]

Receipt == [number : 0..MaxArchives, files : Trees, plan : Trees, reviewed : Trees,
            steady : SUBSET File]

Phase == Scanning \cup {"idle", "packed", "verifying", "restoring", "reading", "comparing", "crashed"}

\* What an operator knows of its call.
Call == [phase : Phase, reviewed : Trees \cup {None}, todo : SUBSET File, seen : Trees,
         plan : Trees, result : Archive, touched : SUBSET File]

\* Type invariant: every variable holds a value of its kind.
TypeOK ==
    /\ disk \in Disk
    /\ writes \in 0..MaxWrites
    /\ lock \in Operator \cup {None}
    /\ op \in [Operator -> Call]
    /\ starts \in 0..MaxStarts
    /\ archive \in Archive
    /\ archives \in 0..MaxArchives
    /\ receipt \in Receipt
    /\ destination \in Trees \cup {None}
    /\ drill \in [number : 0..MaxArchives, status : {"none", "failed", "verified"}]

\* A file that nobody wrote to during the backup is in the approved archive as
\* the person reviewed it, present or absent, whatever happened to it between
\* the review and the backup and to the other files during it.
SteadyFilesAsReviewed ==
    \A f \in receipt.steady : Of(receipt.files, f) = Of(receipt.reviewed, f)

\* restore.json says "verified" only of a copy that, after all readers were
\* done with it, still has every file of the manifest with its bytes, although
\* the archive is opened twice and the readers may have written to the copy.
VerifiedCopyIsWhole ==
    [][drill' # drill /\ drill'.status = "verified" =>
          \E o \in Operator :
              /\ op[o].phase = "comparing"
              /\ \A f \in DOMAIN op[o].result.files : Of(destination, f) = op[o].result.files[f]]_vars
=============================================================================
