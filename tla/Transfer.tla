------------------------------ MODULE Transfer ------------------------------
(***************************************************************************)
(* The migration archives of quant_workspace.transfer: packaging an        *)
(* allowlist of files that other programs may be writing, one file at a    *)
(* time and without a lock, into one archive; and restoring an archive     *)
(* into a directory that does not exist yet, through a staging directory   *)
(* that is renamed at the end.                                             *)
(*                                                                         *)
(* A file is a content or Absent.  The digest of a file is its content;    *)
(* the identity that os.stat gives (size, mtime, inode) is modelled by     *)
(* what it is used for: whether the file was written since it was read.    *)
(***************************************************************************)
EXTENDS Naturals

CONSTANTS
    File,           \* the files that a specification may list
    Content,        \* what a file may hold
    Absent,         \* no such file
    Packager,       \* processes in create_transfer_package, to one archive path
    Restorer,       \* processes in restore_transfer_package, to one destination
    None,           \* no archive, no destination
    MaxWrites,      \* bound on writes to the source files
    MaxPacked       \* bound on calls of create_transfer_package

VARIABLES
    disk,           \* the source files
    writes,         \* writes to them so far
    packing,        \* each packager: its phase and what it has read and checked
    packed,         \* calls of create_transfer_package so far
    archive,        \* the archive path
    restoring,      \* each restorer: its phase, the archive it read, its staging
    destination     \* the restored directory

sources == <<disk, writes>>
vars == <<sources, packing, packed, archive, restoring, destination>>

Disk == [File -> Content \cup {Absent}]
Trees == UNION {[A -> Content] : A \in SUBSET File}

\* "number" tells the bytes of two archives apart; "moment" is history: the
\* source files at the end of the reading.
Archive == [number : Nat, files : Trees, moment : Disk]
NoArchive == [number |-> 0, files |-> <<>>, moment |-> [f \in File |-> Absent]]

ASSUME TransferAssumption ==
    /\ Absent \notin Content
    /\ None \notin Archive
    /\ MaxWrites \in Nat /\ MaxPacked \in Nat

\* "written": allowlisted files written since this packager read them.
Idle == [phase |-> "idle", number |-> 0, allow |-> {}, read |-> <<>>, written |-> {},
         looked |-> {}, checked |-> {}, moment |-> [f \in File |-> Absent]]
Resting == [phase |-> "idle", from |-> NoArchive, staging |-> <<>>]

Init ==
    /\ disk \in Disk
    /\ writes = 0
    /\ packing = [p \in Packager |-> Idle]
    /\ packed = 0
    /\ archive = NoArchive
    /\ restoring = [r \in Restorer |-> Resting]
    /\ destination = None

-----------------------------------------------------------------------------
\* A program writes, creates or deletes a source file.
Write(f, c) ==
    /\ writes < MaxWrites
    /\ writes' = writes + 1
    /\ disk' = [disk EXCEPT ![f] = c]
    /\ packing' = [p \in Packager |->
           [packing[p] EXCEPT !.written = @ \cup ({f} \cap DOMAIN packing[p].read)]]
    /\ UNCHANGED <<packed, archive, restoring, destination>>

-----------------------------------------------------------------------------
(* create_transfer_package.                                                *)

\* Valid specification, clean pinned source, and no archive yet.
StartPacking(p, allow) ==
    /\ packing[p].phase = "idle" /\ packed < MaxPacked
    /\ archive = NoArchive
    /\ allow # {}
    /\ packed' = packed + 1
    /\ packing' = [packing EXCEPT ![p] =
           [Idle EXCEPT !.phase = "reading", !.number = packed + 1, !.allow = allow]]
    /\ UNCHANGED <<sources, archive, restoring, destination>>

\* Mutated form: a missing file is packed as missing.
ReadMissing(p, f) ==
    /\ packing[p].phase = "reading"
    /\ f \in packing[p].allow \ DOMAIN packing[p].read
    /\ packing' = [packing EXCEPT ![p].read =
           [g \in DOMAIN @ \cup {f} |-> IF g = f THEN disk[f] ELSE @[g]]]
    /\ UNCHANGED <<sources, packed, archive, restoring, destination>>

\* A regular file is read; a missing one raises (PackingFails).
ReadFile(p, f) ==
    /\ packing[p].phase = "reading"
    /\ f \in packing[p].allow \ DOMAIN packing[p].read
    /\ disk[f] # Absent
    /\ packing' = [packing EXCEPT ![p].read =
           [g \in DOMAIN @ \cup {f} |-> IF g = f THEN disk[f] ELSE @[g]]]
    /\ UNCHANGED <<sources, packed, archive, restoring, destination>>

\* Everything is read: manifest and payload go to the temporary archive.
WriteTemporary(p) ==
    /\ packing[p].phase = "reading"
    /\ DOMAIN packing[p].read = packing[p].allow
    /\ packing' = [packing EXCEPT ![p].phase = "checking", ![p].moment = disk]
    /\ UNCHANGED <<sources, packed, archive, restoring, destination>>

\* Mutated form: a file is checked at once rather than after the last one was
\* read.
CheckEarly(p, f) ==
    /\ packing[p].phase \in {"reading", "checking"}
    /\ f \in DOMAIN packing[p].read \ packing[p].looked
    /\ packing[p].looked = packing[p].checked
    /\ f \notin packing[p].written
    /\ packing' = [packing EXCEPT ![p].looked = @ \cup {f}]
    /\ UNCHANGED <<sources, packed, archive, restoring, destination>>

\* The file has the identity it was read with; a change raises.
CheckIdentity(p, f) ==
    /\ packing[p].phase = "checking"
    /\ f \in packing[p].allow \ packing[p].looked
    /\ packing[p].looked = packing[p].checked
    /\ f \notin packing[p].written
    /\ packing' = [packing EXCEPT ![p].looked = @ \cup {f}]
    /\ UNCHANGED <<sources, packed, archive, restoring, destination>>

\* It is read again and has the digest it was read with; a change raises.
CheckDigest(p, f) ==
    /\ packing[p].phase = "checking"
    /\ f \in packing[p].looked \ packing[p].checked
    /\ disk[f] = packing[p].read[f]
    /\ packing' = [packing EXCEPT ![p].checked = @ \cup {f}]
    /\ UNCHANGED <<sources, packed, archive, restoring, destination>>

\* The source verifies again and the temporary is renamed over the archive path.
\* The digest that is returned is taken after it, as OperationalBackup has it.
PublishArchive(p) ==
    /\ packing[p].phase = "checking"
    /\ packing[p].checked = packing[p].allow
    /\ archive' = [number |-> packing[p].number, files |-> packing[p].read,
                   moment |-> packing[p].moment]
    /\ packing' = [packing EXCEPT ![p] = Idle]
    /\ UNCHANGED <<sources, packed, restoring, destination>>

\* A check raises, a file operation fails, or the process dies: at most a
\* temporary stays behind.
PackingFails(p) ==
    /\ packing[p].phase # "idle"
    /\ packing' = [packing EXCEPT ![p] = Idle]
    /\ UNCHANGED <<sources, packed, archive, restoring, destination>>

-----------------------------------------------------------------------------
(* restore_transfer_package.                                               *)

\* The destination is absent; the archive's digest is taken and it verifies.
VerifyArchive(r) ==
    /\ restoring[r].phase = "idle"
    /\ archive # NoArchive /\ destination = None
    /\ restoring' = [restoring EXCEPT ![r] =
           [phase |-> "verified", from |-> archive, staging |-> <<>>]]
    /\ UNCHANGED <<sources, packing, packed, archive, destination>>

\* Mutated form: the payload is read again, from whatever is there now.
ReadPayloadAnyway(r) ==
    /\ restoring[r].phase = "verified"
    /\ restoring' = [restoring EXCEPT ![r].phase = "staging", ![r].from.files = archive.files]
    /\ UNCHANGED <<sources, packing, packed, archive, destination>>

\* The payload is read, and the digest is still the same; a change raises.
ReadPayload(r) ==
    /\ restoring[r].phase = "verified"
    /\ archive = restoring[r].from
    /\ restoring' = [restoring EXCEPT ![r].phase = "staging"]
    /\ UNCHANGED <<sources, packing, packed, archive, destination>>

StageFile(r, f) ==
    /\ restoring[r].phase = "staging"
    /\ f \in DOMAIN restoring[r].from.files \ DOMAIN restoring[r].staging
    /\ restoring' = [restoring EXCEPT ![r].staging =
           [g \in DOMAIN @ \cup {f} |-> IF g = f THEN restoring[r].from.files[f] ELSE @[g]]]
    /\ UNCHANGED <<sources, packing, packed, archive, destination>>

\* The staged tree has the manifest's digests and is renamed into place, which
\* fails if another restore got there first.
RenameStaging(r) ==
    /\ restoring[r].phase = "staging"
    /\ restoring[r].staging = restoring[r].from.files
    /\ destination = None
    /\ destination' = [restoring[r].from EXCEPT !.files = restoring[r].staging]
    /\ restoring' = [restoring EXCEPT ![r] = Resting]
    /\ UNCHANGED <<sources, packing, packed, archive>>

RestoreFails(r) ==
    /\ restoring[r].phase # "idle"
    /\ restoring' = [restoring EXCEPT ![r] = Resting]
    /\ UNCHANGED <<sources, packing, packed, archive, destination>>

-----------------------------------------------------------------------------
Pack(p) ==
    \/ \E f \in File : ReadFile(p, f) \/ CheckIdentity(p, f) \/ CheckDigest(p, f)
    \/ WriteTemporary(p)
    \/ PublishArchive(p)
    \/ PackingFails(p)

Restore(r) ==
    \/ ReadPayload(r)
    \/ \E f \in File : StageFile(r, f)
    \/ RenameStaging(r)
    \/ RestoreFails(r)

Next ==
    \/ \E f \in File, c \in Content \cup {Absent} : Write(f, c)
    \/ \E p \in Packager :
        \/ \E allow \in SUBSET File : StartPacking(p, allow)
        \/ Pack(p)
    \/ \E r \in Restorer : VerifyArchive(r) \/ Restore(r)

Spec == Init /\ [][Next]_vars

\* A process that runs goes on to its end; both have steps only of their own.
FairSpec ==
    /\ Spec
    /\ \A p \in Packager : WF_vars(Pack(p))
    /\ \A r \in Restorer : WF_vars(Restore(r))

-----------------------------------------------------------------------------
Packing == [phase : {"idle", "reading", "checking"}, number : Nat, allow : SUBSET File, read : Trees,
            written : SUBSET File, looked : SUBSET File, checked : SUBSET File, moment : Disk]
Restoring == [phase : {"idle", "verified", "staging"}, from : Archive, staging : Trees]

\* Type invariant: every variable holds a value of its kind.
TypeOK ==
    /\ disk \in Disk
    /\ writes \in Nat
    /\ packing \in [Packager -> Packing]
    /\ packed \in Nat
    /\ archive \in Archive
    /\ restoring \in [Restorer -> Restoring]
    /\ destination \in Archive \cup {None}

Snapshot(a) == \A f \in DOMAIN a.files : a.files[f] = a.moment[f]

\* An archive is a snapshot.  Although its files were read one after the other
\* while programs went on writing them, and no lock kept them from it, there
\* was one moment at which all of them held what the archive says.
ArchiveIsSnapshot == Snapshot(archive)

\* A restored directory is all of one archive, and so a snapshot itself,
\* whatever failed or died on the way and although another packager may have
\* replaced the archive between its verification and its reading.  It is put in
\* place once and never over another one.
RestoredWhole ==
    [][destination' # destination =>
          /\ destination = None
          /\ \E r \in Restorer : destination' = restoring[r].from
          /\ Snapshot(destination')]_vars

-----------------------------------------------------------------------------
\* What a packager k has taken, as AtomicTransfer sees it: from the end of the
\* reading on, if all it has read was there then.  Of a packager of which that is
\* not so a check will disappoint.
Taken(k) ==
    IF k.phase = "checking" /\ \A f \in k.allow : k.read[f] = k.moment[f] THEN k.read ELSE <<>>

Atomic == INSTANCE AtomicTransfer WITH
    taken <- [p \in Packager |-> Taken(packing[p])],
    archive <- archive.files,
    held <- [r \in Restorer |-> restoring[r].from.files],
    destination <- IF destination = None THEN <<>> ELSE destination.files

\* Reading, checking, writing and staging file by file, beside programs that write,
\* comes to the same as taking all files at once, publishing them at once and
\* putting them in place at once.
RefinesAtomicTransfer == Atomic!Spec
=============================================================================
