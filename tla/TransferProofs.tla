--------------------------- MODULE TransferProofs ---------------------------
(***************************************************************************)
(* What Transfer guarantees for any number of files, contents, packagers   *)
(* and restorers.  The argument: a file that was not written since it was  *)
(* read still holds what was read (ReadInv), so it did at the moment all   *)
(* reading was over; a file that passes its check had that identity, so    *)
(* the check vouches for that moment and not only for its own              *)
(* (CheckInv).                                                             *)
(*                                                                         *)
(* For the same reason Transfer implements AtomicTransfer: the end of the  *)
(* reading is its Take, and a packager whose files did not all outlive the *)
(* reading will be refused by a check, so it has taken nothing (MapInv).   *)
(* What the code does not guarantee, that an archive stays, holds when one *)
(* packager works at a time (OnePackagerKeepsArchives).                    *)
(***************************************************************************)
EXTENDS Transfer, TLAPS

ReadInv ==
    \A p \in Packager :
        /\ DOMAIN packing[p].read \subseteq packing[p].allow
        /\ \A f \in DOMAIN packing[p].read \ packing[p].written : disk[f] = packing[p].read[f]

CheckInv ==
    \A p \in Packager :
        /\ packing[p].checked \subseteq packing[p].looked
        /\ packing[p].phase # "checking" => packing[p].looked = {}
        /\ packing[p].phase = "checking" =>
               /\ DOMAIN packing[p].read = packing[p].allow
               /\ packing[p].looked \subseteq packing[p].allow
               /\ \A f \in packing[p].allow \ packing[p].written :
                      packing[p].moment[f] = packing[p].read[f]
               /\ \A f \in packing[p].looked : packing[p].moment[f] = packing[p].read[f]

RestoreInv == \A r \in Restorer : Snapshot(restoring[r].from)

IInv == TypeOK /\ ReadInv /\ CheckInv /\ ArchiveIsSnapshot /\ RestoreInv

-----------------------------------------------------------------------------
(* The empty tree, and a tree with one more file.                          *)
LEMMA EmptyTree == <<>> \in Trees /\ DOMAIN <<>> = {}
  BY DEF Trees

Larger(t, f, c) == [g \in DOMAIN t \cup {f} |-> IF g = f THEN c ELSE t[g]]

LEMMA LargerTree ==
  ASSUME NEW t \in Trees, NEW f \in File, NEW c \in Content
  PROVE  Larger(t, f, c) \in Trees /\ DOMAIN Larger(t, f, c) = DOMAIN t \cup {f}
<1>1. PICK A \in SUBSET File : t \in [A -> Content]  BY DEF Trees
<1>2. A \cup {f} \in SUBSET File  BY <1>1
<1>3. Larger(t, f, c) \in [A \cup {f} -> Content]  BY <1>1 DEF Larger
<1>4. QED  BY <1>1, <1>2, <1>3 DEF Trees, Larger

(* The records at rest are of their kinds.                                 *)
LEMMA RestingTypes ==
  /\ NoArchive \in Archive
  /\ Idle \in Packing
  /\ Resting \in Restoring
  /\ Snapshot(NoArchive)
  BY EmptyTree DEF NoArchive, Archive, Idle, Packing, Resting, Restoring, Disk, Snapshot

(* A packager that begins is of its kind.                                  *)
LEMMA BegunTypes ==
  ASSUME NEW i \in Packing, NEW n \in Nat, NEW allow \in SUBSET File
  PROVE  [i EXCEPT !.phase = "reading", !.number = n, !.allow = allow] \in Packing
  BY DEF Packing

-----------------------------------------------------------------------------
(* The initial states have the invariant.                                  *)
LEMMA InitIInv == Init => IInv
<1> SUFFICES ASSUME Init PROVE IInv
  OBVIOUS
<1>1. TypeOK  BY RestingTypes DEF Init, TypeOK
<1>2. ReadInv  BY EmptyTree DEF Init, ReadInv, Idle
<1>3. CheckInv  BY DEF Init, CheckInv, Idle
<1>4. ArchiveIsSnapshot  BY RestingTypes DEF Init, ArchiveIsSnapshot
<1>5. RestoreInv  BY RestingTypes DEF Init, RestoreInv, Resting
<1>6. QED  BY <1>1, <1>2, <1>3, <1>4, <1>5 DEF IInv

(* A write to a source file keeps the invariant: packagers that have read  *)
(* the file will find it written.                                          *)
LEMMA WriteStep ==
  ASSUME IInv, NEW f \in File, NEW c \in Content \cup {Absent}, Write(f, c)
  PROVE  IInv'
<1> USE DEF IInv, Write, sources
<1>1. \A p \in Packager :
        packing'[p] = [packing[p] EXCEPT !.written = @ \cup ({f} \cap DOMAIN packing[p].read)]
  OBVIOUS
<1>2. TypeOK'
  <2>1. disk' \in Disk  BY DEF TypeOK, Disk
  <2>2. packing' \in [Packager -> Packing]
    BY TransferAssumption DEF TypeOK, Packing
  <2>3. writes' \in Nat  BY DEF TypeOK
  <2>4. QED  BY <2>1, <2>2, <2>3 DEF TypeOK
<1>3. ReadInv'
  BY <1>1 DEF TypeOK, Packing, Disk, ReadInv
<1>4. CheckInv'
  BY <1>1 DEF TypeOK, Packing, CheckInv
<1>5. ArchiveIsSnapshot' /\ RestoreInv'
  BY DEF ArchiveIsSnapshot, RestoreInv, Snapshot
<1>6. QED  BY <1>2, <1>3, <1>4, <1>5

(* A packager's step keeps the invariant.                                  *)
LEMMA PackStep ==
  ASSUME IInv, NEW p \in Packager,
         Pack(p) \/ \E allow \in SUBSET File : StartPacking(p, allow)
  PROVE  IInv'
<1> USE DEF IInv, sources
<1>1. ASSUME NEW allow \in SUBSET File, StartPacking(p, allow)
      PROVE  IInv'
  <2> DEFINE begun == [Idle EXCEPT !.phase = "reading", !.number = packed + 1, !.allow = allow]
  <2>1. /\ packing' = [packing EXCEPT ![p] = begun]
        /\ packed' = packed + 1
        /\ UNCHANGED <<disk, writes, archive, restoring, destination>>
    BY <1>1 DEF StartPacking
  <2>2. begun \in Packing
    <3>1. packed + 1 \in Nat  BY DEF TypeOK
    <3>2. Idle \in Packing  BY RestingTypes
    <3>3. QED  BY <3>1, <3>2, BegunTypes
  <2>3. /\ begun.phase = "reading" /\ begun.allow = allow
        /\ begun.read = <<>> /\ begun.written = {} /\ begun.looked = {} /\ begun.checked = {}
    BY DEF Idle
  <2> HIDE DEF begun
  <2>4. TypeOK'  BY <2>1, <2>2 DEF TypeOK
  <2>5. ReadInv'  BY <2>1, <2>3, EmptyTree DEF TypeOK, ReadInv
  <2>6. CheckInv'  BY <2>1, <2>3 DEF TypeOK, CheckInv
  <2>7. ArchiveIsSnapshot' /\ RestoreInv'
    BY <2>1 DEF ArchiveIsSnapshot, RestoreInv, Snapshot
  <2>8. QED  BY <2>4, <2>5, <2>6, <2>7
<1>2. ASSUME NEW f \in File, ReadFile(p, f)
      PROVE  IInv'
  <2>1. packing[p].read \in Trees /\ disk[f] \in Content
    BY <1>2 DEF ReadFile, TypeOK, Packing, Disk
  <2> DEFINE larger == Larger(packing[p].read, f, disk[f])
  <2>2. larger \in Trees /\ DOMAIN larger = DOMAIN packing[p].read \cup {f}
    BY <2>1, LargerTree
  <2> USE <1>2 DEF ReadFile
  <2>3. packing' = [packing EXCEPT ![p] = [packing[p] EXCEPT !.read = larger]]
    BY DEF TypeOK, Packing, Larger
  <2>4. larger[f] = disk[f] /\ \A g \in DOMAIN packing[p].read : g # f => larger[g] = packing[p].read[g]
    BY DEF Larger
  <2> HIDE DEF larger
  <2>5. TypeOK'  BY <2>2, <2>3 DEF TypeOK, Packing
  <2>6. ReadInv'  BY <2>2, <2>3, <2>4 DEF TypeOK, Packing, ReadInv
  <2>7. CheckInv'  BY <2>3 DEF TypeOK, Packing, CheckInv
  <2>8. ArchiveIsSnapshot' /\ RestoreInv'
    BY DEF ArchiveIsSnapshot, RestoreInv, Snapshot
  <2>9. QED  BY <2>5, <2>6, <2>7, <2>8
<1>3. CASE WriteTemporary(p)
  <2> USE <1>3 DEF WriteTemporary
  <2>1. TypeOK'  BY DEF TypeOK, Packing
  <2>2. ReadInv'  BY DEF TypeOK, Packing, ReadInv
  <2>3. CheckInv'  BY DEF TypeOK, Packing, ReadInv, CheckInv
  <2>4. ArchiveIsSnapshot' /\ RestoreInv'
    BY DEF ArchiveIsSnapshot, RestoreInv, Snapshot
  <2>5. QED  BY <2>1, <2>2, <2>3, <2>4
<1>4. ASSUME NEW f \in File, CheckIdentity(p, f)
      PROVE  IInv'
  <2> USE <1>4 DEF CheckIdentity
  <2>1. TypeOK'  BY DEF TypeOK, Packing
  <2>2. ReadInv'  BY DEF TypeOK, Packing, ReadInv
  <2>3. CheckInv'  BY DEF TypeOK, Packing, CheckInv
  <2>4. ArchiveIsSnapshot' /\ RestoreInv'
    BY DEF ArchiveIsSnapshot, RestoreInv, Snapshot
  <2>5. QED  BY <2>1, <2>2, <2>3, <2>4
<1>5. ASSUME NEW f \in File, CheckDigest(p, f)
      PROVE  IInv'
  <2> USE <1>5 DEF CheckDigest
  <2>1. TypeOK'  BY DEF TypeOK, Packing
  <2>2. ReadInv'  BY DEF TypeOK, Packing, ReadInv
  <2>3. CheckInv'  BY DEF TypeOK, Packing, CheckInv
  <2>4. ArchiveIsSnapshot' /\ RestoreInv'
    BY DEF ArchiveIsSnapshot, RestoreInv, Snapshot
  <2>5. QED  BY <2>1, <2>2, <2>3, <2>4
<1>6. CASE PublishArchive(p)
  <2> USE <1>6 DEF PublishArchive
  <2>1. archive' \in Archive /\ ArchiveIsSnapshot'
    BY DEF TypeOK, Packing, Archive, CheckInv, ArchiveIsSnapshot, Snapshot
  <2>2. TypeOK'  BY <2>1, RestingTypes DEF TypeOK
  <2>3. ReadInv' /\ CheckInv'
    BY EmptyTree DEF TypeOK, ReadInv, CheckInv, Idle
  <2>4. RestoreInv'  BY DEF RestoreInv, Snapshot
  <2>5. QED  BY <2>1, <2>2, <2>3, <2>4
<1>7. CASE PackingFails(p)
  <2> USE <1>7 DEF PackingFails
  <2>1. TypeOK'  BY RestingTypes DEF TypeOK
  <2>2. ReadInv' /\ CheckInv'
    BY EmptyTree DEF TypeOK, ReadInv, CheckInv, Idle
  <2>3. ArchiveIsSnapshot' /\ RestoreInv'
    BY DEF ArchiveIsSnapshot, RestoreInv, Snapshot
  <2>4. QED  BY <2>1, <2>2, <2>3
<1>8. QED  BY <1>1, <1>2, <1>3, <1>4, <1>5, <1>6, <1>7 DEF Pack

(* A restorer's step keeps the invariant.                                  *)
LEMMA RestoreStep ==
  ASSUME IInv, NEW r \in Restorer, VerifyArchive(r) \/ Restore(r)
  PROVE  IInv'
<1> USE DEF IInv, sources
<1>1. UNCHANGED <<disk, writes, packing, packed, archive>>
  BY DEF Restore, VerifyArchive, ReadPayload, StageFile, RenameStaging, RestoreFails, sources
<1>2. ReadInv' /\ CheckInv' /\ ArchiveIsSnapshot'
  BY <1>1 DEF ReadInv, CheckInv, ArchiveIsSnapshot, Snapshot
<1>3. CASE VerifyArchive(r)
  <2>1. TypeOK'  BY <1>1, <1>3, EmptyTree DEF VerifyArchive, TypeOK, Restoring
  <2>2. RestoreInv'
    BY <1>3 DEF VerifyArchive, TypeOK, Restoring, RestoreInv, ArchiveIsSnapshot, Snapshot
  <2>3. QED  BY <1>2, <2>1, <2>2
<1>4. CASE ReadPayload(r)
  <2>1. TypeOK'  BY <1>1, <1>4 DEF ReadPayload, TypeOK, Restoring
  <2>2. RestoreInv'  BY <1>4 DEF ReadPayload, TypeOK, Restoring, RestoreInv, Snapshot
  <2>3. QED  BY <1>2, <2>1, <2>2
<1>5. ASSUME NEW f \in File, StageFile(r, f)
      PROVE  IInv'
  <2> USE <1>5 DEF StageFile
  <2>1. restoring[r].staging \in Trees
    BY DEF TypeOK, Restoring
  <2> DEFINE c == restoring[r].from.files[f]
             larger == Larger(restoring[r].staging, f, c)
  <2>c. c \in Content
    BY DEF TypeOK, Restoring, Archive, Trees
  <2>2. larger \in Trees /\ DOMAIN larger = DOMAIN restoring[r].staging \cup {f}
    BY <2>1, <2>c, LargerTree
  <2>3. restoring' = [restoring EXCEPT ![r] = [restoring[r] EXCEPT !.staging = larger]]
    BY DEF TypeOK, Restoring, Larger
  <2> HIDE DEF larger
  <2>4. TypeOK'  BY <1>1, <2>2, <2>3 DEF TypeOK, Restoring
  <2>5. RestoreInv'  BY <2>3 DEF TypeOK, Restoring, RestoreInv, Snapshot
  <2>6. QED  BY <1>2, <2>4, <2>5
<1>6. CASE RenameStaging(r)
  <2> USE <1>6 DEF RenameStaging
  <2>1. destination' = restoring[r].from
    BY DEF TypeOK, Restoring, Archive
  <2>2. TypeOK'  BY <1>1, <2>1, RestingTypes DEF TypeOK, Restoring
  <2>3. RestoreInv'  BY RestingTypes DEF TypeOK, Restoring, RestoreInv, Snapshot, Resting
  <2>4. QED  BY <1>2, <2>2, <2>3
<1>7. CASE RestoreFails(r)
  <2>1. TypeOK'  BY <1>1, <1>7, RestingTypes DEF RestoreFails, TypeOK
  <2>2. RestoreInv'
    BY <1>7, RestingTypes DEF RestoreFails, TypeOK, Restoring, RestoreInv, Snapshot, Resting
  <2>3. QED  BY <1>2, <2>1, <2>2
<1>8. QED  BY <1>3, <1>4, <1>5, <1>6, <1>7 DEF Restore

(* The invariant is inductive.                                             *)
LEMMA NextIInv == IInv /\ [Next]_vars => IInv'
<1> SUFFICES ASSUME IInv, [Next]_vars PROVE IInv'
  OBVIOUS
<1>1. CASE Next  BY <1>1, WriteStep, PackStep, RestoreStep DEF Next
<1>2. CASE UNCHANGED vars
  BY <1>2 DEF vars, sources, IInv, TypeOK, ReadInv, CheckInv, ArchiveIsSnapshot, RestoreInv,
              Snapshot
<1>3. QED  BY <1>1, <1>2

(* The invariant holds in every reachable state.                           *)
THEOREM Invariance == Spec => []IInv
  BY InitIInv, NextIInv, PTL DEF Spec

-----------------------------------------------------------------------------
(* The variables of Transfer hold values of their kinds.                   *)
THEOREM TypeCorrect == Spec => []TypeOK
<1>1. IInv => TypeOK  BY DEF IInv
<1>2. QED  BY <1>1, Invariance, PTL

(* create_transfer_package: what is published was on disk at one moment.   *)
THEOREM ArchivesAreSnapshots == Spec => []ArchiveIsSnapshot
<1>1. IInv => ArchiveIsSnapshot  BY DEF IInv
<1>2. QED  BY <1>1, Invariance, PTL

(* restore_transfer_package: a destination appears once, whole, and is an  *)
(* archive that is a snapshot.                                             *)
THEOREM RestoresAreWhole == Spec => RestoredWhole
<1> DEFINE Whole == destination' # destination =>
                        /\ destination = None
                        /\ \E r \in Restorer : destination' = restoring[r].from
                        /\ Snapshot(destination')
<1>1. IInv /\ [Next]_vars => [Whole]_vars
  <2> SUFFICES ASSUME IInv, Next, destination' # destination
               PROVE  /\ destination = None
                      /\ \E r \in Restorer : destination' = restoring[r].from
                      /\ Snapshot(destination')
    OBVIOUS
  <2>1. PICK r \in Restorer : RenameStaging(r)
    BY DEF Next, Write, Pack, StartPacking, ReadFile, CheckIdentity, CheckDigest, WriteTemporary, PublishArchive,
           PackingFails, Restore, VerifyArchive, ReadPayload, StageFile, RestoreFails
  <2>2. destination' = restoring[r].from
    BY <2>1 DEF RenameStaging, IInv, TypeOK, Restoring, Archive
  <2>3. Snapshot(restoring[r].from)  BY DEF IInv, RestoreInv
  <2>4. Snapshot(destination')  BY <2>2, <2>3
  <2>5. QED  BY <2>1, <2>2, <2>4 DEF RenameStaging
<1>2. QED  BY <1>1, Invariance, PTL DEF Spec, RestoredWhole

-----------------------------------------------------------------------------
(* The files of an archive at one moment, in one step.                     *)

\* Nothing that is under way is empty.
MapInv ==
    /\ \A p \in Packager : packing[p].phase # "idle" => packing[p].allow # {}
    /\ archive # NoArchive => archive.files # <<>>
    /\ \A r \in Restorer : restoring[r].phase = "idle" <=> restoring[r].from.files = <<>>

LEMMA InitMap == Init => MapInv
  BY DEF Init, MapInv, Idle, Resting, NoArchive

\* What every packager has taken, and what every restorer holds.
TakenAll == [p \in Packager |-> Taken(packing[p])]
HeldAll == [r \in Restorer |-> restoring[r].from.files]
Placed == IF destination = None THEN <<>> ELSE destination.files

\* A packager at rest or reading has taken nothing.
LEMMA NothingTaken ==
  ASSUME NEW k, k.phase # "checking"
  PROVE  Taken(k) = <<>>
  BY DEF Taken

\* One packager moves.
LEMMA OnePacks ==
  ASSUME TypeOK, NEW p \in Packager, NEW k \in Packing, packing' = [packing EXCEPT ![p] = k]
  PROVE  TakenAll' = [TakenAll EXCEPT ![p] = Taken(k)]
  BY DEF TypeOK, TakenAll

LEMMA OneRestores ==
  ASSUME TypeOK, NEW r \in Restorer, NEW k \in Restoring, restoring' = [restoring EXCEPT ![r] = k]
  PROVE  HeldAll' = [HeldAll EXCEPT ![r] = k.from.files]
  BY DEF TypeOK, HeldAll

\* Only a packager's own step changes its record and the archive.
LEMMA WriteMaps ==
  ASSUME IInv, MapInv, NEW f \in File, NEW c \in Content \cup {Absent}, Write(f, c)
  PROVE  MapInv' /\ Atomic!Write(f, c)
<1>1. ASSUME NEW p \in Packager
      PROVE  Taken(packing'[p]) = Taken(packing[p]) /\ packing'[p].phase = packing[p].phase
             /\ packing'[p].allow = packing[p].allow
  <2>1. PICK k \in Packing : k = packing[p]  BY DEF IInv, TypeOK
  <2>2. packing'[p] = [k EXCEPT !.written = @ \cup ({f} \cap DOMAIN k.read)]  BY <2>1 DEF Write
  <2>3. /\ packing'[p].phase = k.phase /\ packing'[p].allow = k.allow
        /\ packing'[p].read = k.read /\ packing'[p].moment = k.moment
    BY <2>2 DEF Packing
  <2>4. QED  BY <2>1, <2>3 DEF Taken
<1>2. TakenAll' = TakenAll  BY <1>1 DEF TakenAll
<1>3. MapInv'  BY <1>1 DEF MapInv, Write
<1>4. QED  BY <1>2, <1>3 DEF Write, Atomic!Write, TakenAll

\* A step of a packager that neither takes nor publishes.
LEMMA PackStutters ==
  ASSUME IInv, MapInv, NEW p \in Packager, NEW k \in Packing,
         packing' = [packing EXCEPT ![p] = k], Taken(k) = Taken(packing[p]),
         k.phase # "idle" => k.allow # {},
         UNCHANGED <<disk, archive, restoring, destination>>
  PROVE  MapInv' /\ UNCHANGED Atomic!vars
<1>1. TakenAll' = [TakenAll EXCEPT ![p] = Taken(packing[p])]  BY OnePacks DEF IInv
<1>2. TakenAll' = TakenAll  BY <1>1 DEF TakenAll
<1>3. \A q \in Packager : packing'[q] = IF q = p THEN k ELSE packing[q]  BY DEF IInv, TypeOK
<1>4. MapInv'  BY <1>3 DEF MapInv
<1>5. QED  BY <1>2, <1>4 DEF Atomic!vars, TakenAll

\* The reading is over.
LEMMA WriteTemporaryMaps ==
  ASSUME IInv, MapInv, NEW p \in Packager, WriteTemporary(p)
  PROVE  MapInv' /\ [Atomic!Next]_(Atomic!vars)
<1>1. PICK k \in Packing : k = packing[p]  BY DEF IInv, TypeOK
<1>2. PICK n : n = [k EXCEPT !.phase = "checking", !.moment = disk]  OBVIOUS
<1>3. /\ n \in Packing /\ n.phase = "checking" /\ n.allow = k.allow /\ n.read = k.read
      /\ n.moment = disk
  BY <1>2 DEF Packing, IInv, TypeOK
<1>4. /\ packing' = [packing EXCEPT ![p] = n] /\ k.phase = "reading" /\ DOMAIN k.read = k.allow
      /\ UNCHANGED <<disk, archive, restoring, destination>>
  BY <1>1, <1>2 DEF WriteTemporary, sources
<1>5. k.allow # {} /\ k.allow \in SUBSET File  BY <1>1, <1>4 DEF MapInv, Packing
<1>6. Taken(k) = <<>>  BY <1>4, NothingTaken
<1>7. CASE \A f \in k.allow : k.read[f] = disk[f]
  <2>1. PICK A \in SUBSET File : k.read \in [A -> Content]  BY DEF Packing, Trees
  <2>2. A = k.allow  BY <1>4, <2>1
  <2>3. k.read = [f \in k.allow |-> disk[f]]  BY <1>7, <2>1, <2>2
  <2>4. \A f \in k.allow : disk[f] # Absent  BY <1>7, <2>1, <2>2, TransferAssumption
  <2>5. Taken(n) = [f \in k.allow |-> disk[f]]  BY <1>3, <1>7, <2>3 DEF Taken
  <2>6. TakenAll[p] = <<>>  BY <1>1, <1>6 DEF TakenAll
  <2>7. TakenAll' = [TakenAll EXCEPT ![p] = [f \in k.allow |-> disk[f]]]
    BY <1>3, <1>4, <2>5, OnePacks DEF IInv
  <2>8. Atomic!Take(p, k.allow)
    BY <1>4, <1>5, <2>4, <2>6, <2>7 DEF Atomic!Take, Atomic!Nothing, TakenAll
  <2>9. \A q \in Packager : packing'[q] = IF q = p THEN n ELSE packing[q]
    BY <1>4 DEF IInv, TypeOK
  <2>10. MapInv'  BY <1>3, <1>4, <1>5, <2>9 DEF MapInv
  <2>11. QED  BY <1>5, <2>8, <2>10 DEF Atomic!Next
<1>8. CASE ~ \A f \in k.allow : k.read[f] = disk[f]
  <2>1. Taken(n) = <<>>  BY <1>3, <1>8 DEF Taken
  <2>2. QED  BY <1>1, <1>3, <1>4, <1>5, <1>6, <2>1, PackStutters
<1>9. QED  BY <1>7, <1>8

\* What passed the checks is what was taken.
LEMMA PublishMaps ==
  ASSUME IInv, MapInv, NEW p \in Packager, PublishArchive(p)
  PROVE  MapInv' /\ Atomic!Publish(p)
<1>1. PICK k \in Packing : k = packing[p]  BY DEF IInv, TypeOK
<1>2. /\ packing' = [packing EXCEPT ![p] = Idle] /\ k.phase = "checking" /\ k.checked = k.allow
      /\ archive'.files = k.read
      /\ UNCHANGED <<disk, restoring, destination>>
  BY <1>1 DEF PublishArchive, sources
<1>3. /\ DOMAIN k.read = k.allow /\ k.allow # {}
      /\ \A f \in k.allow : k.moment[f] = k.read[f]
  BY <1>1, <1>2 DEF IInv, CheckInv, MapInv
<1>4. k.read # <<>>  BY <1>3, EmptyTree
<1>5. Taken(k) = k.read /\ Taken(Idle) = <<>>  BY <1>2, <1>3 DEF Taken, Idle
<1>6. TakenAll' = [TakenAll EXCEPT ![p] = <<>>]
  BY <1>2, <1>5, OnePacks, RestingTypes DEF IInv
<1>7. TakenAll[p] = k.read  BY <1>1, <1>5 DEF TakenAll
<1>8. \A q \in Packager : packing'[q] = IF q = p THEN Idle ELSE packing[q]
  BY <1>2 DEF IInv, TypeOK
<1>9. Idle.phase = "idle"  BY DEF Idle
<1>10. MapInv'  BY <1>2, <1>4, <1>8, <1>9 DEF MapInv
<1>11. QED
  BY <1>2, <1>4, <1>6, <1>7, <1>10 DEF Atomic!Publish, Atomic!Nothing, TakenAll

LEMMA PackMaps ==
  ASSUME IInv, MapInv, NEW p \in Packager,
         Pack(p) \/ \E allow \in SUBSET File : StartPacking(p, allow)
  PROVE  MapInv' /\ [Atomic!Next]_(Atomic!vars)
<1>1. PICK k \in Packing : k = packing[p]  BY DEF IInv, TypeOK
<1>2. ASSUME NEW allow \in SUBSET File, StartPacking(p, allow)
      PROVE  MapInv' /\ UNCHANGED Atomic!vars
  <2>1. PICK n : n = [Idle EXCEPT !.phase = "reading", !.number = packed + 1, !.allow = allow]
    OBVIOUS
  <2>2. n \in Packing
    <3>1. packed + 1 \in Nat  BY DEF IInv, TypeOK
    <3>2. Idle \in Packing  BY RestingTypes
    <3>3. QED  BY <2>1, <3>1, <3>2, BegunTypes
  <2>3. n.phase = "reading" /\ n.allow = allow  BY <2>1 DEF Idle
  <2>4. /\ packing' = [packing EXCEPT ![p] = n] /\ allow # {} /\ k.phase = "idle"
        /\ UNCHANGED <<disk, archive, restoring, destination>>
    BY <1>1, <1>2, <2>1 DEF StartPacking, sources
  <2>5. Taken(n) = <<>> /\ Taken(k) = <<>>  BY <2>3, <2>4, NothingTaken
  <2>6. QED  BY <1>1, <2>2, <2>3, <2>4, <2>5, PackStutters
<1>3. ASSUME NEW f \in File, ReadFile(p, f)
      PROVE  MapInv' /\ UNCHANGED Atomic!vars
  <2>1. k.read \in Trees /\ disk[f] \in Content
    BY <1>1, <1>3 DEF ReadFile, IInv, TypeOK, Packing, Disk
  <2>2. PICK t \in Trees : t = Larger(k.read, f, disk[f])  BY <2>1, LargerTree
  <2>3. PICK n : n = [k EXCEPT !.read = t]  OBVIOUS
  <2>4. n \in Packing /\ n.phase = k.phase /\ n.allow = k.allow  BY <2>3 DEF Packing
  <2>5. /\ packing' = [packing EXCEPT ![p] = n] /\ k.phase = "reading" /\ k.allow # {}
        /\ UNCHANGED <<disk, archive, restoring, destination>>
    BY <1>1, <1>3, <2>2, <2>3 DEF ReadFile, Larger, sources, MapInv
  <2>6. Taken(n) = <<>> /\ Taken(k) = <<>>  BY <2>4, <2>5, NothingTaken
  <2>7. QED  BY <1>1, <2>4, <2>5, <2>6, PackStutters
<1>4. ASSUME NEW f \in File, CheckIdentity(p, f) \/ CheckDigest(p, f)
      PROVE  MapInv' /\ UNCHANGED Atomic!vars
  <2>1. PICK n \in {[k EXCEPT !.looked = @ \cup {f}], [k EXCEPT !.checked = @ \cup {f}]} :
            packing' = [packing EXCEPT ![p] = n]
    BY <1>1, <1>4 DEF CheckIdentity, CheckDigest
  <2>2. /\ n \in Packing /\ n.phase = k.phase /\ n.allow = k.allow /\ n.read = k.read
        /\ n.moment = k.moment
    BY <2>1 DEF Packing
  <2>3. k.phase # "idle" /\ UNCHANGED <<disk, archive, restoring, destination>>
    BY <1>1, <1>4 DEF CheckIdentity, CheckDigest, sources
  <2>4. Taken(n) = Taken(k)  BY <2>2 DEF Taken
  <2>5. k.allow # {}  BY <1>1, <2>3 DEF MapInv
  <2>6. QED  BY <1>1, <2>1, <2>2, <2>3, <2>4, <2>5, PackStutters
<1>5. CASE PackingFails(p)
  <2>1. packing' = [packing EXCEPT ![p] = Idle] /\ UNCHANGED <<disk, archive, restoring, destination>>
    BY <1>5 DEF PackingFails, sources
  <2>2. Idle.phase = "idle" /\ Taken(Idle) = <<>>  BY NothingTaken DEF Idle
  <2>3. TakenAll' = [TakenAll EXCEPT ![p] = <<>>]
    BY <2>1, <2>2, OnePacks, RestingTypes DEF IInv
  <2>4. Atomic!Drop(p)  BY <2>1, <2>3 DEF Atomic!Drop, Atomic!Nothing, TakenAll
  <2>5. \A q \in Packager : packing'[q] = IF q = p THEN Idle ELSE packing[q]
    BY <2>1 DEF IInv, TypeOK
  <2>6. MapInv'  BY <2>1, <2>2, <2>5 DEF MapInv
  <2>7. QED  BY <2>4, <2>6 DEF Atomic!Next
<1>6. CASE WriteTemporary(p)  BY <1>6, WriteTemporaryMaps
<1>7. CASE PublishArchive(p)  BY <1>7, PublishMaps DEF Atomic!Next
<1>8. QED  BY <1>2, <1>3, <1>4, <1>5, <1>6, <1>7 DEF Pack

\* What is verified is held, and what is held is put in place or let go.
LEMMA RestoreMaps ==
  ASSUME IInv, MapInv, NEW r \in Restorer, VerifyArchive(r) \/ Restore(r)
  PROVE  MapInv' /\ [Atomic!Next]_(Atomic!vars)
<1>1. PICK k \in Restoring : k = restoring[r]  BY DEF IInv, TypeOK
<1>2. UNCHANGED <<disk, packing, archive>> /\ TakenAll' = TakenAll
  BY DEF Restore, VerifyArchive, ReadPayload, StageFile, RenameStaging, RestoreFails, sources,
         TakenAll
<1>3. ASSUME NEW n \in Restoring, restoring' = [restoring EXCEPT ![r] = n],
             n.phase = "idle" <=> n.from.files = <<>>
      PROVE  MapInv' /\ HeldAll' = [HeldAll EXCEPT ![r] = n.from.files]
  <2>1. \A q \in Restorer : restoring'[q] = IF q = r THEN n ELSE restoring[q]
    BY <1>3 DEF IInv, TypeOK
  <2>2. MapInv'  BY <1>2, <1>3, <2>1 DEF MapInv
  <2>3. QED  BY <1>3, <2>2, OneRestores DEF IInv
<1>4. Resting.phase = "idle" /\ Resting.from.files = <<>> /\ Resting \in Restoring
  BY RestingTypes DEF Resting, NoArchive
<1>5. HeldAll[r] = k.from.files  BY <1>1 DEF HeldAll
<1>6. CASE VerifyArchive(r)
  <2>1. PICK n : n = [phase |-> "verified", from |-> archive, staging |-> <<>>]  OBVIOUS
  <2>2. n \in Restoring  BY <2>1, EmptyTree DEF Restoring, IInv, TypeOK
  <2>3. /\ restoring' = [restoring EXCEPT ![r] = n] /\ n.phase = "verified" /\ n.from = archive
        /\ k.phase = "idle" /\ archive # NoArchive /\ destination = None
        /\ destination' = destination
    BY <1>1, <1>6, <2>1 DEF VerifyArchive
  <2>4. archive.files # <<>> /\ k.from.files = <<>>  BY <1>1, <2>3 DEF MapInv
  <2>5. MapInv' /\ HeldAll' = [HeldAll EXCEPT ![r] = archive.files]
    BY <1>3, <2>2, <2>3, <2>4
  <2>6. Atomic!Hold(r)
    BY <1>2, <1>5, <2>3, <2>4, <2>5 DEF Atomic!Hold, Atomic!Nothing, TakenAll, HeldAll
  <2>7. QED  BY <2>5, <2>6 DEF Atomic!Next
<1>7. CASE ReadPayload(r) \/ \E f \in File : StageFile(r, f)
  <2>1. PICK n \in Restoring : /\ restoring' = [restoring EXCEPT ![r] = n]
                               /\ n.phase # "idle" /\ k.phase # "idle" /\ n.from = k.from
    <3>1. CASE ReadPayload(r)
      <4>1. PICK n : n = [k EXCEPT !.phase = "staging"]  OBVIOUS
      <4>2. n \in Restoring /\ n.phase = "staging" /\ n.from = k.from  BY <4>1 DEF Restoring
      <4>3. QED  BY <1>1, <3>1, <4>1, <4>2 DEF ReadPayload
    <3>2. ASSUME NEW f \in File, StageFile(r, f)
          PROVE  \E n \in Restoring : /\ restoring' = [restoring EXCEPT ![r] = n]
                                      /\ n.phase # "idle" /\ k.phase # "idle" /\ n.from = k.from
      <4>1. k.staging \in Trees /\ k.from.files[f] \in Content
        BY <1>1, <3>2 DEF StageFile, Restoring, Archive, Trees
      <4>2. PICK t \in Trees : t = Larger(k.staging, f, k.from.files[f])  BY <4>1, LargerTree
      <4>3. PICK n : n = [k EXCEPT !.staging = t]  OBVIOUS
      <4>4. n \in Restoring /\ n.phase = k.phase /\ n.from = k.from  BY <4>3 DEF Restoring
      <4>5. restoring' = [restoring EXCEPT ![r] = n] /\ k.phase = "staging"
        BY <1>1, <3>2, <4>2, <4>3 DEF StageFile, Larger
      <4>6. QED  BY <4>4, <4>5
    <3>3. QED  BY <1>7, <3>1, <3>2
  <2>2. n.from.files # <<>>  BY <1>1, <2>1 DEF MapInv
  <2>3. MapInv' /\ HeldAll' = [HeldAll EXCEPT ![r] = k.from.files]  BY <1>3, <2>1, <2>2
  <2>4. HeldAll' = HeldAll  BY <1>5, <2>3 DEF HeldAll
  <2>5. destination' = destination  BY <1>7 DEF ReadPayload, StageFile
  <2>6. QED  BY <1>2, <2>3, <2>4, <2>5 DEF Atomic!vars, TakenAll, HeldAll
<1>8. CASE RenameStaging(r)
  <2>1. /\ restoring' = [restoring EXCEPT ![r] = Resting] /\ destination = None
        /\ k.phase # "idle" /\ destination' = k.from
    BY <1>1, <1>8 DEF RenameStaging, Restoring, Archive
  <2>2. k.from \in Archive /\ k.from.files # <<>>  BY <1>1, <2>1 DEF Restoring, MapInv
  <2>3. destination' # None  BY <2>1, <2>2, TransferAssumption
  <2>4. MapInv' /\ HeldAll' = [HeldAll EXCEPT ![r] = <<>>]  BY <1>3, <1>4, <2>1
  <2>5. Atomic!Put(r)
    BY <1>2, <1>5, <2>1, <2>2, <2>3, <2>4 DEF Atomic!Put, Atomic!Nothing, TakenAll, HeldAll
  <2>6. QED  BY <2>4, <2>5 DEF Atomic!Next
<1>9. CASE RestoreFails(r)
  <2>1. restoring' = [restoring EXCEPT ![r] = Resting] /\ destination' = destination
    BY <1>9 DEF RestoreFails
  <2>2. MapInv' /\ HeldAll' = [HeldAll EXCEPT ![r] = <<>>]  BY <1>3, <1>4, <2>1
  <2>3. Atomic!LetGo(r)
    BY <1>2, <2>1, <2>2 DEF Atomic!LetGo, Atomic!Nothing, TakenAll, HeldAll
  <2>4. QED  BY <2>2, <2>3 DEF Atomic!Next
<1>10. QED  BY <1>6, <1>7, <1>8, <1>9 DEF Restore

\* create_transfer_package and restore_transfer_package, which take no lock and see
\* one file at a time, come to the same as taking all files at one moment,
\* publishing them whole and putting them in place whole.  OperationalBackup has
\* its archives made and restored in such steps.
THEOREM ImplementsAtomicTransfer == Spec => RefinesAtomicTransfer
<1>1. Init => Atomic!Init
  <2> SUFFICES ASSUME Init PROVE Atomic!Init
    OBVIOUS
  <2>1. \A p \in Packager : Taken(packing[p]) = <<>>  BY NothingTaken DEF Init, Idle
  <2>2. \A r \in Restorer : restoring[r].from.files = <<>>  BY DEF Init, Resting, NoArchive
  <2>3. archive.files = <<>> /\ destination = None /\ disk \in Disk  BY DEF Init, NoArchive
  <2>4. QED  BY <2>1, <2>2, <2>3 DEF Atomic!Init, Atomic!Nothing, Disk
<1>2. IInv /\ MapInv /\ [Next]_vars => MapInv' /\ [Atomic!Next]_(Atomic!vars)
  <2> SUFFICES ASSUME IInv, MapInv, [Next]_vars PROVE MapInv' /\ [Atomic!Next]_(Atomic!vars)
    OBVIOUS
  <2>1. CASE \E f \in File, c \in Content \cup {Absent} : Write(f, c)
    BY <2>1, WriteMaps DEF Atomic!Next
  <2>2. CASE UNCHANGED vars
    BY <2>2 DEF vars, sources, MapInv, Atomic!vars
  <2>3. QED  BY <2>1, <2>2, PackMaps, RestoreMaps DEF Next
<1>3. QED
  BY <1>1, <1>2, InitMap, Invariance, PTL DEF Spec, RefinesAtomicTransfer, Atomic!Spec

-----------------------------------------------------------------------------
(* The archive path.  Nothing keeps two packagers from finding it free.    *)

\* Whoever is at work has found the path free, and it still is.
PathFree == archive # NoArchive => \A p \in Packager : packing[p].phase = "idle"

OneAtATime ==
    \A p, q \in Packager : packing[p].phase # "idle" /\ packing[q].phase # "idle" => p = q

\* create_transfer_package: an archive is never replaced while one packager works
\* at a time.  Two at a time are the only way to lose one, for all the writes,
\* failures and deaths there may be.
THEOREM OnePackagerKeepsArchives ==
    Spec /\ []OneAtATime => [][archive # NoArchive => archive' = archive]_vars
<1> DEFINE Kept == archive # NoArchive => archive' = archive
<1>1. Init => PathFree  BY DEF Init, PathFree
<1>2. IInv /\ PathFree /\ OneAtATime /\ [Next]_vars => PathFree' /\ [Kept]_vars
  <2> SUFFICES ASSUME IInv, PathFree, OneAtATime, [Next]_vars PROVE PathFree' /\ [Kept]_vars
    OBVIOUS
  <2>1. CASE \E f \in File, c \in Content \cup {Absent} : Write(f, c)
    BY <2>1 DEF Write, PathFree, IInv, TypeOK, Packing
  <2>2. ASSUME NEW p \in Packager, NEW allow \in SUBSET File, StartPacking(p, allow)
        PROVE  PathFree' /\ Kept
    BY <2>2 DEF StartPacking, PathFree
  <2>3. ASSUME NEW p \in Packager, Pack(p)
        PROVE  PathFree' /\ Kept
    <3>1. packing[p].phase # "idle"
      BY <2>3 DEF Pack, ReadFile, CheckIdentity, CheckDigest, WriteTemporary, PublishArchive,
                  PackingFails
    <3>2. archive = NoArchive  BY <3>1 DEF PathFree
    <3>3. CASE PublishArchive(p)
      <4>1. \A q \in Packager : q # p => packing[q].phase = "idle"  BY <3>1 DEF OneAtATime
      <4>2. \A q \in Packager : packing'[q] = IF q = p THEN Idle ELSE packing[q]
        BY <3>3 DEF PublishArchive, IInv, TypeOK
      <4>3. Idle.phase = "idle"  BY DEF Idle
      <4>4. QED  BY <3>2, <4>1, <4>2, <4>3 DEF PathFree
    <3>4. CASE ~ PublishArchive(p)
      <4>1. archive' = archive
        BY <2>3, <3>4 DEF Pack, ReadFile, CheckIdentity, CheckDigest, WriteTemporary, PackingFails
      <4>2. QED  BY <3>2, <4>1 DEF PathFree
    <3>5. QED  BY <3>3, <3>4
  <2>4. ASSUME NEW r \in Restorer, VerifyArchive(r) \/ Restore(r)
        PROVE  PathFree' /\ Kept
    BY <2>4 DEF VerifyArchive, Restore, ReadPayload, StageFile, RenameStaging, RestoreFails, PathFree
  <2>5. CASE UNCHANGED vars  BY <2>5 DEF vars, PathFree
  <2>6. QED  BY <2>1, <2>2, <2>3, <2>4, <2>5 DEF Next
<1>3. QED  BY <1>1, <1>2, Invariance, PTL DEF Spec
=============================================================================
