----------------------- MODULE OperationalBackupProofs -----------------------
(***************************************************************************)
(* What OperationalBackup guarantees for any number of operators, files,   *)
(* contents and calls.  The argument: the lock is held exactly by a        *)
(* process between taking and giving it up, so one backup or drill runs at *)
(* a time (HoldsLock); a file that nobody touched since the backup began   *)
(* still holds what each scan saw of it and what was packed (ScanRight,    *)
(* PlanRight, PackRight), hence what the person reviewed; and while a      *)
(* drill compares, nobody writes to the copy, so what was found whole      *)
(* stays so (CopyWhole).                                                   *)
(*                                                                         *)
(* The links of this chain hold together if the archive path is quiet when *)
(* its digest is taken and when it is compared: then what the receipt      *)
(* names is what was packed, and what a drill opens is what the receipt    *)
(* names (Ledger), so the copy is as reviewed (CopiesAsReviewed).          *)
(***************************************************************************)
EXTENDS OperationalBackup, TLAPS

\* Phases of a call that holds the lock, or left it behind.
Holding == {"planning", "listing", "packed", "rescanning", "verifying", "restoring", "reading",
            "comparing", "crashed"}

HoldsLock(o) == op[o].phase \in Holding <=> lock = o

\* A tree tells what is on disk of the files of S.
Agrees(tree, S) == \A f \in S : Of(tree, f) = disk[f]

(* What holds of the local variables i of an operator.                     *)

\* A scan under the lock lists only what it looked at, and is right about what
\* nobody has touched.
ScanRight(i) ==
    i.phase \in {"planning", "listing", "packed", "rescanning"} =>
        /\ DOMAIN i.seen \cap i.todo = {}
        /\ Agrees(i.seen, File \ (i.todo \cup i.touched))
        /\ i.reviewed # None

\* The accepted plan is the reviewed one, and right about what nobody touched.
PlanRight(i) ==
    i.phase \in {"listing", "packed", "rescanning"} =>
        i.plan = i.reviewed /\ Agrees(i.plan, File \ i.touched)

\* So is what has been packed.
PackRight(i) ==
    i.phase \in {"packed", "rescanning"} => Agrees(i.result.files, File \ i.touched)

\* The copy has the bytes of the manifest wherever it has been compared.
CopyWhole(i) ==
    /\ i.phase \in {"reading", "comparing"} => destination \in Trees
    /\ i.phase = "comparing" =>
           \A f \in DOMAIN i.result.files \ i.todo : Of(destination, f) = i.result.files[f]

Right(i) == ScanRight(i) /\ PlanRight(i) /\ PackRight(i) /\ CopyWhole(i)

IInv ==
    /\ TypeOK
    /\ \A o \in Operator : HoldsLock(o) /\ Right(op[o])
    /\ SteadyFilesAsReviewed

-----------------------------------------------------------------------------
(* Trees: the empty one, one with one more file, one with a file replaced, *)
(* and the part of the disk that is there.                                 *)
LEMMA EmptyTree == <<>> \in Trees /\ DOMAIN <<>> = {}
  BY DEF Trees

LEMMA TreeFiles ==
  ASSUME NEW t \in Trees
  PROVE  DOMAIN t \subseteq File /\ \A f \in DOMAIN t : t[f] \in Content
  BY DEF Trees

LEMMA WithTree ==
  ASSUME NEW t \in Trees, NEW f \in File, NEW c \in Content
  PROVE  /\ With(t, f, c) \in Trees
         /\ DOMAIN With(t, f, c) = DOMAIN t \cup {f}
         /\ \A g : Of(With(t, f, c), g) = IF g = f THEN c ELSE Of(t, g)
<1>1. PICK A \in SUBSET File : t \in [A -> Content]  BY DEF Trees
<1>2. A \cup {f} \in SUBSET File  BY <1>1
<1>3. With(t, f, c) \in [A \cup {f} -> Content]  BY <1>1 DEF With
<1>4. With(t, f, c) \in Trees  BY <1>2, <1>3 DEF Trees
<1>5. QED  BY <1>4 DEF With, Of

\* The list after a look at f, which holds c.
Listed(t, f, c) == IF c = Absent THEN t ELSE With(t, f, c)

LEMMA ListedTree ==
  ASSUME NEW t \in Trees, NEW f \in File, NEW c \in Content \cup {Absent}
  PROVE  /\ Listed(t, f, c) \in Trees
         /\ DOMAIN Listed(t, f, c) \subseteq DOMAIN t \cup {f}
         /\ \A g \in File : g # f => Of(Listed(t, f, c), g) = Of(t, g)
         /\ Of(t, f) = Absent => Of(Listed(t, f, c), f) = c
<1>1. CASE c = Absent  BY <1>1 DEF Listed
<1>2. CASE c # Absent
  <2>1. c \in Content /\ Listed(t, f, c) = With(t, f, c)  BY <1>2 DEF Listed
  <2>2. /\ With(t, f, c) \in Trees
        /\ DOMAIN With(t, f, c) = DOMAIN t \cup {f}
        /\ \A g : Of(With(t, f, c), g) = IF g = f THEN c ELSE Of(t, g)
    BY <2>1, WithTree
  <2>3. QED  BY <2>1, <2>2
<1>3. QED  BY <1>1, <1>2

LEMMA ReplacedTree ==
  ASSUME NEW t \in Trees, NEW f \in DOMAIN t, NEW c \in Content
  PROVE  [t EXCEPT ![f] = c] \in Trees
  BY DEF Trees

LEMMA DiskTree ==
  ASSUME NEW A \in SUBSET File, disk \in Disk, \A f \in A : disk[f] # Absent
  PROVE  /\ [f \in A |-> disk[f]] \in Trees
         /\ \A f \in File : Of([g \in A |-> disk[g]], f) = IF f \in A THEN disk[f] ELSE Absent
<1>1. [f \in A |-> disk[f]] \in [A -> Content]  BY DEF Disk
<1>2. QED  BY <1>1 DEF Trees, Of

-----------------------------------------------------------------------------
(* Records of the kinds the actions build.                                 *)
LEMMA RestTypes ==
  /\ NoArchive \in Archive
  /\ NoReceipt \in Receipt
  /\ AtRest \in Call
  /\ AtRest.phase = "idle" /\ AtRest.reviewed = None
<1>1. 0 \in 0..MaxArchives  BY BackupAssumption
<1>2. NoArchive \in Archive  BY <1>1, EmptyTree DEF NoArchive, Archive
<1>3. NoReceipt \in Receipt  BY <1>1, EmptyTree DEF NoReceipt, Receipt
<1>4. AtRest \in Call  BY <1>2, EmptyTree DEF AtRest, Call, Phase
<1>5. QED  BY <1>2, <1>3, <1>4 DEF AtRest

-----------------------------------------------------------------------------
(* Steps.                                                                  *)

\* An operator that does not run under the lock, or only reads the archive, has
\* nothing to be right about.
LEMMA Quiet ==
  ASSUME NEW i, i.phase \in {"idle", "previewing", "verifying", "restoring", "crashed"}
  PROVE  Right(i)
  BY DEF Right, ScanRight, PlanRight, PackRight, CopyWhole

\* What an operator knows stays true while files and copy stay.
LEMMA Kept ==
  ASSUME NEW i, Right(i), disk' = disk, destination' = destination
  PROVE  Right(i)'
<1>1. ScanRight(i)'  BY DEF Right, ScanRight, Agrees, Of
<1>2. PlanRight(i)'  BY DEF Right, PlanRight, Agrees, Of
<1>3. PackRight(i)'  BY DEF Right, PackRight, Agrees, Of
<1>4. CopyWhole(i)'  BY DEF Right, CopyWhole, Of
<1>5. QED  BY <1>1, <1>2, <1>3, <1>4 DEF Right

\* A step of one operator that writes neither files nor copy.
LEMMA OwnStep ==
  ASSUME IInv, NEW o \in Operator, NEW n \in Call, op' = [op EXCEPT ![o] = n],
         disk' = disk, destination' = destination, Right(n),
         n.phase \in Holding <=> lock' = o,
         \A q \in Operator \ {o} : lock' = q <=> lock = q
  PROVE  /\ op' \in [Operator -> Call]
         /\ \A q \in Operator : (HoldsLock(q) /\ Right(op[q]))'
<1>1. op \in [Operator -> Call]  BY DEF IInv, TypeOK
<1>2. op' \in [Operator -> Call] /\ op'[o] = n  BY <1>1
<1>3. ASSUME NEW q \in Operator PROVE (HoldsLock(q) /\ Right(op[q]))'
  <2>1. PICK i : i = op'[q]  OBVIOUS
  <2>2. Right(i)  BY <1>1, <1>2, <2>1 DEF IInv
  <2>3. Right(i)'  BY <2>2, Kept
  <2>4. Right(op[q])'
    BY <2>1, <2>3 DEF Right, ScanRight, PlanRight, PackRight, CopyWhole, Agrees, Of
  <2>5. CASE q = o  BY <1>2, <2>4, <2>5 DEF HoldsLock
  <2>6. CASE q # o  BY <1>1, <2>4, <2>6 DEF HoldsLock, IInv
  <2>7. QED  BY <2>5, <2>6
<1>4. QED  BY <1>2, <1>3

\* The process that holds the lock is the only one past taking it.
LEMMA OnlyOne ==
  ASSUME IInv, NEW o \in Operator, NEW q \in Operator, q # o, op[o].phase \in Holding
  PROVE  op[q].phase \notin Holding /\ lock = o
  BY DEF IInv, HoldsLock

\* A file is looked at.
LEMMA LookStep ==
  ASSUME IInv, NEW o \in Operator, NEW f \in File, Look(o, f)
  PROVE  IInv'
<1>1. PICK i \in Call : i = op[o] /\ Right(i) /\ (i.phase \in Holding <=> lock = o)
  BY DEF IInv, TypeOK, HoldsLock
<1>2. PICK t : t = Listed(i.seen, f, disk[f])
  OBVIOUS
<1>3. i.seen \in Trees /\ i.todo \in SUBSET File /\ i.touched \in SUBSET File
  BY DEF Call
<1>4. disk[f] \in Content \cup {Absent}
  BY DEF IInv, TypeOK, Disk
<1>5. /\ t \in Trees
      /\ DOMAIN t \subseteq DOMAIN i.seen \cup {f}
      /\ \A g \in File : g # f => Of(t, g) = Of(i.seen, g)
      /\ Of(i.seen, f) = Absent => Of(t, f) = disk[f]
  BY <1>2, <1>3, <1>4, ListedTree
<1>6. PICK n : n = [i EXCEPT !.todo = @ \ {f}, !.seen = t]
  OBVIOUS
<1>7. n \in Call
  BY <1>3, <1>5, <1>6 DEF Call
<1>8. /\ n.phase = i.phase /\ n.reviewed = i.reviewed /\ n.todo = i.todo \ {f} /\ n.seen = t
      /\ n.plan = i.plan /\ n.result = i.result /\ n.touched = i.touched
  BY <1>6 DEF Call
<1>9. op' = [op EXCEPT ![o] = n] /\ UNCHANGED <<sources, lock, starts, results>>
  BY <1>1, <1>2, <1>6 DEF Look, Listed
<1>10. Right(n)
  <2>1. ScanRight(n)
    <3> SUFFICES ASSUME i.phase \in {"planning", "listing", "packed", "rescanning"}
                 PROVE  /\ DOMAIN t \cap (i.todo \ {f}) = {}
                        /\ \A g \in File \ ((i.todo \ {f}) \cup i.touched) : Of(t, g) = disk[g]
                        /\ i.reviewed # None
      BY <1>8 DEF ScanRight, Agrees
    <3>1. /\ DOMAIN i.seen \cap i.todo = {}
          /\ \A g \in File \ (i.todo \cup i.touched) : Of(i.seen, g) = disk[g]
          /\ i.reviewed # None
      BY <1>1 DEF Right, ScanRight, Agrees
    <3>2. f \in i.todo  BY <1>1 DEF Look
    <3>3. Of(i.seen, f) = Absent  BY <3>1, <3>2 DEF Of
    <3>4. QED  BY <1>5, <3>1, <3>2, <3>3
  <2>2. PlanRight(n)  BY <1>1, <1>8 DEF Right, PlanRight, Agrees
  <2>3. PackRight(n)  BY <1>1, <1>8 DEF Right, PackRight, Agrees
  <2>4. CopyWhole(n)  BY <1>1, <1>8 DEF CopyWhole, Look, Scanning
  <2>5. QED  BY <2>1, <2>2, <2>3, <2>4 DEF Right
<1>11. /\ op' \in [Operator -> Call]
       /\ \A q \in Operator : (HoldsLock(q) /\ Right(op[q]))'
  BY <1>1, <1>7, <1>8, <1>9, <1>10, OwnStep DEF sources, results
<1>12. TypeOK'
  BY <1>9, <1>11 DEF IInv, TypeOK, sources, results
<1>13. SteadyFilesAsReviewed'
  BY <1>9 DEF IInv, SteadyFilesAsReviewed, Of, results
<1>14. QED  BY <1>11, <1>12, <1>13 DEF IInv

\* A step of one operator that only goes on to a record n it may have.
LEMMA GoesOn ==
  ASSUME IInv, NEW o \in Operator, NEW n \in Call, op' = [op EXCEPT ![o] = n], Right(n),
         n.phase \in Holding <=> lock' = o,
         \A q \in Operator \ {o} : lock' = q <=> lock = q,
         lock' \in Operator \cup {None}, starts' \in 0..MaxStarts,
         UNCHANGED <<sources, results>>
  PROVE  IInv'
<1>1. /\ op' \in [Operator -> Call]
      /\ \A q \in Operator : (HoldsLock(q) /\ Right(op[q]))'
  BY OwnStep DEF sources, results
<1>2. TypeOK'  BY <1>1 DEF IInv, TypeOK, sources, results
<1>3. SteadyFilesAsReviewed'  BY DEF IInv, SteadyFilesAsReviewed, Of, results
<1>4. QED  BY <1>1, <1>2, <1>3 DEF IInv

\* An operator at rest is of its kind and has nothing to be right about.
LEMMA Rests ==
  ASSUME NEW r \in Trees \cup {None}, NEW p \in {"idle", "crashed"}
  PROVE  /\ [AtRest EXCEPT !.reviewed = r] \in Call
         /\ [[AtRest EXCEPT !.reviewed = r] EXCEPT !.phase = p] \in Call
         /\ [AtRest EXCEPT !.reviewed = r].phase = "idle"
         /\ [[AtRest EXCEPT !.reviewed = r] EXCEPT !.phase = p].phase = p
         /\ Right([AtRest EXCEPT !.reviewed = r])
         /\ Right([[AtRest EXCEPT !.reviewed = r] EXCEPT !.phase = p])
<1>1. PICK n : n = [AtRest EXCEPT !.reviewed = r]  OBVIOUS
<1>2. n \in Call /\ n.phase = "idle"  BY <1>1, RestTypes DEF Call
<1>3. PICK m : m = [n EXCEPT !.phase = p]  OBVIOUS
<1>4. m \in Call /\ m.phase = p  BY <1>2, <1>3 DEF Call, Phase
<1>5. Right(n) /\ Right(m)  BY <1>2, <1>4, Quiet
<1>6. QED  BY <1>1, <1>2, <1>3, <1>4, <1>5

\* A scan begins: nothing is listed yet.
LEMMA Scans ==
  ASSUME IInv, NEW o \in Operator, NEW p \in Scanning
  PROVE  LET n == Scan(o, p) IN
         /\ n \in Call /\ n.phase = p /\ n.todo = File /\ n.seen = <<>>
         /\ n.reviewed = op[o].reviewed /\ n.plan = op[o].plan
         /\ n.result = op[o].result /\ n.touched = op[o].touched
         /\ DOMAIN n.seen \cap n.todo = {}
         /\ \A T : Agrees(n.seen, File \ (n.todo \cup T))
<1>1. PICK i \in Call : i = op[o]  BY DEF IInv, TypeOK
<1>2. PICK n : n = [i EXCEPT !.phase = p, !.todo = File, !.seen = <<>>]  OBVIOUS
<1>3. n = Scan(o, p)  BY <1>1, <1>2 DEF Scan
<1>4. /\ n \in Call /\ n.phase = p /\ n.todo = File /\ n.seen = <<>>
      /\ n.reviewed = i.reviewed /\ n.plan = i.plan
      /\ n.result = i.result /\ n.touched = i.touched
  BY <1>2, EmptyTree DEF Call, Phase
<1>5. DOMAIN n.seen = {} /\ File \ n.todo = {}  BY <1>4, EmptyTree
<1>6. QED  BY <1>1, <1>3, <1>4, <1>5 DEF Agrees

LEMMA StartPreviewStep ==
  ASSUME IInv, NEW o \in Operator, StartPreview(o)
  PROVE  IInv'
<1>1. PICK n : n = Scan(o, "previewing")  OBVIOUS
<1>2. n \in Call /\ n.phase = "previewing"  BY <1>1, Scans DEF Scanning
<1>3. Right(n)  BY <1>2, Quiet
<1>4. op[o].phase = "idle" /\ lock # o  BY DEF StartPreview, IInv, HoldsLock, Holding
<1>5. starts' \in 0..MaxStarts  BY BackupAssumption DEF StartPreview, IInv, TypeOK
<1>6. lock \in Operator \cup {None}  BY DEF IInv, TypeOK
<1>7. QED  BY <1>1, <1>2, <1>3, <1>4, <1>5, <1>6, GoesOn DEF StartPreview, Holding

LEMMA EndPreviewStep ==
  ASSUME IInv, NEW o \in Operator, EndPreview(o)
  PROVE  IInv'
<1>1. op[o].seen \in Trees  BY DEF IInv, TypeOK, Call
<1>2. PICK n : n = [AtRest EXCEPT !.reviewed = op[o].seen]  OBVIOUS
<1>3. n \in Call /\ n.phase = "idle" /\ Right(n)  BY <1>1, <1>2, Rests
<1>4. lock # o  BY DEF EndPreview, IInv, HoldsLock, Holding
<1>5. lock \in Operator \cup {None} /\ starts \in 0..MaxStarts  BY DEF IInv, TypeOK
<1>6. QED  BY <1>2, <1>3, <1>4, <1>5, GoesOn DEF EndPreview, Holding

LEMMA StartBackupStep ==
  ASSUME IInv, NEW o \in Operator, StartBackup(o)
  PROVE  IInv'
<1>1. PICK m : m = Scan(o, "planning")  OBVIOUS
<1>2. /\ m \in Call /\ m.phase = "planning" /\ m.reviewed = op[o].reviewed
      /\ DOMAIN m.seen \cap m.todo = {}
      /\ \A T : Agrees(m.seen, File \ (m.todo \cup T))
  BY <1>1, Scans DEF Scanning
<1>3. PICK n : n = [m EXCEPT !.touched = {}]  OBVIOUS
<1>4. /\ n \in Call /\ n.phase = m.phase /\ n.seen = m.seen /\ n.todo = m.todo
      /\ n.reviewed = m.reviewed
  BY <1>2, <1>3 DEF Call
<1>5. Right(n)
  BY <1>2, <1>4 DEF Right, ScanRight, PlanRight, PackRight, CopyWhole, StartBackup
<1>6. starts' \in 0..MaxStarts  BY BackupAssumption DEF StartBackup, IInv, TypeOK
<1>7. lock = None /\ lock' = o  BY DEF StartBackup
<1>8. None \notin Operator  BY BackupAssumption
<1>9. op' = [op EXCEPT ![o] = n] /\ UNCHANGED <<sources, results>>
  BY <1>1, <1>3 DEF StartBackup
<1>10. QED  BY <1>2, <1>4, <1>5, <1>6, <1>7, <1>8, <1>9, GoesOn DEF Holding

LEMMA AcceptPlanStep ==
  ASSUME IInv, NEW o \in Operator, AcceptPlan(o)
  PROVE  IInv'
<1>1. PICK i \in Call : i = op[o] /\ Right(i) /\ (i.phase \in Holding <=> lock = o)
  BY DEF IInv, TypeOK, HoldsLock
<1>2. PICK m : m = Scan(o, "listing")  OBVIOUS
<1>3. /\ m \in Call /\ m.phase = "listing" /\ m.reviewed = i.reviewed /\ m.touched = i.touched
      /\ DOMAIN m.seen \cap m.todo = {}
      /\ \A T : Agrees(m.seen, File \ (m.todo \cup T))
  BY <1>1, <1>2, Scans DEF Scanning
<1>4. PICK n : n = [m EXCEPT !.plan = i.seen]  OBVIOUS
<1>5. i.seen \in Trees  BY DEF Call
<1>6. /\ n \in Call /\ n.phase = "listing" /\ n.seen = m.seen /\ n.todo = m.todo
      /\ n.reviewed = m.reviewed /\ n.touched = m.touched /\ n.plan = i.seen
  BY <1>3, <1>4, <1>5 DEF Call
<1>7. i.phase = "planning" /\ i.todo = {} /\ i.seen = i.reviewed
  BY <1>1 DEF AcceptPlan
<1>8. Agrees(i.seen, File \ i.touched) /\ i.reviewed # None
  <2>1. File \ (i.todo \cup i.touched) = File \ i.touched  BY <1>7
  <2>2. QED  BY <1>1, <1>7, <2>1 DEF Right, ScanRight
<1>9. Right(n)
  BY <1>3, <1>6, <1>7, <1>8 DEF Right, ScanRight, PlanRight, PackRight, CopyWhole
<1>10. lock \in Operator \cup {None} /\ starts \in 0..MaxStarts  BY DEF IInv, TypeOK
<1>11. op' = [op EXCEPT ![o] = n] /\ UNCHANGED <<sources, lock, starts, results>>
  BY <1>1, <1>2, <1>4 DEF AcceptPlan
<1>12. QED  BY <1>1, <1>6, <1>7, <1>9, <1>10, <1>11, GoesOn DEF Holding

LEMMA PackStep ==
  ASSUME IInv, NEW o \in Operator, Pack(o)
  PROVE  IInv'
<1>1. PICK i \in Call : i = op[o] /\ Right(i) /\ (i.phase \in Holding <=> lock = o)
  BY DEF IInv, TypeOK, HoldsLock
<1>2. i.phase = "listing" /\ i.todo = {}  BY <1>1 DEF Pack
<1>3. DOMAIN i.seen \in SUBSET File  BY TreeFiles DEF Call
<1>4. PICK t : t = [f \in DOMAIN i.seen |-> disk[f]]  OBVIOUS
<1>5. t \in Trees /\ \A f \in File : Of(t, f) = IF f \in DOMAIN i.seen THEN disk[f] ELSE Absent
  BY <1>1, <1>3, <1>4, DiskTree DEF Pack, IInv, TypeOK
<1>6. Agrees(t, File \ i.touched)
  <2>1. \A f \in File \ i.touched : Of(i.seen, f) = disk[f]
    BY <1>1, <1>2 DEF Right, ScanRight, Agrees
  <2>2. QED  BY <1>5, <2>1 DEF Agrees, Of
<1>7. PICK a : a = [number |-> archives + 1, files |-> t]  OBVIOUS
<1>8. a \in Archive /\ a.files = t /\ archives + 1 \in 0..MaxArchives
  <2>1. archives + 1 \in 0..MaxArchives
    BY <1>1, BackupAssumption DEF Pack, IInv, TypeOK
  <2>2. QED  BY <1>5, <1>7, <2>1 DEF Archive
<1>9. PICK n : n = [i EXCEPT !.phase = "packed", !.result.files = t]  OBVIOUS
<1>10. /\ n \in Call /\ n.phase = "packed" /\ n.seen = i.seen /\ n.todo = i.todo
       /\ n.reviewed = i.reviewed /\ n.touched = i.touched /\ n.plan = i.plan
       /\ n.result.files = t
  BY <1>5, <1>9 DEF Call, Phase, Archive
<1>11. Right(n)
  BY <1>1, <1>2, <1>6, <1>10 DEF Right, ScanRight, PlanRight, PackRight, CopyWhole
<1>12. archive' = a  BY <1>1, <1>4, <1>7 DEF Pack
<1>13. op' = [op EXCEPT ![o] = n]  BY <1>1, <1>8, <1>9, <1>12 DEF Pack
<1>14. /\ op' \in [Operator -> Call]
       /\ \A q \in Operator : (HoldsLock(q) /\ Right(op[q]))'
  BY <1>1, <1>2, <1>10, <1>11, <1>13, OwnStep DEF Pack, sources, Holding
<1>15. TypeOK'
  <2>1. archive' \in Archive /\ archives' \in 0..MaxArchives  BY <1>8, <1>12 DEF Pack
  <2>2. QED  BY <1>14, <2>1 DEF Pack, IInv, TypeOK, sources
<1>16. SteadyFilesAsReviewed'
  BY DEF Pack, IInv, SteadyFilesAsReviewed, Of
<1>17. QED  BY <1>14, <1>15, <1>16 DEF IInv

LEMMA HashArchiveStep ==
  ASSUME IInv, NEW o \in Operator, HashArchive(o)
  PROVE  IInv'
<1>1. PICK i \in Call : i = op[o] /\ Right(i) /\ (i.phase \in Holding <=> lock = o)
  BY DEF IInv, TypeOK, HoldsLock
<1>2. PICK m : m = Scan(o, "rescanning")  OBVIOUS
<1>3. /\ m \in Call /\ m.phase = "rescanning" /\ m.reviewed = i.reviewed /\ m.plan = i.plan
      /\ m.touched = i.touched /\ m.result = i.result
      /\ DOMAIN m.seen \cap m.todo = {}
      /\ \A T : Agrees(m.seen, File \ (m.todo \cup T))
  BY <1>1, <1>2, Scans DEF Scanning
<1>4. PICK n : n = [m EXCEPT !.result.number = archive.number]  OBVIOUS
<1>5. archive.number \in 0..MaxArchives  BY DEF IInv, TypeOK, Archive
<1>6. /\ n \in Call /\ n.phase = "rescanning" /\ n.seen = m.seen /\ n.todo = m.todo
      /\ n.reviewed = m.reviewed /\ n.touched = m.touched /\ n.plan = m.plan
      /\ n.result.files = m.result.files
  BY <1>3, <1>4, <1>5 DEF Call, Archive
<1>7. i.phase = "packed"  BY <1>1 DEF HashArchive
<1>8. Right(n)
  BY <1>1, <1>3, <1>6, <1>7 DEF Right, ScanRight, PlanRight, PackRight, CopyWhole
<1>9. op' = [op EXCEPT ![o] = n] /\ UNCHANGED <<sources, lock, starts, results>>
  BY <1>2, <1>4 DEF HashArchive
<1>10. lock \in Operator \cup {None} /\ starts \in 0..MaxStarts  BY DEF IInv, TypeOK
<1>11. QED  BY <1>1, <1>6, <1>7, <1>8, <1>9, <1>10, GoesOn DEF Holding

LEMMA ApproveStep ==
  ASSUME IInv, NEW o \in Operator, Approve(o)
  PROVE  IInv'
<1>1. PICK i \in Call : i = op[o] /\ Right(i) /\ (i.phase \in Holding <=> lock = o)
  BY DEF IInv, TypeOK, HoldsLock
<1>2. i.phase = "rescanning"  BY <1>1 DEF Approve
<1>3. PICK n : n = [AtRest EXCEPT !.reviewed = i.reviewed]  OBVIOUS
<1>4. n \in Call /\ n.phase = "idle" /\ Right(n)  BY <1>3, Rests DEF Call
<1>5. op' = [op EXCEPT ![o] = n]  BY <1>1, <1>3 DEF Approve, Rest
<1>6. None \notin Operator /\ lock' = None /\ lock = o
  BY <1>1, <1>2, BackupAssumption DEF Approve, Holding
<1>7. /\ op' \in [Operator -> Call]
      /\ \A q \in Operator : (HoldsLock(q) /\ Right(op[q]))'
  <2>1. n.phase \notin Holding /\ \A q \in Operator : lock' # q
    BY <1>4, <1>6 DEF Holding
  <2>2. \A q \in Operator \ {o} : lock' = q <=> lock = q  BY <1>6, <2>1
  <2>3. disk' = disk /\ destination' = destination  BY DEF Approve, sources
  <2>4. QED  BY <1>4, <1>5, <2>1, <2>2, <2>3, OwnStep
<1>8. PICK r : r = [number |-> i.result.number, files |-> i.result.files, plan |-> i.plan,
                    reviewed |-> i.reviewed, steady |-> File \ i.touched]
  OBVIOUS
<1>9. receipt' = r  BY <1>1, <1>8 DEF Approve
<1>10. i.reviewed # None /\ i.plan = i.reviewed /\ Agrees(i.plan, File \ i.touched)
       /\ Agrees(i.result.files, File \ i.touched)
  BY <1>1, <1>2 DEF Right, ScanRight, PlanRight, PackRight
<1>11. r \in Receipt  BY <1>8, <1>10 DEF Receipt, Call, Archive
<1>12. TypeOK'  BY <1>6, <1>7, <1>9, <1>11 DEF Approve, IInv, TypeOK, sources
<1>13. SteadyFilesAsReviewed'
  <2>1. \A f \in r.steady : Of(r.files, f) = Of(r.reviewed, f)
    BY <1>8, <1>10 DEF Agrees
  <2>2. QED  BY <1>9, <2>1 DEF SteadyFilesAsReviewed, Of
<1>14. QED  BY <1>7, <1>12, <1>13 DEF IInv

-----------------------------------------------------------------------------
(* Steps of a restore drill.                                               *)

LEMMA StartDrillStep ==
  ASSUME IInv, NEW o \in Operator, StartDrill(o)
  PROVE  IInv'
<1>1. PICK r \in Trees \cup {None} : r = op[o].reviewed  BY DEF IInv, TypeOK, Call
<1>2. PICK m : m = [AtRest EXCEPT !.reviewed = r]  OBVIOUS
<1>3. m \in Call  BY <1>2, Rests
<1>4. receipt.number \in 0..MaxArchives  BY DEF IInv, TypeOK, Receipt
<1>5. PICK n : n = [m EXCEPT !.phase = "verifying", !.result.number = receipt.number]
  OBVIOUS
<1>6. n \in Call /\ n.phase = "verifying"  BY <1>3, <1>4, <1>5 DEF Call, Phase, Archive
<1>7. Right(n)  BY <1>6, Quiet
<1>8. op' = [op EXCEPT ![o] = n] /\ UNCHANGED <<sources, results>>
  BY <1>1, <1>2, <1>5 DEF StartDrill, Rest
<1>9. starts' \in 0..MaxStarts  BY BackupAssumption DEF StartDrill, IInv, TypeOK
<1>10. lock = None /\ lock' = o /\ None \notin Operator  BY BackupAssumption DEF StartDrill
<1>11. QED  BY <1>6, <1>7, <1>8, <1>9, <1>10, GoesOn DEF Holding

LEMMA VerifyArchiveStep ==
  ASSUME IInv, NEW o \in Operator, VerifyArchive(o)
  PROVE  IInv'
<1>1. PICK i \in Call : i = op[o] /\ (i.phase \in Holding <=> lock = o)
  BY DEF IInv, TypeOK, HoldsLock
<1>2. PICK n : n = [i EXCEPT !.phase = "restoring", !.result.files = archive.files]
  OBVIOUS
<1>3. archive.files \in Trees  BY DEF IInv, TypeOK, Archive
<1>4. n \in Call /\ n.phase = "restoring"  BY <1>2, <1>3 DEF Call, Phase, Archive
<1>5. Right(n)  BY <1>4, Quiet
<1>6. op' = [op EXCEPT ![o] = n] /\ UNCHANGED <<sources, lock, starts, results>>
  BY <1>1, <1>2 DEF VerifyArchive
<1>7. lock = o  BY <1>1 DEF VerifyArchive, Holding
<1>8. lock \in Operator \cup {None} /\ starts \in 0..MaxStarts  BY DEF IInv, TypeOK
<1>9. QED  BY <1>4, <1>5, <1>6, <1>7, <1>8, GoesOn DEF Holding

\* A process that stays right when the copy is written by the lock holder o.
LEMMA OthersBlind ==
  ASSUME IInv, NEW o \in Operator, op[o].phase \in Holding, NEW q \in Operator, q # o,
         op'[q] = op[q], disk' = disk, lock' = lock
  PROVE  (HoldsLock(q) /\ Right(op[q]))'
<1>1. PICK i : i = op[q]  OBVIOUS
<1>2. Right(i) /\ (i.phase \in Holding <=> lock = q) /\ i.phase \notin Holding
  BY <1>1, OnlyOne DEF IInv, HoldsLock
<1>3. Right(op[q])'
  BY <1>1, <1>2 DEF Right, ScanRight, PlanRight, PackRight, CopyWhole, Holding
<1>4. QED  BY <1>1, <1>2, <1>3 DEF HoldsLock

LEMMA RestoreArchiveStep ==
  ASSUME IInv, NEW o \in Operator, RestoreArchive(o)
  PROVE  IInv'
<1>1. PICK i \in Call : i = op[o] /\ (i.phase \in Holding <=> lock = o)
  BY DEF IInv, TypeOK, HoldsLock
<1>2. PICK n : n = [i EXCEPT !.phase = "reading"]  OBVIOUS
<1>3. n \in Call /\ n.phase = "reading"  BY <1>2 DEF Call, Phase
<1>4. op' = [op EXCEPT ![o] = n]  BY <1>1, <1>2 DEF RestoreArchive
<1>5. op' \in [Operator -> Call] /\ op'[o] = n /\ lock = o /\ lock' = lock /\ disk' = disk
  BY <1>1, <1>3, <1>4 DEF IInv, TypeOK, RestoreArchive, Holding, sources
<1>6. destination' \in Trees  BY DEF RestoreArchive, IInv, TypeOK, Archive
<1>7. Right(n)'
  BY <1>3, <1>6 DEF Right, ScanRight, PlanRight, PackRight, CopyWhole
<1>8. ASSUME NEW q \in Operator PROVE (HoldsLock(q) /\ Right(op[q]))'
  <2>1. CASE q = o
    <3>1. Right(op[q])'
      BY <1>5, <1>7, <2>1 DEF Right, ScanRight, PlanRight, PackRight, CopyWhole, Agrees, Of
    <3>2. QED  BY <1>3, <1>5, <2>1, <3>1 DEF HoldsLock, Holding
  <2>2. CASE q # o
    <3>1. op'[q] = op[q]  BY <1>4, <2>2 DEF IInv, TypeOK
    <3>2. QED  BY <1>5, <2>2, <3>1, OthersBlind, <1>1
  <2>3. QED  BY <2>1, <2>2
<1>9. TypeOK'  BY <1>5, <1>6 DEF RestoreArchive, IInv, TypeOK, sources
<1>10. SteadyFilesAsReviewed'
  BY DEF RestoreArchive, IInv, SteadyFilesAsReviewed, Of
<1>11. QED  BY <1>8, <1>9, <1>10 DEF IInv

LEMMA ReaderWritesStep ==
  ASSUME IInv, NEW o \in Operator, NEW f \in File, NEW c \in Content, ReaderWrites(o, f, c)
  PROVE  IInv'
<1>1. PICK i \in Call : i = op[o] /\ Right(i) /\ (i.phase \in Holding <=> lock = o)
  BY DEF IInv, TypeOK, HoldsLock
<1>2. i.phase = "reading" /\ f \in DOMAIN destination /\ destination \in Trees
  BY <1>1 DEF ReaderWrites, Right, CopyWhole
<1>3. destination' \in Trees  BY <1>2, ReplacedTree DEF ReaderWrites
<1>4. op' = op /\ disk' = disk /\ lock' = lock /\ lock = o
  BY <1>1, <1>2 DEF ReaderWrites, sources, Holding
<1>5. Right(i)'
  BY <1>2, <1>3 DEF Right, ScanRight, PlanRight, PackRight, CopyWhole
<1>6. ASSUME NEW q \in Operator PROVE (HoldsLock(q) /\ Right(op[q]))'
  <2>1. CASE q = o
    <3>1. Right(op[q])'
      BY <1>1, <1>4, <1>5, <2>1 DEF Right, ScanRight, PlanRight, PackRight, CopyWhole, Agrees, Of
    <3>2. QED  BY <1>1, <1>4, <2>1, <3>1 DEF HoldsLock
  <2>2. CASE q # o
    BY <1>1, <1>2, <1>4, <2>2, OthersBlind DEF Holding
  <2>3. QED  BY <2>1, <2>2
<1>7. TypeOK'  BY <1>3 DEF ReaderWrites, IInv, TypeOK, sources
<1>8. SteadyFilesAsReviewed'
  BY DEF ReaderWrites, IInv, SteadyFilesAsReviewed, Of
<1>9. QED  BY <1>6, <1>7, <1>8 DEF IInv

LEMMA ReadersPassStep ==
  ASSUME IInv, NEW o \in Operator, ReadersPass(o)
  PROVE  IInv'
<1>1. PICK i \in Call : i = op[o] /\ Right(i) /\ (i.phase \in Holding <=> lock = o)
  BY DEF IInv, TypeOK, HoldsLock
<1>2. i.phase = "reading"  BY <1>1 DEF ReadersPass
<1>3. DOMAIN i.result.files \in SUBSET File  BY TreeFiles DEF Call, Archive
<1>4. PICK n : n = [i EXCEPT !.phase = "comparing", !.todo = DOMAIN i.result.files]
  OBVIOUS
<1>5. /\ n \in Call /\ n.phase = "comparing" /\ n.todo = DOMAIN i.result.files
      /\ n.result = i.result
  BY <1>3, <1>4 DEF Call, Phase
<1>6. Right(n)
  BY <1>1, <1>2, <1>5 DEF Right, ScanRight, PlanRight, PackRight, CopyWhole
<1>7. op' = [op EXCEPT ![o] = n] /\ UNCHANGED <<sources, lock, starts, results>>
  BY <1>1, <1>4 DEF ReadersPass
<1>8. lock \in Operator \cup {None} /\ starts \in 0..MaxStarts  BY DEF IInv, TypeOK
<1>9. QED  BY <1>1, <1>2, <1>5, <1>6, <1>7, <1>8, GoesOn DEF Holding

LEMMA CompareStep ==
  ASSUME IInv, NEW o \in Operator, NEW f \in File, Compare(o, f)
  PROVE  IInv'
<1>1. PICK i \in Call : i = op[o] /\ Right(i) /\ (i.phase \in Holding <=> lock = o)
  BY DEF IInv, TypeOK, HoldsLock
<1>2. i.phase = "comparing"  BY <1>1 DEF Compare
<1>3. PICK n : n = [i EXCEPT !.todo = @ \ {f}]  OBVIOUS
<1>4. /\ n \in Call /\ n.phase = "comparing" /\ n.todo = i.todo \ {f}
      /\ n.result = i.result
  BY <1>2, <1>3 DEF Call
<1>5. f \in DOMAIN destination /\ destination[f] = i.result.files[f]
  BY <1>1 DEF Compare
<1>6. CopyWhole(n)
  <2>1. /\ destination \in Trees
        /\ \A g \in DOMAIN i.result.files \ i.todo : Of(destination, g) = i.result.files[g]
    BY <1>1, <1>2 DEF Right, CopyWhole
  <2>2. Of(destination, f) = i.result.files[f]  BY <1>5 DEF Of
  <2>3. QED  BY <1>4, <2>1, <2>2 DEF CopyWhole
<1>7. Right(n)
  BY <1>4, <1>6 DEF Right, ScanRight, PlanRight, PackRight
<1>8. op' = [op EXCEPT ![o] = n] /\ UNCHANGED <<sources, lock, starts, results>>
  BY <1>1, <1>3 DEF Compare
<1>9. lock \in Operator \cup {None} /\ starts \in 0..MaxStarts  BY DEF IInv, TypeOK
<1>10. QED  BY <1>1, <1>2, <1>4, <1>7, <1>8, <1>9, GoesOn DEF Holding

\* A drill ends: restore.json is written, the lock given up, and nothing else.
LEMMA DrillEnds ==
  ASSUME IInv, NEW o \in Operator, op[o].phase \in {"reading", "comparing"},
         NEW v \in {"failed", "verified"},
         drill' = [number |-> op[o].result.number, status |-> v],
         lock' = None, op' = [op EXCEPT ![o] = Rest(o)],
         UNCHANGED <<sources, starts, archive, archives, receipt, destination>>
  PROVE  IInv'
<1>1. PICK i \in Call : i = op[o] /\ (i.phase \in Holding <=> lock = o)
  BY DEF IInv, TypeOK, HoldsLock
<1>2. PICK n : n = [AtRest EXCEPT !.reviewed = i.reviewed]  OBVIOUS
<1>3. n \in Call /\ n.phase = "idle" /\ Right(n)  BY <1>2, Rests DEF Call
<1>4. op' = [op EXCEPT ![o] = n]  BY <1>1, <1>2 DEF Rest
<1>5. lock = o /\ None \notin Operator  BY <1>1, BackupAssumption DEF Holding
<1>6. n.phase \notin Holding /\ \A q \in Operator : lock' # q  BY <1>3, <1>5 DEF Holding
<1>7. \A q \in Operator \ {o} : lock' = q <=> lock = q  BY <1>5, <1>6
<1>8. /\ op' \in [Operator -> Call]
      /\ \A q \in Operator : (HoldsLock(q) /\ Right(op[q]))'
  BY <1>3, <1>4, <1>6, <1>7, OwnStep DEF sources
<1>9. drill' \in [number : 0..MaxArchives, status : {"none", "failed", "verified"}]
  BY <1>1 DEF Call, Archive
<1>10. TypeOK'  BY <1>8, <1>9 DEF IInv, TypeOK, sources
<1>11. SteadyFilesAsReviewed'  BY DEF IInv, SteadyFilesAsReviewed, Of
<1>12. QED  BY <1>8, <1>10, <1>11 DEF IInv

LEMMA EndDrillStep ==
  ASSUME IInv, NEW o \in Operator, EndDrill(o)
  PROVE  IInv'
  BY DrillEnds DEF EndDrill

LEMMA DrillFailsStep ==
  ASSUME IInv, NEW o \in Operator, DrillFails(o)
  PROVE  IInv'
  BY DrillEnds DEF DrillFails

-----------------------------------------------------------------------------
(* Failures.                                                               *)

LEMMA FailsStep ==
  ASSUME IInv, NEW o \in Operator, Fails(o)
  PROVE  IInv'
<1>1. PICK i \in Call : i = op[o] /\ (i.phase \in Holding <=> lock = o)
  BY DEF IInv, TypeOK, HoldsLock
<1>2. PICK n : n = [AtRest EXCEPT !.reviewed = i.reviewed]  OBVIOUS
<1>3. n \in Call /\ n.phase = "idle" /\ Right(n)  BY <1>2, Rests DEF Call
<1>4. op' = [op EXCEPT ![o] = n]  BY <1>1, <1>2 DEF Fails, Rest
<1>5. None \notin Operator /\ lock \in Operator \cup {None} /\ starts \in 0..MaxStarts
  BY BackupAssumption DEF IInv, TypeOK
<1>6. n.phase \notin Holding /\ lock' # o  BY <1>3, <1>5 DEF Holding, Fails
<1>7. \A q \in Operator \ {o} : lock' = q <=> lock = q  BY <1>5 DEF Fails
<1>8. QED  BY <1>3, <1>4, <1>5, <1>6, <1>7, GoesOn DEF Fails

LEMMA CrashStep ==
  ASSUME IInv, NEW o \in Operator, Crash(o)
  PROVE  IInv'
<1>1. PICK i \in Call : i = op[o]  BY DEF IInv, TypeOK
<1>2. PICK n : n = [[AtRest EXCEPT !.reviewed = i.reviewed] EXCEPT !.phase = "crashed"]
  OBVIOUS
<1>3. n \in Call /\ n.phase = "crashed" /\ Right(n)  BY <1>2, Rests DEF Call
<1>4. op' = [op EXCEPT ![o] = n]  BY <1>1, <1>2 DEF Crash, Rest
<1>5. lock = o /\ UNCHANGED <<sources, lock, starts, results>>  BY DEF Crash
<1>6. starts \in 0..MaxStarts  BY DEF IInv, TypeOK
<1>7. QED  BY <1>3, <1>4, <1>5, <1>6, GoesOn DEF Holding

LEMMA ClearStaleLockStep ==
  ASSUME IInv, NEW o \in Operator, ClearStaleLock(o)
  PROVE  IInv'
<1>1. PICK i \in Call : i = op[o] /\ (i.phase \in Holding <=> lock = o)
  BY DEF IInv, TypeOK, HoldsLock
<1>2. PICK n : n = [AtRest EXCEPT !.reviewed = i.reviewed]  OBVIOUS
<1>3. n \in Call /\ n.phase = "idle" /\ Right(n)  BY <1>2, Rests DEF Call
<1>4. op' = [op EXCEPT ![o] = n]  BY <1>1, <1>2 DEF ClearStaleLock, Rest
<1>5. lock = o /\ None \notin Operator  BY <1>1, BackupAssumption DEF Holding, ClearStaleLock
<1>6. n.phase \notin Holding /\ \A q \in Operator : lock' # q
  BY <1>3, <1>5 DEF Holding, ClearStaleLock
<1>7. \A q \in Operator \ {o} : lock' = q <=> lock = q  BY <1>5, <1>6
<1>8. lock' \in Operator \cup {None} /\ starts \in 0..MaxStarts
  BY DEF IInv, TypeOK, ClearStaleLock
<1>9. QED  BY <1>3, <1>4, <1>6, <1>7, <1>8, GoesOn DEF ClearStaleLock

-----------------------------------------------------------------------------
(* Everybody else.                                                         *)

\* A write under the roots is noted by the backup that runs.
LEMMA WriteStep ==
  ASSUME IInv, NEW f \in File, NEW c \in Content \cup {Absent}, Write(f, c)
  PROVE  IInv'
<1>1. \A g \in File : g # f => disk'[g] = disk[g]  BY DEF Write, IInv, TypeOK, Disk
<1>2. disk' \in Disk /\ writes' \in 0..MaxWrites
  BY BackupAssumption DEF Write, IInv, TypeOK, Disk
<1>3. ASSUME NEW q \in Operator
      PROVE  op'[q] \in Call /\ (HoldsLock(q) /\ Right(op[q]))'
  <2>1. PICK i \in Call : i = op[q] /\ Right(i) /\ (i.phase \in Holding <=> lock = q)
    BY DEF IInv, TypeOK, HoldsLock
  <2>2. PICK n : n = op'[q]  OBVIOUS
  <2>3. n = IF lock = q THEN [i EXCEPT !.touched = @ \cup {f}] ELSE i
    BY <2>1, <2>2 DEF Write
  <2>4. /\ n \in Call /\ n.phase = i.phase /\ n.reviewed = i.reviewed /\ n.todo = i.todo
        /\ n.seen = i.seen /\ n.plan = i.plan /\ n.result = i.result
        /\ lock = q => n.touched = i.touched \cup {f}
    BY <2>3 DEF Call
  <2>5. lock' = lock /\ destination' = destination  BY DEF Write, results
  <2>6. ScanRight(n)'
    BY <1>1, <2>1, <2>4 DEF Right, ScanRight, Agrees, Of, Holding
  <2>7. PlanRight(n)'
    BY <1>1, <2>1, <2>4 DEF Right, PlanRight, Agrees, Of, Holding
  <2>8. PackRight(n)'
    BY <1>1, <2>1, <2>4 DEF Right, PackRight, Agrees, Of, Holding
  <2>9. CopyWhole(n)'
    BY <2>1, <2>4, <2>5 DEF Right, CopyWhole, Of
  <2>10. Right(op[q])'
    BY <2>2, <2>6, <2>7, <2>8, <2>9
    DEF Right, ScanRight, PlanRight, PackRight, CopyWhole, Agrees, Of
  <2>11. QED  BY <2>1, <2>2, <2>4, <2>5, <2>10 DEF HoldsLock
<1>4. op' \in [Operator -> Call]
  <2>1. op' = [q \in Operator |-> op'[q]]  BY DEF Write
  <2>2. QED  BY <1>3, <2>1
<1>5. TypeOK'  BY <1>2, <1>4 DEF Write, IInv, TypeOK, results
<1>6. SteadyFilesAsReviewed'  BY DEF Write, IInv, SteadyFilesAsReviewed, Of, results
<1>7. QED  BY <1>3, <1>5, <1>6 DEF IInv

\* What other commands do to the archive path, nobody relies on.
LEMMA ArchiveStep ==
  ASSUME IInv, RemoveArchive \/ \E A \in SUBSET File : TransferCommand(A)
  PROVE  IInv'
<1>1. archive' \in Archive /\ archives' \in 0..MaxArchives
  <2>1. CASE RemoveArchive  BY <2>1, RestTypes DEF RemoveArchive, IInv, TypeOK
  <2>2. CASE \E A \in SUBSET File : TransferCommand(A)
    <3>1. PICK A \in SUBSET File : TransferCommand(A)  BY <2>2
    <3>2. [f \in A |-> disk[f]] \in Trees
      BY <3>1, DiskTree DEF TransferCommand, IInv, TypeOK
    <3>3. archives + 1 \in 0..MaxArchives
      BY <3>1, BackupAssumption DEF TransferCommand, IInv, TypeOK
    <3>4. QED  BY <3>1, <3>2, <3>3 DEF TransferCommand, Archive
  <2>3. QED  BY <2>1, <2>2
<1>2. UNCHANGED <<sources, lock, op, starts, receipt, destination, drill>>
  BY DEF RemoveArchive, TransferCommand
<1>3. TypeOK'  BY <1>1, <1>2 DEF IInv, TypeOK, sources
<1>4. ASSUME NEW q \in Operator PROVE (HoldsLock(q) /\ Right(op[q]))'
  <2>1. HoldsLock(q) /\ Right(op[q])  BY DEF IInv
  <2>2. QED
    BY <1>2, <2>1
    DEF HoldsLock, Right, ScanRight, PlanRight, PackRight, CopyWhole, Agrees, Of, sources
<1>5. SteadyFilesAsReviewed'  BY <1>2 DEF IInv, SteadyFilesAsReviewed, Of
<1>6. QED  BY <1>3, <1>4, <1>5 DEF IInv

\* The copy is removed only when nobody holds the lock.
LEMMA RemoveDestinationStep ==
  ASSUME IInv, RemoveDestination
  PROVE  IInv'
<1>1. TypeOK'  BY DEF IInv, TypeOK, RemoveDestination, sources
<1>2. ASSUME NEW q \in Operator PROVE (HoldsLock(q) /\ Right(op[q]))'
  <2>1. HoldsLock(q) /\ Right(op[q]) /\ op[q].phase \notin Holding
    BY BackupAssumption DEF IInv, HoldsLock, RemoveDestination
  <2>2. QED
    BY <2>1
    DEF HoldsLock, Right, ScanRight, PlanRight, PackRight, CopyWhole, Agrees, Of, sources,
        Holding, RemoveDestination
<1>3. SteadyFilesAsReviewed'
  BY DEF IInv, SteadyFilesAsReviewed, Of, RemoveDestination
<1>4. QED  BY <1>1, <1>2, <1>3 DEF IInv

-----------------------------------------------------------------------------
(* The initial states have the invariant, and every step keeps it.         *)
LEMMA InitBackup == Init => IInv
<1> SUFFICES ASSUME Init PROVE IInv
  OBVIOUS
<1>1. TypeOK
  BY RestTypes, BackupAssumption DEF Init, TypeOK, NoDrill
<1>2. ASSUME NEW o \in Operator PROVE HoldsLock(o) /\ Right(op[o])
  <2>1. op[o].phase = "idle" /\ lock # o
    BY RestTypes, BackupAssumption DEF Init
  <2>2. QED  BY <2>1, Quiet DEF HoldsLock, Holding
<1>3. SteadyFilesAsReviewed  BY DEF Init, SteadyFilesAsReviewed, NoReceipt
<1>4. QED  BY <1>1, <1>2, <1>3 DEF IInv

LEMMA NextBackup == IInv /\ [Next]_vars => IInv'
<1> SUFFICES ASSUME IInv, [Next]_vars PROVE IInv'
  OBVIOUS
<1>1. CASE UNCHANGED vars
  <2>1. TypeOK'  BY <1>1 DEF IInv, TypeOK, vars, sources, results
  <2>2. ASSUME NEW q \in Operator PROVE (HoldsLock(q) /\ Right(op[q]))'
    BY <1>1
    DEF IInv, HoldsLock, Right, ScanRight, PlanRight, PackRight, CopyWhole, Agrees, Of, vars,
        sources, results
  <2>3. SteadyFilesAsReviewed'
    BY <1>1 DEF IInv, SteadyFilesAsReviewed, Of, vars, results
  <2>4. QED  BY <2>1, <2>2, <2>3 DEF IInv
<1>2. ASSUME NEW f \in File, NEW c \in Content \cup {Absent}, Write(f, c) PROVE IInv'
  BY <1>2, WriteStep
<1>3. ASSUME RemoveArchive \/ \E A \in SUBSET File : TransferCommand(A) PROVE IInv'
  BY <1>3, ArchiveStep
<1>4. ASSUME RemoveDestination PROVE IInv'
  BY <1>4, RemoveDestinationStep
<1>5. ASSUME NEW o \in Operator, StartPreview(o) \/ StartBackup(o) \/ StartDrill(o) PROVE IInv'
  BY <1>5, StartPreviewStep, StartBackupStep, StartDrillStep
<1>6. ASSUME NEW o \in Operator, Run(o) PROVE IInv'
  BY <1>6, LookStep, CompareStep, EndPreviewStep, AcceptPlanStep, PackStep, HashArchiveStep, ApproveStep,
     VerifyArchiveStep, RestoreArchiveStep, ReadersPassStep, EndDrillStep, DrillFailsStep,
     FailsStep
  DEF Run
<1>7. ASSUME NEW o \in Operator, NEW f \in File, NEW c \in Content, ReaderWrites(o, f, c)
      PROVE  IInv'
  BY <1>7, ReaderWritesStep
<1>8. ASSUME NEW o \in Operator, Crash(o) \/ ClearStaleLock(o) PROVE IInv'
  BY <1>8, CrashStep, ClearStaleLockStep
<1>9. QED  BY <1>1, <1>2, <1>3, <1>4, <1>5, <1>6, <1>7, <1>8 DEF Next

LEMMA InvariantHolds == Spec => []IInv
  BY InitBackup, NextBackup, PTL DEF Spec

-----------------------------------------------------------------------------
(* The results.                                                            *)

\* Every reachable state of previews, backups and drills is well typed.
THEOREM TypeCorrect == Spec => []TypeOK
<1>1. IInv => TypeOK  BY DEF IInv
<1>2. QED  BY <1>1, InvariantHolds, PTL

\* One backup or drill at a time: two processes that are past taking the lock,
\* or died there, are the same one.
THEOREM OneAtATime ==
  Spec => [](\A o, q \in Operator :
                 op[o].phase \in Holding /\ op[q].phase \in Holding => o = q)
<1>1. IInv => \A o, q \in Operator :
                  op[o].phase \in Holding /\ op[q].phase \in Holding => o = q
  BY DEF IInv, HoldsLock
<1>2. QED  BY <1>1, InvariantHolds, PTL

\* A file that nobody wrote to during a backup is in the approved archive as the
\* person reviewed it, although every scan looks at one file after the other.
THEOREM ApprovedAsReviewed == Spec => []SteadyFilesAsReviewed
<1>1. IInv => SteadyFilesAsReviewed  BY DEF IInv
<1>2. QED  BY <1>1, InvariantHolds, PTL

\* Only the end of a drill says "verified".
LEMMA OnlyEndDrill ==
  ASSUME Next, drill' # drill, drill'.status = "verified"
  PROVE  \E o \in Operator : EndDrill(o)
<1>1. ASSUME NEW o \in Operator, Run(o) PROVE EndDrill(o)
  <2>1. ~ DrillFails(o)  BY DEF DrillFails
  <2>2. QED
    BY <1>1, <2>1 DEF Run, Look, Compare, EndPreview, AcceptPlan, Pack, HashArchive, Approve,
       VerifyArchive, RestoreArchive, ReadersPass, Fails, results
<1>2. ASSUME NEW o \in Operator,
             \/ StartPreview(o) \/ StartBackup(o) \/ StartDrill(o)
             \/ \E f \in File, c \in Content : ReaderWrites(o, f, c)
             \/ Crash(o) \/ ClearStaleLock(o)
      PROVE  FALSE
  BY <1>2 DEF StartPreview, StartBackup, StartDrill, ReaderWrites, Crash, ClearStaleLock, results
<1>3. QED
  BY <1>1, <1>2
  DEF Next, Write, RemoveArchive, RemoveDestination, TransferCommand, results

\* restore.json says "verified" only of a copy that has every file of the
\* manifest at that moment, whatever the readers wrote while they looked at it.
THEOREM VerifiedCopiesWhole == Spec => VerifiedCopyIsWhole
<1>1. IInv /\ [Next]_vars =>
        [drill' # drill /\ drill'.status = "verified" =>
            \E o \in Operator :
                /\ op[o].phase = "comparing"
                /\ \A f \in DOMAIN op[o].result.files : Of(destination, f) = op[o].result.files[f]]_vars
  <2> SUFFICES ASSUME IInv, Next, drill' # drill, drill'.status = "verified"
               PROVE  \E o \in Operator :
                          /\ op[o].phase = "comparing"
                          /\ \A f \in DOMAIN op[o].result.files :
                                 Of(destination, f) = op[o].result.files[f]
    BY DEF vars, results
  <2>1. PICK o \in Operator : EndDrill(o)  BY OnlyEndDrill
  <2>2. CopyWhole(op[o])  BY DEF IInv, Right
  <2>3. QED  BY <2>1, <2>2 DEF EndDrill, CopyWhole
<1>2. QED  BY <1>1, InvariantHolds, PTL DEF Spec, VerifiedCopyIsWhole

-----------------------------------------------------------------------------
(* From the review to the copy.  Two looks at the archive path are not     *)
(* protected: the digest is taken of whatever is there after the rename,   *)
(* and compared before the archive is opened.                              *)

\* An archive with this number has these files.
Same(a, number, files) == a # NoArchive /\ a.number = number => a.files = files

\* What a call with local variables i has learned of the archive a and the
\* receipt r, when n archives have been written.
Learned(i, a, r, n) ==
    /\ i.phase = "packed" => a # NoArchive /\ a.files = i.result.files
    /\ i.phase = "rescanning" => i.result.number <= n /\ Same(a, i.result.number, i.result.files)
    /\ i.phase = "verifying" => a.number = r.number
    /\ i.phase \in {"restoring", "reading", "comparing"} => i.result.files = r.files

\* Numbers are used once.
NumbersUsed(a, r, n) == a.number <= n /\ r.number <= n /\ Same(a, r.number, r.files)

Ledger ==
    /\ NumbersUsed(archive, receipt, archives)
    /\ \A o \in Operator : Learned(op[o], archive, receipt, archives)

\* Nobody else writes to the archive path between the rename of a packed archive
\* and its digest, nor between the comparison of the digest and the opening.
ArchiveQuiet ==
    [][(\E o \in Operator : op[o].phase \in {"packed", "verifying"}) => archive' = archive]_vars

\* A verified copy has what the person reviewed, of every file that was not
\* written to during the backup.
VerifiedAsReviewed ==
    [][drill' # drill /\ drill'.status = "verified" =>
          \A f \in receipt.steady \cap DOMAIN receipt.reviewed :
              Of(destination, f) = receipt.reviewed[f]]_vars

\* An operator moves; archive and receipt stay.
LEMMA OneLearns ==
  ASSUME IInv, Ledger, NEW o \in Operator, NEW n \in Call, op' = [op EXCEPT ![o] = n],
         Learned(n, archive, receipt, archives), UNCHANGED <<archive, archives, receipt>>
  PROVE  Ledger'
<1>1. op'[o] = n /\ \A q \in Operator \ {o} : op'[q] = op[q]  BY DEF IInv, TypeOK
<1>2. \A q \in Operator : Learned(op'[q], archive, receipt, archives)  BY <1>1 DEF Ledger
<1>3. NumbersUsed(archive, receipt, archives)  BY DEF Ledger
<1>4. QED  BY <1>2, <1>3 DEF Ledger

\* A new archive has a number that nobody knows.
LEMMA NewNumber ==
  ASSUME IInv, Ledger, archives < MaxArchives, NEW t,
         archive' = [number |-> archives + 1, files |-> t], archives' = archives + 1
  PROVE  /\ archive' # NoArchive /\ archive'.files = t
         /\ NumbersUsed(archive', receipt, archives')
         /\ \A i \in Call : i.result.number <= archives =>
                i.result.number <= archives' /\ Same(archive', i.result.number, i.result.files)
<1>1. archives \in Nat /\ receipt.number \in Nat /\ receipt.number <= archives
  BY BackupAssumption DEF IInv, TypeOK, Receipt, Ledger, NumbersUsed
<1>2. archive'.number = archives + 1 /\ archive'.files = t  OBVIOUS
<1>3. archive' # NoArchive  BY <1>1, <1>2 DEF NoArchive
<1>4. NumbersUsed(archive', receipt, archives')  BY <1>1, <1>2 DEF NumbersUsed, Same
<1>5. ASSUME NEW i \in Call, i.result.number <= archives
      PROVE  i.result.number <= archives' /\ Same(archive', i.result.number, i.result.files)
  <2>1. i.result.number \in Nat  BY BackupAssumption DEF Call, Archive
  <2>2. QED  BY <1>1, <1>2, <1>5, <2>1 DEF Same
<1>6. QED  BY <1>2, <1>3, <1>4, <1>5

\* A call of which no phase is left that says anything.
LEMMA Forgets ==
  ASSUME NEW i, i.phase \in {"idle", "previewing", "planning", "listing", "crashed"}
  PROVE  \A a, r, n : Learned(i, a, r, n)
  BY DEF Learned

LEMMA RestingLearns ==
  ASSUME IInv, Ledger, NEW o \in Operator, UNCHANGED <<archive, archives, receipt>>,
         \/ op' = [op EXCEPT ![o] = Rest(o)]
         \/ op' = [op EXCEPT ![o] = [Rest(o) EXCEPT !.phase = "crashed"]]
  PROVE  Ledger'
<1>1. PICK r \in Trees \cup {None} : r = op[o].reviewed  BY DEF IInv, TypeOK, Call
<1>2. PICK n : n = [AtRest EXCEPT !.reviewed = r]  OBVIOUS
<1>3. PICK m : m = [[AtRest EXCEPT !.reviewed = r] EXCEPT !.phase = "crashed"]  OBVIOUS
<1>4. n \in Call /\ m \in Call /\ n.phase = "idle" /\ m.phase = "crashed"
  BY <1>2, <1>3, Rests
<1>5. op' = [op EXCEPT ![o] = n] \/ op' = [op EXCEPT ![o] = m]
  BY <1>1, <1>2, <1>3 DEF Rest
<1>6. /\ Learned(n, archive, receipt, archives)
      /\ Learned(m, archive, receipt, archives)
  BY <1>4, Forgets
<1>7. QED  BY <1>4, <1>5, <1>6, OneLearns

\* Steps of preview and backup.
LEMMA BackupLearns ==
  ASSUME IInv, Ledger, NEW o \in Operator,
         \/ StartPreview(o) \/ EndPreview(o) \/ StartBackup(o) \/ AcceptPlan(o)
         \/ \E f \in File : Look(o, f)
  PROVE  Ledger'
<1>1. PICK i \in Call : i = op[o]  BY DEF IInv, TypeOK
<1>2. UNCHANGED <<archive, archives, receipt>>
  BY DEF StartPreview, EndPreview, StartBackup, AcceptPlan, Look, results
<1>3. op' \in [Operator -> Call]
  <2>1. IInv'
    BY StartPreviewStep, EndPreviewStep, StartBackupStep, AcceptPlanStep, LookStep
  <2>2. QED  BY <2>1 DEF IInv, TypeOK
<1>4. PICK n \in Call : n = op'[o]  BY <1>3
<1>5. op' = [op EXCEPT ![o] = n]
  BY <1>4 DEF StartPreview, EndPreview, StartBackup, AcceptPlan, Look, IInv, TypeOK
<1>6. CASE StartPreview(o) \/ EndPreview(o) \/ StartBackup(o) \/ AcceptPlan(o)
  <2>1. n.phase \in {"idle", "previewing", "planning", "listing"}
    <3>1. CASE StartPreview(o)
      <4>1. n = Scan(o, "previewing")  BY <1>4, <3>1 DEF StartPreview, IInv, TypeOK
      <4>2. QED  BY <4>1, Scans DEF Scanning
    <3>2. CASE EndPreview(o)
      <4>1. n = [AtRest EXCEPT !.reviewed = i.seen]
        BY <1>1, <1>4, <3>2 DEF EndPreview, IInv, TypeOK
      <4>2. QED  BY <4>1 DEF AtRest
    <3>3. CASE StartBackup(o)
      <4>1. PICK m : m = Scan(o, "planning")  OBVIOUS
      <4>2. m \in Call /\ m.phase = "planning"  BY <4>1, Scans DEF Scanning
      <4>3. n = [m EXCEPT !.touched = {}]
        BY <1>4, <3>3, <4>1 DEF StartBackup, IInv, TypeOK
      <4>4. QED  BY <4>2, <4>3 DEF Call
    <3>4. CASE AcceptPlan(o)
      <4>1. PICK m : m = Scan(o, "listing")  OBVIOUS
      <4>2. m \in Call /\ m.phase = "listing"  BY <4>1, Scans DEF Scanning
      <4>3. n = [m EXCEPT !.plan = i.seen]
        BY <1>1, <1>4, <3>4, <4>1 DEF AcceptPlan, IInv, TypeOK
      <4>4. QED  BY <4>2, <4>3 DEF Call
    <3>5. QED  BY <1>6, <3>1, <3>2, <3>3, <3>4
  <2>2. Learned(n, archive, receipt, archives)  BY <2>1, Forgets
  <2>3. QED  BY <1>2, <1>5, <2>2, OneLearns
<1>7. CASE \E f \in File : Look(o, f)
  <2>1. PICK f \in File : Look(o, f)  BY <1>7
  <2>2. PICK t : n = [i EXCEPT !.todo = @ \ {f}, !.seen = t]
    BY <1>1, <1>4, <2>1 DEF Look, IInv, TypeOK
  <2>3. n.phase = i.phase /\ n.result = i.result  BY <2>2 DEF Call
  <2>4. Learned(n, archive, receipt, archives)  BY <1>1, <2>3 DEF Ledger, Learned
  <2>5. QED  BY <1>2, <1>5, <2>4, OneLearns
<1>8. QED  BY <1>6, <1>7

LEMMA PackLearns ==
  ASSUME IInv, Ledger, NEW o \in Operator, Pack(o)
  PROVE  Ledger'
<1>1. PICK i \in Call : i = op[o]  BY DEF IInv, TypeOK
<1>2. i.phase = "listing" /\ archives < MaxArchives  BY <1>1 DEF Pack
<1>3. PICK t : t = [f \in DOMAIN i.seen |-> disk[f]]  OBVIOUS
<1>4. archive' = [number |-> archives + 1, files |-> t] /\ archives' = archives + 1
  BY <1>1, <1>3 DEF Pack
<1>5. /\ archive' # NoArchive /\ archive'.files = t
      /\ NumbersUsed(archive', receipt, archives')
  BY <1>2, <1>4, NewNumber
<1>6. PICK n : n = [i EXCEPT !.phase = "packed", !.result.files = t]  OBVIOUS
<1>7. n.phase = "packed" /\ n.result.files = t  BY <1>6 DEF Call, Archive
<1>8. op' = [op EXCEPT ![o] = n] /\ receipt' = receipt  BY <1>1, <1>5, <1>6 DEF Pack
<1>9. ASSUME NEW q \in Operator
      PROVE  Learned(op'[q], archive', receipt, archives')
  <2>1. CASE q = o
    <3>1. op'[q] = n  BY <1>8, <2>1 DEF IInv, TypeOK
    <3>2. QED  BY <1>5, <1>7, <3>1 DEF Learned
  <2>2. CASE q # o
    <3>1. op'[q] = op[q]  BY <1>8, <2>2 DEF IInv, TypeOK
    <3>2. op[q].phase \notin Holding  BY <1>1, <1>2, <2>2, OnlyOne DEF Holding
    <3>3. QED  BY <3>1, <3>2 DEF Learned, Holding
  <2>3. QED  BY <2>1, <2>2
<1>10. QED  BY <1>5, <1>8, <1>9 DEF Ledger

LEMMA HashArchiveLearns ==
  ASSUME IInv, Ledger, NEW o \in Operator, HashArchive(o)
  PROVE  Ledger'
<1>1. PICK i \in Call : i = op[o]  BY DEF IInv, TypeOK
<1>2. PICK m : m = Scan(o, "rescanning")  OBVIOUS
<1>3. m \in Call /\ m.phase = "rescanning" /\ m.result = i.result
  BY <1>1, <1>2, Scans DEF Scanning
<1>4. PICK n : n = [m EXCEPT !.result.number = archive.number]  OBVIOUS
<1>5. archive.number \in 0..MaxArchives  BY DEF IInv, TypeOK, Archive
<1>6. /\ n \in Call /\ n.phase = "rescanning"
      /\ n.result.number = archive.number /\ n.result.files = i.result.files
  BY <1>3, <1>4, <1>5 DEF Call, Archive
<1>7. archive.files = i.result.files /\ archive.number <= archives
  BY <1>1 DEF Ledger, Learned, NumbersUsed, HashArchive
<1>8. Learned(n, archive, receipt, archives)  BY <1>6, <1>7 DEF Learned, Same
<1>9. op' = [op EXCEPT ![o] = n] /\ UNCHANGED <<archive, archives, receipt>>
  BY <1>2, <1>4 DEF HashArchive, results
<1>10. QED  BY <1>6, <1>8, <1>9, OneLearns

LEMMA ApproveLearns ==
  ASSUME IInv, Ledger, NEW o \in Operator, Approve(o)
  PROVE  Ledger'
<1>1. PICK i \in Call : i = op[o]  BY DEF IInv, TypeOK
<1>2. i.phase = "rescanning"  BY <1>1 DEF Approve
<1>3. PICK n : n = [AtRest EXCEPT !.reviewed = i.reviewed]  OBVIOUS
<1>4. n.phase = "idle"  BY <1>3 DEF AtRest
<1>5. op' = [op EXCEPT ![o] = n] /\ UNCHANGED <<archive, archives>>
  BY <1>1, <1>3 DEF Approve, Rest
<1>6. receipt'.number = i.result.number /\ receipt'.files = i.result.files
  BY <1>1 DEF Approve
<1>7. NumbersUsed(archive, receipt', archives)
  BY <1>1, <1>2, <1>6 DEF Ledger, Learned, NumbersUsed, Same
<1>8. ASSUME NEW q \in Operator
      PROVE  Learned(op'[q], archive, receipt', archives)
  <2>1. CASE q = o
    <3>1. op'[q] = n  BY <1>5, <2>1 DEF IInv, TypeOK
    <3>2. QED  BY <1>4, <3>1, Forgets
  <2>2. CASE q # o
    <3>1. op'[q] = op[q]  BY <1>5, <2>2 DEF IInv, TypeOK
    <3>2. op[q].phase \notin Holding  BY <1>1, <1>2, <2>2, OnlyOne DEF Holding
    <3>3. QED  BY <3>1, <3>2 DEF Learned, Holding
  <2>3. QED  BY <2>1, <2>2
<1>9. QED  BY <1>5, <1>7, <1>8 DEF Ledger

\* Steps of a drill.
LEMMA DrillLearns ==
  ASSUME IInv, Ledger, NEW o \in Operator,
         \/ StartDrill(o) \/ VerifyArchive(o) \/ RestoreArchive(o) \/ ReadersPass(o)
         \/ \E f \in File : Compare(o, f)
  PROVE  Ledger'
<1>1. PICK i \in Call : i = op[o]  BY DEF IInv, TypeOK
<1>2. UNCHANGED <<archive, archives, receipt>>
  BY DEF StartDrill, VerifyArchive, RestoreArchive, ReadersPass, Compare, results
<1>3. op' \in [Operator -> Call]
  <2>1. IInv'
    BY StartDrillStep, VerifyArchiveStep, RestoreArchiveStep, ReadersPassStep, CompareStep
  <2>2. QED  BY <2>1 DEF IInv, TypeOK
<1>4. PICK n \in Call : n = op'[o]  BY <1>3
<1>5. op' = [op EXCEPT ![o] = n]
  BY <1>4 DEF StartDrill, VerifyArchive, RestoreArchive, ReadersPass, Compare, IInv, TypeOK
<1>6. Learned(n, archive, receipt, archives)
  <2>1. CASE StartDrill(o)
    <3>1. PICK r \in Trees \cup {None} : r = i.reviewed  BY DEF Call
    <3>2. PICK m \in Call : m = [AtRest EXCEPT !.reviewed = r]  BY Rests
    <3>3. n = [m EXCEPT !.phase = "verifying", !.result.number = receipt.number]
      BY <1>1, <1>4, <2>1, <3>1, <3>2 DEF StartDrill, Rest, IInv, TypeOK
    <3>4. n.phase = "verifying"  BY <3>3 DEF Call
    <3>5. archive.number = receipt.number  BY <2>1 DEF StartDrill
    <3>6. QED  BY <3>4, <3>5 DEF Learned
  <2>2. CASE VerifyArchive(o)
    <3>1. n = [i EXCEPT !.phase = "restoring", !.result.files = archive.files]
      BY <1>1, <1>4, <2>2 DEF VerifyArchive, IInv, TypeOK
    <3>2. n.phase = "restoring" /\ n.result.files = archive.files
      BY <3>1 DEF Call, Archive
    <3>3. archive # NoArchive /\ archive.number = receipt.number
      BY <1>1, <2>2 DEF VerifyArchive, Ledger, Learned
    <3>4. archive.files = receipt.files  BY <3>3 DEF Ledger, NumbersUsed, Same
    <3>5. QED  BY <3>2, <3>4 DEF Learned
  <2>3. CASE RestoreArchive(o) \/ ReadersPass(o) \/ \E f \in File : Compare(o, f)
    <3>1. i.phase \in {"restoring", "reading", "comparing"}
      BY <1>1, <2>3 DEF RestoreArchive, ReadersPass, Compare
    <3>2. i.result.files = receipt.files  BY <1>1, <3>1 DEF Ledger, Learned
    <3>3. n.result = i.result /\ n.phase \in {"reading", "comparing"}
      <4>1. CASE RestoreArchive(o)
        <5>1. n = [i EXCEPT !.phase = "reading"]
          BY <1>1, <1>4, <4>1 DEF RestoreArchive, IInv, TypeOK
        <5>2. QED  BY <5>1 DEF Call
      <4>2. CASE ReadersPass(o)
        <5>1. n = [i EXCEPT !.phase = "comparing", !.todo = DOMAIN i.result.files]
          BY <1>1, <1>4, <4>2 DEF ReadersPass, IInv, TypeOK
        <5>2. QED  BY <5>1 DEF Call
      <4>3. ASSUME NEW f \in File, Compare(o, f)
            PROVE  n.result = i.result /\ n.phase \in {"reading", "comparing"}
        <5>1. n = [i EXCEPT !.todo = @ \ {f}] /\ i.phase = "comparing"
          BY <1>1, <1>4, <4>3 DEF Compare, IInv, TypeOK
        <5>2. QED  BY <5>1 DEF Call
      <4>4. QED  BY <2>3, <4>1, <4>2, <4>3
    <3>4. QED  BY <3>2, <3>3 DEF Learned
  <2>4. QED  BY <2>1, <2>2, <2>3
<1>7. QED  BY <1>2, <1>5, <1>6, OneLearns

\* Everybody else, while the archive path is quiet.
LEMMA OthersLearn ==
  ASSUME IInv, Ledger,
         \/ RemoveArchive \/ RemoveDestination
         \/ \E f \in File, c \in Content \cup {Absent} : Write(f, c)
         \/ \E A \in SUBSET File : TransferCommand(A)
         \/ \E o \in Operator, f \in File, c \in Content : ReaderWrites(o, f, c),
         (\E o \in Operator : op[o].phase \in {"packed", "verifying"}) => archive' = archive
  PROVE  Ledger'
<1>1. CASE \E f \in File, c \in Content \cup {Absent} : Write(f, c)
  <2>1. PICK f \in File, c \in Content \cup {Absent} : Write(f, c)  BY <1>1
  <2>2. UNCHANGED <<archive, archives, receipt>>  BY <2>1 DEF Write, results
  <2>3. ASSUME NEW q \in Operator
        PROVE  Learned(op'[q], archive, receipt, archives)
    <3>1. PICK i \in Call : i = op[q]  BY DEF IInv, TypeOK
    <3>2. PICK n : n = op'[q]  OBVIOUS
    <3>3. n = IF lock = q THEN [i EXCEPT !.touched = @ \cup {f}] ELSE i
      BY <2>1, <3>1, <3>2 DEF Write
    <3>4. n.phase = i.phase /\ n.result = i.result  BY <3>3 DEF Call
    <3>5. QED  BY <3>1, <3>2, <3>4 DEF Ledger, Learned
  <2>4. QED  BY <2>2, <2>3 DEF Ledger
<1>2. CASE RemoveDestination \/ \E o \in Operator, f \in File, c \in Content : ReaderWrites(o, f, c)
  <2>1. UNCHANGED <<op, archive, archives, receipt>>
    BY <1>2 DEF RemoveDestination, ReaderWrites
  <2>2. QED  BY <2>1 DEF Ledger
<1>3. CASE RemoveArchive \/ \E A \in SUBSET File : TransferCommand(A)
  <2>1. UNCHANGED <<op, receipt>>  BY <1>3 DEF RemoveArchive, TransferCommand
  <2>2. /\ NumbersUsed(archive', receipt, archives')
        /\ archive' # archive
        /\ \A i \in Call : i.result.number <= archives /\ Same(archive, i.result.number, i.result.files)
               => i.result.number <= archives' /\ Same(archive', i.result.number, i.result.files)
    <3>1. CASE RemoveArchive
      <4>1. archives \in Nat /\ receipt.number <= archives
        BY DEF IInv, TypeOK, Ledger, NumbersUsed
      <4>2. archive' = NoArchive /\ archives' = archives /\ archive' # archive
        BY <3>1 DEF RemoveArchive
      <4>3. NoArchive.number = 0  BY DEF NoArchive
      <4>4. NumbersUsed(archive', receipt, archives')  BY <4>1, <4>2, <4>3 DEF NumbersUsed, Same
      <4>5. QED  BY <4>2, <4>4 DEF Same
    <3>2. ASSUME NEW A \in SUBSET File, TransferCommand(A)
          PROVE  /\ NumbersUsed(archive', receipt, archives')
                 /\ archive' # archive
                 /\ \A i \in Call : i.result.number <= archives =>
                        i.result.number <= archives' /\ Same(archive', i.result.number, i.result.files)
      <4>1. PICK t : t = [f \in A |-> disk[f]]  OBVIOUS
      <4>2. /\ archive' = [number |-> archives + 1, files |-> t] /\ archives' = archives + 1
            /\ archives < MaxArchives /\ archive = NoArchive
        BY <3>2, <4>1 DEF TransferCommand
      <4>3. QED  BY <4>2, NewNumber
    <3>3. QED  BY <1>3, <3>1, <3>2
  <2>3. ASSUME NEW q \in Operator
        PROVE  Learned(op[q], archive', receipt, archives')
    <3>1. PICK i \in Call : i = op[q]  BY DEF IInv, TypeOK
    <3>2. i.phase \notin {"packed", "verifying"}  BY <2>2, <3>1
    <3>3. Learned(i, archive, receipt, archives)  BY <3>1 DEF Ledger
    <3>4. Learned(i, archive', receipt, archives')  BY <2>2, <3>2, <3>3 DEF Learned
    <3>5. QED  BY <3>1, <3>4
  <2>4. QED  BY <2>1, <2>2, <2>3 DEF Ledger
<1>4. QED  BY <1>1, <1>2, <1>3

\* backup and restore_drill, from the review to the verified copy: if nobody
\* else writes to the archive path in the two unprotected windows, a copy that a
\* drill reports verified holds, of every file that nobody touched during the
\* backup, what the person reviewed, although the receipt, the archive and the
\* copy are files that anybody may replace and the readers may have written to
\* the copy.
THEOREM CopiesAsReviewed == Spec /\ ArchiveQuiet => VerifiedAsReviewed
<1> DEFINE Hushed == (\E o \in Operator : op[o].phase \in {"packed", "verifying"}) => archive' = archive
           Told == drill' # drill /\ drill'.status = "verified" =>
                       \A f \in receipt.steady \cap DOMAIN receipt.reviewed :
                           Of(destination, f) = receipt.reviewed[f]
<1>1. Init => Ledger
  <2> SUFFICES ASSUME Init PROVE Ledger  OBVIOUS
  <2>1. NumbersUsed(archive, receipt, archives)
    BY DEF Init, NumbersUsed, NoArchive, NoReceipt, Same
  <2>2. ASSUME NEW o \in Operator PROVE Learned(op[o], archive, receipt, archives)
    <3>1. op[o].phase = "idle"  BY RestTypes DEF Init
    <3>2. QED  BY <3>1, Forgets
  <2>3. QED  BY <2>1, <2>2 DEF Ledger
<1>2. IInv /\ Ledger /\ [Next]_vars /\ [Hushed]_vars => Ledger'
  <2> SUFFICES ASSUME IInv, Ledger, [Next]_vars, [Hushed]_vars PROVE Ledger'  OBVIOUS
  <2>1. CASE UNCHANGED vars  BY <2>1 DEF Ledger, vars, results
  <2>2. CASE Next /\ Hushed
    <3>1. ASSUME NEW o \in Operator, Run(o) PROVE Ledger'
      <4>1. CASE Approve(o)  BY <4>1, ApproveLearns
      <4>2. CASE Pack(o)  BY <4>2, PackLearns
      <4>3. CASE HashArchive(o)  BY <4>3, HashArchiveLearns
      <4>4. CASE EndDrill(o) \/ DrillFails(o) \/ Fails(o)
        BY <4>4, RestingLearns DEF EndDrill, DrillFails, Fails, results
      <4>5. CASE EndPreview(o) \/ AcceptPlan(o) \/ \E f \in File : Look(o, f)
        BY <4>5, BackupLearns
      <4>6. CASE VerifyArchive(o) \/ RestoreArchive(o) \/ ReadersPass(o) \/ \E f \in File : Compare(o, f)
        BY <4>6, DrillLearns
      <4>7. QED  BY <3>1, <4>1, <4>2, <4>3, <4>4, <4>5, <4>6 DEF Run
    <3>2. ASSUME NEW o \in Operator, StartPreview(o) \/ StartBackup(o) PROVE Ledger'
      BY <3>2, BackupLearns
    <3>3. ASSUME NEW o \in Operator, StartDrill(o) PROVE Ledger'
      BY <3>3, DrillLearns
    <3>4. ASSUME NEW o \in Operator, Crash(o) \/ ClearStaleLock(o) PROVE Ledger'
      BY <3>4, RestingLearns DEF Crash, ClearStaleLock, results
    <3>5. CASE \/ RemoveArchive \/ RemoveDestination
               \/ \E f \in File, c \in Content \cup {Absent} : Write(f, c)
               \/ \E A \in SUBSET File : TransferCommand(A)
               \/ \E o \in Operator, f \in File, c \in Content : ReaderWrites(o, f, c)
      BY <2>2, <3>5, OthersLearn
    <3>6. QED  BY <2>2, <3>1, <3>2, <3>3, <3>4, <3>5 DEF Next
  <2>3. QED  BY <2>1, <2>2
<1>3. IInv /\ Ledger /\ [Next]_vars => [Told]_vars
  <2> SUFFICES ASSUME IInv, Ledger, Next, drill' # drill, drill'.status = "verified",
                      NEW f \in receipt.steady \cap DOMAIN receipt.reviewed
               PROVE  Of(destination, f) = receipt.reviewed[f]
    BY DEF vars, results
  <2>1. PICK o \in Operator : EndDrill(o)  BY OnlyEndDrill
  <2>2. PICK i \in Call : i = op[o] /\ Right(i)  BY DEF IInv, TypeOK
  <2>3. i.phase = "comparing" /\ i.todo = {}  BY <2>1, <2>2 DEF EndDrill
  <2>4. i.result.files = receipt.files  BY <2>2, <2>3 DEF Ledger, Learned
  <2>5. \A g \in DOMAIN receipt.files : Of(destination, g) = receipt.files[g]
    BY <2>2, <2>3, <2>4 DEF Right, CopyWhole
  <2>6. Of(receipt.files, f) = receipt.reviewed[f]
    BY DEF IInv, SteadyFilesAsReviewed, Of
  <2>7. receipt.reviewed[f] # Absent
    <3>1. receipt.reviewed \in Trees  BY DEF IInv, TypeOK, Receipt
    <3>2. receipt.reviewed[f] \in Content  BY <3>1, TreeFiles
    <3>3. QED  BY <3>2, BackupAssumption
  <2>8. QED  BY <2>5, <2>6, <2>7 DEF Of
<1>4. QED
  BY <1>1, <1>2, <1>3, InvariantHolds, PTL DEF Spec, ArchiveQuiet, VerifiedAsReviewed
=============================================================================
