------------------------- MODULE ReleaseStateProofs -------------------------
(***************************************************************************)
(* Proofs about ReleaseState, for any number of operators, readers,        *)
(* candidates and calls.                                                   *)
(***************************************************************************)
EXTENDS ReleaseState, TLAPS

-----------------------------------------------------------------------------
(* The inductive invariant.                                                *)

\* The lock file exists exactly while some operator is inside, and is its own.
LockInv == \A o \in Operator : Inside(o) <=> lock = o

\* Phases in which the compare has succeeded and the pointer has not moved.
Holding == {"compared", "storing", "stored", "receipting", "receipted"}

\* What an operator knows about its own call.
JobInv ==
    \A o \in Operator :
        /\ phase[o] \in {"idle", "crashed"} => job[o] = NoJob
        /\ phase[o] \notin {"idle", "crashed"} => job[o].candidate \in Candidate
        /\ phase[o] \in Holding =>
               /\ job[o].found = pointer.candidate
               /\ job[o].expected = pointer.candidate
               /\ Admissible(pointer.candidate, job[o].candidate)

\* What an operator inside knows about the files it has written.
FileInv ==
    \A o \in Operator :
        /\ phase[o] \in {"stored", "receipting", "receipted"} =>
               store[job[o].candidate] = "whole"
        /\ phase[o] \in {"receipting", "receipted"} =>
               /\ job[o].receipt \in ReceiptId
               /\ receipts[job[o].receipt].candidate = job[o].candidate
               /\ receipts[job[o].receipt].previous = job[o].found
        /\ phase[o] = "receipting" => receipts[job[o].receipt].file = "truncated"
        /\ phase[o] = "receipted" => receipts[job[o].receipt].file = "whole"

\* Every receipt that was ever named is whole, the pointer is one of them.
PublishedWhole == \A i \in 1..Len(published) : receipts[published[i]].file = "whole"

PointerShape ==
    pointer = NoPointer \/ (pointer.candidate \in Candidate /\ pointer.receipt \in ReceiptId)

IInv ==
    /\ TypeOK
    /\ LockInv
    /\ JobInv
    /\ FileInv
    /\ PublishedWhole
    /\ PointerShape
    /\ PointerSound
    /\ ReceiptChain
    /\ ReadersNeverBreak

-----------------------------------------------------------------------------
\* The initial state has every conjunct of the inductive invariant.
LEMMA InitIInv == Init => IInv
  BY NoneAssumption, AttemptsAssumption
  DEF Init, IInv, TypeOK, LockInv, JobInv, FileInv, PublishedWhole, PointerShape, PointerSound,
      ReceiptChain, ReadersNeverBreak, ValidPointer, Inside, Holding, Phase, Pointer, Receipt,
      Job, NoPointer, NoReceipt, NoJob, FileState

\* The steps that write the store, a receipt or the pointer; every other step
\* leaves all of them alone.
writes == <<store, receipts, pointer, published>>

LEMMA WritingSteps ==
    ASSUME [Next]_vars
    PROVE  \/ UNCHANGED writes
           \/ \E o \in Operator :
                  \/ OpenStore(o)
                  \/ WriteStore(o)
                  \/ \E r \in ReceiptId : OpenReceipt(o, r)
                  \/ WriteReceipt(o)
                  \/ Publish(o)
  BY DEF Next, Call, vars, files, writes, Verify, Acquire, Refuse, Compare, WriteFails, Release,
         Crash, ClearStaleLock, ReadPointer, ReadReceipt

\* Types are preserved by every step.
LEMMA TypeStep == IInv /\ [Next]_vars => TypeOK'
  <1> SUFFICES ASSUME IInv, [Next]_vars PROVE TypeOK'
    OBVIOUS
  <1>1. ASSUME NEW o \in Operator, NEW c \in Candidate, NEW e \in Candidate \cup {None},
               Verify(o, c, e)
        PROVE  TypeOK'
    BY <1>1 DEF Verify, files, NoJob, IInv, TypeOK, Phase, Pointer, Receipt, Job, FileState,
       NoPointer
  <1>2. ASSUME NEW o \in Operator, Acquire(o) PROVE TypeOK'
    BY <1>2 DEF Acquire, IInv, TypeOK, Phase, Pointer, Receipt, Job, FileState, NoPointer
  <1>3. ASSUME NEW o \in Operator, Refuse(o) PROVE TypeOK'
    BY <1>3 DEF Refuse, files, NoJob, IInv, TypeOK, Phase, Pointer, Receipt, Job, FileState,
       NoPointer
  <1>4. ASSUME NEW o \in Operator, Compare(o) PROVE TypeOK'
    BY <1>4 DEF Compare, files, IInv, TypeOK, Phase, Pointer, Receipt, Job, FileState, NoPointer
  <1>5. ASSUME NEW o \in Operator, OpenStore(o) PROVE TypeOK'
    BY <1>5 DEF OpenStore, IInv, TypeOK, Phase, Pointer, Receipt, Job, FileState, NoPointer
  <1>6. ASSUME NEW o \in Operator, WriteStore(o) PROVE TypeOK'
    BY <1>6 DEF WriteStore, IInv, TypeOK, Phase, Pointer, Receipt, Job, FileState, NoPointer
  <1>7. ASSUME NEW o \in Operator, NEW r \in ReceiptId, OpenReceipt(o, r) PROVE TypeOK'
    <2>1. job[o] \in Job
      BY DEF IInv, TypeOK
    <2>2. receipts' \in [ReceiptId -> Receipt]
      BY <1>7, <2>1 DEF OpenReceipt, IInv, TypeOK, Receipt, Job, FileState
    <2>3. job' \in [Operator -> Job]
      BY <1>7, <2>1 DEF OpenReceipt, IInv, TypeOK, Job
    <2>4. phase' \in [Operator -> Phase]
      BY <1>7 DEF OpenReceipt, IInv, TypeOK, Phase
    <2> QED
      BY <1>7, <2>2, <2>3, <2>4 DEF OpenReceipt, IInv, TypeOK
  <1>8. ASSUME NEW o \in Operator, WriteReceipt(o) PROVE TypeOK'
    <2>1. receipts' \in [ReceiptId -> Receipt]
      BY <1>8 DEF WriteReceipt, IInv, TypeOK, Receipt, FileState
    <2>2. phase' \in [Operator -> Phase]
      BY <1>8 DEF WriteReceipt, IInv, TypeOK, Phase
    <2> QED
      BY <1>8, <2>1, <2>2 DEF WriteReceipt, IInv, TypeOK
  <1>9. ASSUME NEW o \in Operator, Publish(o) PROVE TypeOK'
    <2>1. job[o].receipt \in ReceiptId /\ job[o].candidate \in Candidate
      BY <1>9 DEF Publish, IInv, FileInv, JobInv
    <2>2. pointer' \in Pointer
      BY <1>9, <2>1 DEF Publish, Pointer
    <2>3. published' \in Seq(ReceiptId)
      BY <1>9, <2>1 DEF Publish, IInv, TypeOK
    <2>4. phase' \in [Operator -> Phase]
      BY <1>9 DEF Publish, IInv, TypeOK, Phase
    <2> QED
      BY <1>9, <2>2, <2>3, <2>4 DEF Publish, IInv, TypeOK
  <1>10. ASSUME NEW o \in Operator, WriteFails(o) PROVE TypeOK'
    BY <1>10 DEF WriteFails, files, IInv, TypeOK, Phase, Pointer, Receipt, Job, FileState,
       NoPointer
  <1>11. ASSUME NEW o \in Operator, Release(o) PROVE TypeOK'
    BY <1>11 DEF Release, NoJob, IInv, TypeOK, Phase, Pointer, Receipt, Job, FileState, NoPointer
  <1>12. ASSUME NEW o \in Operator, Crash(o) PROVE TypeOK'
    BY <1>12 DEF Crash, files, NoJob, IInv, TypeOK, Phase, Pointer, Receipt, Job, FileState,
       NoPointer
  <1>13. ASSUME NEW o \in Operator, ClearStaleLock(o) PROVE TypeOK'
    BY <1>13 DEF ClearStaleLock, IInv, TypeOK, Phase, Pointer, Receipt, Job, FileState, NoPointer
  <1>14. ASSUME NEW r \in Reader, ReadPointer(r) PROVE TypeOK'
    BY <1>14 DEF ReadPointer, files, IInv, TypeOK, Phase, Pointer, Receipt, Job, FileState,
       NoPointer
  <1>15. ASSUME NEW r \in Reader, ReadReceipt(r) PROVE TypeOK'
    BY <1>15 DEF ReadReceipt, files, IInv, TypeOK, Phase, Pointer, Receipt, Job, FileState,
       NoPointer
  <1>16. CASE UNCHANGED vars
    BY <1>16 DEF vars, IInv, TypeOK, Phase, Pointer, Receipt, Job, FileState, NoPointer
  <1> QED
    BY <1>1, <1>2, <1>3, <1>4, <1>5, <1>6, <1>7, <1>8, <1>9, <1>10, <1>11, <1>12, <1>13, <1>14,
       <1>15, <1>16 DEF Next, Call

\* The lock file stays the property of whoever is inside.
LEMMA LockStep == IInv /\ [Next]_vars => LockInv'
  <1> SUFFICES ASSUME IInv, [Next]_vars PROVE LockInv'
    OBVIOUS
  <1>1. ASSUME NEW o \in Operator, NEW c \in Candidate, NEW e \in Candidate \cup {None},
               Verify(o, c, e)
        PROVE  LockInv'
    BY <1>1 DEF Verify, files, NoJob, IInv, LockInv, Inside, TypeOK, Phase
  <1>2. ASSUME NEW o \in Operator, Acquire(o) PROVE LockInv'
    BY <1>2, NoneAssumption DEF Acquire, IInv, LockInv, Inside, TypeOK, Phase
  <1>3. ASSUME NEW o \in Operator, Refuse(o) PROVE LockInv'
    BY <1>3 DEF Refuse, files, NoJob, IInv, LockInv, Inside, TypeOK, Phase
  <1>4. ASSUME NEW o \in Operator, Compare(o) PROVE LockInv'
    BY <1>4 DEF Compare, files, IInv, LockInv, Inside, TypeOK, Phase
  <1>5. ASSUME NEW o \in Operator, OpenStore(o) PROVE LockInv'
    BY <1>5 DEF OpenStore, IInv, LockInv, Inside, TypeOK, Phase
  <1>6. ASSUME NEW o \in Operator, WriteStore(o) PROVE LockInv'
    BY <1>6 DEF WriteStore, IInv, LockInv, Inside, TypeOK, Phase
  <1>7. ASSUME NEW o \in Operator, NEW r \in ReceiptId, OpenReceipt(o, r) PROVE LockInv'
    BY <1>7 DEF OpenReceipt, IInv, LockInv, Inside, TypeOK, Phase
  <1>8. ASSUME NEW o \in Operator, WriteReceipt(o) PROVE LockInv'
    BY <1>8 DEF WriteReceipt, IInv, LockInv, Inside, TypeOK, Phase
  <1>9. ASSUME NEW o \in Operator, Publish(o) PROVE LockInv'
    BY <1>9 DEF Publish, IInv, LockInv, Inside, TypeOK, Phase
  <1>10. ASSUME NEW o \in Operator, WriteFails(o) PROVE LockInv'
    BY <1>10 DEF WriteFails, files, IInv, LockInv, Inside, TypeOK, Phase
  <1>11. ASSUME NEW o \in Operator, Release(o) PROVE LockInv'
    BY <1>11, NoneAssumption DEF Release, IInv, LockInv, Inside, TypeOK, Phase
  <1>12. ASSUME NEW o \in Operator, Crash(o) PROVE LockInv'
    BY <1>12 DEF Crash, files, NoJob, IInv, LockInv, Inside, TypeOK, Phase
  <1>13. ASSUME NEW o \in Operator, ClearStaleLock(o) PROVE LockInv'
    BY <1>13, NoneAssumption DEF ClearStaleLock, IInv, LockInv, Inside, TypeOK, Phase
  <1>14. ASSUME NEW r \in Reader, ReadPointer(r) PROVE LockInv'
    BY <1>14 DEF ReadPointer, files, IInv, LockInv, Inside, TypeOK, Phase
  <1>15. ASSUME NEW r \in Reader, ReadReceipt(r) PROVE LockInv'
    BY <1>15 DEF ReadReceipt, files, IInv, LockInv, Inside, TypeOK, Phase
  <1>16. CASE UNCHANGED vars
    BY <1>16 DEF vars, IInv, LockInv, Inside, TypeOK, Phase
  <1> QED
    BY <1>1, <1>2, <1>3, <1>4, <1>5, <1>6, <1>7, <1>8, <1>9, <1>10, <1>11, <1>12, <1>13, <1>14,
       <1>15, <1>16 DEF Next, Call

\* What an operator knows about its call stays true: the pointer cannot move
\* under an operator that is inside, because only the one inside moves it.
LEMMA JobStep == IInv /\ [Next]_vars => JobInv'
  <1> SUFFICES ASSUME IInv, [Next]_vars PROVE JobInv'
    OBVIOUS
  <1>1. ASSUME NEW o \in Operator, NEW c \in Candidate, NEW e \in Candidate \cup {None},
               Verify(o, c, e)
        PROVE  JobInv'
    BY <1>1 DEF Verify, files, NoJob, IInv, LockInv, JobInv, Inside, Holding, TypeOK, Phase, Job
  <1>2. ASSUME NEW o \in Operator, Acquire(o) PROVE JobInv'
    BY <1>2 DEF Acquire, IInv, LockInv, JobInv, Inside, Holding, TypeOK, Phase, Job
  <1>3. ASSUME NEW o \in Operator, Refuse(o) PROVE JobInv'
    BY <1>3 DEF Refuse, files, NoJob, IInv, LockInv, JobInv, Inside, Holding, TypeOK, Phase, Job
  <1>4. ASSUME NEW o \in Operator, Compare(o) PROVE JobInv'
    BY <1>4 DEF Compare, files, IInv, LockInv, JobInv, Inside, Holding, TypeOK, Phase, Job
  <1>5. ASSUME NEW o \in Operator, OpenStore(o) PROVE JobInv'
    BY <1>5 DEF OpenStore, IInv, LockInv, JobInv, Inside, Holding, TypeOK, Phase, Job
  <1>6. ASSUME NEW o \in Operator, WriteStore(o) PROVE JobInv'
    BY <1>6 DEF WriteStore, IInv, LockInv, JobInv, Inside, Holding, TypeOK, Phase, Job
  <1>7. ASSUME NEW o \in Operator, NEW r \in ReceiptId, OpenReceipt(o, r) PROVE JobInv'
    BY <1>7 DEF OpenReceipt, IInv, LockInv, JobInv, Inside, Holding, TypeOK, Phase, Job
  <1>8. ASSUME NEW o \in Operator, WriteReceipt(o) PROVE JobInv'
    BY <1>8 DEF WriteReceipt, IInv, LockInv, JobInv, Inside, Holding, TypeOK, Phase, Job
  <1>9. ASSUME NEW o \in Operator, Publish(o) PROVE JobInv'
    BY <1>9 DEF Publish, IInv, LockInv, JobInv, Inside, Holding, TypeOK, Phase, Job
  <1>10. ASSUME NEW o \in Operator, WriteFails(o) PROVE JobInv'
    BY <1>10 DEF WriteFails, files, IInv, LockInv, JobInv, Inside, Holding, TypeOK, Phase, Job
  <1>11. ASSUME NEW o \in Operator, Release(o) PROVE JobInv'
    BY <1>11 DEF Release, NoJob, IInv, LockInv, JobInv, Inside, Holding, TypeOK, Phase, Job
  <1>12. ASSUME NEW o \in Operator, Crash(o) PROVE JobInv'
    BY <1>12 DEF Crash, files, NoJob, IInv, LockInv, JobInv, Inside, Holding, TypeOK, Phase, Job
  <1>13. ASSUME NEW o \in Operator, ClearStaleLock(o) PROVE JobInv'
    BY <1>13 DEF ClearStaleLock, IInv, LockInv, JobInv, Inside, Holding, TypeOK, Phase, Job
  <1>14. ASSUME NEW r \in Reader, ReadPointer(r) PROVE JobInv'
    BY <1>14 DEF ReadPointer, files, IInv, LockInv, JobInv, Inside, Holding, TypeOK, Phase, Job
  <1>15. ASSUME NEW r \in Reader, ReadReceipt(r) PROVE JobInv'
    BY <1>15 DEF ReadReceipt, files, IInv, LockInv, JobInv, Inside, Holding, TypeOK, Phase, Job
  <1>16. CASE UNCHANGED vars
    BY <1>16 DEF vars, IInv, LockInv, JobInv, Inside, Holding, TypeOK, Phase, Job
  <1> QED
    BY <1>1, <1>2, <1>3, <1>4, <1>5, <1>6, <1>7, <1>8, <1>9, <1>10, <1>11, <1>12, <1>13, <1>14,
       <1>15, <1>16 DEF Next, Call

\* What an operator knows about its files stays true while others act.
LEMMA FileStep == IInv /\ [Next]_vars => FileInv'
  <1> SUFFICES ASSUME IInv, [Next]_vars PROVE FileInv'
    OBVIOUS
  <1>1. ASSUME NEW o \in Operator, NEW c \in Candidate, NEW e \in Candidate \cup {None},
               Verify(o, c, e)
        PROVE  FileInv'
    BY <1>1 DEF Verify, files, NoJob, IInv, LockInv, JobInv, FileInv, Inside, TypeOK, Phase, Job,
       Receipt, FileState
  <1>2. ASSUME NEW o \in Operator, Acquire(o) PROVE FileInv'
    BY <1>2 DEF Acquire, IInv, LockInv, JobInv, FileInv, Inside, TypeOK, Phase, Job, Receipt,
       FileState
  <1>3. ASSUME NEW o \in Operator, Refuse(o) PROVE FileInv'
    BY <1>3 DEF Refuse, files, NoJob, IInv, LockInv, JobInv, FileInv, Inside, TypeOK, Phase, Job,
       Receipt, FileState
  <1>4. ASSUME NEW o \in Operator, Compare(o) PROVE FileInv'
    BY <1>4 DEF Compare, files, IInv, LockInv, JobInv, FileInv, Inside, TypeOK, Phase, Job,
       Receipt, FileState
  <1>5. ASSUME NEW o \in Operator, OpenStore(o) PROVE FileInv'
    BY <1>5 DEF OpenStore, IInv, LockInv, JobInv, FileInv, Inside, TypeOK, Phase, Job, Receipt,
       FileState
  <1>6. ASSUME NEW o \in Operator, WriteStore(o) PROVE FileInv'
    BY <1>6 DEF WriteStore, IInv, LockInv, JobInv, FileInv, Inside, TypeOK, Phase, Job, Receipt,
       FileState
  <1>7. ASSUME NEW o \in Operator, NEW r \in ReceiptId, OpenReceipt(o, r) PROVE FileInv'
    BY <1>7 DEF OpenReceipt, IInv, LockInv, JobInv, FileInv, Inside, TypeOK, Phase, Job, Receipt,
       FileState
  <1>8. ASSUME NEW o \in Operator, WriteReceipt(o) PROVE FileInv'
    <2>1. job[o].receipt \in ReceiptId
      BY <1>8 DEF WriteReceipt, IInv, FileInv
    <2>2. receipts[job[o].receipt] \in Receipt
      BY <2>1 DEF IInv, TypeOK
    <2>3. receipts'[job[o].receipt] = [receipts[job[o].receipt] EXCEPT !.file = "whole"]
      BY <1>8, <2>1 DEF WriteReceipt, IInv, TypeOK
    <2>4. \A p \in Operator : p # o => phase[p] \notin {"stored", "receipting", "receipted"}
      BY <1>8 DEF WriteReceipt, IInv, LockInv, Inside
    <2> QED
      BY <1>8, <2>1, <2>2, <2>3, <2>4 DEF WriteReceipt, IInv, FileInv, TypeOK, Receipt
  <1>9. ASSUME NEW o \in Operator, Publish(o) PROVE FileInv'
    BY <1>9 DEF Publish, IInv, LockInv, JobInv, FileInv, Inside, TypeOK, Phase, Job, Receipt,
       FileState
  <1>10. ASSUME NEW o \in Operator, WriteFails(o) PROVE FileInv'
    BY <1>10 DEF WriteFails, files, IInv, LockInv, JobInv, FileInv, Inside, TypeOK, Phase, Job,
       Receipt, FileState
  <1>11. ASSUME NEW o \in Operator, Release(o) PROVE FileInv'
    BY <1>11 DEF Release, NoJob, IInv, LockInv, JobInv, FileInv, Inside, TypeOK, Phase, Job,
       Receipt, FileState
  <1>12. ASSUME NEW o \in Operator, Crash(o) PROVE FileInv'
    BY <1>12 DEF Crash, files, NoJob, IInv, LockInv, JobInv, FileInv, Inside, TypeOK, Phase, Job,
       Receipt, FileState
  <1>13. ASSUME NEW o \in Operator, ClearStaleLock(o) PROVE FileInv'
    BY <1>13 DEF ClearStaleLock, IInv, LockInv, JobInv, FileInv, Inside, TypeOK, Phase, Job,
       Receipt, FileState
  <1>14. ASSUME NEW r \in Reader, ReadPointer(r) PROVE FileInv'
    BY <1>14 DEF ReadPointer, files, IInv, LockInv, JobInv, FileInv, Inside, TypeOK, Phase, Job,
       Receipt, FileState
  <1>15. ASSUME NEW r \in Reader, ReadReceipt(r) PROVE FileInv'
    BY <1>15 DEF ReadReceipt, files, IInv, LockInv, JobInv, FileInv, Inside, TypeOK, Phase, Job,
       Receipt, FileState
  <1>16. CASE UNCHANGED vars
    BY <1>16 DEF vars, IInv, LockInv, JobInv, FileInv, Inside, TypeOK, Phase, Job, Receipt,
       FileState
  <1> QED
    BY <1>1, <1>2, <1>3, <1>4, <1>5, <1>6, <1>7, <1>8, <1>9, <1>10, <1>11, <1>12, <1>13, <1>14,
       <1>15, <1>16 DEF Next, Call

\* A receipt that was ever named is never touched again: a new receipt has a
\* fresh name, and only a truncated one is completed.
LEMMA WholeStep == IInv /\ [Next]_vars => PublishedWhole'
  <1> SUFFICES ASSUME IInv, [Next]_vars PROVE PublishedWhole'
    OBVIOUS
  <1>1. ASSUME NEW o \in Operator, OpenStore(o) PROVE PublishedWhole'
    BY <1>1 DEF OpenStore, IInv, FileInv, PublishedWhole, TypeOK, Receipt
  <1>2. ASSUME NEW o \in Operator, WriteStore(o) PROVE PublishedWhole'
    BY <1>2 DEF WriteStore, IInv, FileInv, PublishedWhole, TypeOK, Receipt
  <1>3. ASSUME NEW o \in Operator, NEW r \in ReceiptId, OpenReceipt(o, r) PROVE PublishedWhole'
    BY <1>3 DEF OpenReceipt, IInv, FileInv, PublishedWhole, TypeOK, Receipt
  <1>4. ASSUME NEW o \in Operator, WriteReceipt(o) PROVE PublishedWhole'
    BY <1>4 DEF WriteReceipt, IInv, FileInv, PublishedWhole, TypeOK, Receipt
  <1>5. ASSUME NEW o \in Operator, Publish(o) PROVE PublishedWhole'
    <2>1. job[o].receipt \in ReceiptId /\ receipts[job[o].receipt].file = "whole"
      BY <1>5 DEF Publish, IInv, FileInv
    <2>2. published \in Seq(ReceiptId)
      BY DEF IInv, TypeOK
    <2> SUFFICES ASSUME NEW i \in 1..Len(published')
                 PROVE  receipts'[published'[i]].file = "whole"
      BY DEF PublishedWhole
    <2>3. published' = Append(published, job[o].receipt) /\ receipts' = receipts
      BY <1>5 DEF Publish
    <2>4. CASE i = Len(published) + 1
      BY <2>1, <2>2, <2>3, <2>4
    <2>5. CASE i \in 1..Len(published)
      BY <2>2, <2>3, <2>5 DEF IInv, PublishedWhole
    <2> QED
      BY <2>2, <2>3, <2>4, <2>5
  <1>6. CASE UNCHANGED writes
    BY <1>6 DEF writes, IInv, FileInv, PublishedWhole, TypeOK, Receipt
  <1> QED
    BY <1>1, <1>2, <1>3, <1>4, <1>5, <1>6, WritingSteps

\* The pointer is absent or names a candidate and a receipt.
LEMMA ShapeStep == IInv /\ [Next]_vars => PointerShape'
  <1> SUFFICES ASSUME IInv, [Next]_vars PROVE PointerShape'
    OBVIOUS
  <1>1. ASSUME NEW o \in Operator, OpenStore(o) PROVE PointerShape'
    BY <1>1 DEF OpenStore, IInv, JobInv, FileInv, PointerShape
  <1>2. ASSUME NEW o \in Operator, WriteStore(o) PROVE PointerShape'
    BY <1>2 DEF WriteStore, IInv, JobInv, FileInv, PointerShape
  <1>3. ASSUME NEW o \in Operator, NEW r \in ReceiptId, OpenReceipt(o, r) PROVE PointerShape'
    BY <1>3 DEF OpenReceipt, IInv, JobInv, FileInv, PointerShape
  <1>4. ASSUME NEW o \in Operator, WriteReceipt(o) PROVE PointerShape'
    BY <1>4 DEF WriteReceipt, IInv, JobInv, FileInv, PointerShape
  <1>5. ASSUME NEW o \in Operator, Publish(o) PROVE PointerShape'
    BY <1>5 DEF Publish, IInv, JobInv, FileInv, PointerShape
  <1>6. CASE UNCHANGED writes
    BY <1>6 DEF writes, IInv, JobInv, FileInv, PointerShape
  <1> QED
    BY <1>1, <1>2, <1>3, <1>4, <1>5, <1>6, WritingSteps

\* The pointer's receipt and stored candidate stay whole.
LEMMA SoundStep == IInv /\ [Next]_vars => PointerSound'
  <1> SUFFICES ASSUME IInv, [Next]_vars PROVE PointerSound'
    OBVIOUS
  <1>1. ASSUME NEW o \in Operator, OpenStore(o) PROVE PointerSound'
    BY <1>1 DEF OpenStore, IInv, FileInv, PointerShape, PointerSound, ValidPointer, NoPointer,
       TypeOK, Receipt, FileState
  <1>2. ASSUME NEW o \in Operator, WriteStore(o) PROVE PointerSound'
    BY <1>2 DEF WriteStore, IInv, FileInv, PointerShape, PointerSound, ValidPointer, NoPointer,
       TypeOK, Receipt, FileState
  <1>3. ASSUME NEW o \in Operator, NEW r \in ReceiptId, OpenReceipt(o, r) PROVE PointerSound'
    BY <1>3 DEF OpenReceipt, IInv, FileInv, PointerShape, PointerSound, ValidPointer, NoPointer,
       TypeOK, Receipt, FileState
  <1>4. ASSUME NEW o \in Operator, WriteReceipt(o) PROVE PointerSound'
    BY <1>4 DEF WriteReceipt, IInv, FileInv, PointerShape, PointerSound, ValidPointer, NoPointer,
       TypeOK, Receipt, FileState
  <1>5. ASSUME NEW o \in Operator, Publish(o) PROVE PointerSound'
    <2>1. /\ job[o].receipt \in ReceiptId
          /\ receipts[job[o].receipt].file = "whole"
          /\ receipts[job[o].receipt].candidate = job[o].candidate
          /\ store[job[o].candidate] = "whole"
      BY <1>5 DEF Publish, IInv, FileInv
    <2> QED
      BY <1>5, <2>1 DEF Publish, PointerSound, ValidPointer
  <1>6. CASE UNCHANGED writes
    BY <1>6 DEF writes, IInv, FileInv, PointerShape, PointerSound, ValidPointer, NoPointer,
       TypeOK, Receipt, FileState
  <1> QED
    BY <1>1, <1>2, <1>3, <1>4, <1>5, <1>6, WritingSteps

\* Steps that keep every named receipt keep the audit trail.
LEMMA ChainKept ==
    ASSUME IInv,
           published' = published,
           pointer' = pointer,
           \A i \in 1..Len(published) :
               receipts'[published[i]] = receipts[published[i]] /\ published[i] \in ReceiptId
    PROVE  ReceiptChain'
  <1>1. published \in Seq(ReceiptId)
    BY DEF IInv, TypeOK
  <1>2. published # <<>> => Len(published) \in 1..Len(published)
    BY <1>1
  <1>3. \A i \in 1..Len(published) : i # 1 => i - 1 \in 1..Len(published)
    BY <1>1
  <1> QED
    BY <1>1, <1>2, <1>3 DEF IInv, ReceiptChain, Admissible

\* The audit trail only grows, by a receipt that continues it.
LEMMA ChainStep == IInv /\ [Next]_vars => ReceiptChain'
  <1> SUFFICES ASSUME IInv, [Next]_vars PROVE ReceiptChain'
    OBVIOUS
  <1>1. ASSUME NEW o \in Operator, OpenStore(o) PROVE ReceiptChain'
    BY <1>1 DEF OpenStore, IInv, FileInv, PublishedWhole, ReceiptChain, TypeOK, Receipt
  <1>2. ASSUME NEW o \in Operator, WriteStore(o) PROVE ReceiptChain'
    BY <1>2 DEF WriteStore, IInv, FileInv, PublishedWhole, ReceiptChain, TypeOK, Receipt
  <1>3. ASSUME NEW o \in Operator, NEW r \in ReceiptId, OpenReceipt(o, r) PROVE ReceiptChain'
    <2>1. \A i \in 1..Len(published) :
              receipts'[published[i]] = receipts[published[i]] /\ published[i] \in ReceiptId
      BY <1>3 DEF OpenReceipt, IInv, PublishedWhole, TypeOK
    <2>2. published' = published /\ pointer' = pointer
      BY <1>3 DEF OpenReceipt
    <2> QED
      BY <2>1, <2>2, ChainKept DEF IInv, TypeOK
  <1>4. ASSUME NEW o \in Operator, WriteReceipt(o) PROVE ReceiptChain'
    <2>1. \A i \in 1..Len(published) :
              receipts'[published[i]] = receipts[published[i]] /\ published[i] \in ReceiptId
      BY <1>4 DEF WriteReceipt, IInv, FileInv, PublishedWhole, TypeOK
    <2>2. published' = published /\ pointer' = pointer
      BY <1>4 DEF WriteReceipt
    <2> QED
      BY <2>1, <2>2, ChainKept DEF IInv, TypeOK
  <1>5. ASSUME NEW o \in Operator, Publish(o) PROVE ReceiptChain'
    <2> DEFINE id == job[o].receipt
               n == Len(published)
    <2>1. /\ id \in ReceiptId
          /\ receipts[id].candidate = job[o].candidate
          /\ receipts[id].previous = pointer.candidate
          /\ Admissible(pointer.candidate, job[o].candidate)
      BY <1>5 DEF Publish, IInv, FileInv, JobInv, Holding
    <2>2. published \in Seq(ReceiptId) /\ n \in Nat
      BY DEF IInv, TypeOK
    <2>3. /\ published' = Append(published, id)
          /\ receipts' = receipts
          /\ pointer'.candidate = job[o].candidate
      BY <1>5 DEF Publish
    <2>4. /\ Len(published') = n + 1
          /\ published'[n + 1] = id
          /\ \A i \in 1..n : published'[i] = published[i]
          /\ published' # <<>>
      BY <2>1, <2>2, <2>3
    <2>5. pointer'.candidate = receipts'[published'[Len(published')]].candidate
      BY <2>1, <2>3, <2>4
    <2> SUFFICES ASSUME NEW i \in 1..Len(published')
                 PROVE  LET this == receipts'[published'[i]]
                            before == IF i = 1 THEN None
                                      ELSE receipts'[published'[i - 1]].candidate
                        IN  this.previous = before /\ Admissible(before, this.candidate)
      BY <2>4, <2>5 DEF ReceiptChain, Admissible
    <2>6. CASE i = n + 1
      <3>1. CASE n = 0
        BY <2>1, <2>2, <2>3, <2>4, <2>6, <3>1 DEF IInv, ReceiptChain
      <3>2. CASE n > 0
        BY <2>1, <2>2, <2>3, <2>4, <2>6, <3>2 DEF IInv, ReceiptChain
      <3> QED
        BY <2>2, <3>1, <3>2
    <2>7. CASE i \in 1..n
      BY <2>2, <2>3, <2>4, <2>7 DEF IInv, ReceiptChain
    <2> QED
      BY <2>2, <2>4, <2>6, <2>7
  <1>6. CASE UNCHANGED writes
    BY <1>6 DEF writes, IInv, FileInv, PublishedWhole, ReceiptChain, TypeOK, Receipt
  <1> QED
    BY <1>1, <1>2, <1>3, <1>4, <1>5, <1>6, WritingSteps

\* A pointer a reader holds keeps a valid receipt.
LEMMA ReaderStep == IInv /\ [Next]_vars => ReadersNeverBreak'
  <1> SUFFICES ASSUME IInv, [Next]_vars PROVE ReadersNeverBreak'
    OBVIOUS
  <1>1. ASSUME NEW o \in Operator, NEW c \in Candidate, NEW e \in Candidate \cup {None},
               Verify(o, c, e)
        PROVE  ReadersNeverBreak'
    BY <1>1 DEF Verify, files, NoJob, IInv, FileInv, PointerSound, ReadersNeverBreak,
       ValidPointer, NoPointer, TypeOK, Pointer, Receipt, FileState
  <1>2. ASSUME NEW o \in Operator, Acquire(o) PROVE ReadersNeverBreak'
    BY <1>2 DEF Acquire, IInv, FileInv, PointerSound, ReadersNeverBreak, ValidPointer, NoPointer,
       TypeOK, Pointer, Receipt, FileState
  <1>3. ASSUME NEW o \in Operator, Refuse(o) PROVE ReadersNeverBreak'
    BY <1>3 DEF Refuse, files, NoJob, IInv, FileInv, PointerSound, ReadersNeverBreak,
       ValidPointer, NoPointer, TypeOK, Pointer, Receipt, FileState
  <1>4. ASSUME NEW o \in Operator, Compare(o) PROVE ReadersNeverBreak'
    BY <1>4 DEF Compare, files, IInv, FileInv, PointerSound, ReadersNeverBreak, ValidPointer,
       NoPointer, TypeOK, Pointer, Receipt, FileState
  <1>5. ASSUME NEW o \in Operator, OpenStore(o) PROVE ReadersNeverBreak'
    BY <1>5 DEF OpenStore, IInv, FileInv, PointerSound, ReadersNeverBreak, ValidPointer,
       NoPointer, TypeOK, Pointer, Receipt, FileState
  <1>6. ASSUME NEW o \in Operator, WriteStore(o) PROVE ReadersNeverBreak'
    BY <1>6 DEF WriteStore, IInv, FileInv, PointerSound, ReadersNeverBreak, ValidPointer,
       NoPointer, TypeOK, Pointer, Receipt, FileState
  <1>7. ASSUME NEW o \in Operator, NEW r \in ReceiptId, OpenReceipt(o, r) PROVE ReadersNeverBreak'
    BY <1>7 DEF OpenReceipt, IInv, FileInv, PointerSound, ReadersNeverBreak, ValidPointer,
       NoPointer, TypeOK, Pointer, Receipt, FileState
  <1>8. ASSUME NEW o \in Operator, WriteReceipt(o) PROVE ReadersNeverBreak'
    BY <1>8 DEF WriteReceipt, IInv, FileInv, PointerSound, ReadersNeverBreak, ValidPointer,
       NoPointer, TypeOK, Pointer, Receipt, FileState
  <1>9. ASSUME NEW o \in Operator, Publish(o) PROVE ReadersNeverBreak'
    BY <1>9 DEF Publish, IInv, FileInv, PointerSound, ReadersNeverBreak, ValidPointer, NoPointer,
       TypeOK, Pointer, Receipt, FileState
  <1>10. ASSUME NEW o \in Operator, WriteFails(o) PROVE ReadersNeverBreak'
    BY <1>10 DEF WriteFails, files, IInv, FileInv, PointerSound, ReadersNeverBreak, ValidPointer,
       NoPointer, TypeOK, Pointer, Receipt, FileState
  <1>11. ASSUME NEW o \in Operator, Release(o) PROVE ReadersNeverBreak'
    BY <1>11 DEF Release, NoJob, IInv, FileInv, PointerSound, ReadersNeverBreak, ValidPointer,
       NoPointer, TypeOK, Pointer, Receipt, FileState
  <1>12. ASSUME NEW o \in Operator, Crash(o) PROVE ReadersNeverBreak'
    BY <1>12 DEF Crash, files, NoJob, IInv, FileInv, PointerSound, ReadersNeverBreak,
       ValidPointer, NoPointer, TypeOK, Pointer, Receipt, FileState
  <1>13. ASSUME NEW o \in Operator, ClearStaleLock(o) PROVE ReadersNeverBreak'
    BY <1>13 DEF ClearStaleLock, IInv, FileInv, PointerSound, ReadersNeverBreak, ValidPointer,
       NoPointer, TypeOK, Pointer, Receipt, FileState
  <1>14. ASSUME NEW r \in Reader, ReadPointer(r) PROVE ReadersNeverBreak'
    BY <1>14 DEF ReadPointer, files, IInv, FileInv, PointerSound, ReadersNeverBreak, ValidPointer,
       NoPointer, TypeOK, Pointer, Receipt, FileState
  <1>15. ASSUME NEW r \in Reader, ReadReceipt(r) PROVE ReadersNeverBreak'
    BY <1>15 DEF ReadReceipt, files, IInv, FileInv, PointerSound, ReadersNeverBreak, ValidPointer,
       NoPointer, TypeOK, Pointer, Receipt, FileState
  <1>16. CASE UNCHANGED vars
    BY <1>16 DEF vars, IInv, FileInv, PointerSound, ReadersNeverBreak, ValidPointer, NoPointer,
       TypeOK, Pointer, Receipt, FileState
  <1> QED
    BY <1>1, <1>2, <1>3, <1>4, <1>5, <1>6, <1>7, <1>8, <1>9, <1>10, <1>11, <1>12, <1>13, <1>14,
       <1>15, <1>16 DEF Next, Call

-----------------------------------------------------------------------------
\* Every step preserves the inductive invariant.
LEMMA NextIInv == IInv /\ [Next]_vars => IInv'
  BY TypeStep, LockStep, JobStep, FileStep, WholeStep, ShapeStep, SoundStep, ChainStep, ReaderStep
  DEF IInv

LEMMA Invariance == Spec => []IInv
  BY InitIInv, NextIInv, PTL DEF Spec

\* Every variable keeps its type, for any number of operators and calls.
THEOREM TypeCorrect == Spec => []TypeOK
  <1>1. IInv => TypeOK
    BY DEF IInv
  <1> QED
    BY <1>1, Invariance, PTL

\* The lock file serialises activate_candidate, although its release unlinks the
\* file without looking whose it is: for any number of operators, two are never
\* inside at once.
THEOREM LockExcludes == Spec => []MutualExclusion
  <1>1. IInv => MutualExclusion
    BY DEF IInv, LockInv, MutualExclusion
  <1> QED
    BY <1>1, Invariance, PTL

\* current.json always leads to a whole receipt about its own candidate and to a
\* whole stored candidate, whatever writes failed and processes died.
THEOREM PointerAlwaysSound == Spec => []PointerSound
  <1>1. IInv => PointerSound
    BY DEF IInv
  <1> QED
    BY <1>1, Invariance, PTL

\* The receipts current.json has named form an unbroken chain of predecessors,
\* each move between state contracts executed by its target's acceptance.
THEOREM AuditTrailUnbroken == Spec => []ReceiptChain
  <1>1. IInv => ReceiptChain
    BY DEF IInv
  <1> QED
    BY <1>1, Invariance, PTL

\* A reader without the lock never meets a missing, truncated or foreign receipt.
THEOREM UnlockedReadersSucceed == Spec => []ReadersNeverBreak
  <1>1. IInv => ReadersNeverBreak
    BY DEF IInv
  <1> QED
    BY <1>1, Invariance, PTL


-----------------------------------------------------------------------------
(* The release protocol implements the compare-and-swap register.          *)

\* The abstract call of o is untouched by a step that keeps its phase class and
\* its arguments, and the abstract calls of the others by any step of o.
LEMMA OthersKept ==
    ASSUME IInv, NEW o \in Operator, NEW s, NEW j,
           phase' = [phase EXCEPT ![o] = s],
           job' = [job EXCEPT ![o] = j]
    PROVE  /\ AbstractStatus' = [AbstractStatus EXCEPT ![o] =
                  CASE s \in {"idle", "crashed"} -> "idle"
                    [] s = "returning" -> "committed"
                    [] OTHER -> "pending"]
           /\ AbstractRequest' = [AbstractRequest EXCEPT ![o] =
                  [candidate |-> j.candidate, expected |-> j.expected]]
  BY DEF IInv, TypeOK, AbstractStatus, AbstractRequest

\* Phases in which the abstract call is pending.
Pending == Phase \ {"idle", "crashed", "returning"}

\* A step of o between two pending phases that keeps its arguments, the pointer
\* and the outcome is a stutter of the register.
LEMMA PendingStep ==
    ASSUME IInv, NEW o \in Operator, NEW s \in Pending, NEW j,
           phase[o] \in Pending,
           phase' = [phase EXCEPT ![o] = s],
           job' = [job EXCEPT ![o] = j],
           j.candidate = job[o].candidate,
           j.expected = job[o].expected,
           UNCHANGED <<pointer, outcome>>
    PROVE  UNCHANGED Cas!vars
  <1>1. AbstractStatus' = AbstractStatus
    BY OthersKept DEF Pending, Phase, AbstractStatus, IInv, TypeOK
  <1>2. AbstractRequest' = AbstractRequest
    BY OthersKept DEF AbstractRequest, IInv, TypeOK
  <1> QED
    BY <1>1, <1>2 DEF Cas!vars

\* The initial state of the protocol is the initial state of the register.
LEMMA InitRefines == Init => Cas!Init
  BY DEF Init, Cas!Init, Cas!Idle, AbstractStatus, AbstractRequest, NoPointer, NoJob

\* Every step of the protocol is a step of the register or a stutter.
LEMMA StepRefines == IInv /\ [Next]_vars => [Cas!Next]_(Cas!vars)
  <1> SUFFICES ASSUME IInv, [Next]_vars PROVE [Cas!Next]_(Cas!vars)
    OBVIOUS
  <1> USE DEF IInv, TypeOK
  <1>1. ASSUME NEW o \in Operator, NEW c \in Candidate, NEW e \in Candidate \cup {None},
               Verify(o, c, e)
        PROVE  Cas!Invoke(o, e, c)
    <2>1. AbstractStatus[o] = "idle"
      BY <1>1 DEF Verify, AbstractStatus
    <2>2. AbstractStatus' = [AbstractStatus EXCEPT ![o] = "pending"]
      BY <1>1 DEF Verify, AbstractStatus
    <2>3. AbstractRequest' = [AbstractRequest EXCEPT ![o] = [candidate |-> c, expected |-> e]]
      BY <1>1 DEF Verify, AbstractRequest
    <2> QED
      BY <1>1, <2>1, <2>2, <2>3 DEF Verify, files, Cas!Invoke
  <1>2. ASSUME NEW o \in Operator, Acquire(o) PROVE UNCHANGED Cas!vars
    <2>1. job' = [job EXCEPT ![o] = job[o]] /\ UNCHANGED <<pointer, outcome>>
      BY <1>2 DEF Acquire
    <2>2. phase[o] \in Pending
      BY <1>2 DEF Acquire, Pending, Phase
    <2>3. PICK s \in Pending : phase' = [phase EXCEPT ![o] = s]
      BY <1>2 DEF Acquire, Pending, Phase
    <2> QED
      BY <2>1, <2>2, <2>3, PendingStep
  <1>3. ASSUME NEW o \in Operator, Refuse(o) PROVE Cas!Return(o)
    <2>1. AbstractStatus[o] = "pending"
      BY <1>3 DEF Refuse, AbstractStatus
    <2>2. AbstractStatus' = [AbstractStatus EXCEPT ![o] = "idle"]
      BY <1>3, OthersKept DEF Refuse
    <2>3. AbstractRequest' = [AbstractRequest EXCEPT ![o] = Cas!Idle]
      BY <1>3 DEF Refuse, AbstractRequest, NoJob, Cas!Idle
    <2> QED
      BY <1>3, <2>1, <2>2, <2>3 DEF Refuse, files, Cas!Return
  <1>4. ASSUME NEW o \in Operator, Compare(o) PROVE UNCHANGED Cas!vars
    <2> DEFINE j == [job[o] EXCEPT !.found = pointer.candidate]
    <2>1. job' = [job EXCEPT ![o] = j] /\ UNCHANGED <<pointer, outcome>>
      BY <1>4 DEF Compare, files
    <2>2. j.candidate = job[o].candidate /\ j.expected = job[o].expected
      BY DEF Job
    <2>3. phase[o] \in Pending
      BY <1>4 DEF Compare, Pending, Phase
    <2>4. PICK s \in Pending : phase' = [phase EXCEPT ![o] = s]
      BY <1>4 DEF Compare, Pending, Phase
    <2> HIDE DEF j
    <2> QED
      BY <2>1, <2>2, <2>3, <2>4, PendingStep
  <1>5. ASSUME NEW o \in Operator, OpenStore(o) PROVE UNCHANGED Cas!vars
    <2>1. job' = [job EXCEPT ![o] = job[o]] /\ UNCHANGED <<pointer, outcome>>
      BY <1>5 DEF OpenStore
    <2>2. phase[o] \in Pending
      BY <1>5 DEF OpenStore, Pending, Phase
    <2>3. PICK s \in Pending : phase' = [phase EXCEPT ![o] = s]
      BY <1>5 DEF OpenStore, Pending, Phase
    <2> QED
      BY <2>1, <2>2, <2>3, PendingStep
  <1>6. ASSUME NEW o \in Operator, WriteStore(o) PROVE UNCHANGED Cas!vars
    <2>1. job' = [job EXCEPT ![o] = job[o]] /\ UNCHANGED <<pointer, outcome>>
      BY <1>6 DEF WriteStore
    <2>2. phase[o] \in Pending
      BY <1>6 DEF WriteStore, Pending, Phase
    <2>3. PICK s \in Pending : phase' = [phase EXCEPT ![o] = s]
      BY <1>6 DEF WriteStore, Pending, Phase
    <2> QED
      BY <2>1, <2>2, <2>3, PendingStep
  <1>7. ASSUME NEW o \in Operator, NEW r \in ReceiptId, OpenReceipt(o, r) PROVE UNCHANGED Cas!vars
    <2> DEFINE j == [job[o] EXCEPT !.receipt = r]
    <2>1. job' = [job EXCEPT ![o] = j] /\ UNCHANGED <<pointer, outcome>>
      BY <1>7 DEF OpenReceipt
    <2>2. j.candidate = job[o].candidate /\ j.expected = job[o].expected
      BY DEF Job
    <2>3. phase[o] \in Pending
      BY <1>7 DEF OpenReceipt, Pending, Phase
    <2>4. PICK s \in Pending : phase' = [phase EXCEPT ![o] = s]
      BY <1>7 DEF OpenReceipt, Pending, Phase
    <2> HIDE DEF j
    <2> QED
      BY <2>1, <2>2, <2>3, <2>4, PendingStep
  <1>8. ASSUME NEW o \in Operator, WriteReceipt(o) PROVE UNCHANGED Cas!vars
    <2>1. job' = [job EXCEPT ![o] = job[o]] /\ UNCHANGED <<pointer, outcome>>
      BY <1>8 DEF WriteReceipt
    <2>2. phase[o] \in Pending
      BY <1>8 DEF WriteReceipt, Pending, Phase
    <2>3. PICK s \in Pending : phase' = [phase EXCEPT ![o] = s]
      BY <1>8 DEF WriteReceipt, Pending, Phase
    <2> QED
      BY <2>1, <2>2, <2>3, PendingStep
  <1>9. ASSUME NEW o \in Operator, Publish(o) PROVE Cas!Commit(o)
    <2>1. AbstractStatus[o] = "pending"
      BY <1>9 DEF Publish, AbstractStatus
    <2>2. job' = [job EXCEPT ![o] = job[o]]
      BY <1>9 DEF Publish
    <2>3. AbstractStatus' = [AbstractStatus EXCEPT ![o] = "committed"]
      BY <1>9, <2>2, OthersKept DEF Publish
    <2>4. AbstractRequest' = AbstractRequest
      BY <1>9 DEF Publish, AbstractRequest
    <2>5. /\ AbstractRequest[o].expected = pointer.candidate
          /\ AbstractRequest[o].candidate = job[o].candidate
      BY <1>9 DEF Publish, AbstractRequest, JobInv, Holding
    <2>6. Cas!Admissible(pointer.candidate, job[o].candidate)
      BY <1>9 DEF Publish, JobInv, Holding, Admissible, Cas!Admissible
    <2>7. pointer'.candidate = job[o].candidate /\ outcome' = outcome
      BY <1>9 DEF Publish
    <2> QED
      BY <2>1, <2>3, <2>4, <2>5, <2>6, <2>7 DEF Cas!Commit
  <1>10. ASSUME NEW o \in Operator, WriteFails(o) PROVE UNCHANGED Cas!vars
    <2>1. job' = [job EXCEPT ![o] = job[o]] /\ UNCHANGED <<pointer, outcome>>
      BY <1>10 DEF WriteFails, files
    <2>2. phase[o] \in Pending
      BY <1>10 DEF WriteFails, Pending, Phase
    <2>3. PICK s \in Pending : phase' = [phase EXCEPT ![o] = s]
      BY <1>10 DEF WriteFails, Pending, Phase
    <2> QED
      BY <2>1, <2>2, <2>3, PendingStep
  <1>11. ASSUME NEW o \in Operator, Release(o) PROVE Cas!Return(o)
    <2>1. /\ AbstractStatus[o] # "idle"
          /\ AbstractStatus[o] = "committed" <=> phase[o] = "returning"
      BY <1>11 DEF Release, AbstractStatus
    <2>2. AbstractStatus' = [AbstractStatus EXCEPT ![o] = "idle"]
      BY <1>11, OthersKept DEF Release
    <2>3. AbstractRequest' = [AbstractRequest EXCEPT ![o] = Cas!Idle]
      BY <1>11 DEF Release, AbstractRequest, NoJob, Cas!Idle
    <2> QED
      BY <1>11, <2>1, <2>2, <2>3 DEF Release, Cas!Return
  <1>12. ASSUME NEW o \in Operator, Crash(o) PROVE Cas!Vanish(o)
    <2>1. AbstractStatus[o] # "idle"
      BY <1>12 DEF Crash, AbstractStatus, LockInv, Inside
    <2>2. AbstractStatus' = [AbstractStatus EXCEPT ![o] = "idle"]
      BY <1>12, OthersKept DEF Crash
    <2>3. AbstractRequest' = [AbstractRequest EXCEPT ![o] = Cas!Idle]
      BY <1>12 DEF Crash, AbstractRequest, NoJob, Cas!Idle
    <2> QED
      BY <1>12, <2>1, <2>2, <2>3 DEF Crash, files, Cas!Vanish
  <1>13. ASSUME NEW o \in Operator, ClearStaleLock(o) PROVE UNCHANGED Cas!vars
    <2>1. AbstractStatus' = AbstractStatus
      BY <1>13 DEF ClearStaleLock, AbstractStatus
    <2> QED
      BY <1>13, <2>1 DEF ClearStaleLock, AbstractRequest, Cas!vars
  <1>14. ASSUME NEW r \in Reader, ReadPointer(r) \/ ReadReceipt(r) PROVE UNCHANGED Cas!vars
    BY <1>14 DEF ReadPointer, ReadReceipt, files, AbstractStatus, AbstractRequest, Cas!vars
  <1>15. CASE UNCHANGED vars
    BY <1>15 DEF vars, AbstractStatus, AbstractRequest, Cas!vars
  <1> HIDE DEF IInv, TypeOK
  <1> QED
    BY <1>1, <1>2, <1>3, <1>4, <1>5, <1>6, <1>7, <1>8, <1>9, <1>10, <1>11, <1>12, <1>13, <1>14,
       <1>15 DEF Next, Call, Cas!Next

\* The lock file, the candidate store, the receipts and the renamed pointer
\* together implement a compare-and-swap register: current.json moves only from
\* what its caller expected, along an executed contract move, once per call that
\* answers "ok" and never for a call that answers "error".
THEOREM ImplementsCasRegister == Spec => RefinesCasRegister
  BY InitRefines, StepRefines, Invariance, PTL DEF Spec, RefinesCasRegister, Cas!Spec
=============================================================================
