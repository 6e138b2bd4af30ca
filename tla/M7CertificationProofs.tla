----------------------- MODULE M7CertificationProofs -----------------------
(***************************************************************************)
(* Proofs about M7Certification.  What a validation has found out is never *)
(* undone, because GitHub forgets neither the success of an attempt nor    *)
(* what an attempt uploaded: the local variables of a certifier say which  *)
(* part of its certificate is not yet known to have happened.              *)
(***************************************************************************)
EXTENDS M7Certification, TLAPS

Among(s, x) == \E i \in DOMAIN s : s[i] = x

\* The claimed attempt uploaded the claimed evidence of a label.
Uploaded(claim, p, l) ==
    \E i \in DOMAIN uploads :
        uploads[i] = [run |-> claim.ci[p].run, attempt |-> claim.ci[p].attempt,
                      label |-> l, body |-> claim.evidence[l]]

\* Nothing about a project's run is left to be asked.
Done(claim, p) ==
    /\ RunAsClaimed(claim, p)
    /\ \A i \in DOMAIN Required[p] : Uploaded(claim, p, Required[p][i])

\* What a certifier knows.  Evidence convinces, or is yet to be read.
EvidenceRead(me) ==
    me.phase # "idle" =>
        \A l \in Label : Convincing(me.claim, l) \/ (me.phase = "evidence" /\ Among(me.labels, l))

\* A project is done, or yet to be looked at.
RunsRead(me) ==
    /\ me.phase \in {"run", "jobs", "artifacts", "download"} =>
           \A p \in Project : Done(me.claim, p) \/ Among(me.projects, p)
    /\ me.phase \in {"jobs", "artifacts", "download"} => RunAsClaimed(me.claim, Head(me.projects))
    /\ me.phase \in {"valid", "free", "linked"} => \A p \in Project : Done(me.claim, p)

\* The artifacts listed are of the claimed run, and one of them was found for each
\* label that is not left.
ArtifactsRead(me) ==
    LET p == Head(me.projects) IN
    /\ me.phase = "artifacts" => me.labels = Required[p] /\ me.labels # <<>>
    /\ me.phase = "download" =>
           /\ \A i \in me.listed : uploads[i].run = me.claim.ci[p].run
           /\ \A i \in DOMAIN Required[p] :
                  Uploaded(me.claim, p, Required[p][i]) \/ Among(me.labels, Required[p][i])

Knows(me) == EvidenceRead(me) /\ RunsRead(me) /\ ArtifactsRead(me)

\* GitHub's own books.
Booked ==
    \A r \in Run :
        /\ run[r].attempt <= starts
        /\ run[r].status = "running" => run[r].attempt > 0
        /\ run[r].status = "success" => <<r, run[r].attempt>> \in succeeded

\* The inductive invariant.
IInv ==
    /\ TypeOK
    /\ Booked
    /\ \A c \in Certifier : Knows(certifier[c])
    /\ \A claim \in certificate : Happened(claim)

-----------------------------------------------------------------------------
(* The parts of the type invariant.                                        *)

WorldType ==
    /\ run \in [Run -> [attempt : 0..MaxAttempts, status : Result, jobs : Result]]
    /\ uploads \in Seq(Artifact) /\ Len(uploads) <= MaxUploads
    /\ gone \subseteq DOMAIN uploads
    /\ local \in [Label -> SUBSET Body]
    /\ \A l \in Label : \A a, b \in local[l] : a = b
    /\ succeeded \subseteq Run \X (1..MaxAttempts)
    /\ starts \in 0..MaxAttempts /\ changes \in 0..MaxChanges

Placed(me) ==
    /\ me \in Local
    /\ me.phase # "idle" => me.claim \in Certificate
    /\ me.listed \subseteq DOMAIN uploads
    /\ me.phase \in {"evidence", "download"} => me.labels # <<>>
    /\ me.phase \in {"run", "jobs", "artifacts", "download"} => me.projects # <<>>

CertifierType == certifier \in [Certifier -> Local] /\ \A c \in Certifier : Placed(certifier[c])

CertificateType ==
    /\ certificate \subseteq Certificate /\ \A m, n \in certificate : m = n
    /\ calls \in 0..MaxCalls

LEMMA TypeParts == TypeOK <=> WorldType /\ CertifierType /\ CertificateType
BY DEF TypeOK, WorldType, CertifierType, Placed, CertificateType

-----------------------------------------------------------------------------
(* Sequences and claims.                                                   *)

\* What is among a sequence is its head or behind it.
LEMMA Behind ==
  ASSUME NEW S, NEW s \in Seq(S), s # <<>>
  PROVE  /\ Head(s) \in S /\ Tail(s) \in Seq(S)
         /\ Len(s) > 1 => Tail(s) # <<>>
         /\ \A x : Among(s, x) => x = Head(s) \/ (Len(s) > 1 /\ Among(Tail(s), x))
<1> Len(s) \in Nat \ {0}
  OBVIOUS
<1>1. Head(s) \in S /\ Tail(s) \in Seq(S) /\ (Len(s) > 1 => Tail(s) # <<>>)
  <2>1. Head(s) \in S  OBVIOUS
  <2>2. Tail(s) \in Seq(S) /\ Len(Tail(s)) = Len(s) - 1  OBVIOUS
  <2>3. Len(<<>>) = 0  OBVIOUS
  <2>4. Len(s) > 1 => Len(Tail(s)) # Len(<<>>)  BY <2>2, <2>3
  <2>5. QED  BY <2>1, <2>2, <2>4
<1>2. ASSUME NEW i \in DOMAIN s, i # 1
      PROVE  Len(s) > 1 /\ i - 1 \in DOMAIN Tail(s) /\ Tail(s)[i - 1] = s[i]
  BY <1>2
<1>3. ASSUME NEW i \in DOMAIN s, i = 1
      PROVE  s[i] = Head(s)
  BY <1>3
<1>4. QED  BY <1>1, <1>2, <1>3 DEF Among

\* Each label is required of its owner.
LEMMA Owned ==
  ASSUME NEW l \in Label
  PROVE  /\ OwnerOf(l) \in Project
         /\ \E i \in DOMAIN Required[OwnerOf(l)] : Required[OwnerOf(l)][i] = l
<1>1. \E p \in Project : \E i \in DOMAIN Required[p] : Required[p][i] = l  BY M7Assumption
<1>2. QED  BY <1>1 DEF OwnerOf

\* Each label is among the evidence, and each project among the projects.
LEMMA InOrder ==
  /\ \A l \in Label : Among(EvidenceOrder, l)
  /\ \A p \in Project : Among(ProjectOrder, p)
<1>1. {EvidenceOrder[i] : i \in DOMAIN EvidenceOrder} = Label  BY M7Assumption DEF Ordered
<1>2. {ProjectOrder[i] : i \in DOMAIN ProjectOrder} = Project  BY M7Assumption DEF Ordered
<1>3. QED  BY <1>1, <1>2 DEF Among

\* When every label convinces and every project is done, it happened.
LEMMA AllHappened ==
  ASSUME NEW claim, \A l \in Label : Convincing(claim, l), \A p \in Project : Done(claim, p)
  PROVE  Happened(claim)
<1>1. \A p \in Project : RunAsClaimed(claim, p)  BY DEF Done
<1>2. ASSUME NEW l \in Label PROVE EvidenceAsClaimed(claim, OwnerOf(l), l)
  <2>1. Uploaded(claim, OwnerOf(l), l)  BY Owned DEF Done
  <2>2. QED  BY <2>1 DEF Uploaded, EvidenceAsClaimed, Convincing
<1>3. QED  BY <1>1, <1>2 DEF Happened

-----------------------------------------------------------------------------
(* Beginning.                                                              *)

LEMMA InitInv == Init => IInv
<1> SUFFICES ASSUME Init PROVE IInv
  OBVIOUS
<1>1. Idle \in Local  BY DEF Idle, Local, Phase
<1>2. local \in [Label -> SUBSET Body] /\ \A l \in Label : \A a, b \in local[l] : a = b
  BY M7Assumption DEF Init
<1>3. uploads \in Seq(Artifact) /\ Len(uploads) <= MaxUploads  BY M7Assumption DEF Init
<1>4. run \in [Run -> [attempt : 0..MaxAttempts, status : Result, jobs : Result]]
  BY M7Assumption DEF Init, Result
<1>5. WorldType  BY <1>2, <1>3, <1>4, M7Assumption DEF Init, WorldType
<1>6. CertifierType  BY <1>1 DEF Init, CertifierType, Placed, Idle
<1>7. CertificateType  BY M7Assumption DEF Init, CertificateType
<1>8. Booked  BY DEF Init, Booked
<1>9. \A c \in Certifier : Knows(certifier[c])
  BY DEF Init, Knows, EvidenceRead, RunsRead, ArtifactsRead, Idle
<1>10. \A claim \in certificate : Happened(claim)  BY DEF Init
<1>11. QED  BY <1>5, <1>6, <1>7, <1>8, <1>9, <1>10, TypeParts DEF IInv

-----------------------------------------------------------------------------
(* GitHub and people.                                                      *)

\* GitHub may forget what has expired, but neither successes nor uploads.
Remembers ==
    /\ succeeded \subseteq succeeded'
    /\ DOMAIN uploads \subseteq DOMAIN uploads'
    /\ \A i \in DOMAIN uploads : uploads'[i] = uploads[i]

\* What a certifier knows, and what a certificate says, stays true.
LEMMA KnowledgeStays ==
  ASSUME Remembers, NEW me, me.listed \subseteq DOMAIN uploads, Knows(me)
  PROVE  Knows(me)'
<1>1. \A claim, p : RunAsClaimed(claim, p) => RunAsClaimed(claim, p)'
  BY DEF Remembers, RunAsClaimed
<1>2. \A claim, p, l : Uploaded(claim, p, l) => Uploaded(claim, p, l)'
  BY DEF Remembers, Uploaded
<1>3. \A claim, p : Done(claim, p) => Done(claim, p)'  BY <1>1, <1>2 DEF Done
<1>4. EvidenceRead(me)'  BY DEF Knows, EvidenceRead, Convincing
<1>5. RunsRead(me)'  BY <1>1, <1>3 DEF Knows, RunsRead
<1>6. ArtifactsRead(me)'  BY <1>2 DEF Knows, ArtifactsRead, Remembers
<1>7. QED  BY <1>4, <1>5, <1>6 DEF Knows

LEMMA HistoryStays ==
  ASSUME Remembers, NEW claim, Happened(claim)
  PROVE  Happened(claim)'
<1>1. \A p \in Project : RunAsClaimed(claim, p)'  BY DEF Happened, RunAsClaimed, Remembers
<1>2. ASSUME NEW l \in Label PROVE EvidenceAsClaimed(claim, OwnerOf(l), l)'
  BY DEF Happened, EvidenceAsClaimed, Remembers
<1>3. QED  BY <1>1, <1>2 DEF Happened

\* A step of the world keeps the invariant if it keeps its own books.
LEMMA WorldMoves ==
  ASSUME IInv, UNCHANGED process, Remembers, WorldType', Booked'
  PROVE  IInv'
<1>1. CertifierType'  BY TypeParts DEF IInv, process, CertifierType, Placed, Remembers
<1>2. CertificateType'  BY TypeParts DEF IInv, process, CertificateType
<1>3. TypeOK'  BY <1>1, <1>2, TypeParts DEF TypeOK, WorldType, CertifierType, Placed, CertificateType
<1>4. ASSUME NEW c \in Certifier PROVE Knows(certifier[c])'
  BY KnowledgeStays DEF IInv, TypeOK, process
<1>5. ASSUME NEW claim \in certificate' PROVE Happened(claim)'
  BY HistoryStays DEF IInv, process
<1>6. QED  BY <1>3, <1>4, <1>5 DEF IInv

LEMMA GitHubStep == IInv /\ GitHubOrPeople => IInv'
<1> SUFFICES ASSUME IInv, GitHubOrPeople PROVE IInv'
  OBVIOUS
<1> MaxAttempts \in Nat /\ MaxUploads \in Nat /\ MaxChanges \in Nat /\ Evidence \subseteq Body
  BY M7Assumption
<1>0. WorldType /\ Booked  BY TypeParts DEF IInv
<1>a. ASSUME NEW r \in Run
      PROVE  /\ run[r] \in [attempt : 0..MaxAttempts, status : Result, jobs : Result]
             /\ run[r].attempt <= starts /\ starts \in 0..MaxAttempts
             /\ run[r].status = "running" => run[r].attempt > 0
  BY <1>0 DEF WorldType, Booked
<1>1. ASSUME NEW r \in Run, StartAttempt(r) PROVE IInv'
  <2>1. Remembers /\ UNCHANGED process  BY <1>1 DEF StartAttempt, Remembers
  <2>2. run[r].attempt + 1 \in 1..MaxAttempts
    BY <1>1, <1>a DEF StartAttempt
  <2>3. run' \in [Run -> [attempt : 0..MaxAttempts, status : Result, jobs : Result]]
    BY <1>0, <1>1, <2>2 DEF StartAttempt, WorldType, Result
  <2>4. starts' \in 0..MaxAttempts  BY <1>1, <1>a DEF StartAttempt
  <2>5. WorldType'  BY <1>0, <1>1, <2>3, <2>4 DEF StartAttempt, WorldType
  <2>6. Booked'  BY <1>0, <1>1, <1>a, <2>2 DEF StartAttempt, WorldType, Booked
  <2>7. QED  BY <2>1, <2>5, <2>6, WorldMoves
<1>2. ASSUME NEW r \in Run, NEW body \in Evidence, Upload(r, body) PROVE IInv'
  <2> DEFINE new == [run |-> r, attempt |-> run[r].attempt, label |-> body.label, body |-> body]
  <2>1. new \in Artifact
    BY <1>2, <1>a DEF Upload, Artifact, Body
  <2>2. uploads' = Append(uploads, new)  BY <1>2 DEF Upload
  <2> HIDE DEF new
  <2>3. /\ uploads' \in Seq(Artifact) /\ Len(uploads') = Len(uploads) + 1
        /\ DOMAIN uploads \subseteq DOMAIN uploads'
        /\ \A i \in DOMAIN uploads : uploads'[i] = uploads[i]
    BY <1>0, <2>1, <2>2 DEF WorldType
  <2>4. Remembers /\ UNCHANGED process  BY <1>2, <2>3 DEF Upload, Remembers
  <2>5. Len(uploads') <= MaxUploads  BY <1>0, <1>2, <2>3 DEF Upload, WorldType
  <2>6. WorldType'  BY <1>0, <1>2, <2>3, <2>5 DEF Upload, WorldType
  <2>7. Booked'  BY <1>0, <1>2 DEF Upload, Booked
  <2>8. QED  BY <2>4, <2>6, <2>7, WorldMoves
<1>3. ASSUME NEW r \in Run, NEW result \in {"success", "failure"}, FinishJobs(r, result) PROVE IInv'
  <2>1. Remembers /\ UNCHANGED process  BY <1>3 DEF FinishJobs, Remembers
  <2>2. WorldType'  BY <1>0, <1>3 DEF FinishJobs, WorldType, Result
  <2>3. Booked'  BY <1>0, <1>3 DEF FinishJobs, WorldType, Booked
  <2>4. QED  BY <2>1, <2>2, <2>3, WorldMoves
<1>4. ASSUME NEW r \in Run, NEW result \in {"success", "failure"}, FinishRun(r, result) PROVE IInv'
  <2>1. Remembers /\ UNCHANGED process  BY <1>4 DEF FinishRun, Remembers
  <2>2. run[r].attempt \in 1..MaxAttempts  BY <1>4, <1>a DEF FinishRun
  <2>3. succeeded' \subseteq Run \X (1..MaxAttempts)  BY <1>0, <1>4, <2>2 DEF FinishRun, WorldType
  <2>4. WorldType'  BY <1>0, <1>4, <2>3 DEF FinishRun, WorldType, Result
  <2>5. Booked'  BY <1>0, <1>4 DEF FinishRun, WorldType, Booked
  <2>6. QED  BY <2>1, <2>4, <2>5, WorldMoves
<1>5. ASSUME NEW id \in DOMAIN uploads, Expire(id) PROVE IInv'
  <2>1. Remembers /\ UNCHANGED process  BY <1>5 DEF Expire, Remembers
  <2>2. WorldType'  BY <1>0, <1>5 DEF Expire, WorldType
  <2>3. Booked'  BY <1>0, <1>5 DEF Expire, Booked
  <2>4. QED  BY <2>1, <2>2, <2>3, WorldMoves
<1>6. ASSUME NEW l \in Label, NEW bodies \in SUBSET Body, \A a, b \in bodies : a = b,
             Replace(l, bodies)
      PROVE  IInv'
  <2>1. Remembers /\ UNCHANGED process  BY <1>6 DEF Replace, Remembers
  <2>2. local' \in [Label -> SUBSET Body] /\ \A k \in Label : \A a, b \in local'[k] : a = b
    BY <1>0, <1>6 DEF Replace, WorldType
  <2>3. changes' \in 0..MaxChanges  BY <1>0, <1>6 DEF Replace, WorldType
  <2>4. WorldType'  BY <1>0, <1>6, <2>2, <2>3 DEF Replace, WorldType
  <2>5. Booked'  BY <1>0, <1>6 DEF Replace, Booked
  <2>6. QED  BY <2>1, <2>4, <2>5, WorldMoves
<1>7. ASSUME NEW l \in Label, Replace(l, {}) PROVE IInv'  BY <1>6, <1>7
<1>8. ASSUME NEW l \in Label, NEW b \in Evidence, Replace(l, {b}) PROVE IInv'  BY <1>6, <1>8
<1>9. QED  BY <1>1, <1>2, <1>3, <1>4, <1>5, <1>7, <1>8 DEF GitHubOrPeople

-----------------------------------------------------------------------------
(* Certifiers.                                                             *)

\* A step of one certifier keeps the invariant if it ends where the certifier is
\* well placed and knows what it must, and if what it publishes happened.
LEMMA CertifierMoves ==
  ASSUME IInv, NEW c \in Certifier, NEW n,
         certifier' = [certifier EXCEPT ![c] = n], UNCHANGED <<github, local>>,
         Placed(n), Knows(n), CertificateType',
         \A claim \in certificate' : Happened(claim)
  PROVE  IInv'
<1>1. UNCHANGED <<run, uploads, gone, succeeded, starts, changes, local>>  BY DEF github
<1>2. Remembers  BY <1>1 DEF Remembers
<1>3. WorldType'  BY <1>1, TypeParts DEF IInv, WorldType
<1>4. n \in Local  BY DEF Placed
<1>5. /\ certifier' \in [Certifier -> Local]
      /\ \A d \in Certifier : certifier'[d] = n \/ certifier'[d] = certifier[d]
  BY <1>4 DEF IInv, TypeOK
<1>6. \A d \in Certifier : Placed(certifier[d]) /\ Knows(certifier[d])
  BY TypeParts DEF IInv, CertifierType
<1>7. \A d \in Certifier : Placed(certifier'[d]) /\ Knows(certifier'[d])
  BY <1>5, <1>6
<1>8. CertifierType'  BY <1>1, <1>5, <1>7 DEF CertifierType, Placed
<1>9. TypeOK'
  BY <1>3, <1>8, TypeParts DEF TypeOK, WorldType, CertifierType, Placed, CertificateType
<1>10. Booked'  BY <1>1 DEF IInv, Booked
<1>11. ASSUME NEW d \in Certifier PROVE Knows(certifier[d])'
  <2>1. Knows(certifier'[d]) /\ certifier'[d].listed \subseteq DOMAIN uploads
    BY <1>7 DEF Placed
  <2>2. QED  BY <1>2, <2>1, KnowledgeStays
<1>12. \A claim \in certificate' : Happened(claim)'
  BY <1>2, HistoryStays
<1>13. QED  BY <1>9, <1>10, <1>11, <1>12 DEF IInv

\* The same when nothing is published.
LEMMA CertifierReads ==
  ASSUME IInv, NEW c \in Certifier, NEW n,
         certifier' = [certifier EXCEPT ![c] = n], UNCHANGED world,
         Placed(n), Knows(n)
  PROVE  IInv'
<1>1. UNCHANGED <<github, local>> /\ CertificateType'
  BY TypeParts DEF world, IInv, CertificateType
<1>2. \A claim \in certificate' : Happened(claim)  BY DEF IInv, world
<1>3. QED  BY <1>1, <1>2, CertifierMoves

-----------------------------------------------------------------------------
(* The steps of a certifier.                                               *)

\* The parts of a certifier's record.
LEMMA Parts ==
  ASSUME NEW me \in Local
  PROVE  /\ me.phase \in Phase /\ me.claim \in Certificate \cup {None} /\ me.writes \in BOOLEAN
         /\ me.projects \in Seq(Project) /\ me.labels \in Seq(Label)
         /\ me.listed \in SUBSET (1..MaxUploads)
BY DEF Local

\* With the last request about a project, the certifier goes on to the next.
LEMMA NextProject ==
  ASSUME TypeOK, NEW me, Placed(me), Knows(me), me.phase \in {"jobs", "download"},
         Done(me.claim, Head(me.projects))
  PROVE  Placed(ToNextProject(me)) /\ Knows(ToNextProject(me))
<1> DEFINE n == ToNextProject(me)
<1>1. me \in Local /\ me.projects \in Seq(Project) /\ me.projects # <<>>
  BY Parts DEF Placed
<1>2. /\ Tail(me.projects) \in Seq(Project)
      /\ Len(me.projects) > 1 => Tail(me.projects) # <<>>
      /\ \A x : Among(me.projects, x) =>
             x = Head(me.projects) \/ (Len(me.projects) > 1 /\ Among(Tail(me.projects), x))
  BY <1>1, Behind
<1>3. /\ n.claim = me.claim /\ n.projects = Tail(me.projects) /\ n.labels = <<>> /\ n.listed = {}
      /\ n.phase = IF Len(me.projects) > 1 THEN "run" ELSE "valid"
      /\ n.writes = me.writes
  BY <1>1 DEF ToNextProject, Local
<1>4. n \in Local
  <2>1. <<>> \in Seq(Label) /\ {} \in SUBSET (1..MaxUploads) /\ {"run", "valid"} \subseteq Phase
    BY DEF Phase
  <2>2. n.phase \in Phase  BY <1>3, <2>1
  <2>3. QED  BY <1>1, <1>2, <2>1, <2>2 DEF ToNextProject, Local
<1>5. me.claim \in Certificate  BY DEF Placed
<1>6. Placed(n)  BY <1>2, <1>3, <1>4, <1>5 DEF Placed
<1>7. \A p \in Project :
         Done(me.claim, p) \/ (Len(me.projects) > 1 /\ Among(Tail(me.projects), p))
  BY <1>2 DEF Knows, RunsRead
<1>8. \A l \in Label : Convincing(me.claim, l)  BY DEF Knows, EvidenceRead
<1> HIDE DEF n
<1>9. EvidenceRead(n)  BY <1>3, <1>8 DEF EvidenceRead
<1>10. RunsRead(n)  BY <1>3, <1>7 DEF RunsRead
<1>11. ArtifactsRead(n)  BY <1>3 DEF ArtifactsRead
<1>12. QED  BY <1>6, <1>9, <1>10, <1>11 DEF Knows, n

LEMMA StartStep ==
  ASSUME IInv, NEW c \in Certifier, NEW claim \in Certificate, NEW writes \in BOOLEAN,
         Start(c, claim, writes)
  PROVE  IInv'
<1> DEFINE n == [Idle EXCEPT !.phase = "evidence", !.claim = claim, !.writes = writes,
                             !.labels = EvidenceOrder]
<1> "evidence" \in Phase /\ <<>> \in Seq(Project) /\ EvidenceOrder \in Seq(Label) /\ EvidenceOrder # <<>>
  BY M7Assumption DEF Phase
<1>1. /\ n.phase = "evidence" /\ n.claim = claim /\ n.labels = EvidenceOrder /\ n.listed = {}
      /\ n \in Local
  BY DEF Idle, Local
<1>2. certifier' = [certifier EXCEPT ![c] = n] /\ UNCHANGED <<github, local>>  BY DEF Start
<1> HIDE DEF n
<1>3. Placed(n)  BY <1>1 DEF Placed
<1>4. Knows(n)  BY <1>1, InOrder DEF Knows, EvidenceRead, RunsRead, ArtifactsRead
<1>5. CertificateType'  BY M7Assumption DEF Start, IInv, TypeOK, CertificateType
<1>6. \A m \in certificate' : Happened(m)  BY DEF Start, IInv
<1>7. QED  BY <1>2, <1>3, <1>4, <1>5, <1>6, CertifierMoves

\* What a person can compose is a certificate.
LEMMA ClaimType == IInv => Claims \subseteq Certificate
<1> SUFFICES ASSUME IInv, NEW claim \in Claims PROVE claim \in Certificate
  OBVIOUS
<1>1. claim.ci \in [Project -> CIResult] /\ claim = [ci |-> claim.ci, artifact |-> claim.artifact, evidence |-> claim.evidence]
  BY DEF Claims
<1>2. ASSUME NEW i \in DOMAIN uploads PROVE i \in 1..MaxUploads /\ ContentOf(i) \in Body
  <2>1. uploads \in Seq(Artifact) /\ Len(uploads) <= MaxUploads  BY DEF IInv, TypeOK
  <2>2. i \in 1..Len(uploads) /\ uploads[i] \in Artifact  BY <2>1
  <2>3. QED  BY <2>1, <2>2, M7Assumption DEF ContentOf, Artifact
<1>3. {[id |-> i, archive |-> ContentOf(i)] : i \in DOMAIN uploads} \subseteq Binding
  BY <1>2 DEF Binding
<1>4. claim.artifact \in [Label -> Binding]
  <2>1. claim.artifact \in [Label -> {[id |-> i, archive |-> ContentOf(i)] : i \in DOMAIN uploads}]
    BY DEF Claims
  <2>2. QED  BY <1>3, <2>1
<1>5. UNION {local[l] : l \in Label} \subseteq Body  BY DEF IInv, TypeOK
<1>6. claim.evidence \in [Label -> Body]
  <2>1. claim.evidence \in [Label -> UNION {local[l] : l \in Label}]  BY DEF Claims
  <2>2. QED  BY <1>5, <2>1
<1>7. QED  BY <1>1, <1>4, <1>6 DEF Certificate

\* What is known of a certifier that is about to ask.
LEMMA Here ==
  ASSUME IInv, NEW c \in Certifier
  PROVE  Placed(certifier[c]) /\ Knows(certifier[c]) /\ certifier[c] \in Local
BY TypeParts DEF IInv, CertifierType, Placed

\* Reading evidence: the label at the head convinces.
LEMMA EvidenceStep ==
  ASSUME IInv, NEW c \in Certifier, ReadEvidence(c)
  PROVE  IInv'
<1> PICK me : me = certifier[c]  OBVIOUS
<1> DEFINE later == [me EXCEPT !.labels = Tail(@)]
           over == ToRuns(me)
<1>1. /\ me.phase = "evidence" /\ Convincing(me.claim, Head(me.labels))
      /\ certifier' = [certifier EXCEPT ![c] = IF Len(me.labels) > 1 THEN later ELSE over]
      /\ UNCHANGED world
  BY DEF ReadEvidence, AfterLabel
<1>2. Placed(me) /\ Knows(me) /\ me \in Local  BY Here
<1>3. me.labels \in Seq(Label) /\ me.labels # <<>> /\ me.claim \in Certificate
  BY <1>1, <1>2, Parts DEF Placed
<1>4. /\ Tail(me.labels) \in Seq(Label)
      /\ Len(me.labels) > 1 => Tail(me.labels) # <<>>
      /\ \A x : Among(me.labels, x) =>
             x = Head(me.labels) \/ (Len(me.labels) > 1 /\ Among(Tail(me.labels), x))
  BY <1>3, Behind
<1>5. \A l \in Label : \/ Convincing(me.claim, l)
                       \/ Len(me.labels) > 1 /\ Among(Tail(me.labels), l)
  BY <1>1, <1>2, <1>4 DEF Knows, EvidenceRead
<1>6. ASSUME Len(me.labels) > 1 PROVE Placed(later) /\ Knows(later)
  <2>1. /\ later.phase = "evidence" /\ later.claim = me.claim /\ later.listed = me.listed
        /\ later.labels = Tail(me.labels) /\ later \in Local
    BY <1>1, <1>2, <1>4 DEF Local
  <2> HIDE DEF later
  <2>2. Placed(later)  BY <1>2, <1>3, <1>4, <1>6, <2>1 DEF Placed
  <2>3. QED  BY <1>5, <2>1, <2>2 DEF Knows, EvidenceRead, RunsRead, ArtifactsRead
<1>7. ASSUME ~ (Len(me.labels) > 1) PROVE Placed(over) /\ Knows(over)
  <2> /\ "run" \in Phase /\ <<>> \in Seq(Label)
      /\ ProjectOrder \in Seq(Project) /\ ProjectOrder # <<>>
    BY M7Assumption DEF Phase
  <2>1. /\ over.phase = "run" /\ over.claim = me.claim /\ over.listed = me.listed
        /\ over.projects = ProjectOrder /\ over \in Local
    BY <1>1, <1>2 DEF Local, ToRuns
  <2> HIDE DEF over
  <2>2. Placed(over)  BY <1>2, <1>3, <2>1 DEF Placed
  <2>3. QED  BY <1>5, <1>7, <2>1, <2>2, InOrder DEF Knows, EvidenceRead, RunsRead, ArtifactsRead
<1> HIDE DEF later, over
<1>8. CASE Len(me.labels) > 1  BY <1>1, <1>6, <1>8, CertifierReads
<1>9. CASE ~ (Len(me.labels) > 1)  BY <1>1, <1>7, <1>9, CertifierReads
<1>10. QED  BY <1>8, <1>9

\* The run of the project at the head is the claimed one, and has succeeded.
LEMMA RunStep ==
  ASSUME IInv, NEW c \in Certifier, ReadRun(c)
  PROVE  IInv'
<1> PICK me : me = certifier[c]  OBVIOUS
<1> DEFINE n == [me EXCEPT !.phase = "jobs"]
           p == Head(me.projects)
           k == me.claim.ci[p]
<1>1. /\ me.phase = "run" /\ certifier' = [certifier EXCEPT ![c] = n] /\ UNCHANGED world
      /\ ProjectOf[k.run] = p /\ HeadOf[k.run] = k.commit
      /\ run[k.run].attempt = k.attempt /\ run[k.run].status = "success"
  BY DEF ReadRun
<1>2. Placed(me) /\ Knows(me) /\ me \in Local  BY Here
<1>3. me.projects \in Seq(Project) /\ me.projects # <<>> /\ me.claim \in Certificate
  BY <1>1, <1>2, Parts DEF Placed
<1>4. p \in Project  BY <1>3
<1>5. k.run \in Run  BY <1>3, <1>4 DEF Certificate, CIResult
<1>6. RunAsClaimed(me.claim, p)  BY <1>1, <1>5 DEF IInv, Booked, RunAsClaimed
<1>7. /\ n.phase = "jobs" /\ n.claim = me.claim /\ n.listed = me.listed
      /\ n.projects = me.projects /\ n \in Local
  BY <1>2 DEF Local, Phase
<1> HIDE DEF n, p, k
<1>8. Placed(n)  BY <1>2, <1>3, <1>7 DEF Placed
<1>9. Knows(n)
  BY <1>1, <1>2, <1>6, <1>7 DEF Knows, EvidenceRead, RunsRead, ArtifactsRead, p
<1>10. QED  BY <1>1, <1>8, <1>9, CertifierReads

\* Its jobs have succeeded; a project without labels is done with that.
LEMMA JobsStep ==
  ASSUME IInv, NEW c \in Certifier, ReadJobs(c)
  PROVE  IInv'
<1> PICK me : me = certifier[c]  OBVIOUS
<1> DEFINE p == Head(me.projects)
           n == [me EXCEPT !.phase = "artifacts", !.labels = Required[p]]
<1>1. /\ me.phase = "jobs" /\ UNCHANGED world
      /\ certifier' = [certifier EXCEPT ![c] = IF Required[p] = <<>> THEN ToNextProject(me) ELSE n]
  BY DEF ReadJobs
<1>2. Placed(me) /\ Knows(me) /\ me \in Local  BY Here
<1>3. me.projects \in Seq(Project) /\ me.projects # <<>> /\ me.claim \in Certificate
  BY <1>1, <1>2, Parts DEF Placed
<1>4. p \in Project  BY <1>3
<1>5. RunAsClaimed(me.claim, p)  BY <1>1, <1>2 DEF Knows, RunsRead
<1>6. CASE Required[p] = <<>>
  <2>1. DOMAIN Required[p] = {}  BY <1>6
  <2>2. Done(me.claim, p)  BY <1>5, <2>1 DEF Done
  <2>3. Placed(ToNextProject(me)) /\ Knows(ToNextProject(me))
    BY <1>1, <1>2, <2>2, NextProject DEF IInv
  <2>4. certifier' = [certifier EXCEPT ![c] = ToNextProject(me)]  BY <1>1, <1>6
  <2>5. QED  BY <1>1, <2>3, <2>4, CertifierReads
<1>7. CASE Required[p] # <<>>
  <2> Required[p] \in Seq(Label) /\ "artifacts" \in Phase  BY <1>4, M7Assumption DEF Phase
  <2>1. /\ n.phase = "artifacts" /\ n.claim = me.claim /\ n.listed = me.listed
        /\ n.projects = me.projects /\ n.labels = Required[p] /\ n \in Local
    BY <1>2 DEF Local
  <2>2. certifier' = [certifier EXCEPT ![c] = n]  BY <1>1, <1>7
  <2> HIDE DEF n
  <2>3. Placed(n)  BY <1>2, <1>3, <2>1 DEF Placed
  <2>4. Knows(n)  BY <1>1, <1>2, <1>7, <2>1 DEF Knows, EvidenceRead, RunsRead, ArtifactsRead
  <2>5. QED  BY <1>1, <2>2, <2>3, <2>4, CertifierReads
<1>8. QED  BY <1>6, <1>7

\* The artifacts of the claimed run are listed.
LEMMA ListStep ==
  ASSUME IInv, NEW c \in Certifier, ListArtifacts(c)
  PROVE  IInv'
<1> PICK me : me = certifier[c]  OBVIOUS
<1> DEFINE p == Head(me.projects)
           list == {i \in DOMAIN uploads : uploads[i].run = me.claim.ci[p].run} \ gone
           n == [me EXCEPT !.phase = "download", !.listed = list]
<1>1. /\ me.phase = "artifacts" /\ certifier' = [certifier EXCEPT ![c] = n] /\ UNCHANGED world
  BY DEF ListArtifacts
<1>2. Placed(me) /\ Knows(me) /\ me \in Local  BY Here
<1>3. me.projects # <<>> /\ me.claim \in Certificate
  BY <1>1, <1>2 DEF Placed
<1>4. me.labels = Required[p] /\ me.labels # <<>>  BY <1>1, <1>2 DEF Knows, ArtifactsRead
<1>5. list \in SUBSET (1..MaxUploads) /\ list \subseteq DOMAIN uploads
  <2>1. uploads \in Seq(Artifact) /\ Len(uploads) <= MaxUploads  BY DEF IInv, TypeOK
  <2>2. DOMAIN uploads = 1..Len(uploads) /\ Len(uploads) \in Nat  BY <2>1
  <2>3. QED  BY <2>1, <2>2, M7Assumption
<1>6. \A i \in list : uploads[i].run = me.claim.ci[p].run  OBVIOUS
<1> HIDE DEF list
<1>7. /\ n.phase = "download" /\ n.claim = me.claim /\ n.listed = list
      /\ n.projects = me.projects /\ n.labels = me.labels /\ n \in Local
  BY <1>2, <1>5 DEF Local, Phase
<1> HIDE DEF n
<1>8. Placed(n)  BY <1>3, <1>4, <1>5, <1>7 DEF Placed
<1>9. \A i \in DOMAIN Required[p] : Among(n.labels, Required[p][i])  BY <1>4, <1>7 DEF Among
<1>10. Knows(n)
  BY <1>1, <1>2, <1>6, <1>7, <1>9 DEF Knows, EvidenceRead, RunsRead, ArtifactsRead
<1>11. QED  BY <1>1, <1>8, <1>10, CertifierReads

\* The artifact at hand is the claimed attempt's, and its evidence the claimed.
LEMMA DownloadStep ==
  ASSUME IInv, NEW c \in Certifier, Download(c)
  PROVE  IInv'
<1> PICK me : me = certifier[c]  OBVIOUS
<1> DEFINE p == Head(me.projects)
           k == me.claim.ci[p]
           h == Head(me.labels)
           b == me.claim.artifact[h]
           later == [me EXCEPT !.labels = Tail(@)]
<1>1. /\ me.phase = "download" /\ UNCHANGED world
      /\ b.id \in me.listed /\ uploads[b.id].label = h /\ uploads[b.id].attempt = k.attempt
      /\ uploads[b.id].body = b.archive /\ b.archive = me.claim.evidence[h]
      /\ certifier' = [certifier EXCEPT ![c] =
             IF Len(me.labels) > 1 THEN later ELSE ToNextProject(me)]
  BY DEF Download, AfterLabel, ContentOf
<1>2. Placed(me) /\ Knows(me) /\ me \in Local  BY Here
<1>3. /\ me.labels \in Seq(Label) /\ me.labels # <<>> /\ me.projects # <<>>
      /\ me.claim \in Certificate /\ me.listed \subseteq DOMAIN uploads
  BY <1>1, <1>2, Parts DEF Placed
<1>4. /\ Tail(me.labels) \in Seq(Label)
      /\ Len(me.labels) > 1 => Tail(me.labels) # <<>>
      /\ \A x : Among(me.labels, x) =>
             x = Head(me.labels) \/ (Len(me.labels) > 1 /\ Among(Tail(me.labels), x))
  BY <1>3, Behind
<1>5. Uploaded(me.claim, p, h)
  <2>1. uploads[b.id] \in Artifact /\ b.id \in DOMAIN uploads
    BY <1>1, <1>3 DEF IInv, TypeOK
  <2>2. uploads[b.id].run = k.run  BY <1>1, <1>2 DEF Knows, ArtifactsRead
  <2>3. uploads[b.id] = [run |-> k.run, attempt |-> k.attempt, label |-> h,
                         body |-> me.claim.evidence[h]]
    BY <1>1, <2>1, <2>2 DEF Artifact
  <2>4. QED  BY <2>1, <2>3 DEF Uploaded
<1>6. \A i \in DOMAIN Required[p] :
         \/ Uploaded(me.claim, p, Required[p][i])
         \/ Len(me.labels) > 1 /\ Among(Tail(me.labels), Required[p][i])
  BY <1>1, <1>2, <1>4, <1>5 DEF Knows, ArtifactsRead
<1>7. RunAsClaimed(me.claim, p)  BY <1>1, <1>2 DEF Knows, RunsRead
<1>8. CASE Len(me.labels) > 1
  <2>1. /\ later.phase = "download" /\ later.claim = me.claim /\ later.listed = me.listed
        /\ later.projects = me.projects /\ later.labels = Tail(me.labels) /\ later \in Local
    BY <1>1, <1>2, <1>4 DEF Local
  <2>2. certifier' = [certifier EXCEPT ![c] = later]  BY <1>1, <1>8
  <2> HIDE DEF later
  <2>3. Placed(later)  BY <1>3, <1>4, <1>8, <2>1 DEF Placed
  <2>4. Knows(later)
    BY <1>1, <1>2, <1>6, <2>1 DEF Knows, EvidenceRead, RunsRead, ArtifactsRead
  <2>5. QED  BY <1>1, <2>2, <2>3, <2>4, CertifierReads
<1>9. CASE ~ (Len(me.labels) > 1)
  <2>1. Done(me.claim, p)  BY <1>6, <1>7, <1>9 DEF Done
  <2>2. Placed(ToNextProject(me)) /\ Knows(ToNextProject(me))
    BY <1>1, <1>2, <2>1, NextProject DEF IInv
  <2>3. certifier' = [certifier EXCEPT ![c] = ToNextProject(me)]  BY <1>1, <1>9
  <2>4. QED  BY <1>1, <2>2, <2>3, CertifierReads
<1>10. QED  BY <1>8, <1>9

LEMMA LeaveStep ==
  ASSUME IInv, NEW c \in Certifier, Leave(c)
  PROVE  IInv'
<1>1. certifier' = [certifier EXCEPT ![c] = Idle] /\ UNCHANGED world  BY DEF Leave
<1>2. Idle.phase = "idle" /\ Idle.listed = {} /\ Idle \in Local  BY DEF Idle, Local, Phase
<1>3. Placed(Idle)  BY <1>2 DEF Placed
<1>4. Knows(Idle)  BY <1>2 DEF Knows, EvidenceRead, RunsRead, ArtifactsRead
<1>5. QED  BY <1>1, <1>3, <1>4, CertifierReads

\* Publication: what is linked has been accepted.
LEMMA PublicationStep ==
  ASSUME IInv, NEW c \in Certifier, LookForCertificate(c) \/ Link(c)
  PROVE  IInv'
<1> PICK me : me = certifier[c]  OBVIOUS
<1> PICK next \in {"free", "linked"} :
        /\ certifier' = [certifier EXCEPT ![c] = [me EXCEPT !.phase = next]]
        /\ next = "free" => UNCHANGED world
        /\ next = "linked" => certificate' = {me.claim} /\ UNCHANGED <<github, local, calls>>
  BY DEF LookForCertificate, Link
<1> DEFINE n == [me EXCEPT !.phase = next]
<1>1. me.phase \in {"valid", "free"}  BY DEF LookForCertificate, Link
<1>2. Placed(me) /\ Knows(me) /\ me \in Local  BY Here
<1>3. me.claim \in Certificate  BY <1>1, <1>2 DEF Placed
<1>4. Happened(me.claim)
  BY <1>1, <1>2, AllHappened DEF Knows, EvidenceRead, RunsRead
<1>5. /\ n.phase = next /\ n.claim = me.claim /\ n.listed = me.listed /\ n \in Local
      /\ certifier' = [certifier EXCEPT ![c] = n]
  BY <1>2 DEF Local, Phase
<1> HIDE DEF n
<1>6. Placed(n)  BY <1>2, <1>3, <1>5 DEF Placed
<1>7. Knows(n)  BY <1>1, <1>2, <1>5 DEF Knows, EvidenceRead, RunsRead, ArtifactsRead
<1>8. CASE next = "free"  BY <1>5, <1>6, <1>7, <1>8, CertifierReads
<1>9. CASE next = "linked"
  <2>1. UNCHANGED <<github, local, calls>> /\ certificate' = {me.claim}  BY <1>9
  <2>2. CertificateType'  BY <1>3, <2>1 DEF IInv, TypeOK, CertificateType
  <2>3. \A claim \in certificate' : Happened(claim)  BY <1>4, <2>1
  <2>4. QED  BY <1>5, <1>6, <1>7, <2>1, <2>2, <2>3, CertifierMoves
<1>10. QED  BY <1>8, <1>9

LEMMA NextInv == IInv /\ [Next]_vars => IInv'
<1> SUFFICES ASSUME IInv, [Next]_vars PROVE IInv'
  OBVIOUS
<1>1. CASE GitHubOrPeople  BY <1>1, GitHubStep
<1>2. ASSUME NEW c \in Certifier, Certify(c) PROVE IInv'
  <2>1. ASSUME NEW claim \in Claims, NEW writes \in BOOLEAN, Start(c, claim, writes) PROVE IInv'
    BY <2>1, ClaimType, StartStep
  <2>2. ASSUME NEW claim \in certificate, Start(c, claim, FALSE) PROVE IInv'
    BY <2>2, StartStep DEF IInv, TypeOK
  <2>3. QED
    BY <1>2, <2>1, <2>2, EvidenceStep, RunStep, JobsStep, ListStep, DownloadStep, LeaveStep,
       PublicationStep DEF Certify
<1>3. CASE UNCHANGED vars
  <2>1. /\ UNCHANGED <<run, uploads, gone, succeeded, starts, changes, local>>
        /\ UNCHANGED process
    BY <1>3 DEF vars, github, process
  <2>2. Remembers  BY <2>1 DEF Remembers
  <2>3. WorldType' /\ Booked'  BY <2>1, TypeParts DEF IInv, WorldType, Booked
  <2>4. QED  BY <2>1, <2>2, <2>3, WorldMoves
<1>4. QED  BY <1>1, <1>2, <1>3 DEF Next

THEOREM InvariantHolds == Spec => []IInv
BY InitInv, NextInv, PTL DEF Spec

-----------------------------------------------------------------------------
\* Every variable holds a value of its kind, whatever GitHub and people do.
THEOREM TypeCorrect == Spec => []TypeOK
<1>1. IInv => TypeOK  BY DEF IInv
<1>2. QED  BY <1>1, InvariantHolds, PTL

\* validate_m7_certification and write_m7_certification: what a validation has
\* accepted, or what is published, did happen, of one run and one attempt, for
\* any projects, labels, runs and evidence, and however requests interleave with
\* new attempts, expiring artifacts and exchanged files.
THEOREM CertificatesTrue == Spec => []Attested
<1>1. IInv => Attested
  BY AllHappened DEF IInv, Knows, EvidenceRead, RunsRead, Attested
<1>2. QED  BY <1>1, InvariantHolds, PTL
=============================================================================
