------------------------- MODULE InstallJobs_proofs -------------------------
(***************************************************************************)
(* What holds of the durable receipts of InstallJobs for every set of      *)
(* jobs and plans and every bound.  Four lemmas say what each operation    *)
(* writes for one receipt; the invariant then follows action by action,    *)
(* once for the documents an action may leave on disk.                     *)
(***************************************************************************)
EXTENDS InstallJobs, FiniteSetTheorems, TLAPS

-----------------------------------------------------------------------------
(***************************************************************************)
(* One receipt.                                                            *)
(***************************************************************************)

\* Cancellation and phase of one receipt.
CancelFits(r) ==
  r.cancel_requested =>
    r.phase \in CancellablePhases
                  \cup {"cancelled", "failed", "recovery_required"}

\* What is kept of every stored receipt.
Sound(r) == r \in InstallJobReceipt /\ ValidReceipt(r) /\ CancelFits(r)

\* A new receipt is sound.
LEMMA ApprovedSound ==
  ASSUME NEW plan \in Plans
  PROVE  Sound(ApprovedReceipt(plan)) /\ IsActive(ApprovedReceipt(plan))
<1>1. ApprovedReceipt(plan) \in InstallJobReceipt
  BY DEF ApprovedReceipt, InstallJobReceipt, InstallPhase
<1>2. ValidReceipt(ApprovedReceipt(plan))
  BY ReceiptAssumption DEF ValidReceipt, ApprovedReceipt, CodeFits, RootModeForbiddenPhases,
     RootModeRequiredPhases, ArtifactRequiredPhases, TerminalPhases
<1>3. CancelFits(ApprovedReceipt(plan))
  BY DEF CancelFits, ApprovedReceipt
<1>4. IsActive(ApprovedReceipt(plan))
  BY <1>1, JobsAssumption DEF IsActive, IsTerminal, ApprovedReceipt, TerminalPhases
<1> QED BY <1>1, <1>2, <1>3, <1>4 DEF Sound

\* A requested cancellation keeps a receipt sound and active, in its phase.
LEMMA CancelRequestedSound ==
  ASSUME NEW r, Sound(r), r.phase \in CancellablePhases
  PROVE  /\ Sound(CancelRequested(r))
         /\ IsActive(CancelRequested(r))
         /\ CancelRequested(r).plan = r.plan
         /\ CancelRequested(r).phase = r.phase
         /\ CancelRequested(r).executor_generation = r.executor_generation
         /\ CancelRequested(r).revision = r.revision + 1
<1> USE DEF Sound
<1>0. r.revision + 1 \in Nat
  BY DEF InstallJobReceipt
<1>1. CancelRequested(r) \in InstallJobReceipt
  BY <1>0 DEF CancelRequested, InstallJobReceipt
<1>2. /\ CancelRequested(r).plan = r.plan
      /\ CancelRequested(r).phase = r.phase
      /\ CancelRequested(r).attempt = r.attempt
      /\ CancelRequested(r).executor_generation = r.executor_generation
      /\ CancelRequested(r).revision = r.revision + 1
      /\ CancelRequested(r).cancel_requested
      /\ CancelRequested(r).preflight_root_mode = r.preflight_root_mode
      /\ CancelRequested(r).actual_apk_bytes = r.actual_apk_bytes
      /\ CancelRequested(r).health_checked_at = r.health_checked_at
      /\ CancelRequested(r).result_code = r.result_code
      /\ CancelRequested(r).failure_stage = r.failure_stage
      /\ CancelRequested(r).consumed_entry_id = r.consumed_entry_id
  BY DEF CancelRequested, InstallJobReceipt
<1>3. r.executor_generation \in Nat /\ r.revision \in Nat
  BY DEF InstallJobReceipt
<1>4. CodeFits(CancelRequested(r))
  BY <1>2 DEF CodeFits, ValidReceipt
<1>5. ValidReceipt(CancelRequested(r))
  BY <1>2, <1>3, <1>4 DEF ValidReceipt
<1>6. CancelFits(CancelRequested(r))
  BY <1>2 DEF CancelFits
<1>7. IsActive(CancelRequested(r))
  BY <1>1, <1>2, JobsAssumption
  DEF IsActive, IsTerminal, TerminalPhases, CancellablePhases
<1> QED BY <1>1, <1>2, <1>5, <1>6, <1>7

\* A claim keeps a receipt sound: live at its next generation, or quarantined.
LEMMA ClaimedSound ==
  ASSUME NEW r, Sound(r), Claimable(r)
  PROVE  /\ Sound(Claimed(r))
         /\ Claimed(r) # NoReceipt
         /\ Claimed(r).plan = r.plan
         /\ Claimed(r).revision = r.revision + 1
         /\ \/ Claimed(r).phase = "recovery_required"
            \/ Claimable(Claimed(r)) /\ r.phase \notin RestartAmbiguousPhases
               /\ Claimed(r).phase = r.phase
<1>0. /\ r \in InstallJobReceipt
      /\ ValidReceipt(r)
      /\ CancelFits(r)
  BY DEF Sound
<1>1. /\ r.revision + 1 \in Nat
      /\ r.executor_generation + 1 \in Nat
      /\ r.attempt + 1 \in Nat
      /\ r.executor_generation \in Nat
      /\ r.revision \in Nat
      /\ r.phase \in InstallPhase \cup {None}
      /\ "recovery_required" \in InstallPhase
      /\ "verification_required" \in InstallResultCode \cup {None}
  BY <1>0 DEF InstallJobReceipt, InstallPhase, InstallResultCode, RecoveryCodes
<1>2. /\ r.phase \in ActivePhases
      /\ r.phase # "healthy_unclaimed"
  BY <1>0 DEF Claimable, IsActive, IsTerminal, ActivePhases, InstallJobReceipt
<1>3. /\ r.consumed_entry_id = None
      /\ ~r.health_checked_at
      /\ r.attempt = r.executor_generation
      /\ r.executor_generation <= r.revision
  BY <1>0, <1>2 DEF ValidReceipt, ActivePhases, InstallPhase, TerminalPhases,
     InstallJobReceipt
<1> DEFINE q == [r EXCEPT !.revision = @ + 1, !.phase = "recovery_required",
                          !.result_code = "verification_required",
                          !.failure_stage = r.phase]
           i == [r EXCEPT !.revision = @ + 1, !.phase = "recovery_required",
                          !.result_code = "verification_required",
                          !.failure_stage = r.phase,
                          !.executor_generation = @ + 1,
                          !.attempt = @ + 1]
           t == [r EXCEPT !.revision = @ + 1, !.executor_generation = @ + 1,
                          !.attempt = @ + 1]
<1>4. q \in InstallJobReceipt /\ i \in InstallJobReceipt /\ t \in InstallJobReceipt
  <2>1. q \in InstallJobReceipt BY <1>0, <1>1 DEF InstallJobReceipt
  <2>2. i \in InstallJobReceipt BY <1>0, <1>1 DEF InstallJobReceipt
  <2>3. t \in InstallJobReceipt BY <1>0, <1>1 DEF InstallJobReceipt
  <2> QED BY <2>1, <2>2, <2>3
<1>5. CASE Exhausted(r)
  <2>1. Claimed(r) = q BY <1>5 DEF Claimed
  <2>2. ValidReceipt(q) /\ CancelFits(q)
    BY <1>0, <1>1, <1>2, <1>3
    DEF ValidReceipt, CancelFits, CodeFits, InstallJobReceipt, TerminalPhases,
        RootModeForbiddenPhases, RootModeRequiredPhases,
        ArtifactRequiredPhases, RecoveryCodes
  <2>3. q # NoReceipt BY <1>4, JobsAssumption
  <2> QED BY <1>0, <1>4, <2>1, <2>2, <2>3 DEF Sound, InstallJobReceipt
<1>6. CASE ~Exhausted(r) /\ r.phase \in RestartAmbiguousPhases
  <2>1. Claimed(r) = i BY <1>6, <1>0 DEF Claimed, InstallJobReceipt
  <2>2. ValidReceipt(i) /\ CancelFits(i)
    BY <1>0, <1>1, <1>2, <1>3
    DEF ValidReceipt, CancelFits, CodeFits, InstallJobReceipt, TerminalPhases,
        RootModeForbiddenPhases, RootModeRequiredPhases,
        ArtifactRequiredPhases, RecoveryCodes
  <2>3. i # NoReceipt BY <1>4, JobsAssumption
  <2> QED BY <1>0, <1>4, <2>1, <2>2, <2>3 DEF Sound, InstallJobReceipt
<1>7. CASE ~Exhausted(r) /\ r.phase \notin RestartAmbiguousPhases
  <2>1. Claimed(r) = t BY <1>7 DEF Claimed
  <2>2. t.phase = r.phase BY <1>0 DEF InstallJobReceipt
  <2>3. CodeFits(t)
    BY <1>0, <2>2 DEF CodeFits, ValidReceipt, InstallJobReceipt
  <2>4. ValidReceipt(t) /\ CancelFits(t)
    BY <1>0, <1>1, <1>3, <2>3 DEF ValidReceipt, CancelFits, InstallJobReceipt
  <2>5. t # NoReceipt BY <1>4, JobsAssumption
  <2>6. Claimable(t)
    BY <1>0, <2>2, <2>5 DEF Claimable, IsActive, IsTerminal
  <2> QED BY <1>0, <1>4, <1>7, <2>1, <2>2, <2>4, <2>5, <2>6
          DEF Sound, InstallJobReceipt
<1> QED BY <1>5, <1>6, <1>7

\* A transition the rules allow keeps a receipt sound and leaves an active one.
LEMMA TransitionedSound ==
  ASSUME NEW r, Sound(r), NEW to, NEW code \in InstallResultCode \cup {None},
         NEW entry \in Entries \cup {None},
         MayTransition(r, to, code, entry)
  PROVE  /\ Sound(Transitioned(r, to, code, entry))
         /\ Transitioned(r, to, code, entry) # NoReceipt
         /\ Transitioned(r, to, code, entry).plan = r.plan
         /\ Transitioned(r, to, code, entry).phase = to
         /\ Transitioned(r, to, code, entry).revision = r.revision + 1
         /\ Transitioned(r, to, code, entry).executor_generation
              = r.executor_generation
         /\ IsActive(r)
<1> DEFINE n == Transitioned(r, to, code, entry)
<1>0. /\ r \in InstallJobReceipt
      /\ ValidReceipt(r)
      /\ CancelFits(r)
      /\ r.revision + 1 \in Nat
  BY DEF Sound, InstallJobReceipt
<1>1. r.phase \notin TerminalPhases
  BY DEF MayTransition, NextPhase
<1>2. IsActive(r)
  BY <1>0, <1>1, JobsAssumption DEF IsActive, IsTerminal
<1>3. to \in InstallPhase
  <2>1. r.phase \in ActivePhases
    BY <1>0, <1>1 DEF ActivePhases, InstallJobReceipt
  <2>2. Step[r.phase] \in SUBSET InstallPhase
    BY <2>1 DEF Step, ActivePhases, InstallPhase, TerminalPhases
  <2> QED BY <1>1, <2>2 DEF MayTransition, NextPhase, InstallPhase
<1>4. n \in InstallJobReceipt
  <2> DEFINE root == r.preflight_root_mode \/ LearnsRootMode(r, to)
             bytes == r.actual_apk_bytes \/ LearnsApkBytes(r, to)
             health == IF to = "healthy_unclaimed" THEN TRUE
                       ELSE IF r.phase = "healthy_unclaimed"
                                 /\ to = "recovery_required"
                            THEN FALSE ELSE r.health_checked_at
             stage == IF to \in {"failed", "recovery_required"}
                      THEN r.phase ELSE None
  <2>1. root \in BOOLEAN /\ bytes \in BOOLEAN
    OBVIOUS
  <2>2. health \in BOOLEAN
    BY <1>0 DEF InstallJobReceipt
  <2>3. stage \in InstallPhase \cup {None}
    BY <1>0 DEF InstallJobReceipt
  <2> DEFINE phased == [r EXCEPT !.revision = r.revision + 1, !.phase = to]
             learned == [phased EXCEPT !.preflight_root_mode = root,
                                       !.actual_apk_bytes = bytes]
             checked == [learned EXCEPT !.health_checked_at = health,
                                        !.result_code = code]
  <2>4. n = [checked EXCEPT !.failure_stage = stage, !.consumed_entry_id = entry]
    BY DEF Transitioned
  <2> HIDE DEF root, bytes, health, stage, n
  <2>5. phased \in InstallJobReceipt
    BY <1>0, <1>3 DEF InstallJobReceipt
  <2> HIDE DEF phased
  <2>6. learned \in InstallJobReceipt
    BY <2>1, <2>5 DEF InstallJobReceipt
  <2> HIDE DEF learned
  <2>7. checked \in InstallJobReceipt
    BY <2>2, <2>6 DEF InstallJobReceipt
  <2> HIDE DEF checked
  <2> QED
    BY <2>3, <2>4, <2>7 DEF InstallJobReceipt
<1>5. ValidReceipt(n)
  BY DEF MayTransition
<1>6. /\ n.plan = r.plan
      /\ n.phase = to
      /\ n.revision = r.revision + 1
      /\ n.executor_generation = r.executor_generation
      /\ n.cancel_requested = r.cancel_requested
  BY <1>0 DEF Transitioned, InstallJobReceipt
<1>7. CancelFits(n)
  BY <1>6 DEF CancelFits, MayTransition
<1>8. n # NoReceipt
  BY <1>4, JobsAssumption
<1> QED BY <1>2, <1>4, <1>5, <1>6, <1>7, <1>8 DEF Sound

-----------------------------------------------------------------------------
(***************************************************************************)
(* One document.                                                           *)
(***************************************************************************)

AllSound(doc) == \A j \in Jobs : doc[j] # NoReceipt => Sound(doc[j])
Disjoint(doc) ==
  \A j, k \in ActiveJobs(doc) : j # k => ~SamePanel(doc[j].plan, doc[k].plan)
Bounded(doc) ==
  /\ Cardinality(ActiveJobs(doc)) <= MaxActive
  /\ Cardinality(TerminalJobs(doc)) <= MaxTerminal

\* A document the store accepts, strengthened to be inductive.
Good(doc) == doc \in Documents /\ AllSound(doc) /\ Disjoint(doc) /\ Bounded(doc)

\* Sets of jobs are finite, and a smaller one has no more members.
LEMMA JobSets ==
  ASSUME NEW S \in SUBSET Jobs, NEW T \in SUBSET S
  PROVE  /\ IsFiniteSet(S) /\ IsFiniteSet(T)
         /\ Cardinality(S) \in Nat /\ Cardinality(T) \in Nat
         /\ Cardinality(T) <= Cardinality(S)
<1>1. IsFiniteSet(S) /\ IsFiniteSet(T)
  BY JobsAssumption, FS_Subset
<1> QED BY <1>1, FS_CardinalityType, FS_Subset

\* Pruning drops finished jobs only, and never the job being written.
LEMMA PruneFacts ==
  ASSUME NEW doc \in Documents, NEW j \in Jobs, NEW D \in Prunes(doc, j)
  PROVE  /\ Without(doc, D) \in Documents
         /\ ActiveJobs(Without(doc, D)) = ActiveJobs(doc)
         /\ TerminalJobs(Without(doc, D)) = TerminalJobs(doc) \ D
         /\ Without(doc, D)[j] = doc[j]
         /\ \A k \in Jobs : \/ Without(doc, D)[k] = doc[k]
                            \/ /\ Without(doc, D)[k] = NoReceipt
                               /\ k \in TerminalJobs(doc)
<1>1. D \subseteq TerminalJobs(doc) \ {j}
  BY DEF Prunes
<1>2. \A k \in Jobs : Without(doc, D)[k] = IF k \in D THEN NoReceipt ELSE doc[k]
  BY DEF Without
<1>3. Without(doc, D) \in Documents
  BY DEF Without, Documents
<1> QED BY <1>1, <1>2, <1>3 DEF ActiveJobs, TerminalJobs, IsActive

\* Pruning a document whose active jobs are in order makes it good.
LEMMA PruneGood ==
  ASSUME NEW doc \in Documents, NEW j \in Jobs, NEW D \in Prunes(doc, j),
         AllSound(doc), Disjoint(doc), Cardinality(ActiveJobs(doc)) <= MaxActive
  PROVE  Good(Without(doc, D))
<1>1. AllSound(Without(doc, D))
  BY PruneFacts DEF AllSound
<1>2. Disjoint(Without(doc, D))
  BY PruneFacts DEF Disjoint, ActiveJobs, TerminalJobs, IsActive
<1>3. Bounded(Without(doc, D))
  BY PruneFacts DEF Bounded, Prunes
<1> QED BY <1>1, <1>2, <1>3, PruneFacts DEF Good

\* Rewriting an active receipt for the same panel keeps active jobs in order.
LEMMA RewriteFacts ==
  ASSUME NEW doc, Good(doc), NEW j \in Jobs, IsActive(doc[j]),
         NEW r, Sound(r), r.plan = doc[j].plan
  PROVE  LET new == [doc EXCEPT ![j] = r]
         IN  /\ new \in Documents /\ AllSound(new) /\ Disjoint(new)
             /\ Cardinality(ActiveJobs(new)) <= MaxActive
             /\ ActiveJobs(new) \subseteq ActiveJobs(doc)
             /\ new[j] = r
             /\ \A k \in Jobs : k # j => new[k] = doc[k]
<1> DEFINE new == [doc EXCEPT ![j] = r]
<1>0. doc \in Documents /\ r \in InstallJobReceipt
  BY DEF Good, Sound
<1>1. /\ new[j] = r
      /\ \A k \in Jobs : k # j => new[k] = doc[k]
      /\ new \in Documents
  BY <1>0 DEF Documents
<1> HIDE DEF new
<1>2. AllSound(new)
  BY <1>1 DEF AllSound, Good
<1>3. ActiveJobs(new) \subseteq ActiveJobs(doc)
  BY <1>1 DEF ActiveJobs
<1>4. Disjoint(new)
  <2>1. \A k \in ActiveJobs(new) : new[k].plan = doc[k].plan
    BY <1>1 DEF ActiveJobs
  <2>2. Disjoint(doc)
    BY DEF Good
  <2> QED BY <1>3, <2>1, <2>2 DEF Disjoint
<1>5. Cardinality(ActiveJobs(new)) <= MaxActive
  <2>1. ActiveJobs(doc) \in SUBSET Jobs
    BY DEF ActiveJobs
  <2>2. Cardinality(ActiveJobs(doc)) <= MaxActive
    BY DEF Good, Bounded
  <2>3. /\ Cardinality(ActiveJobs(new)) <= Cardinality(ActiveJobs(doc))
        /\ Cardinality(ActiveJobs(new)) \in Nat
        /\ Cardinality(ActiveJobs(doc)) \in Nat
    BY <1>3, <2>1, JobSets
  <2> QED BY <2>2, <2>3, JobsAssumption
<1> QED BY <1>1, <1>2, <1>3, <1>4, <1>5 DEF new

-----------------------------------------------------------------------------
(***************************************************************************)
(* What every write leaves: a good document, claims that fit it, and only  *)
(* changes a version-counted receipt may undergo.                          *)
(***************************************************************************)

Claims == [Jobs -> Nat \cup {NoClaim}]

\* Claims stand on live receipts of their own generation.
Fits(claims, doc) ==
  \A j \in Jobs : claims[j] # NoClaim =>
    Claimable(doc[j]) /\ claims[j] = doc[j].executor_generation

Issued(doc, ids) == \A j \in Jobs : doc[j] # NoReceipt => j \in ids

\* What one write may do to one stored receipt.
Changes(r, s) ==
  \/ s = r
  \/ r = NoReceipt
  \/ IsTerminal(r) /\ s = NoReceipt
  \/ IsActive(r) /\ s # NoReceipt /\ s.revision = r.revision + 1

\* What one write may do to a job whose mutating phase lost its claim.
Quarantines(doc, claims) ==
  \A j \in Jobs :
    durable[j] # NoReceipt /\ durable[j].phase \in RestartAmbiguousPhases
      /\ ~Holds(j)
      => \/ doc[j].phase = "recovery_required"
         \/ doc[j].phase = durable[j].phase /\ claims[j] = NoClaim

IInv ==
  /\ TypeOK
  /\ Good(durable)
  /\ AuthorityIsDurable
  /\ Issued(durable, issued)

\* A document and claims that may replace the current ones.
Succeeds(doc, claims, ids) ==
  /\ Good(doc)
  /\ claims \in Claims
  /\ Fits(claims, doc)
  /\ issued \subseteq ids /\ ids \subseteq Jobs /\ Issued(doc, ids)
  /\ \A j \in Jobs : Changes(durable[j], doc[j])
  /\ Quarantines(doc, claims)

\* Reconciled claims fit the document they are reconciled with.
LEMMA ReconciledFits ==
  ASSUME NEW doc \in Documents, NEW claims \in Claims
  PROVE  /\ Reconciled(claims, doc) \in Claims
         /\ Fits(Reconciled(claims, doc), doc)
         /\ \A j \in Jobs :
              Reconciled(claims, doc)[j] \in {claims[j], NoClaim}
         /\ \A j \in Jobs :
              claims[j] # doc[j].executor_generation =>
                Reconciled(claims, doc)[j] = NoClaim
  BY DEF Reconciled, Claims, Fits, Claimable

\* Pruning removes no receipt a claim stands on.
LEMMA PruneFits ==
  ASSUME NEW doc \in Documents, NEW j \in Jobs, NEW D \in Prunes(doc, j),
         NEW claims, Fits(claims, doc)
  PROVE  Fits(claims, Without(doc, D))
  BY PruneFacts DEF Fits, Claimable, IsActive, TerminalJobs

\* What the invariant says of claims and stored receipts.
LEMMA InvFacts ==
  ASSUME IInv
  PROVE  /\ durable \in Documents
         /\ claimed \in Claims
         /\ \A j \in Jobs : claimed[j] # NoClaim =>
              Claimable(durable[j]) /\ Holds(j)
         /\ \A j \in Jobs : durable[j] # NoReceipt =>
              Sound(durable[j]) /\ durable[j].executor_generation \in Nat
  BY DEF IInv, TypeOK, Claims, AuthorityIsDurable, Good, AllSound, Sound,
         InstallJobReceipt

\* A claim this process lacks stays away when claims are reconciled with the
\* stored document.
LEMMA ReadSucceeds ==
  ASSUME IInv
  PROVE  Succeeds(durable, Reconciled(claimed, durable), issued)
<1>1. Good(durable) /\ Issued(durable, issued) /\ issued \subseteq Jobs
  BY DEF IInv, TypeOK
<1>2. Quarantines(durable, Reconciled(claimed, durable))
  BY InvFacts, ReconciledFits DEF Quarantines, Holds
<1> QED BY <1>1, <1>2, InvFacts, ReconciledFits DEF Succeeds, Changes

\* A created job is another active one, on a panel no active job reaches.
LEMMA CreateSucceeds ==
  ASSUME IInv, NEW plan \in Plans, HasRoom(durable),
         PanelFree(durable, plan),
         NEW j \in Jobs \ issued, NEW D \in Prunes(durable, j)
  PROVE  Succeeds([Without(durable, D) EXCEPT ![j] = ApprovedReceipt(plan)],
                  Reconciled(claimed, durable), issued \cup {j})
<1> DEFINE old == Without(durable, D)
           r == ApprovedReceipt(plan)
           new == [old EXCEPT ![j] = r]
           claims == Reconciled(claimed, durable)
<1>0. /\ durable \in Documents
      /\ claimed \in Claims
      /\ durable[j] = NoReceipt
      /\ Issued(durable, issued) /\ issued \subseteq Jobs
  BY InvFacts DEF IInv, TypeOK, Issued
<1>1. Good(old)
  BY <1>0, PruneGood DEF IInv, Good, Bounded
<1>2. /\ old \in Documents
      /\ ActiveJobs(old) = ActiveJobs(durable)
      /\ TerminalJobs(old) = TerminalJobs(durable) \ D
      /\ old[j] = NoReceipt
      /\ \A k \in Jobs : \/ old[k] = durable[k]
                         \/ old[k] = NoReceipt /\ k \in TerminalJobs(durable)
  BY <1>0, PruneFacts
<1>3. Sound(r) /\ IsActive(r) /\ r # NoReceipt
  BY ApprovedSound DEF IsActive
<1>4. /\ new \in Documents
      /\ new[j] = r
      /\ \A k \in Jobs : k # j => new[k] = old[k]
  BY <1>2, <1>3 DEF Documents, Sound
<1>5. claims \in Claims /\ Fits(claims, durable) /\ claims[j] = NoClaim
  BY <1>0, ReconciledFits DEF Fits, Claimable, IsActive
<1> HIDE DEF old, r, new, claims
<1>6. Good(new)
  <2>1. AllSound(new)
    BY <1>1, <1>3, <1>4 DEF AllSound, Good
  <2>2. ActiveJobs(new) = ActiveJobs(durable) \cup {j}
    BY <1>2, <1>3, <1>4 DEF ActiveJobs
  <2>3. TerminalJobs(new) = TerminalJobs(old)
    BY <1>2, <1>3, <1>4 DEF TerminalJobs, IsActive
  <2>4. Cardinality(ActiveJobs(new)) <= MaxActive
    <3>1. j \notin ActiveJobs(durable) /\ ActiveJobs(durable) \in SUBSET Jobs
      BY <1>0 DEF ActiveJobs, IsActive
    <3>2. /\ IsFiniteSet(ActiveJobs(durable))
          /\ Cardinality(ActiveJobs(durable)) \in Nat
      BY <3>1, JobSets
    <3>3. Cardinality(ActiveJobs(new)) = Cardinality(ActiveJobs(durable)) + 1
      BY <2>2, <3>1, <3>2, FS_AddElement
    <3> QED BY <3>2, <3>3, JobsAssumption DEF HasRoom
  <2>5. Cardinality(TerminalJobs(new)) <= MaxTerminal
    BY <1>1, <2>3 DEF Good, Bounded
  <2>6. Disjoint(new)
    <3>1. new[j].plan = plan
      BY <1>4 DEF r, ApprovedReceipt
    <3>2. \A k \in ActiveJobs(durable) : k # j /\ new[k] = durable[k]
      BY <1>0, <1>2, <1>4 DEF ActiveJobs, IsActive, TerminalJobs
    <3>3. \A p, q : SamePanel(p, q) => SamePanel(q, p)
      BY DEF SamePanel
    <3>4. Disjoint(durable)
      BY DEF IInv, Good
    <3> QED BY <2>2, <3>1, <3>2, <3>3, <3>4 DEF Disjoint, PanelFree
  <2> QED BY <1>4, <2>1, <2>4, <2>5, <2>6 DEF Good, Bounded
<1>7. Fits(claims, new)
  BY <1>2, <1>4, <1>5 DEF Fits, Claimable, IsActive, TerminalJobs
<1>8. Issued(new, issued \cup {j})
  BY <1>0, <1>2, <1>4 DEF Issued, TerminalJobs
<1>9. \A k \in Jobs : Changes(durable[k], new[k])
  BY <1>0, <1>2, <1>4 DEF Changes, TerminalJobs
<1>10. Quarantines(new, claims)
  <2>1. ASSUME NEW k \in Jobs, durable[k] # NoReceipt, ~Holds(k),
               durable[k].phase \in RestartAmbiguousPhases
        PROVE  new[k].phase = durable[k].phase /\ claims[k] = NoClaim
    <3>1. k \notin TerminalJobs(durable) /\ k # j
      BY <1>0, <2>1
      DEF TerminalJobs, IsTerminal, TerminalPhases, RestartAmbiguousPhases
    <3>2. claims[k] = NoClaim
      BY <1>0, <2>1, ReconciledFits DEF Holds, claims
    <3> QED BY <1>2, <1>4, <3>1, <3>2
  <2> QED BY <2>1 DEF Quarantines
<1> QED BY <1>0, <1>4, <1>5, <1>6, <1>7, <1>8, <1>9, <1>10
        DEF Succeeds, old, r, new, claims

\* A requested cancellation leaves every claim where it was.
LEMMA CancelSucceeds ==
  ASSUME IInv, NEW j \in Jobs, durable[j] # NoReceipt,
         durable[j].phase \in CancellablePhases
  PROVE  Succeeds([durable EXCEPT ![j] = CancelRequested(@)],
                  Reconciled(claimed, durable), issued)
<1> DEFINE r == CancelRequested(durable[j])
           new == [durable EXCEPT ![j] = r]
           claims == Reconciled(claimed, durable)
<1>0. /\ durable \in Documents
      /\ claimed \in Claims
      /\ Sound(durable[j])
      /\ Good(durable)
      /\ Issued(durable, issued) /\ issued \subseteq Jobs
  BY InvFacts DEF IInv, TypeOK
<1>1. /\ Sound(r) /\ IsActive(r) /\ r # NoReceipt
      /\ r.plan = durable[j].plan
      /\ r.phase = durable[j].phase
      /\ r.executor_generation = durable[j].executor_generation
      /\ r.revision = durable[j].revision + 1
  BY <1>0, CancelRequestedSound DEF IsActive
<1>2. IsActive(durable[j])
  BY DEF IsActive, IsTerminal, CancellablePhases, TerminalPhases
<1> HIDE DEF r
<1>3. /\ new \in Documents /\ AllSound(new) /\ Disjoint(new)
      /\ Cardinality(ActiveJobs(new)) <= MaxActive
      /\ new[j] = r
      /\ \A k \in Jobs : k # j => new[k] = durable[k]
  BY <1>0, <1>1, <1>2, RewriteFacts
<1>4. claims \in Claims /\ Fits(claims, durable)
  BY <1>0, ReconciledFits
<1>5. \A k \in Jobs : ~Holds(k) => claims[k] = NoClaim
  BY <1>0, ReconciledFits DEF Holds
<1> HIDE DEF new, claims
<1>6. TerminalJobs(new) = TerminalJobs(durable)
  BY <1>1, <1>2, <1>3 DEF TerminalJobs, IsActive
<1>7. Good(new)
  BY <1>0, <1>3, <1>6 DEF Good, Bounded
<1>8. Fits(claims, new)
  BY <1>1, <1>3, <1>4 DEF Fits, Claimable
<1>9. Issued(new, issued) /\ \A k \in Jobs : Changes(durable[k], new[k])
  BY <1>0, <1>1, <1>2, <1>3 DEF Issued, Changes
<1>10. Quarantines(new, claims)
  BY <1>1, <1>3, <1>5 DEF Quarantines
<1> QED BY <1>0, <1>4, <1>7, <1>8, <1>9, <1>10 DEF Succeeds, r, new, claims

\* A claim or a transition rewrites one active receipt and prunes finished
\* ones.
LEMMA RewriteSucceeds ==
  ASSUME IInv, NEW j \in Jobs, IsActive(durable[j]),
         NEW r, Sound(r), r.plan = durable[j].plan,
         r.revision = durable[j].revision + 1,
         NEW c \in Claims, \A k \in Jobs : k # j => c[k] = claimed[k],
         durable[j].phase \in RestartAmbiguousPhases /\ ~Holds(j)
           => r.phase = "recovery_required",
         NEW D \in Prunes([durable EXCEPT ![j] = r], j)
  PROVE  Succeeds(Without([durable EXCEPT ![j] = r], D),
                  Reconciled(c, [durable EXCEPT ![j] = r]), issued)
<1> DEFINE new == [durable EXCEPT ![j] = r]
           out == Without(new, D)
           claims == Reconciled(c, new)
<1>0. /\ durable \in Documents
      /\ Good(durable)
      /\ Issued(durable, issued) /\ issued \subseteq Jobs
      /\ durable[j] # NoReceipt
      /\ r # NoReceipt
  BY InvFacts, JobsAssumption DEF IInv, TypeOK, IsActive, Sound
<1>1. /\ new \in Documents /\ AllSound(new) /\ Disjoint(new)
      /\ Cardinality(ActiveJobs(new)) <= MaxActive
      /\ new[j] = r
      /\ \A k \in Jobs : k # j => new[k] = durable[k]
  BY <1>0, RewriteFacts
<1>2. /\ claims \in Claims /\ Fits(claims, new)
      /\ \A k \in Jobs : c[k] # new[k].executor_generation => claims[k] = NoClaim
  BY <1>1, ReconciledFits
<1> HIDE DEF new, claims
<1>3. D \in Prunes(new, j)
  BY DEF new
<1>4. Good(out) /\ Fits(claims, out)
  BY <1>1, <1>2, <1>3, PruneGood, PruneFits
<1>5. /\ out[j] = r
      /\ \A k \in Jobs : \/ out[k] = new[k]
                         \/ out[k] = NoReceipt /\ k \in TerminalJobs(new)
  BY <1>1, <1>3, PruneFacts
<1> HIDE DEF out
<1>6. Issued(out, issued)
  BY <1>0, <1>1, <1>5 DEF Issued, TerminalJobs
<1>7. \A k \in Jobs : Changes(durable[k], out[k])
  BY <1>0, <1>1, <1>5 DEF Changes, TerminalJobs
<1>8. Quarantines(out, claims)
  <2>1. ASSUME NEW k \in Jobs, durable[k] # NoReceipt, ~Holds(k), k # j,
               durable[k].phase \in RestartAmbiguousPhases
        PROVE  out[k].phase = durable[k].phase /\ claims[k] = NoClaim
    <3>1. new[k] = durable[k] /\ c[k] = claimed[k]
      BY <1>1, <2>1
    <3>2. k \notin TerminalJobs(new)
      BY <2>1, <3>1
      DEF TerminalJobs, IsTerminal, TerminalPhases, RestartAmbiguousPhases
    <3>3. claims[k] = NoClaim
      BY <1>2, <2>1, <3>1 DEF Holds
    <3> QED BY <1>5, <3>1, <3>2, <3>3
  <2> QED BY <1>5, <2>1 DEF Quarantines
<1> QED BY <1>0, <1>2, <1>4, <1>6, <1>7, <1>8
        DEF Succeeds, new, out, claims

-----------------------------------------------------------------------------
(***************************************************************************)
(* Steps.                                                                  *)
(***************************************************************************)

\* What any step does to the document on disk and to the claims.
Lawful ==
  /\ \A j \in Jobs : Changes(durable[j], durable'[j])
  /\ Quarantines(durable', claimed')

\* A save whose document and claims may replace the current ones.
LEMMA SaveKeeps ==
  ASSUME IInv, NEW doc, NEW claims, Succeeds(doc, claims, issued'),
         Save(doc, claims)
  PROVE  IInv' /\ Lawful
<1>0. /\ doc \in Documents /\ durable \in Documents
      /\ issued' \subseteq Jobs
      /\ Issued(durable, issued') /\ Issued(doc, issued')
  BY DEF Succeeds, IInv, TypeOK, Good, Issued
<1>1. CASE durable' = doc /\ cache' = doc /\ claimed' = claims
  <2>1. TypeOK'
    BY <1>0, <1>1 DEF TypeOK, Succeeds, Claims
  <2>2. AuthorityIsDurable'
    BY <1>0, <1>1, JobsAssumption
    DEF AuthorityIsDurable, Succeeds, Fits, Holds
  <2>3. Good(durable') /\ Issued(durable', issued')
    BY <1>0, <1>1 DEF Succeeds
  <2>4. IInv'
    BY <2>1, <2>2, <2>3 DEF IInv, Good, Issued, Documents, AllSound, Disjoint,
       Bounded
  <2> QED BY <1>1, <2>4 DEF Succeeds, Lawful
<1>2. CASE durable' \in {durable, doc} /\ Forget
  <2>1. /\ cache' = NoCache
        /\ claimed' \in Claims
        /\ \A j \in Jobs : claimed'[j] = NoClaim
    BY <1>2 DEF Forget, NoClaims, Claims
  <2>2. TypeOK' /\ AuthorityIsDurable'
    BY <1>0, <1>2, <2>1 DEF TypeOK, AuthorityIsDurable, Claims
  <2>3. Good(durable') /\ Issued(durable', issued')
    BY <1>0, <1>2 DEF Succeeds, IInv
  <2>4. IInv'
    BY <2>2, <2>3 DEF IInv, Good, Issued, Documents, AllSound, Disjoint,
       Bounded
  <2>5. \A j \in Jobs : Changes(durable[j], durable'[j])
    BY <1>2 DEF Succeeds, Changes
  <2>6. Quarantines(durable', claimed')
    BY <1>2, <2>1 DEF Succeeds, Quarantines
  <2> QED BY <2>4, <2>5, <2>6 DEF Lawful
<1> QED BY <1>1, <1>2 DEF Save

\* Every step of the manager keeps the invariant and is lawful.
LEMMA StepKeeps ==
  ASSUME IInv, [Next]_jobVars
  PROVE  IInv' /\ Lawful
<1>1. CASE Refresh
  <2>1. /\ Save(durable, Reconciled(claimed, durable))
        /\ issued' = issued
    BY <1>1 DEF Refresh, Save
  <2> QED BY <2>1, ReadSucceeds, SaveKeeps
<1>2. CASE LoseCache
  <2>1. /\ Save(durable, Reconciled(claimed, durable))
        /\ issued' = issued
    BY <1>2 DEF LoseCache, Save
  <2> QED BY <2>1, ReadSucceeds, SaveKeeps
<1>3. ASSUME NEW plan \in Plans, Create(plan)
      PROVE  IInv' /\ Lawful
  <2>1. PICK j \in Jobs \ issued :
          /\ \E D \in Prunes(durable, j) :
               Save([Without(durable, D) EXCEPT ![j] = ApprovedReceipt(plan)],
                    Reconciled(claimed, durable))
          /\ issued' = issued \cup {j}
    BY <1>3 DEF Create, Creating, Commit
  <2>2. PICK D \in Prunes(durable, j) :
          Save([Without(durable, D) EXCEPT ![j] = ApprovedReceipt(plan)],
               Reconciled(claimed, durable))
    BY <2>1
  <2>3. Succeeds([Without(durable, D) EXCEPT ![j] = ApprovedReceipt(plan)],
                 Reconciled(claimed, durable), issued')
    BY <1>3, <2>1, CreateSucceeds DEF Create, Creating
  <2> QED BY <2>2, <2>3, SaveKeeps
<1>4. ASSUME NEW j \in Jobs, RequestCancel(j)
      PROVE  IInv' /\ Lawful
  <2>1. Succeeds([durable EXCEPT ![j] = CancelRequested(@)],
                 Reconciled(claimed, durable), issued')
    BY <1>4, CancelSucceeds DEF RequestCancel, Cancelling, Commit
  <2> QED BY <1>4, <2>1, SaveKeeps DEF RequestCancel, Cancelling, Commit
<1>5. ASSUME NEW j \in Jobs, NEW cleaned \in BOOLEAN, Claim(j, cleaned)
      PROVE  IInv' /\ Lawful
  <2> DEFINE r == Claimed(durable[j])
             doc == [durable EXCEPT ![j] = r]
             c == [claimed EXCEPT ![j] = doc[j].executor_generation]
  <2>1. Claimable(durable[j]) /\ ~Holds(j) /\ issued' = issued
    BY <1>5 DEF Claim, Claiming, Commit
  <2>2. IsActive(durable[j]) /\ Sound(durable[j])
    BY <2>1, InvFacts DEF Claimable, IsActive
  <2>3. /\ Sound(r) /\ r # NoReceipt
        /\ r.plan = durable[j].plan
        /\ r.revision = durable[j].revision + 1
        /\ durable[j].phase \in RestartAmbiguousPhases
             => r.phase = "recovery_required"
    BY <2>1, <2>2, ClaimedSound
  <2>4. PICK D \in Prunes(doc, j) : Save(Without(doc, D), Reconciled(c, doc))
    BY <1>5 DEF Claim, Claiming, Commit
  <2>5. c \in Claims /\ \A k \in Jobs : k # j => c[k] = claimed[k]
    <3>1. doc[j] = r
      BY InvFacts DEF Documents
    <3>2. doc[j].executor_generation \in Nat
      BY <2>3, <3>1 DEF Sound, InstallJobReceipt
    <3> QED BY <3>2, InvFacts DEF Claims
  <2>6. Succeeds(Without(doc, D), Reconciled(c, doc), issued')
    <3> HIDE DEF r, c
    <3> QED BY <2>1, <2>2, <2>3, <2>5, RewriteSucceeds
  <2> QED BY <2>4, <2>6, SaveKeeps
<1>6. ASSUME NEW j \in Jobs, durable[j] # NoReceipt, NEW to,
             NEW code \in InstallResultCode \cup {None},
             NEW entry \in Entries \cup {None}, Transition(j, to, code, entry)
      PROVE  IInv' /\ Lawful
  <2> DEFINE r == Transitioned(durable[j], to, code, entry)
             doc == [durable EXCEPT ![j] = r]
  <2>1. /\ Sound(durable[j]) /\ issued' = issued
        /\ MayTransition(durable[j], to, code, entry)
        /\ MayAct(j, to)
    BY <1>6, InvFacts DEF Transition, Transitioning, Commit
  <2>2. /\ Sound(r) /\ r # NoReceipt /\ IsActive(durable[j])
        /\ r.plan = durable[j].plan
        /\ r.revision = durable[j].revision + 1
    BY <2>1, TransitionedSound
  <2>3. PICK D \in Prunes(doc, j) :
          Save(Without(doc, D), Reconciled(claimed, doc))
    BY <1>6 DEF Transition, Transitioning, Commit
  <2>4. durable[j].phase \in RestartAmbiguousPhases => Holds(j)
    BY <2>1 DEF MayAct, RestartAmbiguousPhases
  <2>5. Succeeds(Without(doc, D), Reconciled(claimed, doc), issued')
    <3> HIDE DEF r
    <3> QED BY <2>1, <2>2, <2>4, InvFacts, RewriteSucceeds
  <2> QED BY <2>3, <2>5, SaveKeeps
<1>7. CASE UNCHANGED jobVars
  <2>1. IInv'
    BY <1>7 DEF jobVars, IInv, TypeOK, Good, AuthorityIsDurable, Issued, Holds,
       AllSound, Disjoint, Bounded
  <2>2. Lawful
    BY <1>7, InvFacts DEF jobVars, Lawful, Changes, Quarantines
  <2> QED BY <2>1, <2>2
<1> QED BY <1>1, <1>2, <1>3, <1>4, <1>5, <1>6, <1>7 DEF Next

\* The empty store.
LEMMA InitKeeps == Init => IInv
<1> SUFFICES ASSUME Init PROVE IInv
  OBVIOUS
<1>1. durable \in Documents /\ \A j \in Jobs : durable[j] = NoReceipt
  BY DEF Init, Documents
<1>2. ActiveJobs(durable) = {} /\ TerminalJobs(durable) = {}
  BY <1>1 DEF ActiveJobs, TerminalJobs, IsActive
<1>3. Good(durable)
  BY <1>1, <1>2, FS_EmptySet, JobsAssumption
  DEF Good, AllSound, Disjoint, Bounded
<1>4. TypeOK /\ AuthorityIsDurable /\ Issued(durable, issued)
  BY <1>1 DEF Init, NoClaims, TypeOK, AuthorityIsDurable, Issued
<1> QED BY <1>3, <1>4 DEF IInv

\* The invariant holds throughout every behaviour.
LEMMA SpecKeeps == Spec => []IInv
<1>1. IInv /\ [Next]_jobVars => IInv'
  BY StepKeeps
<1> QED BY <1>1, InitKeeps, PTL DEF Spec

-----------------------------------------------------------------------------
(***************************************************************************)
(* The theorems.                                                           *)
(***************************************************************************)

\* Every reachable document, cache and claim has its declared shape
\* (InstallJobReceipt, InstallJobManager).
THEOREM TypeCorrect == Spec => []TypeOK
<1>1. IInv => TypeOK
  BY DEF IInv
<1> QED BY <1>1, SpecKeeps, PTL

\* No sequence of operations, failures and restarts leaves a file on disk that
\* _parse_document refuses.
THEOREM StoreIsReadable == Spec => []StoreReadable
<1>1. IInv => StoreReadable
  BY DEF IInv, Good, AllSound, Sound, Disjoint, Bounded, StoreReadable, Readable
<1> QED BY <1>1, SpecKeeps, PTL

\* A verified read and every claim agree with the file (_reconcile_claims,
\* _invalidate_cache).
THEOREM AuthorityHolds == Spec => []AuthorityIsDurable
<1>1. IInv => AuthorityIsDurable
  BY DEF IInv
<1> QED BY <1>1, SpecKeeps, PTL

\* No accepted cancellation is ever recorded past staging (async_transition).
THEOREM CancellationPrecedesInstall == Spec => []CancelPrecedesInstall
<1>1. IInv => CancelPrecedesInstall
  BY DEF IInv, Good, AllSound, Sound, CancelFits, CancelPrecedesInstall
<1> QED BY <1>1, SpecKeeps, PTL

\* A finished receipt is never rewritten.
THEOREM FinishedIsFinal == Spec => TerminalIsFinal
<1>1. IInv /\ [Next]_jobVars =>
        [\A j \in TerminalJobs(durable) :
           durable'[j] \in {durable[j], NoReceipt}]_jobVars
  <2> SUFFICES ASSUME IInv, [Next]_jobVars
               PROVE  \A j \in TerminalJobs(durable) :
                        durable'[j] \in {durable[j], NoReceipt}
    OBVIOUS
  <2>1. \A j \in Jobs : Changes(durable[j], durable'[j])
    BY StepKeeps DEF Lawful
  <2> QED BY <2>1 DEF Changes, TerminalJobs, IsActive
<1> QED BY <1>1, SpecKeeps, PTL DEF Spec, TerminalIsFinal

\* Two different receipts of a job never share a revision, so comparing the
\* revision is comparing the receipt (_checked_current).
THEOREM RevisionCounts == Spec => RevisionIsVersion
<1>1. IInv /\ [Next]_jobVars =>
        [\A j \in Jobs :
           durable[j] # NoReceipt /\ durable'[j] \notin {durable[j], NoReceipt}
             => durable'[j].revision = durable[j].revision + 1]_jobVars
  <2> SUFFICES ASSUME IInv, [Next]_jobVars, NEW j \in Jobs,
                      durable[j] # NoReceipt,
                      durable'[j] \notin {durable[j], NoReceipt}
               PROVE  durable'[j].revision = durable[j].revision + 1
    OBVIOUS
  <2>1. Changes(durable[j], durable'[j])
    BY StepKeeps DEF Lawful
  <2> QED BY <2>1 DEF Changes
<1> QED BY <1>1, SpecKeeps, PTL DEF Spec, RevisionIsVersion

\* A mutating phase whose claim is gone is only ever quarantined (async_claim).
THEOREM InterruptedIsQuarantined == Spec => InterruptedMutationIsQuarantined
<1> DEFINE Quarantined ==
      \A j \in Jobs :
        /\ durable[j] # NoReceipt
        /\ durable[j].phase \in {"staging", "installing", "launching"}
        /\ ~Holds(j)
        => \/ durable'[j].phase = durable[j].phase /\ ~Holds(j)'
           \/ durable'[j].phase = "recovery_required"
<1>1. IInv /\ [Next]_jobVars => [Quarantined]_jobVars
  <2> SUFFICES ASSUME IInv, [Next]_jobVars PROVE Quarantined
    OBVIOUS
  <2>1. Quarantines(durable', claimed') /\ IInv'
    BY StepKeeps DEF Lawful
  <2>2. ASSUME NEW j \in Jobs, durable[j] # NoReceipt,
               durable[j].phase \in RestartAmbiguousPhases
        PROVE  durable'[j].executor_generation # NoClaim
    <3>1. ~IsTerminal(durable[j]) /\ Changes(durable[j], durable'[j])
      BY <2>2, StepKeeps
      DEF Lawful, IsTerminal, TerminalPhases, RestartAmbiguousPhases
    <3>2. durable'[j] # NoReceipt
      BY <2>2, <3>1 DEF Changes
    <3>3. durable'[j] \in InstallJobReceipt
      BY <2>1, <3>2 DEF IInv, Good, AllSound, Sound
    <3> QED BY <3>3, JobsAssumption DEF InstallJobReceipt
  <2> QED BY <2>1, <2>2 DEF Quarantines, RestartAmbiguousPhases, Holds
<1> QED BY <1>1, SpecKeeps, PTL DEF Spec, InterruptedMutationIsQuarantined
=============================================================================
