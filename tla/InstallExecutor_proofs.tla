----------------------- MODULE InstallExecutor_proofs -----------------------
(***************************************************************************)
(* What holds of InstallExecutor for every set of jobs and plans, every    *)
(* bound, any number of restarts and every kind of failure: the package    *)
(* manager runs at most once for a job, the recorded phase tells the truth *)
(* about the panel, and a finished job leaves no file behind.              *)
(*                                                                         *)
(* All rest on one invariant about a job: its stored receipt, its worker,  *)
(* the package-manager runs made and the app on its panel fit each other.  *)
(* The manager's invariant (InstallJobs_proofs) is part of it.  Most steps *)
(* leave the panel alone and at most let receipts drift: stay, move to     *)
(* recovery_required, or be pruned.  The two that do not are the install   *)
(* itself and a transition that its worker asked for.  The file has an     *)
(* invariant and a section of its own, at the end.                         *)
(***************************************************************************)
EXTENDS InstallExecutor, InstallJobs_proofs

-----------------------------------------------------------------------------
(***************************************************************************)
(* The invariant.                                                          *)
(***************************************************************************)

LatePhases == {"installed", "launching", "health_check", "healthy_unclaimed"}
ClaimPcs == {"load", "claim", "clean_claim", "claim_clean"}
AuthorityPcs == {"authority", "verify", "effect"}

\* The worker is on its way to run the package manager.
Armed(w) ==
  /\ \/ w.pc = "loop" /\ w.staged
     \/ w.pc \in AuthorityPcs /\ w.use = "mutate"
  /\ w.rcpt.phase = "installing"

\* The worker knows that the package manager installed nothing.
Declined(w) ==
  /\ \/ w.pc = "refused"
     \/ w.pc \in AuthorityPcs /\ w.use = "cleanup"
     \/ w.pc \in {"clean", "reread", "write"} /\ w.to = "failed"
  /\ w.rcpt.phase = "installing"

\* What a running worker's variables say of its panel: n package-manager runs,
\* app present or not.
WorkerFits(w, n, present) ==
  /\ w \in Workers
  /\ w.pc # "load" => w.rcpt \in InstallJobReceipt
  /\ w.pc \in ClaimPcs => ~w.staged
  /\ w.pc = "fetch" => w.rcpt.phase # "installing"
  /\ w.pc \in {"clean", "reread"} => w.to \in {"failed", "recovery_required"}
  /\ Armed(w) => n = 0 /\ ~present
  /\ Declined(w) => ~present
  /\ w.pc = "write" /\ w.to = "installing" => ~present
  /\ w.pc = "write" /\ w.to = "installed" => present

\* The stored receipt is where its worker's snapshot is, or was taken from it.
Follows(r, w) ==
  w.pc # "load" =>
    r = NoReceipt \/ r.phase \in {w.rcpt.phase, "recovery_required"}

\* What a stored receipt says of its panel.
RecordFits(r, n, present) ==
  /\ r # NoReceipt =>
       /\ r.phase \in LatePhases => present
       /\ r.phase = "failed" /\ r.failure_stage = "installing" => ~present
  /\ n # 0 => n = 1 /\ (r = NoReceipt \/ r.phase \notin CancellablePhases)

JobFits(j) ==
  /\ RecordFits(durable[j], installs[j], app[j])
  /\ j \notin issued => worker[j] = NoWorker /\ installs[j] = 0
  /\ worker[j] # NoWorker =>
       /\ WorkerFits(worker[j], installs[j], app[j])
       /\ Follows(durable[j], worker[j])

ExecTyped ==
  /\ worker \in [Jobs -> Workers \cup {NoWorker}]
  /\ installs \in [Jobs -> Nat]
  /\ app \in [Jobs -> BOOLEAN]

ExecInv ==
  /\ IInv
  /\ ExecTyped
  /\ \A j \in Jobs : JobFits(j)

-----------------------------------------------------------------------------
(***************************************************************************)
(* What the manager's operations do to the receipts.                       *)
(***************************************************************************)

\* What may happen to a stored receipt without its worker asking for it.
Drifts(r, s) ==
  \/ s \in {r, NoReceipt}
  \/ /\ r # NoReceipt /\ s # NoReceipt
     /\ \/ s.phase = "recovery_required"
        \/ s.phase = r.phase /\ r.phase \notin TerminalPhases

\* What may happen to a receipt not stored before.
Appears(s) == s = NoReceipt \/ s.phase = "approved"

Drifted(j) ==
  IF j \in issued THEN Drifts(durable[j], durable'[j]) ELSE Appears(durable'[j])

Drift ==
  /\ issued \subseteq issued'
  /\ \A j \in Jobs : Drifted(j)

\* A write that leaves every job drifted leaves the manager's invariant.
LEMMA SaveDrifts ==
  ASSUME IInv, NEW doc, NEW claims, Save(doc, claims), issued \subseteq issued',
         \A j \in Jobs : IF j \in issued THEN Drifts(durable[j], doc[j])
                         ELSE Appears(doc[j])
  PROVE  Drift
<1>1. \A j \in Jobs : j \notin issued => durable[j] = NoReceipt
  BY DEF IInv, Issued
<1> QED BY <1>1 DEF Save, Drift, Drifted, Drifts, Appears

\* Pruning only drops finished receipts, never the written one.
LEMMA WrittenOrSame ==
  ASSUME IInv, NEW j \in Jobs, NEW r \in InstallJobReceipt,
         NEW D \in Prunes([durable EXCEPT ![j] = r], j)
  PROVE  /\ Without([durable EXCEPT ![j] = r], D)[j] = r
         /\ \A k \in Jobs : k # j =>
              Without([durable EXCEPT ![j] = r], D)[k] \in {durable[k], NoReceipt}
<1> DEFINE new == [durable EXCEPT ![j] = r]
<1>1. durable \in Documents /\ r # NoReceipt
  BY InvFacts, JobsAssumption
<1>2. new \in Documents /\ new[j] = r /\ \A k \in Jobs : k # j => new[k] = durable[k]
  BY <1>1 DEF Documents
<1> HIDE DEF new
<1>3. D \in Prunes(new, j)
  BY DEF new
<1>4. Without(new, D)[j] = r
        /\ \A k \in Jobs : k # j => Without(new, D)[k] \in {durable[k], NoReceipt}
  BY <1>2, <1>3, PruneFacts
<1> QED BY <1>4 DEF new

\* A new job is approved; the others stay or, finished, are pruned.
LEMMA CreateDrifts ==
  ASSUME IInv, NEW plan \in Plans, Create(plan)
  PROVE  Drift
<1>1. PICK j \in Jobs \ issued :
        /\ \E D \in Prunes(durable, j) :
             Save([Without(durable, D) EXCEPT ![j] = ApprovedReceipt(plan)],
                  Reconciled(claimed, durable))
        /\ issued' = issued \cup {j}
  BY DEF Create, Creating, Commit
<1>2. PICK D \in Prunes(durable, j) :
        Save([Without(durable, D) EXCEPT ![j] = ApprovedReceipt(plan)],
             Reconciled(claimed, durable))
  BY <1>1
<1> DEFINE old == Without(durable, D)
           doc == [old EXCEPT ![j] = ApprovedReceipt(plan)]
<1>3. durable \in Documents /\ \A k \in Jobs : k \notin issued => durable[k] = NoReceipt
  BY InvFacts DEF IInv, Issued
<1>4. old \in Documents /\ \A k \in Jobs : old[k] \in {durable[k], NoReceipt}
  BY <1>2, <1>3, PruneFacts
<1>5. ApprovedReceipt(plan).phase = "approved"
  BY DEF ApprovedReceipt
<1>6. doc[j].phase = "approved" /\ \A k \in Jobs : k # j => doc[k] = old[k]
  BY <1>4, <1>5 DEF Documents
<1> HIDE DEF doc, old
<1>7. \A k \in Jobs : IF k \in issued THEN Drifts(durable[k], doc[k])
                      ELSE Appears(doc[k])
  BY <1>1, <1>3, <1>4, <1>6 DEF Drifts, Appears
<1>8. Save(doc, Reconciled(claimed, durable)) /\ issued \subseteq issued'
  BY <1>1, <1>2 DEF doc, old
<1> QED BY <1>7, <1>8, SaveDrifts

\* A cancellation keeps its receipt's phase.
LEMMA CancelDrifts ==
  ASSUME IInv, NEW j \in Jobs, RequestCancel(j)
  PROVE  Drift
<1> DEFINE r == CancelRequested(durable[j])
           doc == [durable EXCEPT ![j] = r]
<1>1. /\ durable[j] # NoReceipt
      /\ durable[j].phase \in CancellablePhases
      /\ Save(doc, Reconciled(claimed, durable))
      /\ issued' = issued
  BY DEF RequestCancel, Cancelling, Commit
<1>2. durable \in Documents /\ Sound(durable[j])
        /\ \A k \in Jobs : k \notin issued => durable[k] = NoReceipt
  BY <1>1, InvFacts DEF IInv, Issued
<1>3. r.phase = durable[j].phase /\ IsActive(r)
  BY <1>1, <1>2, CancelRequestedSound
<1>4. doc[j] = r /\ \A k \in Jobs : k # j => doc[k] = durable[k]
  BY <1>2 DEF Documents
<1> HIDE DEF r, doc
<1>5. \A k \in Jobs : IF k \in issued THEN Drifts(durable[k], doc[k])
                      ELSE Appears(doc[k])
  BY <1>1, <1>2, <1>3, <1>4
  DEF Drifts, Appears, IsActive, CancellablePhases, TerminalPhases
<1> QED BY <1>1, <1>5, SaveDrifts

\* A claim keeps its receipt's phase or quarantines it; where it is verified
\* the claimed receipt is what is stored.
LEMMA ClaimDrifts ==
  ASSUME IInv, NEW j \in Jobs, NEW cleaned \in BOOLEAN, Claim(j, cleaned)
  PROVE  /\ Drift
         /\ cache' # NoCache => durable'[j] \in InstallJobReceipt
<1> DEFINE r == Claimed(durable[j])
           doc == [durable EXCEPT ![j] = r]
<1>1. /\ Claimable(durable[j])
      /\ issued' = issued
      /\ \E D \in Prunes(doc, j), c \in {Reconciled([claimed EXCEPT ![j] =
               doc[j].executor_generation], doc)} : Save(Without(doc, D), c)
  BY DEF Claim, Claiming, Commit
<1>2. PICK D \in Prunes(doc, j) :
        Save(Without(doc, D),
             Reconciled([claimed EXCEPT ![j] = doc[j].executor_generation], doc))
  BY <1>1
<1>3. /\ IsActive(durable[j])
      /\ Sound(durable[j])
      /\ \A k \in Jobs : k \notin issued => durable[k] = NoReceipt
  BY <1>1, InvFacts DEF Claimable, IsActive, IInv, Issued
<1>4. /\ r \in InstallJobReceipt /\ r # NoReceipt
      /\ r.phase \in {"recovery_required", durable[j].phase}
  BY <1>1, <1>3, ClaimedSound DEF Sound
<1> HIDE DEF r
<1>5. /\ Without(doc, D)[j] = r
      /\ \A k \in Jobs : k # j => Without(doc, D)[k] \in {durable[k], NoReceipt}
  BY <1>2, <1>4, WrittenOrSame
<1> HIDE DEF doc
<1>6. \A k \in Jobs : IF k \in issued THEN Drifts(durable[k], Without(doc, D)[k])
                      ELSE Appears(Without(doc, D)[k])
  BY <1>3, <1>4, <1>5 DEF Drifts, Appears, IsActive, IsTerminal
<1>7. Drift
  BY <1>1, <1>2, <1>6, SaveDrifts
<1>8. cache' # NoCache => durable'[j] = r
  BY <1>2, <1>5 DEF Save, Forget
<1> QED BY <1>4, <1>7, <1>8

\* What a transition leaves of its own receipt: nothing new, unverified; or the
\* phase it asked for.
LEMMA TransitionMoves ==
  ASSUME IInv, NEW j \in Jobs, NEW to, NEW code \in InstallResultCode \cup {None},
         Transition(j, to, code, None)
  PROVE  /\ IInv'
         /\ issued' = issued
         /\ durable[j] # NoReceipt
         /\ to \in NextPhase(durable[j].phase)
         /\ \A k \in Jobs : k # j => Drifted(k)
         /\ \/ durable'[j] = durable[j] /\ cache' = NoCache
            \/ /\ durable'[j] \in InstallJobReceipt
               /\ durable'[j].phase = to
               /\ to = "failed" => durable'[j].failure_stage = durable[j].phase
<1> DEFINE r == Transitioned(durable[j], to, code, None)
           doc == [durable EXCEPT ![j] = r]
<1>1. /\ durable[j] # NoReceipt
      /\ issued' = issued
      /\ MayTransition(durable[j], to, code, None)
      /\ \E D \in Prunes(doc, j) :
           Save(Without(doc, D), Reconciled(claimed, doc))
  BY DEF Transition, Transitioning, Commit
<1>2. to \in NextPhase(durable[j].phase)
  BY <1>1 DEF MayTransition
<1>3. IInv'
  <2>1. Next
    BY <1>1, <1>2 DEF Next
  <2> QED BY <2>1, StepKeeps
<1>4. PICK D \in Prunes(doc, j) : Save(Without(doc, D), Reconciled(claimed, doc))
  BY <1>1
<1>5. /\ Sound(durable[j])
      /\ \A k \in Jobs : k \notin issued => durable[k] = NoReceipt
  BY <1>1, InvFacts DEF IInv, Issued
<1>6. r \in InstallJobReceipt
  BY <1>1, <1>5, TransitionedSound DEF Sound
<1>7. /\ r.phase = to
      /\ to = "failed" => r.failure_stage = durable[j].phase
  BY <1>5 DEF Transitioned, Sound, InstallJobReceipt
<1> HIDE DEF r
<1>8. /\ Without(doc, D)[j] = r
      /\ \A k \in Jobs : k # j => Without(doc, D)[k] \in {durable[k], NoReceipt}
  BY <1>4, <1>6, WrittenOrSame
<1> HIDE DEF doc
<1>9. /\ \A k \in Jobs : k # j => durable'[k] \in {durable[k], NoReceipt}
      /\ \/ durable'[j] = r
         \/ durable'[j] = durable[j] /\ cache' = NoCache
  <2>1. \/ durable' = Without(doc, D)
        \/ durable' = durable /\ cache' = NoCache
    BY <1>4 DEF Save, Forget
  <2> QED BY <1>8, <2>1
<1>10. \A k \in Jobs : k # j => Drifted(k)
  BY <1>5, <1>9 DEF Drifted, Drifts, Appears
<1> QED BY <1>1, <1>2, <1>3, <1>6, <1>7, <1>9, <1>10

\* The manager's steps that are no transition.
Aside ==
  \/ Refresh
  \/ LoseCache
  \/ \E plan \in Plans : Create(plan)
  \/ \E j \in Jobs : RequestCancel(j)
  \/ \E j \in Jobs, cleaned \in BOOLEAN : Claim(j, cleaned)
  \/ UNCHANGED jobVars

\* They keep the manager's invariant and let receipts drift.
LEMMA AsideDrifts ==
  ASSUME IInv, Aside
  PROVE  IInv' /\ Drift
<1>1. IInv'
  <2>1. [Next]_jobVars
    BY DEF Aside, Next
  <2> QED BY <2>1, StepKeeps
<1>2. CASE Refresh \/ LoseCache \/ UNCHANGED jobVars
  <2>1. durable' = durable /\ issued' = issued
    BY <1>2 DEF Refresh, LoseCache, jobVars
  <2>2. \A j \in Jobs : j \notin issued => durable[j] = NoReceipt
    BY DEF IInv, Issued
  <2> QED BY <1>1, <2>1, <2>2 DEF Drift, Drifted, Drifts, Appears
<1> QED BY <1>1, <1>2, CreateDrifts, CancelDrifts, ClaimDrifts DEF Aside

-----------------------------------------------------------------------------
(***************************************************************************)
(* From one job to all of them.                                            *)
(***************************************************************************)

\* A job whose receipt drifts keeps fitting if its panel is left alone and its
\* worker is, or ends.
LEMMA JobKept ==
  ASSUME NEW k \in Jobs, JobFits(k), Drifted(k), issued \subseteq issued',
         installs'[k] = installs[k], app'[k] = app[k],
         worker'[k] \in {worker[k], NoWorker}
  PROVE  JobFits(k)'
<1>1. CASE k \notin issued
  <2>1. worker'[k] = NoWorker /\ installs'[k] = 0 /\ Appears(durable'[k])
    BY <1>1 DEF JobFits, Drifted
  <2>2. RecordFits(durable'[k], installs'[k], app'[k])
    BY <2>1 DEF RecordFits, Appears, LatePhases
  <2> QED BY <2>1, <2>2 DEF JobFits
<1>2. CASE k \in issued
  <2>1. Drifts(durable[k], durable'[k]) /\ k \in issued'
    BY <1>2 DEF Drifted
  <2>2. RecordFits(durable'[k], installs'[k], app'[k])
    BY <2>1 DEF JobFits, RecordFits, Drifts, LatePhases, TerminalPhases,
       CancellablePhases
  <2>3. Follows(durable[k], worker[k]) => Follows(durable'[k], worker[k])
    BY <2>1 DEF Follows, Drifts
  <2> QED BY <2>1, <2>2, <2>3 DEF JobFits
<1> QED BY <1>1, <1>2

\* Only the worker of job j may have moved.
Others(j) ==
  /\ worker' \in [Jobs -> Workers \cup {NoWorker}]
  /\ \A k \in Jobs : k # j => worker'[k] = worker[k]

\* What an update of one worker changes.
LEMMA Replaced ==
  ASSUME ExecInv, NEW j \in Jobs, NEW w \in Workers,
         worker' = [worker EXCEPT ![j] = w]
  PROVE  Others(j) /\ worker'[j] = w
  BY DEF ExecInv, ExecTyped, Others

\* A step of one worker that leaves the panel alone.
LEMMA QuietKeeps ==
  ASSUME ExecInv, Aside, NEW j \in Jobs, j \in issued, Others(j),
         installs' = installs, app' = app,
         worker'[j] # NoWorker =>
           /\ WorkerFits(worker'[j], installs[j], app[j])
           /\ Follows(durable'[j], worker'[j])
  PROVE  ExecInv'
<1>1. IInv' /\ Drift
  BY AsideDrifts DEF ExecInv
<1>2. ASSUME NEW k \in Jobs, k # j PROVE JobFits(k)'
  BY <1>1, <1>2, JobKept DEF ExecInv, Others, Drift
<1>3. JobFits(j)'
  <2>1. Drifts(durable[j], durable'[j]) /\ j \in issued' /\ JobFits(j)
    BY <1>1 DEF Drift, Drifted, ExecInv
  <2>2. RecordFits(durable'[j], installs'[j], app'[j])
    BY <2>1 DEF JobFits, RecordFits, Drifts, LatePhases, TerminalPhases,
       CancellablePhases
  <2> QED BY <2>1, <2>2 DEF JobFits
<1>4. ExecTyped'
  BY DEF ExecInv, ExecTyped, Others
<1> QED BY <1>1, <1>2, <1>3, <1>4 DEF ExecInv

\* A step of no worker that leaves the panel alone.
LEMMA BesideKeeps ==
  ASSUME ExecInv, Aside, UNCHANGED <<worker, installs, app>>
  PROVE  ExecInv'
<1>1. IInv' /\ Drift
  BY AsideDrifts DEF ExecInv
<1>2. ASSUME NEW k \in Jobs PROVE JobFits(k)'
  BY <1>1, JobKept DEF ExecInv, Drift
<1>3. ExecTyped'
  BY DEF ExecInv, ExecTyped
<1> QED BY <1>1, <1>2, <1>3 DEF ExecInv

\* What the invariant says of a running worker.
LEMMA Running ==
  ASSUME ExecInv, NEW j \in Jobs, worker[j] # NoWorker
  PROVE  /\ j \in issued
         /\ worker[j] \in Workers
         /\ WorkerFits(worker[j], installs[j], app[j])
         /\ Follows(durable[j], worker[j])
         /\ RecordFits(durable[j], installs[j], app[j])
         /\ installs[j] \in Nat /\ app[j] \in BOOLEAN
  BY DEF ExecInv, ExecTyped, JobFits

\* A worker that has read its job, moving on with the same snapshot.
LEMMA MovesOn ==
  ASSUME ExecInv, Aside, NEW j \in Jobs, worker[j] # NoWorker,
         worker[j].pc # "load", Others(j), worker'[j].rcpt = worker[j].rcpt,
         WorkerFits(worker'[j], installs[j], app[j]),
         installs' = installs, app' = app
  PROVE  ExecInv'
<1>1. j \in issued /\ Follows(durable[j], worker[j])
  BY Running
<1>2. Drifts(durable[j], durable'[j])
  BY <1>1, AsideDrifts DEF ExecInv, Drift, Drifted
<1>3. Follows(durable'[j], worker'[j])
  BY <1>1, <1>2 DEF Follows, Drifts
<1> QED BY <1>1, <1>3, QuietKeeps

\* A worker that ends.
LEMMA Ends ==
  ASSUME ExecInv, Aside, NEW j \in Jobs, worker[j] # NoWorker,
         Exit(j) \/ Stop(j), installs' = installs, app' = app
  PROVE  ExecInv'
<1>1. worker' = [worker EXCEPT ![j] = NoWorker]
  BY DEF Exit, Stop
<1>2. Others(j) /\ worker'[j] = NoWorker
  BY <1>1 DEF ExecInv, ExecTyped, Others
<1> QED BY <1>2, Running, QuietKeeps

-----------------------------------------------------------------------------
(***************************************************************************)
(* How a step may leave the worker.                                        *)
(***************************************************************************)

\* Toward: a write, or the reads and the cleaning before it.
LEMMA Writes ==
  ASSUME ExecInv, Aside, NEW j \in Jobs, worker[j] # NoWorker,
         worker[j].pc # "load", installs' = installs, app' = app,
         NEW pc \in {"write", "reread", "clean"}, NEW to \in InstallPhase,
         NEW code \in InstallResultCode \cup {None}, Toward(j, pc, to, code),
         pc # "write" => to \in {"failed", "recovery_required"},
         to = "failed" /\ worker[j].rcpt.phase = "installing" => ~app[j],
         pc = "write" /\ to = "installing" => ~app[j],
         pc = "write" /\ to = "installed" => app[j]
  PROVE  ExecInv'
<1>1. worker[j] \in Workers /\ WorkerFits(worker[j], installs[j], app[j])
  BY Running
<1> DEFINE w == [worker[j] EXCEPT !.pc = pc, !.to = to, !.code = code]
<1>2. /\ w \in Workers
      /\ w.pc = pc /\ w.to = to
      /\ w.rcpt = worker[j].rcpt /\ w.staged = worker[j].staged
      /\ w.use = worker[j].use
  BY <1>1 DEF Workers, WorkerPcs
<1>3. worker' = [worker EXCEPT ![j] = w]
  BY DEF Toward, ExecInv, ExecTyped
<1> HIDE DEF w
<1>4. Others(j) /\ worker'[j] = w
  BY <1>2, <1>3, Replaced
<1>5. WorkerFits(w, installs[j], app[j])
  BY <1>1, <1>2 DEF WorkerFits, Armed, Declined, ClaimPcs, AuthorityPcs
<1> QED BY <1>2, <1>4, <1>5, MovesOn

\* Goto.
LEMMA Goes ==
  ASSUME ExecInv, Aside, NEW j \in Jobs, worker[j] # NoWorker,
         worker[j].pc # "load", installs' = installs, app' = app,
         NEW pc, Goto(j, pc),
         \/ pc = "cancel"
         \/ pc = "fetch" /\ worker[j].rcpt.phase # "installing"
         \/ pc = "clean_claim" /\ worker[j].pc = "claim"
         \/ pc \in {"verify", "effect"} /\ worker[j].pc \in AuthorityPcs
         \/ pc = "reread" /\ worker[j].pc = "clean"
         \/ pc = "refused" /\ ~app[j]
  PROVE  ExecInv'
<1>1. worker[j] \in Workers /\ WorkerFits(worker[j], installs[j], app[j])
  BY Running
<1> DEFINE w == [worker[j] EXCEPT !.pc = pc]
<1>2. /\ w \in Workers
      /\ w.pc = pc /\ w.to = worker[j].to
      /\ w.rcpt = worker[j].rcpt /\ w.staged = worker[j].staged
      /\ w.use = worker[j].use
  BY <1>1 DEF Workers, WorkerPcs
<1>3. worker' = [worker EXCEPT ![j] = w]
  BY DEF Goto, ExecInv, ExecTyped
<1> HIDE DEF w
<1>4. Others(j) /\ worker'[j] = w
  BY <1>2, <1>3, Replaced
<1>5. WorkerFits(w, installs[j], app[j])
  BY <1>1, <1>2 DEF WorkerFits, Armed, Declined, ClaimPcs, AuthorityPcs
<1> QED BY <1>2, <1>4, <1>5, MovesOn

\* To the proof of authority for a mutation or for a cleanup.
LEMMA Authorizes ==
  ASSUME ExecInv, Aside, NEW j \in Jobs, worker[j] # NoWorker,
         worker[j].pc # "load", installs' = installs, app' = app,
         NEW use \in {"mutate", "cleanup"},
         worker' = [worker EXCEPT ![j].pc = "authority", ![j].use = use],
         worker[j].rcpt.phase = "installing" =>
           ~app[j] /\ (use = "mutate" => installs[j] = 0)
  PROVE  ExecInv'
<1>1. worker[j] \in Workers /\ WorkerFits(worker[j], installs[j], app[j])
  BY Running
<1> DEFINE w == [worker[j] EXCEPT !.pc = "authority", !.use = use]
<1>2. /\ w \in Workers
      /\ w.pc = "authority" /\ w.to = worker[j].to
      /\ w.rcpt = worker[j].rcpt /\ w.staged = worker[j].staged
      /\ w.use = use
  BY <1>1 DEF Workers, WorkerPcs
<1>3. worker' = [worker EXCEPT ![j] = w]
  BY DEF ExecInv, ExecTyped
<1> HIDE DEF w
<1>4. Others(j) /\ worker'[j] = w
  BY <1>2, <1>3, Replaced
<1>5. WorkerFits(w, installs[j], app[j])
  BY <1>1, <1>2 DEF WorkerFits, Armed, Declined, ClaimPcs, AuthorityPcs
<1> QED BY <1>2, <1>4, <1>5, MovesOn

\* Adopt, after the read that found the stored receipt.
LEMMA Adopts ==
  ASSUME ExecInv, Refresh, NEW j \in Jobs, worker[j] # NoWorker,
         installs' = installs, app' = app, NEW pc, Adopt(j, pc),
         \/ pc \in {"claim", "claim_clean", "loop"} /\ ~worker[j].staged
         \/ pc = "loop" /\ durable[j].phase # "installing"
         \/ /\ pc = "write"
            /\ worker[j].to \in {"failed", "recovery_required"}
            /\ worker[j].to = "failed" /\ durable[j].phase = "installing"
                 => ~app[j]
  PROVE  ExecInv'
<1>0. Aside
  BY DEF Aside
<1>1. CASE durable[j] = NoReceipt
  <2>1. Stop(j)
    BY <1>1 DEF Adopt
  <2> QED BY <1>0, <2>1, Ends
<1>2. CASE durable[j] # NoReceipt
  <2>1. worker[j] \in Workers /\ WorkerFits(worker[j], installs[j], app[j])
          /\ j \in issued
    BY Running
  <2>2. durable[j] \in InstallJobReceipt
    BY <1>2, InvFacts DEF ExecInv, Sound
  <2> DEFINE w == [worker[j] EXCEPT !.pc = pc, !.rcpt = durable[j]]
  <2>3. /\ w \in Workers
        /\ w.pc = pc /\ w.to = worker[j].to
        /\ w.rcpt = durable[j] /\ w.staged = worker[j].staged
    BY <2>1, <2>2 DEF Workers, WorkerPcs
  <2>4. worker' = [worker EXCEPT ![j] = w]
    BY <1>2 DEF Adopt, ExecInv, ExecTyped
  <2> HIDE DEF w
  <2>5. Others(j) /\ worker'[j] = w
    BY <2>3, <2>4, Replaced
  <2>6. WorkerFits(w, installs[j], app[j])
    BY <2>1, <2>2, <2>3 DEF WorkerFits, Armed, Declined, ClaimPcs, AuthorityPcs
  <2>7. Follows(durable'[j], w)
    BY <2>3 DEF Refresh, Follows
  <2> QED BY <1>0, <2>1, <2>5, <2>6, <2>7, QuietKeeps
<1> QED BY <1>1, <1>2

-----------------------------------------------------------------------------
(***************************************************************************)
(* Starting and claiming.                                                  *)
(***************************************************************************)

\* A worker starts for a stored job, with nothing read yet.
LEMMA EnsureKeeps ==
  ASSUME ExecInv, NEW j \in Jobs, EnsureJob(j)
  PROVE  ExecInv'
<1>1. /\ Aside
      /\ worker' = [worker EXCEPT ![j] = NewWorker]
      /\ installs' = installs /\ app' = app
  BY DEF EnsureJob, Aside, panelVars
<1>2. j \in issued
  BY DEF EnsureJob, Claimable, IsActive, ExecInv, IInv, Issued
<1>3. /\ NewWorker \in Workers
      /\ NewWorker.pc = "load" /\ ~NewWorker.staged
  BY DEF NewWorker, Workers, WorkerPcs, InstallPhase
<1>4. WorkerFits(NewWorker, installs[j], app[j]) /\ Follows(durable'[j], NewWorker)
  BY <1>3 DEF WorkerFits, Armed, Declined, Follows, AuthorityPcs
<1>5. Others(j) /\ worker'[j] = NewWorker
  BY <1>1, <1>3, Replaced
<1> QED BY <1>1, <1>2, <1>4, <1>5, QuietKeeps

\* A worker goes back to read its job again, or stops.
LEMMA RetryKeeps ==
  ASSUME ExecInv, NEW j \in Jobs, worker[j] # NoWorker,
         worker[j].pc \in ClaimPcs, RetryClaim(j),
         installs' = installs, app' = app
  PROVE  ExecInv'
<1>1. Aside
  BY DEF RetryClaim, Aside
<1>2. CASE Stop(j)
  BY <1>1, <1>2, Ends
<1>3. CASE worker' = [worker EXCEPT ![j].pc = "load", ![j].again = TRUE]
  <2>1. /\ worker[j] \in Workers /\ WorkerFits(worker[j], installs[j], app[j])
        /\ j \in issued
    BY Running
  <2> DEFINE w == [worker[j] EXCEPT !.pc = "load", !.again = TRUE]
  <2>2. /\ w \in Workers
        /\ w.pc = "load" /\ w.staged = worker[j].staged
    BY <2>1 DEF Workers, WorkerPcs
  <2>3. worker' = [worker EXCEPT ![j] = w]
    BY <1>3 DEF ExecInv, ExecTyped
  <2> HIDE DEF w
  <2>4. Others(j) /\ worker'[j] = w
    BY <2>2, <2>3, Replaced
  <2>5. WorkerFits(w, installs[j], app[j]) /\ Follows(durable'[j], w)
    BY <2>1, <2>2 DEF WorkerFits, Armed, Declined, Follows, ClaimPcs, AuthorityPcs
  <2> QED BY <1>1, <2>1, <2>4, <2>5, QuietKeeps
<1> QED BY <1>2, <1>3 DEF RetryClaim

\* A verified claim hands the worker the claimed receipt.
LEMMA ClaimedKeeps ==
  ASSUME ExecInv, NEW j \in Jobs, worker[j] # NoWorker,
         worker[j].pc \in ClaimPcs, NEW cleaned \in BOOLEAN, Claim(j, cleaned),
         AfterWrite(j), installs' = installs, app' = app
  PROVE  ExecInv'
<1>1. Aside
  BY DEF Aside
<1>2. CASE cache' = NoCache
  <2>1. Stop(j)
    BY <1>2 DEF AfterWrite
  <2> QED BY <1>1, <2>1, Ends
<1>3. CASE cache' # NoCache
  <2>1. /\ worker[j] \in Workers /\ WorkerFits(worker[j], installs[j], app[j])
        /\ j \in issued
    BY Running
  <2>2. durable'[j] \in InstallJobReceipt
    BY <1>3, ClaimDrifts DEF ExecInv
  <2> DEFINE w == [worker[j] EXCEPT !.pc = "loop", !.rcpt = durable'[j]]
  <2>3. /\ w \in Workers
        /\ w.pc = "loop" /\ w.rcpt = durable'[j] /\ w.staged = worker[j].staged
    BY <2>1, <2>2 DEF Workers, WorkerPcs
  <2>4. worker' = [worker EXCEPT ![j] = w]
    BY <1>3 DEF AfterWrite, ExecInv, ExecTyped
  <2> HIDE DEF w
  <2>5. Others(j) /\ worker'[j] = w
    BY <2>3, <2>4, Replaced
  <2>6. WorkerFits(w, installs[j], app[j]) /\ Follows(durable'[j], w)
    BY <2>1, <2>2, <2>3
    DEF WorkerFits, Armed, Declined, Follows, ClaimPcs, AuthorityPcs
  <2> QED BY <1>1, <2>1, <2>5, <2>6, QuietKeeps
<1> QED BY <1>2, <1>3

\* The steps from the first read to the verified claim.
LEMMA ClaimingKeeps ==
  ASSUME ExecInv, NEW j \in Jobs,
         Load(j) \/ ClaimJob(j) \/ CleanBeforeClaim(j) \/ ClaimCleaned(j)
  PROVE  ExecInv'
<1> USE DEF At, panelVars
<1>1. CASE Load(j)
  <2>1. ~worker[j].staged
    BY <1>1, Running DEF Load, WorkerFits, ClaimPcs
  <2> QED BY <1>1, <2>1, Adopts DEF Load
<1>2. CASE ClaimJob(j)
  <2>1. /\ worker[j] # NoWorker /\ worker[j].pc = "claim"
        /\ installs' = installs /\ app' = app
    BY <1>2 DEF ClaimJob
  <2>2. ~worker[j].staged
    BY <2>1, Running DEF WorkerFits, ClaimPcs
  <2>3. CASE RetryClaim(j)
    BY <2>1, <2>3, RetryKeeps DEF ClaimPcs
  <2>4. CASE Refresh /\ Stop(j)
    BY <2>1, <2>4, Ends DEF Aside
  <2>5. CASE Refresh /\ Adopt(j, "loop")
    BY <2>1, <2>2, <2>5, Adopts
  <2>6. CASE Refresh /\ Goto(j, "clean_claim")
    BY <2>1, <2>6, Goes DEF Aside
  <2>7. CASE Claim(j, FALSE) /\ AfterWrite(j)
    BY <2>1, <2>7, ClaimedKeeps DEF ClaimPcs
  <2> QED BY <1>2, <2>3, <2>4, <2>5, <2>6, <2>7 DEF ClaimJob
<1>3. CASE CleanBeforeClaim(j)
  <2>1. /\ worker[j] # NoWorker /\ worker[j].pc = "clean_claim"
        /\ installs' = installs /\ app' = app
        /\ Refresh
    BY <1>3 DEF CleanBeforeClaim
  <2>2. ~worker[j].staged
    BY <2>1, Running DEF WorkerFits, ClaimPcs
  <2>3. CASE Stop(j)
    BY <2>1, <2>3, Ends DEF Aside
  <2>4. CASE Adopt(j, "claim_clean")
    BY <2>1, <2>2, <2>4, Adopts
  <2> QED BY <1>3, <2>3, <2>4 DEF CleanBeforeClaim
<1>4. CASE ClaimCleaned(j)
  <2>1. /\ worker[j] # NoWorker /\ worker[j].pc = "claim_clean"
        /\ installs' = installs /\ app' = app
    BY <1>4 DEF ClaimCleaned
  <2>2. CASE RetryClaim(j)
    BY <2>1, <2>2, RetryKeeps DEF ClaimPcs
  <2>3. CASE Refresh /\ Stop(j)
    BY <2>1, <2>3, Ends DEF Aside
  <2>4. CASE Claim(j, TRUE) /\ AfterWrite(j)
    BY <2>1, <2>4, ClaimedKeeps DEF ClaimPcs
  <2> QED BY <1>4, <2>2, <2>3, <2>4 DEF ClaimCleaned
<1> QED BY <1>1, <1>2, <1>3, <1>4

-----------------------------------------------------------------------------
(***************************************************************************)
(* The phase loop.                                                         *)
(***************************************************************************)

\* A worker in the loop, in a phase before or after the installation.
LEMMA InLoop ==
  ASSUME ExecInv, NEW j \in Jobs, NEW p, InPhase(j, p)
  PROVE  /\ worker[j] # NoWorker /\ worker[j].pc # "load"
         /\ worker[j].rcpt.phase = p
  BY DEF InPhase, At

\* The codes a failure may name are result codes.
LEMMA Codes ==
  /\ FailureCodes \cup RecoveryCodes \cup CancelCodes
       \subseteq InstallResultCode \cup {None}
  /\ None \in InstallResultCode \cup {None}
  /\ FailureCodesByPhase("revalidating") \subseteq InstallResultCode \cup {None}
  BY DEF InstallResultCode, FailureCodesByPhase, FailureCodes

\* The loop up to the download.
LEMMA EarlyPhasesKeep ==
  ASSUME ExecInv, NEW j \in Jobs,
         Finish(j) \/ Approved(j) \/ Authorizing(j) \/ Preflight(j)
  PROVE  ExecInv'
<1> USE DEF panelVars, Aside, Advance, Fail
<1>1. CASE Finish(j)
  BY <1>1, Ends DEF Finish, At
<1>2. CASE Approved(j)
  BY <1>2, InLoop, Codes, Writes DEF Approved, InstallPhase
<1>3. CASE Authorizing(j)
  BY <1>3, InLoop, Codes, Writes DEF Authorizing, InstallPhase, FailureCodes
<1>4. CASE Preflight(j)
  <2>1. CASE ~app[j] /\ Advance(j, "downloading")
    BY <1>4, <2>1, InLoop, Codes, Writes DEF Preflight, InstallPhase
  <2>2. CASE app[j] /\ Advance(j, "installed")
    BY <1>4, <2>2, InLoop, Codes, Writes DEF Preflight, InstallPhase
  <2>3. CASE \E code \in {"preflight_rejected", "transport_failed"} : Fail(j, code)
    BY <1>4, <2>3, InLoop, Codes, Writes DEF Preflight, InstallPhase, FailureCodes
  <2> QED BY <1>4, <2>1, <2>2, <2>3 DEF Preflight
<1> QED BY <1>1, <1>2, <1>3, <1>4

\* A worker obtains the verified file; nothing it does next installs.
LEMMA ObtainedKeeps ==
  ASSUME ExecInv, UNCHANGED jobVars, NEW j \in Jobs, worker[j] # NoWorker,
         worker[j].pc # "load", Obtained(j), installs' = installs, app' = app
  PROVE  ExecInv'
<1>1. worker[j] \in Workers /\ WorkerFits(worker[j], installs[j], app[j])
  BY Running
<1> DEFINE ph == worker[j].rcpt.phase
           pc == IF ph = "revalidating" THEN "loop" ELSE "write"
           to == IF ph = "downloading" THEN "artifact_ready" ELSE "revalidating"
           w == [worker[j] EXCEPT !.local = TRUE, !.pc = pc, !.to = to,
                                  !.code = None]
<1>2. /\ pc \in WorkerPcs /\ to \in InstallPhase
      /\ to \in {"artifact_ready", "revalidating"}
      /\ pc \in {"loop", "write"}
      /\ pc = "loop" => ph = "revalidating"
  BY DEF WorkerPcs, InstallPhase
<1>3. worker' = [worker EXCEPT ![j] = w]
  BY DEF Obtained, ExecInv, ExecTyped
<1> HIDE DEF pc, to
<1>4. /\ w \in Workers
      /\ w.pc = pc /\ w.to = to /\ w.rcpt = worker[j].rcpt
  BY <1>1, <1>2 DEF Workers
<1> HIDE DEF w
<1>5. Others(j) /\ worker'[j] = w
  BY <1>3, <1>4, Replaced
<1>6. WorkerFits(w, installs[j], app[j])
  BY <1>1, <1>2, <1>4 DEF WorkerFits, Armed, Declined, ClaimPcs, AuthorityPcs
<1> QED BY <1>4, <1>5, <1>6, MovesOn DEF Aside

\* A partial file of an earlier process is swept away once.
LEMMA SweptKeeps ==
  ASSUME ExecInv, UNCHANGED jobVars, NEW j \in Jobs, worker[j] # NoWorker,
         worker[j].pc = "loop", worker[j].rcpt.phase # "installing",
         worker' = [worker EXCEPT ![j].swept = TRUE],
         installs' = installs, app' = app
  PROVE  ExecInv'
<1>1. worker[j] \in Workers /\ WorkerFits(worker[j], installs[j], app[j])
  BY Running
<1> DEFINE w == [worker[j] EXCEPT !.swept = TRUE]
<1>2. worker' = [worker EXCEPT ![j] = w]
  BY DEF ExecInv, ExecTyped
<1>3. /\ w \in Workers
      /\ w.pc = "loop" /\ w.rcpt = worker[j].rcpt
  BY <1>1 DEF Workers
<1> HIDE DEF w
<1>4. Others(j) /\ worker'[j] = w
  BY <1>2, <1>3, Replaced
<1>5. WorkerFits(w, installs[j], app[j])
  BY <1>1, <1>3 DEF WorkerFits, Armed, Declined, ClaimPcs, AuthorityPcs
<1> QED BY <1>3, <1>4, <1>5, MovesOn DEF Aside

\* Obtaining the APK.
LEMMA FetchKeeps ==
  ASSUME ExecInv, NEW j \in Jobs, Fetch(j) \/ Fetched(j)
  PROVE  ExecInv'
<1> USE DEF panelVars, Aside
<1>1. CASE Fetch(j)
  <2>1. /\ worker[j] # NoWorker /\ worker[j].pc = "loop"
        /\ worker[j].rcpt.phase # "installing"
        /\ UNCHANGED jobVars
        /\ installs' = installs /\ app' = app
    BY <1>1 DEF Fetch, Fetching, InPhase, At
  <2>2. CASE Obtained(j)
    BY <2>1, <2>2, ObtainedKeeps
  <2>3. CASE Goto(j, "fetch")
    BY <2>1, <2>3, Goes
  <2>4. CASE worker' = [worker EXCEPT ![j].swept = TRUE]
    BY <2>1, <2>4, SweptKeeps
  <2>5. CASE Exit(j) \/ Stop(j)
    BY <2>1, <2>5, Ends
  <2>6. CASE CleanFail(j, "artifact_rejected")
    BY <2>1, <2>6, Codes, Writes DEF CleanFail, InstallPhase, FailureCodes
  <2> QED BY <1>1, <2>2, <2>3, <2>4, <2>5, <2>6 DEF Fetch
<1>2. CASE Fetched(j)
  <2>1. /\ worker[j] # NoWorker /\ worker[j].pc = "fetch"
        /\ UNCHANGED jobVars
        /\ installs' = installs /\ app' = app
    BY <1>2 DEF Fetched, At
  <2>2. worker[j].rcpt.phase # "installing"
    BY <2>1, Running DEF WorkerFits
  <2>3. CASE Obtained(j)
    BY <2>1, <2>3, ObtainedKeeps
  <2>4. CASE CleanFail(j, "transport_failed")
    BY <2>1, <2>2, <2>4, Codes, Writes DEF CleanFail, InstallPhase, FailureCodes
  <2> QED BY <1>2, <2>3, <2>4 DEF Fetched
<1> QED BY <1>1, <1>2

\* The phases between the download and the staging.
LEMMA ReadyPhasesKeep ==
  ASSUME ExecInv, NEW j \in Jobs, ArtifactReady(j) \/ Revalidating(j)
  PROVE  ExecInv'
<1> USE DEF panelVars, Aside, Advance, CleanFail
<1>1. CASE ArtifactReady(j)
  BY <1>1, InLoop, Codes, Writes DEF ArtifactReady, InstallPhase, FailureCodes
<1>2. CASE Revalidating(j)
  <2>1. CASE ~app[j] /\ Advance(j, "staging")
    BY <1>2, <2>1, InLoop, Codes, Writes DEF Revalidating, InstallPhase
  <2>2. CASE \E code \in FailureCodesByPhase("revalidating") : CleanFail(j, code)
    BY <1>2, <2>2, InLoop, Codes, Writes DEF Revalidating, InstallPhase
  <2> QED BY <1>2, <2>1, <2>2 DEF Revalidating
<1> QED BY <1>1, <1>2

\* The phases that go to prove their authority.  Only in "installing" does the
\* panel matter: there a worker that staged is armed.
LEMMA PanelPhasesKeep ==
  ASSUME ExecInv, NEW j \in Jobs,
         Staging(j) \/ Installing(j) \/ Launching(j) \/ HealthCheck(j)
  PROVE  ExecInv'
<1> USE DEF panelVars, Aside
<1>1. CASE Staging(j)
  <2>1. CASE worker[j].local
    BY <1>1, <2>1, InLoop, Authorizes DEF Staging
  <2>2. CASE ~worker[j].local
    BY <1>1, <2>2, InLoop, Codes, Writes
    DEF Staging, Recover, InstallPhase, RecoveryCodes
  <2> QED BY <2>1, <2>2
<1>2. CASE Installing(j)
  <2>1. CASE worker[j].staged
    <3>1. Armed(worker[j]) /\ worker[j] # NoWorker /\ worker[j].pc # "load"
      BY <1>2, <2>1 DEF Installing, InPhase, At, Armed
    <3>2. installs[j] = 0 /\ ~app[j]
      BY <3>1, Running DEF WorkerFits
    <3> QED BY <1>2, <2>1, <3>1, <3>2, Authorizes DEF Installing
  <2>2. CASE ~worker[j].staged
    BY <1>2, <2>2, InLoop, Codes, Writes
    DEF Installing, Recover, InstallPhase, RecoveryCodes
  <2> QED BY <2>1, <2>2
<1>3. CASE Launching(j)
  <2>1. CASE worker[j].staged
    BY <1>3, <2>1, InLoop, Authorizes DEF Launching
  <2>2. CASE ~worker[j].staged
    BY <1>3, <2>2, InLoop, Codes, Writes
    DEF Launching, Recover, InstallPhase, RecoveryCodes
  <2> QED BY <2>1, <2>2
<1>4. CASE HealthCheck(j)
  <2>1. CASE Recover(j, "verification_required")
    BY <1>4, <2>1, InLoop, Codes, Writes
    DEF HealthCheck, Recover, InstallPhase, RecoveryCodes
  <2>2. CASE worker' = [worker EXCEPT ![j].pc = "authority", ![j].use = "mutate"]
    <3>1. /\ InPhase(j, "health_check")
          /\ UNCHANGED jobVars /\ installs' = installs /\ app' = app
      BY <1>4 DEF HealthCheck
    <3>2. /\ worker[j] # NoWorker /\ worker[j].pc # "load"
          /\ worker[j].rcpt.phase = "health_check"
      BY <3>1, InLoop
    <3>3. worker[j].rcpt.phase # "installing"
      BY <3>2
    <3> HIDE <1>4
    <3> QED BY <2>2, <3>1, <3>2, <3>3, Authorizes
  <2> QED BY <1>4, <2>1, <2>2 DEF HealthCheck
<1> QED BY <1>1, <1>2, <1>3, <1>4

\* A step that also counts the job's bytes as staged: after the staging, and for
\* an app found installed.
LEMMA StagedKeeps ==
  ASSUME ExecInv, UNCHANGED jobVars, NEW j \in Jobs, worker[j] # NoWorker,
         worker[j].pc # "load", installs' = installs, app' = app,
         NEW pc \in {"write", "clean"}, NEW to \in InstallPhase,
         NEW code \in InstallResultCode \cup {None},
         worker' = [worker EXCEPT ![j].staged = TRUE, ![j].pc = pc,
                                  ![j].to = to, ![j].code = code],
         pc = "clean" => to = "recovery_required",
         to \notin {"failed", "installed"},
         to = "installing" => ~app[j]
  PROVE  ExecInv'
<1>1. worker[j] \in Workers /\ WorkerFits(worker[j], installs[j], app[j])
  BY Running
<1> DEFINE w == [worker[j] EXCEPT !.staged = TRUE, !.pc = pc, !.to = to,
                                  !.code = code]
<1>2. worker' = [worker EXCEPT ![j] = w]
  BY DEF ExecInv, ExecTyped
<1>3. /\ w \in Workers
      /\ w.pc = pc /\ w.to = to /\ w.rcpt = worker[j].rcpt
  BY <1>1 DEF Workers, WorkerPcs
<1> HIDE DEF w
<1>4. Others(j) /\ worker'[j] = w
  BY <1>2, <1>3, Replaced
<1>5. WorkerFits(w, installs[j], app[j])
  BY <1>1, <1>3 DEF WorkerFits, Armed, Declined, ClaimPcs, AuthorityPcs
<1> QED BY <1>3, <1>4, <1>5, MovesOn DEF Aside

\* Staging itself, and the phase in which the installed bytes stand for the
\* staged ones.
LEMMA StagingKeeps ==
  ASSUME ExecInv, NEW j \in Jobs, Stage(j) \/ Installed(j)
  PROVE  ExecInv'
<1> USE DEF panelVars, Aside
<1>1. CASE Stage(j)
  <2>1. /\ worker[j] # NoWorker /\ worker[j].pc = "effect"
        /\ worker[j].rcpt.phase = "staging"
        /\ UNCHANGED jobVars
        /\ installs' = installs /\ app' = app
    BY <1>1 DEF Stage, Effect, At
  <2>2. CASE /\ ~app[j]
             /\ worker' = [worker EXCEPT ![j].staged = TRUE, ![j].pc = "write",
                                    ![j].to = "installing", ![j].code = None]
    BY <2>1, <2>2, Codes, StagedKeeps DEF InstallPhase
  <2>3. CASE \/ CleanFail(j, "artifact_rejected")
             \/ CleanFail(j, "transport_failed")
             \/ Recover(j, "ambiguous_mutation")
    BY <2>1, <2>3, Codes, Writes
    DEF CleanFail, Recover, InstallPhase, FailureCodes, RecoveryCodes
  <2> QED BY <1>1, <2>2, <2>3 DEF Stage
<1>2. CASE Installed(j)
  <2>1. /\ worker[j] # NoWorker /\ worker[j].pc # "load"
        /\ UNCHANGED jobVars
        /\ installs' = installs /\ app' = app
    BY <1>2, InLoop DEF Installed
  <2>2. CASE worker' = [worker EXCEPT ![j].staged = TRUE, ![j].pc = "clean",
                                    ![j].to = "recovery_required",
                                    ![j].code = "verification_required"]
    BY <2>1, <2>2, Codes, StagedKeeps DEF InstallPhase, RecoveryCodes
  <2>3. CASE worker' = [worker EXCEPT ![j].staged = TRUE, ![j].pc = "write",
                                    ![j].to = "launching", ![j].code = None]
    BY <2>1, <2>3, Codes, StagedKeeps DEF InstallPhase
  <2> QED BY <1>2, <2>2, <2>3 DEF Installed
<1> QED BY <1>1, <1>2

-----------------------------------------------------------------------------
(***************************************************************************)
(* Authority, and the calls to the panel.                                  *)
(***************************************************************************)

\* A cancellation the worker may adopt was accepted before the installation.
LEMMA CancelledEarly ==
  ASSUME ExecInv, NEW j \in Jobs, OnlyCancelled(j)
  PROVE  durable[j].phase # "installing"
<1>1. CancelFits(durable[j]) /\ durable[j].cancel_requested
  BY InvFacts DEF OnlyCancelled, ExecInv, Sound
<1> QED BY <1>1 DEF CancelFits, CancellablePhases

\* The read and the barrier.
LEMMA AuthorityKeeps ==
  ASSUME ExecInv, NEW j \in Jobs, Authority(j) \/ Verify(j)
  PROVE  ExecInv'
<1> USE DEF panelVars, Aside
<1>1. CASE Authority(j)
  <2>1. /\ worker[j] # NoWorker /\ worker[j].pc = "authority"
        /\ Refresh
        /\ installs' = installs /\ app' = app
    BY <1>1 DEF Authority, At
  <2>2. CASE Goto(j, "verify")
    BY <2>1, <2>2, Goes DEF AuthorityPcs
  <2>3. CASE OnlyCancelled(j) /\ Adopt(j, "loop")
    BY <2>1, <2>3, CancelledEarly, Adopts
  <2>4. CASE Stop(j)
    BY <2>1, <2>4, Ends
  <2> QED BY <1>1, <2>2, <2>3, <2>4 DEF Authority
<1>2. CASE Verify(j)
  <2>1. /\ worker[j] # NoWorker /\ worker[j].pc = "verify"
        /\ installs' = installs /\ app' = app
    BY <1>2 DEF Verify, At
  <2>2. CASE Refresh /\ Goto(j, "effect")
    BY <2>1, <2>2, Goes DEF AuthorityPcs
  <2>3. CASE (Refresh \/ LoseCache) /\ Stop(j)
    BY <2>1, <2>3, Ends
  <2> QED BY <1>2, <2>2, <2>3 DEF Verify
<1> QED BY <1>1, <1>2

\* The failures found on the way there.  In "installing" they quarantine.
LEMMA EnvironmentKeeps ==
  ASSUME ExecInv, NEW j \in Jobs, EnvironmentFails(j)
  PROVE  ExecInv'
<1> DEFINE phase == worker[j].rcpt.phase
<1>1. /\ worker[j] # NoWorker /\ worker[j].pc # "load"
      /\ UNCHANGED jobVars
      /\ installs' = installs /\ app' = app
  BY DEF EnvironmentFails, At, panelVars
<1>2. \/ Recover(j, "verification_required")
      \/ CleanFail(j, "transport_failed") /\ phase = "staging"
      \/ Fail(j, "launch_failed") /\ phase = "launching"
  BY DEF EnvironmentFails
<1>3. CASE Recover(j, "verification_required")
  BY <1>1, <1>3, Codes, Writes DEF Recover, Aside, InstallPhase, RecoveryCodes
<1>4. CASE CleanFail(j, "transport_failed") /\ phase = "staging"
  BY <1>1, <1>4, Codes, Writes DEF CleanFail, Aside, InstallPhase, FailureCodes
<1>5. CASE Fail(j, "launch_failed") /\ phase = "launching"
  BY <1>1, <1>5, Codes, Writes DEF Fail, Aside, InstallPhase, FailureCodes
<1> QED BY <1>2, <1>3, <1>4, <1>5

\* The package manager: only an armed worker runs it, and it disarms itself.
LEMMA InstallKeeps ==
  ASSUME ExecInv, NEW j \in Jobs, Install(j)
  PROVE  ExecInv'
<1>1. /\ worker[j] # NoWorker /\ worker[j].pc = "effect"
      /\ worker[j].rcpt.phase = "installing"
      /\ Armed(worker[j])
      /\ UNCHANGED jobVars
  BY DEF Install, Effect, At, Armed, AuthorityPcs
<1>2. /\ j \in issued
      /\ worker[j] \in Workers
      /\ WorkerFits(worker[j], installs[j], app[j])
      /\ Follows(durable[j], worker[j])
      /\ installs[j] = 0 /\ app[j] = FALSE
  BY <1>1, Running DEF WorkerFits
<1>3. durable[j] = NoReceipt \/ durable[j].phase \in {"installing", "recovery_required"}
  BY <1>1, <1>2 DEF Follows
<1>4. CASE UNCHANGED <<app, installs>>
  <2>1. CASE Goto(j, "refused")
    BY <1>1, <1>2, <1>4, <2>1, Goes DEF Aside
  <2>2. CASE Recover(j, "verification_required")
    BY <1>1, <1>4, <2>2, Codes, Writes DEF Recover, Aside, InstallPhase, RecoveryCodes
  <2>3. CASE Recover(j, "ambiguous_mutation")
    BY <1>1, <1>4, <2>3, Codes, Writes DEF Recover, Aside, InstallPhase, RecoveryCodes
  <2>4. installs' # [installs EXCEPT ![j] = @ + 1]
    BY <1>2, <1>4 DEF ExecInv, ExecTyped
  <2> QED BY <2>1, <2>2, <2>3, <2>4 DEF Install
<1>5. CASE installs' = [installs EXCEPT ![j] = @ + 1]
  <2>1. /\ installs' \in [Jobs -> Nat]
        /\ installs'[j] = 1
        /\ \A k \in Jobs : k # j => installs'[k] = installs[k]
    BY <1>2, <1>5 DEF ExecInv, ExecTyped
  <2>2. /\ app' \in [Jobs -> BOOLEAN]
        /\ \A k \in Jobs : k # j => app'[k] = app[k]
    <3>1. app' = app \/ \E landed \in BOOLEAN : app' = [app EXCEPT ![j] = landed]
      BY DEF Install
    <3> QED BY <3>1 DEF ExecInv, ExecTyped
  <2>3. Others(j) /\ WorkerFits(worker'[j], 1, app'[j]) /\ worker'[j] \in Workers
          /\ worker'[j].pc # "load" /\ worker'[j].rcpt = worker[j].rcpt
    <3>1. CASE app' = [app EXCEPT ![j] = TRUE] /\ Advance(j, "installed")
      <4> DEFINE w == [worker[j] EXCEPT !.pc = "write", !.to = "installed",
                                        !.code = None]
      <4>1. /\ w \in Workers
            /\ w.pc = "write" /\ w.to = "installed" /\ w.rcpt = worker[j].rcpt
        BY <1>2, Codes DEF Workers, WorkerPcs, InstallPhase
      <4>2. worker' = [worker EXCEPT ![j] = w]
        BY <3>1 DEF Advance, Toward, ExecInv, ExecTyped
      <4> HIDE DEF w
      <4>3. Others(j) /\ worker'[j] = w
        BY <4>1, <4>2, Replaced
      <4>4. app'[j] = TRUE
        BY <3>1 DEF ExecInv, ExecTyped
      <4>5. WorkerFits(w, 1, app'[j])
        BY <1>1, <1>2, <4>1, <4>4
        DEF WorkerFits, Armed, Declined, ClaimPcs, AuthorityPcs
      <4> QED BY <4>1, <4>3, <4>5
    <3>2. CASE UNCHANGED app /\ Goto(j, "refused")
      <4> DEFINE w == [worker[j] EXCEPT !.pc = "refused"]
      <4>1. /\ w \in Workers
            /\ w.pc = "refused" /\ w.rcpt = worker[j].rcpt
        BY <1>2 DEF Workers, WorkerPcs
      <4>2. worker' = [worker EXCEPT ![j] = w]
        BY <3>2 DEF Goto, ExecInv, ExecTyped
      <4> HIDE DEF w
      <4>3. Others(j) /\ worker'[j] = w
        BY <4>1, <4>2, Replaced
      <4>4. WorkerFits(w, 1, app'[j])
        BY <1>1, <1>2, <3>2, <4>1
        DEF WorkerFits, Armed, Declined, ClaimPcs, AuthorityPcs
      <4> QED BY <4>1, <4>3, <4>4
    <3>3. CASE Recover(j, "ambiguous_mutation")
      <4> DEFINE w == [worker[j] EXCEPT !.pc = "clean", !.to = "recovery_required",
                                        !.code = "ambiguous_mutation"]
      <4>1. /\ w \in Workers
            /\ w.pc = "clean" /\ w.to = "recovery_required"
            /\ w.rcpt = worker[j].rcpt
        BY <1>2, Codes DEF Workers, WorkerPcs, InstallPhase, RecoveryCodes
      <4>2. worker' = [worker EXCEPT ![j] = w]
        BY <3>3 DEF Recover, Toward, ExecInv, ExecTyped
      <4> HIDE DEF w
      <4>3. Others(j) /\ worker'[j] = w
        BY <4>1, <4>2, Replaced
      <4>4. WorkerFits(w, 1, app'[j])
        BY <1>1, <1>2, <4>1
        DEF WorkerFits, Armed, Declined, ClaimPcs, AuthorityPcs
      <4> QED BY <4>1, <4>3, <4>4
    <3>4. installs' # installs
      BY <1>2, <2>1
    <3> QED BY <3>1, <3>2, <3>3, <3>4 DEF Install
  <2>4. IInv' /\ Drift
    BY <1>1, AsideDrifts DEF ExecInv, Aside
  <2>5. ASSUME NEW k \in Jobs, k # j PROVE JobFits(k)'
    BY <2>1, <2>2, <2>3, <2>4, <2>5, JobKept DEF ExecInv, Others, Drift
  <2>6. durable' = durable /\ issued' = issued
    BY <1>1 DEF jobVars
  <2>7. JobFits(j)'
    <3>1. RecordFits(durable'[j], installs'[j], app'[j])
      BY <1>3, <2>1, <2>6 DEF RecordFits, LatePhases, CancellablePhases
    <3>2. Follows(durable'[j], worker'[j])
      BY <1>1, <1>3, <2>3, <2>6 DEF Follows
    <3> QED BY <1>2, <2>1, <2>3, <2>6, <3>1, <3>2 DEF JobFits
  <2>8. ExecTyped'
    BY <2>1, <2>2, <2>3 DEF ExecTyped, Others
  <2> QED BY <2>4, <2>5, <2>7, <2>8 DEF ExecInv
<1> QED BY <1>4, <1>5 DEF Install

\* The other calls to the panel, made in phases other than "installing" or by a
\* worker whose installation was declined.
LEMMA PanelCallsKeep ==
  ASSUME ExecInv, NEW j \in Jobs,
         Refused(j) \/ RemoteCleanup(j) \/ Launch(j) \/ Settle(j)
  PROVE  ExecInv'
<1> USE DEF panelVars, Aside
<1>1. CASE Refused(j)
  <2>1. /\ worker[j] # NoWorker /\ worker[j].pc = "refused"
        /\ UNCHANGED jobVars
        /\ installs' = installs /\ app' = app
        /\ worker' = [worker EXCEPT ![j].pc = "authority", ![j].use = "cleanup"]
    BY <1>1 DEF Refused, At
  <2>2. worker[j].rcpt.phase = "installing" => ~app[j]
    BY <2>1, Running DEF WorkerFits, Declined
  <2> HIDE <1>1
  <2> QED BY <2>1, <2>2, Authorizes
<1>2. CASE RemoteCleanup(j)
  <2>1. /\ worker[j] # NoWorker /\ worker[j].pc = "effect"
        /\ worker[j].use = "cleanup"
        /\ UNCHANGED jobVars
        /\ installs' = installs /\ app' = app
    BY <1>2 DEF RemoteCleanup, Effect, At
  <2>2. worker[j].rcpt.phase = "installing" => ~app[j]
    BY <2>1, Running DEF WorkerFits, Declined, AuthorityPcs
  <2>3. \/ Goto(j, "cancel")
        \/ Toward(j, "clean", "failed", "install_failed")
        \/ /\ worker[j].rcpt.phase = "launching"
           /\ worker' = [worker EXCEPT ![j].pc = "authority", ![j].use = "mutate"]
        \/ \E code \in RecoveryCodes : Recover(j, code)
    BY <1>2 DEF RemoteCleanup, Effect, RestartAmbiguousPhases
  <2>4. CASE Goto(j, "cancel")
    BY <2>1, <2>4, Goes
  <2>5. CASE Toward(j, "clean", "failed", "install_failed")
    BY <2>1, <2>2, <2>5, Codes, Writes DEF InstallPhase, FailureCodes
  <2>6. CASE /\ worker[j].rcpt.phase = "launching"
             /\ worker' = [worker EXCEPT ![j].pc = "authority", ![j].use = "mutate"]
    <3> HIDE <1>2
    <3> QED BY <2>1, <2>6, Authorizes
  <2>7. CASE \E code \in RecoveryCodes : Recover(j, code)
    BY <2>1, <2>7, Codes, Writes DEF Recover, InstallPhase
  <2> QED BY <2>3, <2>4, <2>5, <2>6, <2>7
<1>3. CASE Launch(j)
  <2>1. /\ worker[j] # NoWorker /\ worker[j].pc = "effect"
        /\ worker[j].rcpt.phase = "launching"
        /\ UNCHANGED jobVars
        /\ installs' = installs /\ app' = app
    BY <1>3 DEF Launch, Effect, At
  <2>2. CASE Advance(j, "health_check")
    BY <2>1, <2>2, Codes, Writes DEF Advance, InstallPhase
  <2>3. CASE Fail(j, "launch_failed")
    BY <2>1, <2>3, Codes, Writes DEF Fail, InstallPhase, FailureCodes
  <2>4. CASE \E code \in RecoveryCodes : Recover(j, code)
    BY <2>1, <2>4, Codes, Writes DEF Recover, InstallPhase
  <2> QED BY <1>3, <2>2, <2>3, <2>4 DEF Launch
<1>4. CASE Settle(j)
  <2>1. /\ worker[j] # NoWorker /\ worker[j].pc = "effect"
        /\ UNCHANGED jobVars
        /\ installs' = installs /\ app' = app
    BY <1>4 DEF Settle, Effect, At
  <2>2. CASE Advance(j, "healthy_unclaimed")
    BY <2>1, <2>2, Codes, Writes DEF Advance, InstallPhase
  <2>3. CASE Recover(j, "verification_required")
    BY <2>1, <2>3, Codes, Writes DEF Recover, InstallPhase, RecoveryCodes
  <2> QED BY <1>4, <2>2, <2>3 DEF Settle
<1> QED BY <1>1, <1>2, <1>3, <1>4

-----------------------------------------------------------------------------
(***************************************************************************)
(* Ending.                                                                 *)
(***************************************************************************)

\* A cancellation seen, and its local part.
LEMMA CancelKeeps ==
  ASSUME ExecInv, NEW j \in Jobs, CancelSeen(j) \/ CancelLocally(j)
  PROVE  ExecInv'
<1> USE DEF panelVars, Aside
<1>1. CASE CancelSeen(j)
  <2>1. /\ worker[j] # NoWorker /\ worker[j].pc = "loop"
        /\ UNCHANGED <<jobVars, stopped>>
        /\ installs' = installs /\ app' = app
    BY <1>1 DEF CancelSeen, At
  <2>2. \/ /\ worker[j].rcpt.phase = "staging"
           /\ worker' = [worker EXCEPT ![j].pc = "authority", ![j].use = "cleanup"]
        \/ Goto(j, "cancel")
    BY <1>1 DEF CancelSeen, Goto
  <2> HIDE <1>1
  <2>3. CASE /\ worker[j].rcpt.phase = "staging"
             /\ worker' = [worker EXCEPT ![j].pc = "authority", ![j].use = "cleanup"]
    BY <2>1, <2>3, Authorizes
  <2>4. CASE Goto(j, "cancel")
    BY <2>1, <2>4, Goes
  <2> QED BY <2>2, <2>3, <2>4
<1>2. CASE CancelLocally(j)
  <2>1. /\ worker[j] # NoWorker /\ worker[j].pc = "cancel"
        /\ UNCHANGED jobVars
        /\ installs' = installs /\ app' = app
    BY <1>2 DEF CancelLocally, At
  <2>2. \/ \E code \in CancelCodes : Toward(j, "write", "cancelled", code)
        \/ Recover(j, "verification_required")
        \/ Exit(j)
    BY <1>2 DEF CancelLocally, CancelCodes
  <2>3. CASE \E code \in CancelCodes : Toward(j, "write", "cancelled", code)
    BY <2>1, <2>3, Codes, Writes DEF InstallPhase
  <2>4. CASE Recover(j, "verification_required")
    BY <2>1, <2>4, Codes, Writes DEF Recover, InstallPhase, RecoveryCodes
  <2>5. CASE Exit(j)
    BY <2>1, <2>5, Ends
  <2> QED BY <2>2, <2>3, <2>4, <2>5
<1> QED BY <1>1, <1>2

\* Cleaning and reading again before a failure or a quarantine is written.
LEMMA CleaningKeeps ==
  ASSUME ExecInv, NEW j \in Jobs,
         CleanThenFail(j) \/ CleanThenRecover(j) \/ Reread(j)
  PROVE  ExecInv'
<1> USE DEF panelVars, Aside
<1>1. CASE CleanThenFail(j)
  <2>1. /\ worker[j] # NoWorker /\ worker[j].pc = "clean"
        /\ UNCHANGED jobVars
        /\ installs' = installs /\ app' = app
    BY <1>1 DEF CleanThenFail, At
  <2>2. CASE Goto(j, "reread")
    BY <2>1, <2>2, Goes
  <2>3. CASE Recover(j, "verification_required")
    BY <2>1, <2>3, Codes, Writes DEF Recover, InstallPhase, RecoveryCodes
  <2>4. CASE Exit(j)
    BY <2>1, <2>4, Ends
  <2> QED BY <1>1, <2>2, <2>3, <2>4 DEF CleanThenFail
<1>2. CASE CleanThenRecover(j)
  <2>1. /\ worker[j] # NoWorker /\ worker[j].pc = "clean"
        /\ Refresh
        /\ installs' = installs /\ app' = app
    BY <1>2 DEF CleanThenRecover, At
  <2>2. CASE ~IsActive(durable[j]) /\ Adopt(j, "loop")
    <3>1. CASE durable[j] = NoReceipt
      <4>1. Stop(j)
        BY <2>2, <3>1 DEF Adopt
      <4> QED BY <2>1, <4>1, Ends
    <3>2. CASE durable[j] # NoReceipt
      <4>1. durable[j].phase # "installing"
        BY <2>2, <3>2 DEF IsActive, IsTerminal, TerminalPhases
      <4> QED BY <2>1, <2>2, <4>1, Adopts
    <3> QED BY <3>1, <3>2
  <2>3. CASE Goto(j, "reread")
    BY <2>1, <2>3, Goes
  <2>4. CASE Stop(j)
    BY <2>1, <2>4, Ends
  <2> QED BY <1>2, <2>2, <2>3, <2>4 DEF CleanThenRecover
<1>3. CASE Reread(j)
  <2>1. /\ worker[j] # NoWorker /\ worker[j].pc = "reread"
        /\ Refresh
        /\ installs' = installs /\ app' = app
        /\ \/ IsActive(durable[j]) /\ Adopt(j, "write")
           \/ ~IsActive(durable[j]) /\ Adopt(j, "loop")
    BY <1>3 DEF Reread, At
  <2>2. CASE IsActive(durable[j]) /\ Adopt(j, "write")
    <3>1. durable[j].phase = worker[j].rcpt.phase
      BY <2>1, <2>2, Running DEF Follows, IsActive, IsTerminal, TerminalPhases
    <3>2. /\ worker[j].to \in {"failed", "recovery_required"}
          /\ worker[j].to = "failed" /\ durable[j].phase = "installing" => ~app[j]
      BY <2>1, <3>1, Running DEF WorkerFits, Declined
    <3> QED BY <2>1, <2>2, <3>2, Adopts
  <2>3. CASE ~IsActive(durable[j]) /\ Adopt(j, "loop")
    <3>1. CASE durable[j] = NoReceipt
      <4>1. Stop(j)
        BY <2>3, <3>1 DEF Adopt
      <4> QED BY <2>1, <4>1, Ends
    <3>2. CASE durable[j] # NoReceipt
      <4>1. durable[j].phase # "installing"
        BY <2>3, <3>2 DEF IsActive, IsTerminal, TerminalPhases
      <4> QED BY <2>1, <2>3, <4>1, Adopts
    <3> QED BY <3>1, <3>2
  <2> QED BY <2>1, <2>2, <2>3
<1> QED BY <1>1, <1>2, <1>3

\* A transition its worker asked for.  Into "installing" it comes from staging,
\* where nothing was run yet; into a late phase, from "installed" or with the app
\* present; into a failure of "installing", from a declined installation.
LEMMA TransitionKeeps ==
  ASSUME ExecInv, NEW j \in Jobs, worker[j] # NoWorker, worker[j].pc = "write",
         Transition(j, worker[j].to, worker[j].code, None), AfterWrite(j),
         installs' = installs, app' = app
  PROVE  ExecInv'
<1> DEFINE to == worker[j].to
<1>1. /\ j \in issued
      /\ worker[j] \in Workers
      /\ WorkerFits(worker[j], installs[j], app[j])
      /\ Follows(durable[j], worker[j])
      /\ RecordFits(durable[j], installs[j], app[j])
  BY Running
<1>2. worker[j].code \in InstallResultCode \cup {None}
  BY <1>1 DEF Workers
<1>3. /\ IInv'
      /\ issued' = issued
      /\ durable[j] # NoReceipt
      /\ to \in NextPhase(durable[j].phase)
      /\ \A k \in Jobs : k # j => Drifted(k)
      /\ \/ durable'[j] = durable[j] /\ cache' = NoCache
         \/ /\ durable'[j] \in InstallJobReceipt
            /\ durable'[j].phase = to
            /\ to = "failed" => durable'[j].failure_stage = durable[j].phase
  BY <1>2, TransitionMoves DEF ExecInv
<1>4. durable[j].phase \in InstallPhase \ TerminalPhases
  <2>1. durable[j].phase \in InstallPhase
    BY <1>3, InvFacts DEF ExecInv, Sound, InstallJobReceipt
  <2> QED BY <1>3, <2>1 DEF NextPhase
<1>5. /\ to = "installing" => durable[j].phase = "staging"
      /\ to \in {"launching", "health_check", "healthy_unclaimed"}
           => durable[j].phase \in LatePhases
      /\ to \in CancellablePhases => durable[j].phase \in CancellablePhases
      /\ to \in InstallPhase
  BY <1>3, <1>4
  DEF NextPhase, Step, ActivePhases, InstallPhase, TerminalPhases, LatePhases,
      CancellablePhases
<1>6. durable[j].phase = "installing" => worker[j].rcpt.phase = "installing"
  BY <1>1, <1>3 DEF Follows
<1> HIDE DEF to
<1>7. RecordFits(durable'[j], installs[j], app[j])
  <2>1. CASE durable'[j] = durable[j]
    BY <1>1, <2>1
  <2>2. CASE /\ durable'[j] \in InstallJobReceipt
             /\ durable'[j].phase = to
             /\ to = "failed" => durable'[j].failure_stage = durable[j].phase
    <3>1. to = "failed" /\ durable[j].phase = "installing" => ~app[j]
      BY <1>1, <1>6 DEF WorkerFits, Declined, to
    <3>2. to \in LatePhases => app[j]
      BY <1>1, <1>3, <1>5 DEF WorkerFits, RecordFits, LatePhases, to
    <3>3. installs[j] # 0 => installs[j] = 1 /\ to \notin CancellablePhases
      BY <1>1, <1>3, <1>5 DEF RecordFits
    <3> QED BY <2>2, <3>1, <3>2, <3>3 DEF RecordFits
  <2> QED BY <1>3, <2>1, <2>2
<1>8. /\ Others(j)
      /\ worker'[j] # NoWorker =>
           /\ WorkerFits(worker'[j], installs[j], app[j])
           /\ Follows(durable'[j], worker'[j])
  <2>1. CASE cache' = NoCache
    <3>1. worker' = [worker EXCEPT ![j] = NoWorker]
      BY <2>1 DEF AfterWrite, Stop
    <3> QED BY <3>1 DEF ExecInv, ExecTyped, Others
  <2>2. CASE cache' # NoCache
    <3> DEFINE w == [worker[j] EXCEPT !.pc = "loop", !.rcpt = durable'[j]]
    <3>1. /\ w \in Workers
          /\ w.pc = "loop" /\ w.rcpt = durable'[j]
      BY <1>1, <1>3, <2>2 DEF Workers, WorkerPcs
    <3>2. worker' = [worker EXCEPT ![j] = w]
      BY <2>2 DEF AfterWrite, ExecInv, ExecTyped
    <3> HIDE DEF w
    <3>3. Others(j) /\ worker'[j] = w
      BY <3>1, <3>2, Replaced
    <3>4. to = "installing" => installs[j] = 0 /\ ~app[j]
      BY <1>1, <1>3, <1>5 DEF RecordFits, WorkerFits, CancellablePhases, to
    <3>5. WorkerFits(w, installs[j], app[j]) /\ Follows(durable'[j], w)
      BY <1>3, <2>2, <3>1, <3>4
      DEF WorkerFits, Armed, Declined, Follows, ClaimPcs, AuthorityPcs
    <3> QED BY <3>3, <3>5
  <2> QED BY <2>1, <2>2
<1>9. JobFits(j)'
  BY <1>1, <1>3, <1>7, <1>8 DEF JobFits
<1>10. ASSUME NEW k \in Jobs, k # j PROVE JobFits(k)'
  BY <1>3, <1>8, <1>10, JobKept DEF ExecInv, Others
<1>11. ExecTyped'
  BY <1>8 DEF ExecInv, ExecTyped, Others
<1> QED BY <1>3, <1>9, <1>10, <1>11 DEF ExecInv

\* The write, and the failure of the store under any call.
LEMMA WriteKeeps ==
  ASSUME ExecInv, NEW j \in Jobs, Write(j) \/ StoreFails(j)
  PROVE  ExecInv'
<1> USE DEF panelVars, Aside
<1>1. CASE Write(j)
  <2>1. /\ worker[j] # NoWorker /\ worker[j].pc = "write"
        /\ installs' = installs /\ app' = app
    BY <1>1 DEF Write, At
  <2>2. CASE Transition(j, worker[j].to, worker[j].code, None) /\ AfterWrite(j)
    BY <2>1, <2>2, TransitionKeeps
  <2>3. CASE Refresh /\ Stop(j)
    BY <2>1, <2>3, Ends
  <2>4. CASE Refresh /\ OnlyCancelled(j) /\ Adopt(j, "loop")
    BY <2>1, <2>4, CancelledEarly, Adopts
  <2> QED BY <1>1, <2>2, <2>3, <2>4 DEF Write
<1>2. CASE StoreFails(j)
  BY <1>2, Ends DEF StoreFails, At
<1> QED BY <1>1, <1>2

-----------------------------------------------------------------------------
(***************************************************************************)
(* Every step.                                                             *)
(***************************************************************************)

\* The end of the process takes the workers with it.
LEMMA RestartKeeps ==
  ASSUME ExecInv, Restart
  PROVE  ExecInv'
<1>1. /\ Aside
      /\ \A j \in Jobs : worker'[j] = NoWorker
      /\ worker' \in [Jobs -> Workers \cup {NoWorker}]
      /\ installs' = installs /\ app' = app
  BY DEF Restart, Aside, panelVars
<1>2. IInv' /\ Drift
  BY <1>1, AsideDrifts DEF ExecInv
<1>3. ASSUME NEW k \in Jobs PROVE JobFits(k)'
  BY <1>1, <1>2, JobKept DEF ExecInv, Drift
<1>4. ExecTyped'
  BY <1>1 DEF ExecInv, ExecTyped
<1> QED BY <1>2, <1>3, <1>4 DEF ExecInv

\* Every step keeps the invariant.
LEMMA ExecStepKeeps ==
  ASSUME ExecInv, [ExecNext]_vars
  PROVE  ExecInv'
<1>1. CASE ReaderFails
  BY <1>1, BesideKeeps DEF ReaderFails, Aside, execVars
<1>2. ASSUME NEW j \in Jobs, EnsureJob(j)
      PROVE  ExecInv'
  BY <1>2, EnsureKeeps
<1>3. ASSUME NEW j \in Jobs, WorkerStep(j)
      PROVE  ExecInv'
  BY <1>3, ClaimingKeeps, EarlyPhasesKeep, FetchKeeps, ReadyPhasesKeep,
     PanelPhasesKeep, StagingKeeps, AuthorityKeeps, EnvironmentKeeps,
     InstallKeeps, PanelCallsKeep, CancelKeeps, CleaningKeeps, WriteKeeps
  DEF WorkerStep
<1>4. ASSUME NEW j \in Jobs, AskCancel(j)
      PROVE  ExecInv'
  BY <1>4, BesideKeeps DEF AskCancel, Aside, execVars
<1>5. ASSUME NEW j \in Jobs, ResumeQuarantines(j)
      PROVE  ExecInv'
  BY <1>5, BesideKeeps DEF ResumeQuarantines, Aside, localVars, panelVars
<1>6. ASSUME NEW plan \in Plans, Approve(plan)
      PROVE  ExecInv'
  BY <1>6, BesideKeeps DEF Approve, Aside, execVars
<1>7. CASE Restart
  BY <1>7, RestartKeeps
<1>8. CASE UNCHANGED vars
  BY <1>8, BesideKeeps DEF vars, Aside, execVars
<1> QED BY <1>1, <1>2, <1>3, <1>4, <1>5, <1>6, <1>7, <1>8 DEF ExecNext

\* An empty store, no worker, and panels nothing was run on.
LEMMA ExecInitKeeps == ExecInit => ExecInv
<1> SUFFICES ASSUME ExecInit PROVE ExecInv
  OBVIOUS
<1>1. IInv
  BY InitKeeps DEF ExecInit
<1>2. ExecTyped
  BY DEF ExecInit, ExecTyped
<1>3. ASSUME NEW j \in Jobs PROVE JobFits(j)
  <2>1. durable[j] = NoReceipt /\ worker[j] = NoWorker /\ installs[j] = 0
    BY DEF ExecInit, Init
  <2> QED BY <2>1 DEF JobFits, RecordFits
<1> QED BY <1>1, <1>2, <1>3 DEF ExecInv

\* The invariant holds throughout every behaviour.
LEMMA ExecSpecKeeps == ExecSpec => []ExecInv
<1>1. ExecInv /\ [ExecNext]_vars => ExecInv'
  BY ExecStepKeeps
<1> QED BY <1>1, ExecInitKeeps, PTL DEF ExecSpec

\* A worker's step makes at most one call to the manager.
LEMMA WorkerObeys ==
  ASSUME ExecInv, NEW j \in Jobs, WorkerStep(j)
  PROVE  [Next]_jobVars
<1>1. CASE \/ Finish(j) \/ Approved(j) \/ Authorizing(j) \/ Preflight(j)
           \/ Fetch(j) \/ Fetched(j) \/ ArtifactReady(j) \/ Revalidating(j)
           \/ Staging(j) \/ Installing(j) \/ Installed(j) \/ Launching(j)
           \/ HealthCheck(j) \/ EnvironmentFails(j) \/ Stage(j) \/ Install(j)
           \/ Refused(j) \/ RemoteCleanup(j) \/ Launch(j) \/ Settle(j)
           \/ CancelSeen(j) \/ CancelLocally(j) \/ CleanThenFail(j)
  BY <1>1
  DEF Finish, Approved, Authorizing, Preflight, Fetch, Fetched, ArtifactReady,
      Revalidating, Staging, Installing, Installed, Launching, HealthCheck,
      EnvironmentFails, Stage, Install, Refused, RemoteCleanup, Launch, Settle,
      CancelSeen, CancelLocally, CleanThenFail
<1>2. CASE \/ Load(j) \/ ClaimJob(j) \/ CleanBeforeClaim(j) \/ ClaimCleaned(j)
           \/ Authority(j) \/ Verify(j) \/ CleanThenRecover(j) \/ Reread(j)
           \/ StoreFails(j)
  BY <1>2
  DEF Load, ClaimJob, RetryClaim, CleanBeforeClaim, ClaimCleaned, Authority,
      Verify, CleanThenRecover, Reread, StoreFails, Next
<1>3. CASE Write(j)
  <2>1. CASE Transition(j, worker[j].to, worker[j].code, None)
    <3>1. worker[j].code \in InstallResultCode \cup {None}
      BY <1>3, Running DEF Write, At, Workers
    <3>2. durable[j] # NoReceipt /\ worker[j].to \in NextPhase(durable[j].phase)
      BY <2>1 DEF Transition, Transitioning, MayTransition
    <3> QED BY <2>1, <3>1, <3>2 DEF Next
  <2>2. CASE Refresh
    BY <2>2 DEF Next
  <2> QED BY <1>3, <2>1, <2>2 DEF Write
<1> QED BY <1>1, <1>2, <1>3 DEF WorkerStep

\* So does every other step.
LEMMA StepObeys ==
  ASSUME ExecInv, [ExecNext]_vars
  PROVE  [Next]_jobVars
  BY WorkerObeys
  DEF ExecNext, ReaderFails, EnsureJob, AskCancel, ResumeQuarantines, Approve,
      Restart, vars, Next

-----------------------------------------------------------------------------
(***************************************************************************)
(* The theorems.                                                           *)
(***************************************************************************)

\* Whatever workers, restarts, lost claims and unknown results come between,
\* async_install_staged_apk reaches the package manager once for a job.
THEOREM InstalledAtMostOnce == ExecSpec => []InstallAtMostOnce
<1>1. ExecInv => InstallAtMostOnce
  BY DEF ExecInv, ExecTyped, JobFits, RecordFits, InstallAtMostOnce
<1> QED BY <1>1, ExecSpecKeeps, PTL

\* A receipt past installation stands for an app that is there, and one failed
\* in installation (_async_install_refused) for a panel without it.
THEOREM PhaseTellsTheTruth == ExecSpec => []PhaseMatchesPanel
<1>1. ExecInv => PhaseMatchesPanel
  BY DEF ExecInv, JobFits, RecordFits, LatePhases, PhaseMatchesPanel
<1> QED BY <1>1, ExecSpecKeeps, PTL

\* The executor never reaches around the manager's calls (async_get, async_claim,
\* async_transition and the barriers): seen through its receipts, its cache and
\* its claims it is the manager alone, so what is proved of InstallJobs holds
\* with workers, restarts and failures beside it.
THEOREM ExecutorObeysManager == ExecSpec => Spec
<1>1. ExecInit => Init
  BY DEF ExecInit
<1>2. ExecInv /\ [ExecNext]_vars => [Next]_jobVars
  BY StepObeys
<1> QED BY <1>1, <1>2, ExecSpecKeeps, PTL DEF ExecSpec, Spec

-----------------------------------------------------------------------------
(***************************************************************************)
(* The job's private APK file on the Home Assistant host.  A finished job  *)
(* has none because whoever finishes one has cleaned, or comes from a      *)
(* phase in which there is nothing to clean.  Between its cleaning and the *)
(* write a worker makes further calls, and other flows run; the invariant  *)
(* says that no bytes come back meanwhile, and that a running worker in a  *)
(* phase that downloads works for a job that nobody else has quarantined.  *)
(***************************************************************************)

\* The phases in which a worker obtains bytes.
FetchPhases == {"downloading", "artifact_ready", "revalidating"}

\* The phases in which a job has no bytes in custody: before the download,
\* after the installation, and at the end.
BarePhases ==
  {"approved", "authorizing", "preflight", "launching", "health_check",
   "healthy_unclaimed"} \cup TerminalPhases

\* A worker that has cleaned, and is about to record what follows from it.
HasCleaned(w) ==
  \/ w.pc = "claim_clean"
  \/ w.pc = "reread"
  \/ w.pc = "write" /\ w.to \in TerminalPhases \cup {"launching"}

\* What a worker's variables say of a stored receipt r and of local custody.
WorkerKeepsCustody(w, r, bytes) ==
  /\ w.pc = "fetch" => w.rcpt.phase \in FetchPhases
  /\ HasCleaned(w) => bytes = "none"
  /\ w.pc # "load" =>
       /\ w.rcpt.phase \in ArtifactRequiredPhases => w.rcpt.actual_apk_bytes
       /\ w.rcpt.phase \in FetchPhases => r.phase # "recovery_required"

CustodyFits(j) ==
  /\ j \notin issued => custody[j] = "none"
  /\ durable[j] # NoReceipt =>
       /\ durable[j].phase \in BarePhases => custody[j] = "none"
       /\ worker[j] # NoWorker =>
            WorkerKeepsCustody(worker[j], durable[j], custody[j])

CustodyInv ==
  /\ ExecInv
  /\ custody \in [Jobs -> {"none", "partial", "ready"}]
  /\ \A j \in Jobs : CustodyFits(j)

-----------------------------------------------------------------------------
(***************************************************************************)
(* Custody: what the manager's operations do to the phases.                *)
(***************************************************************************)

\* The receipt of job k is dropped, or stays in its phase.
SamePhase(k) ==
  \/ durable'[k] = NoReceipt
  \/ durable[k] # NoReceipt /\ durable'[k].phase = durable[k].phase

\* A write leaves each job's phase if its document does.
LEMMA SaveSteady ==
  ASSUME NEW doc, NEW claims, Save(doc, claims), NEW K,
         \A k \in K : \/ doc[k] = NoReceipt
                      \/ durable[k] # NoReceipt /\ doc[k].phase = durable[k].phase
  PROVE  \A k \in K : SamePhase(k)
  BY DEF Save, SamePhase

\* No phase of a stored job moves when one is created or asked to cancel.
LEMMA CreateSteady ==
  ASSUME IInv, NEW plan \in Plans, Create(plan)
  PROVE  issued \subseteq issued' /\ \A k \in issued : SamePhase(k)
<1>1. PICK j \in Jobs \ issued :
        /\ \E D \in Prunes(durable, j) :
             Save([Without(durable, D) EXCEPT ![j] = ApprovedReceipt(plan)],
                  Reconciled(claimed, durable))
        /\ issued' = issued \cup {j}
  BY DEF Create, Creating, Commit
<1>2. PICK D \in Prunes(durable, j) :
        Save([Without(durable, D) EXCEPT ![j] = ApprovedReceipt(plan)],
             Reconciled(claimed, durable))
  BY <1>1
<1> DEFINE doc == [Without(durable, D) EXCEPT ![j] = ApprovedReceipt(plan)]
<1>3. durable \in Documents /\ issued \subseteq Jobs
  BY InvFacts DEF IInv, TypeOK
<1>4. /\ Without(durable, D) \in Documents
      /\ \A k \in Jobs : Without(durable, D)[k] \in {durable[k], NoReceipt}
  BY <1>2, <1>3, PruneFacts
<1>5. \A k \in issued : doc[k] \in {durable[k], NoReceipt}
  BY <1>1, <1>3, <1>4 DEF Documents
<1> HIDE DEF doc
<1>6. Save(doc, Reconciled(claimed, durable))
  BY <1>2 DEF doc
<1> QED BY <1>1, <1>5, <1>6, SaveSteady

LEMMA CancelSteady ==
  ASSUME IInv, NEW j \in Jobs, RequestCancel(j)
  PROVE  issued' = issued /\ \A k \in issued : SamePhase(k)
<1> DEFINE r == CancelRequested(durable[j])
           doc == [durable EXCEPT ![j] = r]
<1>1. /\ durable[j] # NoReceipt
      /\ Save(doc, Reconciled(claimed, durable))
      /\ issued' = issued
  BY DEF RequestCancel, Cancelling, Commit
<1>2. /\ durable \in Documents /\ issued \subseteq Jobs
      /\ durable[j] \in InstallJobReceipt
  BY <1>1, InvFacts DEF IInv, TypeOK, Sound
<1>3. r.phase = durable[j].phase
  BY <1>2 DEF CancelRequested, InstallJobReceipt
<1> HIDE DEF r
<1>4. \A k \in issued : \/ doc[k] = NoReceipt
                        \/ durable[k] # NoReceipt /\ doc[k].phase = durable[k].phase
  BY <1>1, <1>2, <1>3 DEF Documents
<1> HIDE DEF doc
<1> QED BY <1>1, <1>4, SaveSteady

\* A claim leaves the other jobs', and its own job's phase or quarantines it,
\* the latter only if its caller has cleaned.
LEMMA ClaimSteady ==
  ASSUME IInv, NEW j \in Jobs, NEW cleaned \in BOOLEAN, Claim(j, cleaned)
  PROVE  /\ issued' = issued
         /\ \A k \in issued \ {j} : SamePhase(k)
         /\ \/ SamePhase(j)
            \/ cleaned /\ durable'[j].phase = "recovery_required"
         /\ cache' # NoCache => durable'[j] # NoReceipt
<1> DEFINE r == Claimed(durable[j])
           doc == [durable EXCEPT ![j] = r]
<1>1. /\ Claimable(durable[j])
      /\ ClaimTerminalizes(durable[j]) => cleaned
      /\ issued' = issued
      /\ \E D \in Prunes(doc, j), c \in {Reconciled([claimed EXCEPT ![j] =
               doc[j].executor_generation], doc)} : Save(Without(doc, D), c)
  BY DEF Claim, Claiming, Commit
<1>2. PICK D \in Prunes(doc, j) :
        Save(Without(doc, D),
             Reconciled([claimed EXCEPT ![j] = doc[j].executor_generation], doc))
  BY <1>1
<1>3. /\ IsActive(durable[j]) /\ durable[j] # NoReceipt
      /\ Sound(durable[j]) /\ durable[j] \in InstallJobReceipt
      /\ issued \subseteq Jobs
  BY <1>1, InvFacts DEF Claimable, IsActive, IInv, TypeOK, Sound
<1>4. /\ r \in InstallJobReceipt /\ r # NoReceipt
      /\ r.phase \in {"recovery_required", durable[j].phase}
  BY <1>1, <1>3, ClaimedSound DEF Sound
<1>5. cleaned \/ r.phase = durable[j].phase
  <2>1. CASE ClaimTerminalizes(durable[j])
    BY <1>1, <2>1
  <2>2. CASE ~ClaimTerminalizes(durable[j])
    BY <1>3, <2>2 DEF Claimed, ClaimTerminalizes, InstallJobReceipt
  <2> QED BY <2>1, <2>2
<1> HIDE DEF r
<1>6. /\ Without(doc, D)[j] = r
      /\ \A k \in Jobs : k # j => Without(doc, D)[k] \in {durable[k], NoReceipt}
  BY <1>2, <1>4, WrittenOrSame
<1> HIDE DEF doc
<1>7. \A k \in issued \ {j} : SamePhase(k)
  BY <1>2, <1>3, <1>6, SaveSteady
<1>8. durable'[j] = r \/ (durable'[j] = durable[j] /\ cache' = NoCache)
  BY <1>2, <1>6 DEF Save, Forget
<1> QED BY <1>1, <1>3, <1>4, <1>5, <1>7, <1>8 DEF SamePhase

\* A transition leaves the phases of the other jobs.
LEMMA TransitionSteady ==
  ASSUME IInv, NEW j \in Jobs, NEW to, NEW code \in InstallResultCode \cup {None},
         Transition(j, to, code, None)
  PROVE  \A k \in issued \ {j} : SamePhase(k)
<1> DEFINE r == Transitioned(durable[j], to, code, None)
           doc == [durable EXCEPT ![j] = r]
<1>1. /\ durable[j] # NoReceipt
      /\ MayTransition(durable[j], to, code, None)
      /\ \E D \in Prunes(doc, j) :
           Save(Without(doc, D), Reconciled(claimed, doc))
  BY DEF Transition, Transitioning, Commit
<1>2. PICK D \in Prunes(doc, j) : Save(Without(doc, D), Reconciled(claimed, doc))
  BY <1>1
<1>3. Sound(durable[j]) /\ issued \subseteq Jobs
  BY <1>1, InvFacts DEF IInv, TypeOK
<1>4. r \in InstallJobReceipt
  BY <1>1, <1>3, TransitionedSound DEF Sound
<1> HIDE DEF r
<1>5. \A k \in Jobs : k # j => Without(doc, D)[k] \in {durable[k], NoReceipt}
  BY <1>2, <1>4, WrittenOrSame
<1> HIDE DEF doc
<1> QED BY <1>2, <1>3, <1>5, SaveSteady

-----------------------------------------------------------------------------
(***************************************************************************)
(* Custody: from one job to all of them.                                   *)
(***************************************************************************)

\* A job whose phase, worker and custody are left alone, or whose worker ends.
LEMMA CustodyKept ==
  ASSUME NEW k \in Jobs, JobFits(k), CustodyFits(k), custody'[k] = custody[k],
         worker'[k] \in {worker[k], NoWorker}, issued \subseteq issued',
         k \in issued => SamePhase(k)
  PROVE  CustodyFits(k)'
<1>1. CASE k \notin issued
  <2>1. custody'[k] = "none" /\ worker'[k] = NoWorker
    BY <1>1 DEF JobFits, CustodyFits
  <2> QED BY <2>1 DEF CustodyFits
<1>2. CASE k \in issued
  <2>1. k \in issued'
    BY <1>2
  <2>2. CASE durable'[k] = NoReceipt
    BY <2>1, <2>2 DEF CustodyFits
  <2>3. CASE durable'[k] # NoReceipt
    <3>1. durable[k] # NoReceipt /\ durable'[k].phase = durable[k].phase
      BY <1>2, <2>3 DEF SamePhase
    <3>2. WorkerKeepsCustody(worker[k], durable[k], custody[k])
            => WorkerKeepsCustody(worker[k], durable'[k], custody'[k])
      BY <3>1 DEF WorkerKeepsCustody
    <3> QED BY <2>1, <3>1, <3>2 DEF CustodyFits
  <2> QED BY <2>2, <2>3
<1> QED BY <1>1, <1>2

\* From one job to all of them.
LEMMA CustodyStep ==
  ASSUME CustodyInv, ExecInv', NEW j \in Jobs, issued \subseteq issued',
         custody' \in [Jobs -> {"none", "partial", "ready"}],
         \A k \in issued \ {j} : SamePhase(k),
         \A k \in Jobs \ {j} : /\ custody'[k] = custody[k]
                               /\ worker'[k] \in {worker[k], NoWorker},
         CustodyFits(j)'
  PROVE  CustodyInv'
<1>1. \A k \in Jobs \ {j} : CustodyFits(k)'
  BY CustodyKept DEF CustodyInv, ExecInv
<1> QED BY <1>1 DEF CustodyInv

\* A step of no worker that leaves the custody alone.
LEMMA CustodyBeside ==
  ASSUME CustodyInv, ExecInv', issued \subseteq issued',
         \A k \in issued : SamePhase(k), UNCHANGED <<worker, custody>>
  PROVE  CustodyInv'
<1>1. \A k \in Jobs : CustodyFits(k)'
  BY CustodyKept DEF CustodyInv, ExecInv
<1> QED BY <1>1 DEF CustodyInv

\* A worker's step that leaves the receipts alone.
LEMMA CustodyMoves ==
  ASSUME CustodyInv, ExecInv', NEW j \in Jobs, worker[j] # NoWorker,
         durable' = durable, issued' = issued,
         NEW w, worker' = [worker EXCEPT ![j] = w],
         NEW c \in {"none", "partial", "ready"}, custody' = [custody EXCEPT ![j] = c],
         durable[j] # NoReceipt =>
           /\ durable[j].phase \in BarePhases /\ c # "none" => c = custody[j]
           /\ w # NoWorker => WorkerKeepsCustody(w, durable[j], c)
  PROVE  CustodyInv'
<1>1. /\ custody \in [Jobs -> {"none", "partial", "ready"}] /\ CustodyFits(j)
      /\ DOMAIN worker = Jobs
  BY DEF CustodyInv, ExecInv, ExecTyped
<1>2. /\ custody' \in [Jobs -> {"none", "partial", "ready"}] /\ custody'[j] = c
      /\ \A k \in Jobs \ {j} : custody'[k] = custody[k] /\ worker'[k] = worker[k]
      /\ worker'[j] = w
  BY <1>1
<1>3. j \in issued
  BY Running DEF CustodyInv
<1>4. \A k \in issued : SamePhase(k)
  BY DEF SamePhase
<1>5. CustodyFits(j)'
  BY <1>1, <1>2, <1>3 DEF CustodyFits
<1> QED BY <1>2, <1>4, <1>5, CustodyStep

-----------------------------------------------------------------------------
(***************************************************************************)
(* Custody: how a step may leave the worker.                               *)
(***************************************************************************)

\* Worker j goes to pc with the same snapshot, on the way to record `to`.
Steps(j, pc, to) ==
  \E w : /\ worker' = [worker EXCEPT ![j] = w]
         /\ w.rcpt = worker[j].rcpt
         /\ w.pc = pc /\ w.to = to

\* The steps that leave a worker its snapshot.
LEMMA StepsFacts ==
  ASSUME ExecInv, NEW j \in Jobs, worker[j] # NoWorker,
         NEW pc, NEW to, NEW code, NEW use
  PROVE  /\ Toward(j, pc, to, code) => Steps(j, pc, to)
         /\ Goto(j, pc) => Steps(j, pc, worker[j].to)
         /\ worker' = [worker EXCEPT ![j].pc = pc, ![j].use = use]
              => Steps(j, pc, worker[j].to)
         /\ worker' = [worker EXCEPT ![j].staged = TRUE, ![j].pc = pc,
                                     ![j].to = to, ![j].code = code]
              => Steps(j, pc, to)
<1>1. worker[j] \in Workers /\ worker \in [Jobs -> Workers \cup {NoWorker}]
  BY Running DEF ExecInv, ExecTyped
<1>2. ASSUME Toward(j, pc, to, code) PROVE Steps(j, pc, to)
  <2> DEFINE w == [worker[j] EXCEPT !.pc = pc, !.to = to, !.code = code]
  <2>1. w.rcpt = worker[j].rcpt /\ w.pc = pc /\ w.to = to
    BY <1>1 DEF Workers
  <2>2. worker' = [worker EXCEPT ![j] = w]
    BY <1>1, <1>2 DEF Toward
  <2> HIDE DEF w
  <2> QED BY <2>1, <2>2 DEF Steps
<1>3. ASSUME Goto(j, pc) PROVE Steps(j, pc, worker[j].to)
  <2> DEFINE w == [worker[j] EXCEPT !.pc = pc]
  <2>1. w.rcpt = worker[j].rcpt /\ w.pc = pc /\ w.to = worker[j].to
    BY <1>1 DEF Workers
  <2>2. worker' = [worker EXCEPT ![j] = w]
    BY <1>1, <1>3 DEF Goto
  <2> HIDE DEF w
  <2> QED BY <2>1, <2>2 DEF Steps
<1>4. ASSUME worker' = [worker EXCEPT ![j].pc = pc, ![j].use = use]
      PROVE  Steps(j, pc, worker[j].to)
  <2> DEFINE w == [worker[j] EXCEPT !.pc = pc, !.use = use]
  <2>1. w.rcpt = worker[j].rcpt /\ w.pc = pc /\ w.to = worker[j].to
    BY <1>1 DEF Workers
  <2>2. worker' = [worker EXCEPT ![j] = w]
    BY <1>1, <1>4
  <2> HIDE DEF w
  <2> QED BY <2>1, <2>2 DEF Steps
<1>5. ASSUME worker' = [worker EXCEPT ![j].staged = TRUE, ![j].pc = pc,
                                      ![j].to = to, ![j].code = code]
      PROVE  Steps(j, pc, to)
  <2> DEFINE w == [worker[j] EXCEPT !.staged = TRUE, !.pc = pc, !.to = to,
                                    !.code = code]
  <2>1. w.rcpt = worker[j].rcpt /\ w.pc = pc /\ w.to = to
    BY <1>1 DEF Workers
  <2>2. worker' = [worker EXCEPT ![j] = w]
    BY <1>1, <1>5
  <2> HIDE DEF w
  <2> QED BY <2>1, <2>2 DEF Steps
<1> QED BY <1>2, <1>3, <1>4, <1>5

\* A step without a manager's write, of a worker that has read its job.
Reads(j) ==
  /\ worker[j] # NoWorker
  /\ durable' = durable /\ issued' = issued

\* Local custody of job j becomes c; that of the others stays.
Keeps(j, c) == c \in {"none", "partial", "ready"} /\ custody' = [custody EXCEPT ![j] = c]

LEMMA CustodySteps ==
  ASSUME CustodyInv, ExecInv', NEW j \in Jobs, Reads(j), worker[j].pc # "load",
         NEW pc, NEW to, Steps(j, pc, to), NEW c, Keeps(j, c),
         durable[j] # NoReceipt =>
           /\ c \in {"none", custody[j]} \/ durable[j].phase \notin BarePhases
           /\ pc = "fetch" => worker[j].rcpt.phase \in FetchPhases
           /\ pc \in {"claim_clean", "reread"} => c = "none"
           /\ pc = "write" /\ to \in TerminalPhases \cup {"launching"} => c = "none"
  PROVE  CustodyInv'
<1>1. PICK w : /\ worker' = [worker EXCEPT ![j] = w]
               /\ w.rcpt = worker[j].rcpt
               /\ w.pc = pc /\ w.to = to
  BY DEF Steps
<1>2. durable[j] # NoReceipt => WorkerKeepsCustody(worker[j], durable[j], custody[j])
  BY DEF CustodyInv, CustodyFits, Reads
<1>3. durable[j] # NoReceipt => WorkerKeepsCustody(w, durable[j], c)
  BY <1>1, <1>2 DEF WorkerKeepsCustody, HasCleaned
<1> QED BY <1>1, <1>3, CustodyMoves DEF Reads, Keeps

\* A worker that ends, and one that adopts the stored receipt.
LEMMA CustodyEnds ==
  ASSUME CustodyInv, ExecInv', NEW j \in Jobs, Reads(j), Exit(j) \/ Stop(j),
         NEW c \in {"none", custody[j]}, Keeps(j, c)
  PROVE  CustodyInv'
<1>1. worker' = [worker EXCEPT ![j] = NoWorker]
  BY DEF Exit, Stop
<1> QED BY <1>1, CustodyMoves DEF Reads, Keeps

LEMMA CustodyAdopts ==
  ASSUME CustodyInv, ExecInv', NEW j \in Jobs, Reads(j), NEW pc, Adopt(j, pc),
         NEW c \in {"none", custody[j]}, Keeps(j, c), pc # "fetch",
         durable[j] # NoReceipt /\ pc \in {"claim_clean", "reread", "write"} => c = "none"
  PROVE  CustodyInv'
<1>1. CASE durable[j] = NoReceipt
  <2>1. Stop(j)
    BY <1>1 DEF Adopt
  <2> QED BY <2>1, CustodyEnds
<1>2. CASE durable[j] # NoReceipt
  <2> DEFINE w == [worker[j] EXCEPT !.pc = pc, !.rcpt = durable[j]]
  <2>1. worker[j] \in Workers /\ worker \in [Jobs -> Workers \cup {NoWorker}]
    BY Running DEF CustodyInv, ExecInv, ExecTyped, Reads
  <2>2. w.rcpt = durable[j] /\ w.pc = pc
    BY <2>1 DEF Workers
  <2>3. worker' = [worker EXCEPT ![j] = w]
    BY <1>2, <2>1 DEF Adopt
  <2> HIDE DEF w
  <2>4. ValidReceipt(durable[j])
    BY <1>2, InvFacts DEF CustodyInv, ExecInv, Sound
  <2>5. WorkerKeepsCustody(w, durable[j], c)
    BY <1>2, <2>2, <2>4 DEF WorkerKeepsCustody, HasCleaned, ValidReceipt, FetchPhases
  <2> QED BY <2>3, <2>5, CustodyMoves DEF Reads, Keeps
<1> QED BY <1>1, <1>2

\* Custody as it is, and cleaned.
LEMMA CustodyForms ==
  ASSUME CustodyInv, NEW j \in Jobs
  PROVE  /\ custody' = custody => Keeps(j, custody[j])
         /\ Cleaned(j) => Keeps(j, "none")
         /\ custody' = [custody EXCEPT ![j] = "partial"] => Keeps(j, "partial")
         /\ custody' = [custody EXCEPT ![j] = "ready"] => Keeps(j, "ready")
  BY DEF CustodyInv, Keeps, Cleaned

\* Where a running worker's snapshot is of a bare phase, there is nothing in
\* custody; where it is of one that fetches, the stored receipt is in it too.
LEMMA SnapshotCustody ==
  ASSUME CustodyInv, NEW j \in Jobs, worker[j] # NoWorker, worker[j].pc # "load",
         durable[j] # NoReceipt
  PROVE  /\ worker[j].rcpt.phase \in BarePhases => custody[j] = "none"
         /\ worker[j].rcpt.phase \in FetchPhases =>
              durable[j].phase \notin BarePhases
<1>1. /\ Follows(durable[j], worker[j])
      /\ CustodyFits(j)
  BY Running DEF CustodyInv
<1>2. durable[j].phase \in {worker[j].rcpt.phase, "recovery_required"}
  BY <1>1 DEF Follows
<1>3. "recovery_required" \in BarePhases
  BY DEF BarePhases, TerminalPhases
<1>4. worker[j].rcpt.phase \in FetchPhases => durable[j].phase = worker[j].rcpt.phase
  BY <1>1, <1>2 DEF CustodyFits, WorkerKeepsCustody
<1> QED BY <1>1, <1>2, <1>3, <1>4 DEF CustodyFits, BarePhases, FetchPhases, TerminalPhases

\* A worker that goes on, or ends, and leaves the file alone.  It needs to have
\* nothing to clean only where it skips the cleaning before a failure, or
\* records the end of its job or its launch.
LEMMA GoesOn ==
  ASSUME CustodyInv, ExecInv', NEW j \in Jobs, Reads(j), worker[j].pc # "load",
         custody' = custody
  PROVE  /\ Exit(j) \/ Stop(j) => CustodyInv'
         /\ \A pc \in {"clean_claim", "verify", "effect", "cancel", "refused"} :
              Goto(j, pc) => CustodyInv'
         /\ \A use :
              worker' = [worker EXCEPT ![j].pc = "authority", ![j].use = use]
                => CustodyInv'
         /\ \A to, code : Toward(j, "clean", to, code) => CustodyInv'
         /\ \A code : Fail(j, code) /\ worker[j].rcpt.phase \in BarePhases
                        => CustodyInv'
         /\ \A to, code :
              /\ Toward(j, "write", to, code)
              /\ to \notin TerminalPhases \cup {"launching"}
              => CustodyInv'
         /\ \A pc, to, code :
              /\ worker' = [worker EXCEPT ![j].staged = TRUE, ![j].pc = pc,
                                          ![j].to = to, ![j].code = code]
              /\ pc = "clean" \/ (pc = "write" /\ to = "installing")
              => CustodyInv'
<1>1. /\ Keeps(j, custody[j]) /\ worker[j] # NoWorker /\ ExecInv
  BY CustodyForms DEF Reads, CustodyInv
<1>2. CASE Exit(j) \/ Stop(j)
  BY <1>1, <1>2, CustodyEnds
<1>3. ASSUME NEW pc, NEW to, Steps(j, pc, to),
             pc \notin {"claim_clean", "reread", "fetch"},
             pc = "write" => to \notin TerminalPhases \cup {"launching"}
      PROVE  CustodyInv'
  BY <1>1, <1>3, CustodySteps
<1>4. ASSUME NEW pc \in {"clean_claim", "verify", "effect", "cancel", "refused"},
             Goto(j, pc)
      PROVE  CustodyInv'
  <2>1. Steps(j, pc, worker[j].to)
    BY <1>1, <1>4, StepsFacts
  <2> QED BY <2>1, <1>3
<1>5. ASSUME NEW use,
             worker' = [worker EXCEPT ![j].pc = "authority", ![j].use = use]
      PROVE  CustodyInv'
  <2>1. Steps(j, "authority", worker[j].to)
    BY <1>1, <1>5, StepsFacts
  <2> QED BY <2>1, <1>3
<1>6. ASSUME NEW to, NEW code, Toward(j, "clean", to, code)
      PROVE  CustodyInv'
  <2>1. Steps(j, "clean", to)
    BY <1>1, <1>6, StepsFacts
  <2> QED BY <2>1, <1>3
<1>7. ASSUME NEW code, Fail(j, code), worker[j].rcpt.phase \in BarePhases
      PROVE  CustodyInv'
  <2>1. Steps(j, "reread", "failed")
    BY <1>1, <1>7, StepsFacts DEF Fail
  <2>2. durable[j] # NoReceipt => custody[j] = "none"
    BY <1>1, <1>7, SnapshotCustody
  <2> QED BY <1>1, <2>1, <2>2, CustodySteps
<1>8. ASSUME NEW to, NEW code, Toward(j, "write", to, code),
             to \notin TerminalPhases \cup {"launching"}
      PROVE  CustodyInv'
  <2>1. Steps(j, "write", to)
    BY <1>1, <1>8, StepsFacts
  <2> QED BY <2>1, <1>3, <1>8
<1>9. ASSUME NEW pc, NEW to, NEW code,
             worker' = [worker EXCEPT ![j].staged = TRUE, ![j].pc = pc,
                                      ![j].to = to, ![j].code = code],
             pc = "clean" \/ (pc = "write" /\ to = "installing")
      PROVE  CustodyInv'
  <2>1. Steps(j, pc, to)
    BY <1>1, <1>9, StepsFacts
  <2> QED BY <2>1, <1>3, <1>9 DEF TerminalPhases
<1> QED BY <1>2, <1>4, <1>5, <1>6, <1>7, <1>8, <1>9

\* The steps whose guards name the snapshot's phase: where the worker is.
LEMMA Placed ==
  ASSUME NEW j \in Jobs, durable' = durable, issued' = issued
  PROVE  /\ \A pc : At(j, pc) => Reads(j) /\ worker[j].pc = pc
         /\ \A p : InPhase(j, p) =>
              Reads(j) /\ worker[j].pc = "loop" /\ worker[j].rcpt.phase = p
         /\ \A p, use : Effect(j, p, use) =>
              Reads(j) /\ worker[j].pc = "effect" /\ worker[j].rcpt.phase = p
  BY DEF At, InPhase, Effect, Reads

-----------------------------------------------------------------------------
(***************************************************************************)
(* Custody: the worker's steps.                                            *)
(***************************************************************************)

\* Up to the download there is nothing to clean.
LEMMA EarlyCustody ==
  ASSUME CustodyInv, ExecInv', NEW j \in Jobs,
         Finish(j) \/ Approved(j) \/ Authorizing(j) \/ Preflight(j)
  PROVE  CustodyInv'
<1>1. durable' = durable /\ issued' = issued /\ custody' = custody
  BY DEF Finish, Approved, Authorizing, Preflight, jobVars
<1>2. CASE Finish(j)
  <2>1. Reads(j) /\ worker[j].pc # "load" /\ Exit(j)
    BY <1>1, <1>2, Placed DEF Finish
  <2> QED BY <1>1, <2>1, GoesOn
<1>3. CASE Approved(j)
  BY <1>1, <1>3, Placed, GoesOn DEF Approved, Advance, TerminalPhases
<1>4. CASE Authorizing(j)
  <2>1. /\ Reads(j) /\ worker[j].pc # "load"
        /\ worker[j].rcpt.phase \in BarePhases
    BY <1>1, <1>4, Placed DEF Authorizing, BarePhases
  <2> QED BY <1>1, <1>4, <2>1, GoesOn DEF Authorizing, Advance, TerminalPhases
<1>5. CASE Preflight(j)
  <2>1. /\ Reads(j) /\ worker[j].pc # "load"
        /\ worker[j].rcpt.phase \in BarePhases
    BY <1>1, <1>5, Placed DEF Preflight, BarePhases
  <2> QED BY <1>1, <1>5, <2>1, GoesOn DEF Preflight, Advance, TerminalPhases
<1> QED BY <1>2, <1>3, <1>4, <1>5

\* Obtaining the file, in a phase that stays the job's while its worker runs.
LEMMA FetchCustody ==
  ASSUME CustodyInv, ExecInv', NEW j \in Jobs, Fetch(j) \/ Fetched(j)
  PROVE  CustodyInv'
<1>1. durable' = durable /\ issued' = issued /\ ExecInv
  BY DEF Fetch, Fetched, jobVars, CustodyInv
<1>2. /\ Reads(j) /\ worker[j].pc \in {"loop", "fetch"}
      /\ worker[j].pc # "load" /\ worker[j] # NoWorker
  BY <1>1, Placed DEF Fetch, Fetched, Fetching, Reads
<1>3. durable[j] # NoReceipt =>
        worker[j].rcpt.phase \in FetchPhases /\ durable[j].phase \notin BarePhases
  <2> HAVE durable[j] # NoReceipt
  <2>1. worker[j].pc = "fetch" => worker[j].rcpt.phase \in FetchPhases
    BY <1>2 DEF CustodyInv, CustodyFits, WorkerKeepsCustody
  <2>2. Fetch(j) => worker[j].rcpt.phase \in FetchPhases
    BY <1>1, Placed DEF Fetch, Fetching, FetchPhases
  <2>3. worker[j].rcpt.phase \in FetchPhases
    BY <2>1, <2>2, <1>1, Placed DEF Fetched
  <2> QED BY <1>2, <2>3, SnapshotCustody
<1>4. ASSUME Obtained(j), NEW c, Keeps(j, c)
      PROVE  CustodyInv'
  <2> DEFINE pc == IF worker[j].rcpt.phase = "revalidating" THEN "loop" ELSE "write"
             to == IF worker[j].rcpt.phase = "downloading"
                   THEN "artifact_ready" ELSE "revalidating"
             w == [worker[j] EXCEPT !.local = TRUE, !.pc = pc, !.to = to,
                                    !.code = None]
  <2>1. /\ pc \in {"loop", "write"}
        /\ to \notin TerminalPhases \cup {"launching"}
    BY DEF TerminalPhases
  <2>2. worker[j] \in Workers /\ worker \in [Jobs -> Workers \cup {NoWorker}]
    BY <1>1, <1>2, Running DEF ExecInv, ExecTyped
  <2>3. worker' = [worker EXCEPT ![j] = w]
    BY <1>4, <2>2 DEF Obtained
  <2> HIDE DEF pc, to
  <2>4. w.rcpt = worker[j].rcpt /\ w.pc = pc /\ w.to = to
    BY <2>2 DEF Workers
  <2> HIDE DEF w
  <2>5. Steps(j, pc, to)
    BY <2>3, <2>4 DEF Steps
  <2> QED BY <1>2, <1>3, <1>4, <2>1, <2>5, CustodySteps
<1>5. CASE Fetch(j)
  <2>1. CASE Obtained(j) /\ custody' = custody
    BY <1>4, <2>1, CustodyForms
  <2>2. CASE Goto(j, "fetch") /\ custody' = [custody EXCEPT ![j] = "partial"]
    <3>1. Steps(j, "fetch", worker[j].to) /\ Keeps(j, "partial")
      BY <1>1, <1>2, <2>2, StepsFacts, CustodyForms
    <3> QED BY <1>2, <1>3, <3>1, CustodySteps
  <2>3. CASE worker' = [worker EXCEPT ![j].swept = TRUE] /\ Cleaned(j)
    <3> DEFINE w == [worker[j] EXCEPT !.swept = TRUE]
    <3>1. worker[j] \in Workers /\ worker \in [Jobs -> Workers \cup {NoWorker}]
      BY <1>1, <1>2, Running DEF ExecInv, ExecTyped
    <3>2. worker' = [worker EXCEPT ![j] = w]
      BY <2>3, <3>1
    <3>3. w.rcpt = worker[j].rcpt /\ w.pc = worker[j].pc /\ w.to = worker[j].to
      BY <3>1 DEF Workers
    <3> HIDE DEF w
    <3>4. Steps(j, "loop", worker[j].to) /\ Keeps(j, "none")
      BY <1>1, <1>5, <2>3, <3>2, <3>3, Placed, CustodyForms
      DEF Steps, Fetch, Fetching
    <3> QED BY <1>2, <3>4, CustodySteps
  <2>4. CASE Exit(j) /\ custody' = custody
    BY <1>2, <2>4, GoesOn
  <2>5. CASE Stop(j) /\ custody' = custody
    BY <1>2, <2>5, GoesOn
  <2>6. CASE CleanFail(j, "artifact_rejected") /\ custody' = custody
    BY <1>2, <2>6, GoesOn DEF CleanFail
  <2> QED BY <1>5, <2>1, <2>2, <2>3, <2>4, <2>5, <2>6 DEF Fetch
<1>6. CASE Fetched(j)
  <2>1. CASE Obtained(j) /\ custody' = [custody EXCEPT ![j] = "ready"]
    BY <1>4, <2>1, CustodyForms
  <2>2. CASE CleanFail(j, "transport_failed") /\ Cleaned(j)
    <3>1. Steps(j, "clean", "failed") /\ Keeps(j, "none")
      BY <1>1, <1>2, <2>2, StepsFacts, CustodyForms DEF CleanFail
    <3> QED BY <1>2, <3>1, CustodySteps
  <2> QED BY <1>6, <2>1, <2>2 DEF Fetched
<1> QED BY <1>5, <1>6

\* From the download to the authority, all failures pass through the cleaning.
LEMMA ReadyCustody ==
  ASSUME CustodyInv, ExecInv', NEW j \in Jobs,
         \/ ArtifactReady(j) \/ Revalidating(j) \/ Staging(j) \/ Installing(j)
         \/ Launching(j) \/ HealthCheck(j) \/ Refused(j)
  PROVE  CustodyInv'
<1>1. durable' = durable /\ issued' = issued /\ custody' = custody
  BY DEF ArtifactReady, Revalidating, Staging, Installing, Launching,
         HealthCheck, Refused, jobVars
<1>2. Reads(j) /\ worker[j].pc # "load"
  BY <1>1, Placed
  DEF ArtifactReady, Revalidating, Staging, Installing, Launching,
      HealthCheck, Refused
<1>3. CASE ArtifactReady(j)
  BY <1>1, <1>2, <1>3, GoesOn DEF ArtifactReady, Advance, CleanFail, TerminalPhases
<1>4. CASE Revalidating(j)
  BY <1>1, <1>2, <1>4, GoesOn DEF Revalidating, Advance, CleanFail, TerminalPhases
<1>5. CASE Staging(j)
  BY <1>1, <1>2, <1>5, GoesOn DEF Staging, Recover
<1>6. CASE Installing(j)
  BY <1>1, <1>2, <1>6, GoesOn DEF Installing, Recover
<1>7. CASE Launching(j)
  BY <1>1, <1>2, <1>7, GoesOn DEF Launching, Recover
<1>8. CASE HealthCheck(j)
  BY <1>1, <1>2, <1>8, GoesOn DEF HealthCheck, Recover
<1>9. CASE Refused(j)
  BY <1>1, <1>2, <1>9, GoesOn DEF Refused
<1> QED BY <1>3, <1>4, <1>5, <1>6, <1>7, <1>8, <1>9

\* The installed bytes stand for the file; it is removed before the launch is
\* recorded.
LEMMA InstalledCustody ==
  ASSUME CustodyInv, ExecInv', NEW j \in Jobs, Installed(j)
  PROVE  CustodyInv'
<1>1. durable' = durable /\ issued' = issued /\ ExecInv
  BY DEF Installed, jobVars, CustodyInv
<1>2. Reads(j) /\ worker[j].pc # "load" /\ worker[j] # NoWorker
  BY <1>1, Placed DEF Installed, Reads
<1>3. CASE /\ worker' = [worker EXCEPT ![j].staged = TRUE, ![j].pc = "clean",
                                       ![j].to = "recovery_required",
                                       ![j].code = "verification_required"]
           /\ custody' = custody
  BY <1>2, <1>3, GoesOn
<1>4. CASE /\ Cleaned(j)
           /\ worker' = [worker EXCEPT ![j].staged = TRUE, ![j].pc = "write",
                                       ![j].to = "launching", ![j].code = None]
  <2>1. Steps(j, "write", "launching") /\ Keeps(j, "none")
    BY <1>1, <1>2, <1>4, StepsFacts, CustodyForms
  <2> QED BY <1>2, <2>1, CustodySteps
<1> QED BY <1>3, <1>4 DEF Installed

\* The read and the barrier.
LEMMA AuthorityCustody ==
  ASSUME CustodyInv, ExecInv', NEW j \in Jobs, Authority(j) \/ Verify(j)
  PROVE  CustodyInv'
<1>1. durable' = durable /\ issued' = issued /\ custody' = custody
  BY DEF Authority, Verify, Refresh, LoseCache
<1>2. Reads(j) /\ worker[j].pc # "load"
  BY <1>1, Placed DEF Authority, Verify
<1>3. CASE Authority(j)
  <2>1. CASE Adopt(j, "loop")
    BY <1>1, <1>2, <2>1, CustodyForms, CustodyAdopts
  <2> QED BY <1>1, <1>2, <1>3, <2>1, GoesOn DEF Authority
<1>4. CASE Verify(j)
  BY <1>1, <1>2, <1>4, GoesOn DEF Verify
<1> QED BY <1>3, <1>4

\* The calls to the panel: what fails after the launch has nothing to clean,
\* what fails before goes through the cleaning.
LEMMA PanelCallsCustody ==
  ASSUME CustodyInv, ExecInv', NEW j \in Jobs,
         \/ EnvironmentFails(j) \/ Stage(j) \/ Install(j) \/ RemoteCleanup(j)
         \/ Launch(j) \/ Settle(j)
  PROVE  CustodyInv'
<1>1. durable' = durable /\ issued' = issued /\ custody' = custody
  BY DEF EnvironmentFails, Stage, Install, RemoteCleanup, Launch, Settle, jobVars
<1>2. Reads(j) /\ worker[j].pc # "load"
  <2>1. At(j, "authority") \/ At(j, "effect")
    BY DEF EnvironmentFails, Stage, Install, RemoteCleanup, Launch, Settle, Effect
  <2> QED BY <1>1, <2>1, Placed
<1>3. CASE EnvironmentFails(j)
  <2>1. \/ Recover(j, "verification_required")
        \/ CleanFail(j, "transport_failed")
        \/ worker[j].rcpt.phase = "launching" /\ Fail(j, "launch_failed")
    BY <1>3 DEF EnvironmentFails
  <2>2. "launching" \in BarePhases
    BY DEF BarePhases
  <2> QED BY <1>1, <1>2, <2>1, <2>2, GoesOn DEF Recover, CleanFail
<1>4. CASE Stage(j)
  <2>1. CASE worker' = [worker EXCEPT ![j].staged = TRUE, ![j].pc = "write",
                                 ![j].to = "installing", ![j].code = None]
    BY <1>1, <1>2, <2>1, GoesOn
  <2>2. CASE \/ CleanFail(j, "artifact_rejected")
             \/ CleanFail(j, "transport_failed")
             \/ Recover(j, "ambiguous_mutation")
    BY <1>1, <1>2, <2>2, GoesOn DEF CleanFail, Recover
  <2> QED BY <1>4, <2>1, <2>2 DEF Stage
<1>5. CASE Install(j)
  BY <1>1, <1>2, <1>5, GoesOn DEF Install, Advance, Recover, TerminalPhases
<1>6. CASE RemoteCleanup(j)
  <2>1. \/ Goto(j, "cancel")
        \/ Toward(j, "clean", "failed", "install_failed")
        \/ worker' = [worker EXCEPT ![j].pc = "authority", ![j].use = "mutate"]
        \/ \E code : Recover(j, code)
    BY <1>6 DEF RemoteCleanup, Effect, RestartAmbiguousPhases
  <2> QED BY <1>1, <1>2, <2>1, GoesOn DEF Recover
<1>7. CASE Launch(j)
  <2>1. worker[j].rcpt.phase \in BarePhases
    BY <1>1, <1>7, Placed DEF Launch, BarePhases
  <2>2. \/ Advance(j, "health_check")
        \/ Fail(j, "launch_failed")
        \/ \E code : Recover(j, code)
    BY <1>7 DEF Launch
  <2> QED BY <1>1, <1>2, <2>1, <2>2, GoesOn DEF Advance, Recover, TerminalPhases
<1>8. CASE Settle(j)
  BY <1>1, <1>2, <1>8, GoesOn DEF Settle, Advance, Recover, TerminalPhases
<1> QED BY <1>3, <1>4, <1>5, <1>6, <1>7, <1>8

\* A cancelled job whose worker counts no bytes (HasCustody) has none.
LEMMA CancelCustody ==
  ASSUME CustodyInv, ExecInv', NEW j \in Jobs, CancelSeen(j) \/ CancelLocally(j)
  PROVE  CustodyInv'
<1>1. durable' = durable /\ issued' = issued /\ ExecInv
  BY DEF CancelSeen, CancelLocally, jobVars, CustodyInv
<1>2. Reads(j) /\ worker[j].pc # "load" /\ worker[j] # NoWorker
  BY <1>1, Placed DEF CancelSeen, CancelLocally, Reads
<1>3. CASE CancelSeen(j)
  BY <1>1, <1>2, <1>3, GoesOn DEF CancelSeen, Goto
<1>4. CASE CancelLocally(j)
  <2>1. CASE /\ IF HasCustody(j) THEN Cleaned(j) ELSE UNCHANGED custody
             /\ \E code : Toward(j, "write", "cancelled", code)
    <3>1. Steps(j, "write", "cancelled")
      BY <1>1, <1>2, <2>1, StepsFacts
    <3>2. ASSUME ~HasCustody(j), durable[j] # NoReceipt
          PROVE  custody[j] = "none"
      <4>1. /\ worker[j].rcpt \in InstallJobReceipt
            /\ WorkerKeepsCustody(worker[j], durable[j], custody[j])
        BY <1>1, <1>2, <3>2, Running DEF WorkerFits, CustodyInv, CustodyFits
      <4>2. worker[j].rcpt.phase \in BarePhases
        BY <1>2, <3>2, <4>1
        DEF WorkerKeepsCustody, HasCustody, ArtifactRequiredPhases, BarePhases,
            TerminalPhases, InstallJobReceipt, InstallPhase
      <4> QED BY <1>2, <3>2, <4>2, SnapshotCustody
    <3>3. CASE HasCustody(j)
      <4>1. Keeps(j, "none")
        BY <2>1, <3>3, CustodyForms
      <4> QED BY <1>2, <3>1, <4>1, CustodySteps
    <3>4. CASE ~HasCustody(j)
      <4>1. Keeps(j, custody[j])
        BY <2>1, <3>4, CustodyForms
      <4> QED BY <1>2, <3>1, <3>2, <3>4, <4>1, CustodySteps
    <3> QED BY <3>3, <3>4
  <2>2. CASE /\ custody' = custody
             /\ Recover(j, "verification_required") \/ Exit(j)
    BY <1>2, <2>2, GoesOn DEF Recover
  <2> QED BY <1>4, <2>1, <2>2 DEF CancelLocally
<1> QED BY <1>3, <1>4

\* The cleaning before a failure or a quarantine, and the read after it.
LEMMA CleaningCustody ==
  ASSUME CustodyInv, ExecInv', NEW j \in Jobs,
         CleanThenFail(j) \/ CleanThenRecover(j) \/ Reread(j)
  PROVE  CustodyInv'
<1>1. durable' = durable /\ issued' = issued /\ ExecInv
  BY DEF CleanThenFail, CleanThenRecover, Reread, Refresh, jobVars, CustodyInv
<1>2. Reads(j) /\ worker[j].pc # "load" /\ worker[j] # NoWorker
  BY <1>1, Placed DEF CleanThenFail, CleanThenRecover, Reread, Reads
<1>3. ASSUME Cleaned(j), Goto(j, "reread")
      PROVE  CustodyInv'
  <2>1. Steps(j, "reread", worker[j].to) /\ Keeps(j, "none")
    BY <1>1, <1>2, <1>3, StepsFacts, CustodyForms
  <2> QED BY <1>2, <2>1, CustodySteps
<1>4. CASE CleanThenFail(j)
  BY <1>2, <1>3, <1>4, GoesOn DEF CleanThenFail, Recover
<1>5. CASE CleanThenRecover(j)
  <2>1. CASE Adopt(j, "loop") /\ custody' = custody
    BY <1>2, <2>1, CustodyForms, CustodyAdopts
  <2> QED BY <1>2, <1>3, <1>5, <2>1, GoesOn DEF CleanThenRecover
<1>6. CASE Reread(j)
  <2>1. Keeps(j, custody[j])
    BY <1>6, CustodyForms DEF Reread
  <2>2. durable[j] # NoReceipt => custody[j] = "none"
    BY <1>1, <1>2, <1>6, Placed
    DEF Reread, CustodyInv, CustodyFits, WorkerKeepsCustody, HasCleaned
  <2>3. CASE Adopt(j, "write")
    BY <1>2, <2>1, <2>2, <2>3, CustodyAdopts
  <2>4. CASE Adopt(j, "loop")
    BY <1>2, <2>1, <2>4, CustodyAdopts
  <2> QED BY <1>6, <2>3, <2>4 DEF Reread
<1> QED BY <1>4, <1>5, <1>6

-----------------------------------------------------------------------------
(***************************************************************************)
(* Custody: claims and transitions.                                        *)
(***************************************************************************)

\* A worker that has written adopts the verified receipt, or stops.
LEMMA CustodyWritten ==
  ASSUME CustodyInv, ExecInv', NEW j \in Jobs, worker[j] # NoWorker,
         AfterWrite(j), custody' = custody, issued' = issued,
         \A k \in issued \ {j} : SamePhase(k),
         cache' # NoCache => durable'[j] # NoReceipt,
         durable'[j] # NoReceipt /\ durable'[j].phase \in BarePhases
           => custody[j] = "none"
  PROVE  CustodyInv'
<1>1. /\ worker[j] \in Workers /\ worker \in [Jobs -> Workers \cup {NoWorker}]
      /\ custody \in [Jobs -> {"none", "partial", "ready"}]
      /\ j \in issued /\ IInv'
  BY Running DEF CustodyInv, ExecInv, ExecTyped
<1> DEFINE w == [worker[j] EXCEPT !.pc = "loop", !.rcpt = durable'[j]]
<1>2. w.pc = "loop" /\ w.rcpt = durable'[j]
  BY <1>1 DEF Workers
<1>3. \/ worker' = [worker EXCEPT ![j] = NoWorker]
      \/ durable'[j] # NoReceipt /\ worker' = [worker EXCEPT ![j] = w]
  BY <1>1 DEF AfterWrite, Stop
<1> HIDE DEF w
<1>4. worker'[j] # NoWorker =>
        WorkerKeepsCustody(worker'[j], durable'[j], custody'[j])
  <2> HAVE worker'[j] # NoWorker
  <2>1. worker'[j] = w /\ durable'[j] # NoReceipt
    BY <1>1, <1>3
  <2>2. ValidReceipt(durable'[j])
    BY <1>1, <2>1 DEF IInv, Good, AllSound, Sound
  <2> QED BY <1>2, <2>1, <2>2
          DEF WorkerKeepsCustody, HasCleaned, ValidReceipt, FetchPhases
<1>5. CustodyFits(j)'
  BY <1>1, <1>4 DEF CustodyFits
<1>6. \A k \in Jobs \ {j} : worker'[k] = worker[k] /\ custody'[k] = custody[k]
  BY <1>1, <1>3
<1> QED BY <1>1, <1>5, <1>6, CustodyStep

\* A verified claim.  One that ends the job is made by a worker that cleaned.
LEMMA ClaimedCustody ==
  ASSUME CustodyInv, ExecInv', NEW j \in Jobs, worker[j] # NoWorker,
         NEW cleaned \in BOOLEAN, Claim(j, cleaned), AfterWrite(j),
         custody' = custody, cleaned => worker[j].pc = "claim_clean"
  PROVE  CustodyInv'
<1>1. /\ issued' = issued
      /\ \A k \in issued \ {j} : SamePhase(k)
      /\ \/ SamePhase(j)
         \/ cleaned /\ durable'[j].phase = "recovery_required"
      /\ cache' # NoCache => durable'[j] # NoReceipt
  BY ClaimSteady DEF CustodyInv, ExecInv
<1>2. durable[j] # NoReceipt
  BY DEF Claim, Claiming, Claimable, IsActive
<1>3. cleaned => custody[j] = "none"
  BY <1>2 DEF CustodyInv, CustodyFits, WorkerKeepsCustody, HasCleaned
<1>4. durable'[j] # NoReceipt /\ durable'[j].phase \in BarePhases
        => custody[j] = "none"
  BY <1>1, <1>2, <1>3 DEF SamePhase, CustodyInv, CustodyFits
<1> QED BY <1>1, <1>4, CustodyWritten

\* A worker goes back to read its job again, or stops.
LEMMA RetryCustody ==
  ASSUME CustodyInv, ExecInv', NEW j \in Jobs, worker[j] # NoWorker,
         RetryClaim(j), custody' = custody
  PROVE  CustodyInv'
<1>1. Reads(j) /\ Keeps(j, custody[j]) /\ ExecInv
  BY CustodyForms DEF RetryClaim, Refresh, Reads, CustodyInv
<1>2. CASE Stop(j)
  BY <1>1, <1>2, CustodyEnds
<1>3. CASE worker' = [worker EXCEPT ![j].pc = "load", ![j].again = TRUE]
  <2> DEFINE w == [worker[j] EXCEPT !.pc = "load", !.again = TRUE]
  <2>1. worker[j] \in Workers /\ worker \in [Jobs -> Workers \cup {NoWorker}]
    BY <1>1, Running DEF ExecInv, ExecTyped
  <2>2. worker' = [worker EXCEPT ![j] = w]
    BY <1>3, <2>1
  <2>3. w.pc = "load"
    BY <2>1 DEF Workers
  <2> HIDE DEF w
  <2>4. WorkerKeepsCustody(w, durable[j], custody[j])
    BY <2>3 DEF WorkerKeepsCustody, HasCleaned
  <2> QED BY <1>1, <2>2, <2>4, CustodyMoves DEF Reads, Keeps
<1> QED BY <1>2, <1>3 DEF RetryClaim

\* From the first read to the verified claim.
LEMMA ClaimingCustody ==
  ASSUME CustodyInv, ExecInv', NEW j \in Jobs,
         Load(j) \/ ClaimJob(j) \/ CleanBeforeClaim(j) \/ ClaimCleaned(j)
  PROVE  CustodyInv'
<1>1. Refresh => durable' = durable /\ issued' = issued
  BY DEF Refresh
<1>2. worker[j] # NoWorker
  BY DEF Load, ClaimJob, CleanBeforeClaim, ClaimCleaned, At
<1>3. CASE Load(j)
  <2>1. Reads(j) /\ Keeps(j, custody[j]) /\ Adopt(j, "claim")
    BY <1>1, <1>2, <1>3, CustodyForms DEF Load, Reads
  <2> QED BY <2>1, CustodyAdopts
<1>4. CASE ClaimJob(j)
  <2>1. custody' = custody /\ worker[j].pc = "claim"
    BY <1>4 DEF ClaimJob, At
  <2>2. CASE RetryClaim(j)
    BY <1>2, <2>1, <2>2, RetryCustody
  <2>3. CASE Refresh /\ (Stop(j) \/ Goto(j, "clean_claim"))
    <3>1. Reads(j) /\ worker[j].pc # "load"
      BY <1>1, <1>2, <2>1, <2>3 DEF Reads
    <3> QED BY <2>1, <2>3, <3>1, GoesOn
  <2>4. CASE Refresh /\ Adopt(j, "loop")
    <3>1. Reads(j) /\ Keeps(j, custody[j])
      BY <1>1, <1>2, <2>1, <2>4, CustodyForms DEF Reads
    <3> QED BY <2>4, <3>1, CustodyAdopts
  <2>5. CASE Claim(j, FALSE) /\ AfterWrite(j)
    BY <1>2, <2>1, <2>5, ClaimedCustody
  <2> QED BY <1>4, <2>2, <2>3, <2>4, <2>5 DEF ClaimJob
<1>5. CASE CleanBeforeClaim(j)
  <2>1. Reads(j) /\ worker[j].pc # "load"
    BY <1>1, <1>2, <1>5 DEF CleanBeforeClaim, At, Reads
  <2>2. CASE Stop(j) /\ custody' = custody
    BY <2>1, <2>2, GoesOn
  <2>3. CASE Cleaned(j) /\ Adopt(j, "claim_clean")
    <3>1. Keeps(j, "none")
      BY <2>3, CustodyForms
    <3> QED BY <2>1, <2>3, <3>1, CustodyAdopts
  <2> QED BY <1>5, <2>2, <2>3 DEF CleanBeforeClaim
<1>6. CASE ClaimCleaned(j)
  <2>1. custody' = custody /\ worker[j].pc = "claim_clean"
    BY <1>6 DEF ClaimCleaned, At
  <2>2. CASE RetryClaim(j)
    BY <1>2, <2>1, <2>2, RetryCustody
  <2>3. CASE Refresh /\ Stop(j)
    <3>1. Reads(j) /\ worker[j].pc # "load"
      BY <1>1, <1>2, <2>1, <2>3 DEF Reads
    <3> QED BY <2>1, <2>3, <3>1, GoesOn
  <2>4. CASE Claim(j, TRUE) /\ AfterWrite(j)
    BY <1>2, <2>1, <2>4, ClaimedCustody
  <2> QED BY <1>6, <2>2, <2>3, <2>4 DEF ClaimCleaned
<1> QED BY <1>3, <1>4, <1>5, <1>6

\* A transition into a phase without bytes comes from one, or is made by a
\* worker that cleaned.
LEMMA TransitionCustody ==
  ASSUME CustodyInv, ExecInv', NEW j \in Jobs, worker[j] # NoWorker,
         worker[j].pc = "write", AfterWrite(j), custody' = custody,
         Transition(j, worker[j].to, worker[j].code, None)
  PROVE  CustodyInv'
<1> DEFINE to == worker[j].to
<1>1. worker[j].code \in InstallResultCode \cup {None} /\ IInv
  BY Running DEF CustodyInv, ExecInv, Workers
<1>2. /\ issued' = issued
      /\ durable[j] # NoReceipt
      /\ to \in NextPhase(durable[j].phase)
      /\ \/ durable'[j] = durable[j] /\ cache' = NoCache
         \/ /\ durable'[j] \in InstallJobReceipt
            /\ durable'[j].phase = to
  BY <1>1, TransitionMoves
<1>3. \A k \in issued \ {j} : SamePhase(k)
  BY <1>1, TransitionSteady
<1>4. durable'[j] # NoReceipt
  BY <1>2, JobsAssumption
<1>5. durable[j].phase \in InstallPhase \ TerminalPhases
  <2>1. durable[j].phase \in InstallPhase
    BY <1>1, <1>2, InvFacts DEF Sound, InstallJobReceipt
  <2> QED BY <1>2, <2>1 DEF NextPhase
<1>6. to \in TerminalPhases \cup {"launching"} => custody[j] = "none"
  BY <1>2 DEF CustodyInv, CustodyFits, WorkerKeepsCustody, HasCleaned
<1>7. to \in BarePhases \ (TerminalPhases \cup {"launching"})
        => durable[j].phase \in BarePhases
  BY <1>2, <1>5
  DEF NextPhase, Step, ActivePhases, InstallPhase, TerminalPhases, BarePhases
<1> HIDE DEF to
<1>8. durable[j].phase \in BarePhases => custody[j] = "none"
  BY <1>2 DEF CustodyInv, CustodyFits
<1>9. durable'[j].phase \in BarePhases => custody[j] = "none"
  BY <1>2, <1>6, <1>7, <1>8
<1> QED BY <1>2, <1>3, <1>4, <1>9, CustodyWritten

\* The write, and the failure of the store under any call.
LEMMA WriteCustody ==
  ASSUME CustodyInv, ExecInv', NEW j \in Jobs, Write(j) \/ StoreFails(j)
  PROVE  CustodyInv'
<1>1. worker[j] # NoWorker /\ custody' = custody
  BY DEF Write, StoreFails, At
<1>2. Refresh \/ LoseCache => Reads(j) /\ Keeps(j, custody[j])
  BY <1>1, CustodyForms DEF Refresh, LoseCache, Reads
<1>3. CASE Write(j)
  <2>1. worker[j].pc = "write"
    BY <1>3 DEF Write, At
  <2>2. CASE Transition(j, worker[j].to, worker[j].code, None) /\ AfterWrite(j)
    BY <1>1, <2>1, <2>2, TransitionCustody
  <2>3. CASE Refresh /\ Stop(j)
    BY <1>2, <2>3, CustodyEnds
  <2>4. CASE Refresh /\ Adopt(j, "loop")
    BY <1>2, <2>4, CustodyAdopts
  <2> QED BY <1>3, <2>2, <2>3, <2>4 DEF Write
<1>4. CASE StoreFails(j)
  <2>1. LoseCache /\ Stop(j)
    BY <1>4 DEF StoreFails
  <2> QED BY <1>2, <2>1, CustodyEnds
<1> QED BY <1>3, <1>4

-----------------------------------------------------------------------------
(***************************************************************************)
(* Custody: every step, and the theorem.                                   *)
(***************************************************************************)

\* A worker starts for a stored job, with nothing read yet.
LEMMA EnsureCustody ==
  ASSUME CustodyInv, ExecInv', NEW j \in Jobs, EnsureJob(j)
  PROVE  CustodyInv'
<1>1. /\ custody' = custody /\ durable' = durable /\ issued' = issued
      /\ worker' = [worker EXCEPT ![j] = NewWorker]
      /\ DOMAIN worker = Jobs
  BY DEF EnsureJob, Refresh, CustodyInv, ExecInv, ExecTyped
<1>2. WorkerKeepsCustody(NewWorker, durable'[j], custody'[j])
  BY DEF NewWorker, WorkerKeepsCustody, HasCleaned
<1>3. CustodyFits(j)'
  BY <1>1, <1>2 DEF CustodyInv, CustodyFits
<1>4. \A k \in issued : SamePhase(k)
  BY <1>1 DEF SamePhase
<1> QED BY <1>1, <1>3, <1>4, CustodyStep DEF CustodyInv

\* A loading entry quarantines a job.  If a worker of it still runs, that
\* worker is past the phases that obtain bytes.
LEMMA ResumeCustody ==
  ASSUME CustodyInv, ExecInv', NEW j \in Jobs, ResumeQuarantines(j)
  PROVE  CustodyInv'
<1>1. /\ durable[j] # NoReceipt /\ durable[j].phase \in RestartAmbiguousPhases
      /\ Keeps(j, "none") /\ worker' = worker /\ Claim(j, TRUE)
  BY CustodyForms DEF ResumeQuarantines, localVars
<1>2. /\ issued' = issued
      /\ \A k \in issued \ {j} : SamePhase(k)
  BY <1>1, ClaimSteady DEF CustodyInv, ExecInv
<1>3. /\ custody' \in [Jobs -> {"none", "partial", "ready"}]
      /\ custody'[j] = "none"
      /\ \A k \in Jobs \ {j} : custody'[k] = custody[k]
  BY <1>1 DEF Keeps, CustodyInv
<1>4. worker[j] # NoWorker =>
        WorkerKeepsCustody(worker[j], durable'[j], custody'[j])
  <2> HAVE worker[j] # NoWorker
  <2>1. /\ Follows(durable[j], worker[j])
        /\ WorkerKeepsCustody(worker[j], durable[j], custody[j])
    BY <1>1, Running DEF CustodyInv, CustodyFits
  <2>2. worker[j].pc # "load" => worker[j].rcpt.phase \notin FetchPhases
    BY <1>1, <2>1 DEF Follows, RestartAmbiguousPhases, FetchPhases
  <2> QED BY <1>3, <2>1, <2>2 DEF WorkerKeepsCustody
<1>5. CustodyFits(j)'
  BY <1>1, <1>3, <1>4 DEF CustodyFits
<1> QED BY <1>1, <1>2, <1>3, <1>5, CustodyStep

\* The next process starts without workers, and with the files of active jobs.
LEMMA RestartCustody ==
  ASSUME CustodyInv, ExecInv', Restart
  PROVE  CustodyInv'
<1>1. /\ durable' = durable /\ issued' = issued
      /\ worker' = [j \in Jobs |-> NoWorker]
      /\ custody' = [j \in Jobs |-> IF IsActive(durable[j]) THEN custody[j] ELSE "none"]
  BY DEF Restart, LoseCache
<1>2. custody' \in [Jobs -> {"none", "partial", "ready"}]
  BY <1>1 DEF CustodyInv
<1>3. ASSUME NEW k \in Jobs PROVE CustodyFits(k)'
  <2>1. worker'[k] = NoWorker /\ custody'[k] \in {"none", custody[k]}
    BY <1>1
  <2> QED BY <1>1, <2>1 DEF CustodyInv, CustodyFits
<1> QED BY <1>2, <1>3 DEF CustodyInv

\* Every step keeps the invariant.
LEMMA CustodyStepKeeps ==
  ASSUME CustodyInv, [ExecNext]_vars
  PROVE  CustodyInv'
<1>0. ExecInv' /\ IInv
  BY ExecStepKeeps DEF CustodyInv, ExecInv
<1>1. durable' = durable => \A k \in issued : SamePhase(k)
  BY DEF SamePhase
<1>2. CASE ReaderFails
  BY <1>0, <1>1, <1>2, CustodyBeside DEF ReaderFails, LoseCache, execVars
<1>3. ASSUME NEW j \in Jobs, EnsureJob(j)
      PROVE  CustodyInv'
  BY <1>0, <1>3, EnsureCustody
<1>4. ASSUME NEW j \in Jobs, WorkerStep(j)
      PROVE  CustodyInv'
  BY <1>0, <1>4, ClaimingCustody, EarlyCustody, FetchCustody, ReadyCustody,
     InstalledCustody, AuthorityCustody, PanelCallsCustody, CancelCustody,
     CleaningCustody, WriteCustody
  DEF WorkerStep
<1>5. ASSUME NEW j \in Jobs, AskCancel(j)
      PROVE  CustodyInv'
  BY <1>0, <1>5, CancelSteady, CustodyBeside DEF AskCancel, execVars
<1>6. ASSUME NEW j \in Jobs, ResumeQuarantines(j)
      PROVE  CustodyInv'
  BY <1>0, <1>6, ResumeCustody
<1>7. ASSUME NEW plan \in Plans, Approve(plan)
      PROVE  CustodyInv'
  BY <1>0, <1>7, CreateSteady, CustodyBeside DEF Approve, execVars
<1>8. CASE Restart
  BY <1>0, <1>8, RestartCustody
<1>9. CASE UNCHANGED vars
  BY <1>0, <1>1, <1>9, CustodyBeside DEF vars, jobVars, execVars
<1> QED BY <1>2, <1>3, <1>4, <1>5, <1>6, <1>7, <1>8, <1>9 DEF ExecNext

\* The invariant holds throughout every behaviour.
LEMMA CustodySpecKeeps == ExecSpec => []CustodyInv
<1>1. ExecInit => CustodyInv
  BY ExecInitKeeps DEF ExecInit, Init, CustodyInv, CustodyFits
<1>2. CustodyInv /\ [ExecNext]_vars => CustodyInv'
  BY CustodyStepKeeps
<1> QED BY <1>1, <1>2, PTL DEF ExecSpec

\* However the executor ends a job (cancelled, failed or quarantined; by its
\* worker, a claim or a loading entry), its APK is gone by the time its end is
\* recorded, whatever cleanups, stores and processes failed on the way.
THEOREM FinishedJobKeepsNothing == ExecSpec => []FinishedJobIsClean
<1>1. CustodyInv => FinishedJobIsClean
  BY DEF CustodyInv, CustodyFits, FinishedJobIsClean, TerminalJobs, IsTerminal,
         BarePhases
<1> QED BY <1>1, CustodySpecKeeps, PTL
=============================================================================
