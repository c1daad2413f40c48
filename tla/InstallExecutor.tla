--------------------------- MODULE InstallExecutor ---------------------------
(***************************************************************************)
(* InstallExecutor (install_executor.py): the process-wide owner of one    *)
(* background worker per durable job, over InstallJobs.                    *)
(*                                                                         *)
(* A worker owns a snapshot of its receipt and calls the manager with that *)
(* snapshot's revision.  Between two of its calls anything else may run:   *)
(* a cancellation, another flow's read (which may fail and so drop every   *)
(* claim of the process), the resume of a loading entry, or the end of the *)
(* process.  One action here is one manager call, one call to the panel or *)
(* one file operation.                                                     *)
(*                                                                         *)
(*   worker    the running workers and their local variables               *)
(*   stopped   self._nonrestartable_workers                                *)
(*   custody   the job's private APK file on the Home Assistant host       *)
(*   slot      the job's bytes may be in the panel's staging slot          *)
(*   app       the panel runs exactly the job's APK                        *)
(*   installs  package-manager runs made for the job (a history variable)  *)
(*   restarts  process restarts so far, bounded by MaxRestarts             *)
(*                                                                         *)
(* worker, stopped, cache and claimed end with the process; the rest does  *)
(* not.  The panel is touched only by the job that targets it, which the   *)
(* manager's SamePanel rule provides while the job is active.              *)
(*                                                                         *)
(* Left out: the browser-engine, Home Assistant address and display-sizing *)
(* offers made during the health check (best effort, or ending as the      *)
(* display settlement modelled by Settle does), and every subcode.         *)
(***************************************************************************)
EXTENDS InstallJobs

CONSTANTS
  NoWorker,     \* no worker runs for the job
  Faults,       \* which kinds of failure this instance explores
  MaxRestarts

VARIABLES worker, stopped, custody, slot, app, installs, restarts

localVars == <<worker, stopped>>
panelVars == <<slot, app, installs>>
execVars == <<worker, stopped, custody, slot, app, installs, restarts>>
vars == <<jobVars, execVars>>

ASSUME ExecutorAssumption ==
  /\ Faults \subseteq {"store", "reader", "cleanup"}
  /\ MaxRestarts \in Nat

WorkerPcs ==
  {"load", "claim", "clean_claim", "claim_clean", "loop", "fetch",
   "authority", "verify", "effect", "cancel", "refused", "clean", "reread",
   "write"}

Workers ==
  [pc : WorkerPcs, again : BOOLEAN, rcpt : InstallJobReceipt \cup {NoReceipt},
   local : BOOLEAN, staged : BOOLEAN, swept : BOOLEAN,
   use : {"mutate", "cleanup"}, to : InstallPhase,
   code : InstallResultCode \cup {None}]

NewWorker ==
  [pc |-> "load", again |-> FALSE, rcpt |-> NoReceipt, local |-> FALSE,
   staged |-> FALSE, swept |-> FALSE, use |-> "mutate", to |-> "approved",
   code |-> None]

At(j, pc) == worker[j] # NoWorker /\ worker[j].pc = pc
InPhase(j, p) == At(j, "loop") /\ worker[j].rcpt.phase = p
                   /\ ~worker[j].rcpt.cancel_requested

Fresh(j) ==
  durable[j] # NoReceipt /\ durable[j].revision = worker[j].rcpt.revision

\* Why the worker may adopt a receipt that moved: only a cancellation did it.
OnlyCancelled(j) ==
  /\ durable[j] # NoReceipt
  /\ durable[j].phase = worker[j].rcpt.phase
  /\ durable[j].executor_generation = worker[j].rcpt.executor_generation
  /\ durable[j].cancel_requested

\* How a step leaves the worker.
Goto(j, pc) ==
  /\ worker' = [worker EXCEPT ![j].pc = pc]
  /\ UNCHANGED stopped
Exit(j) ==
  /\ worker' = [worker EXCEPT ![j] = NoWorker]
  /\ UNCHANGED stopped
\* An error that leaves the outcome unknown: never restarted in this process.
Stop(j) ==
  /\ worker' = [worker EXCEPT ![j] = NoWorker]
  /\ stopped' = stopped \cup {j}
\* The receipt just read is the snapshot from here on; reading a job that is
\* no longer stored is an error.
Adopt(j, pc) ==
  IF durable[j] = NoReceipt THEN Stop(j)
  ELSE /\ worker' = [worker EXCEPT ![j].pc = pc, ![j].rcpt = durable[j]]
       /\ UNCHANGED stopped
Toward(j, pc, to, code) ==
  /\ worker' = [worker EXCEPT ![j].pc = pc, ![j].to = to, ![j].code = code]
  /\ UNCHANGED stopped

Advance(j, to) == Toward(j, "write", to, None)              \* _async_transition
Fail(j, code) == Toward(j, "reread", "failed", code)      \* _async_fail
CleanFail(j, code) == Toward(j, "clean", "failed", code)  \* ..._then_fail
Recover(j, code) == Toward(j, "clean", "recovery_required", code)

\* What a manager write left: the verified receipt, or an error.
AfterWrite(j) ==
  IF cache' = NoCache THEN Stop(j)
  ELSE /\ worker' = [worker EXCEPT ![j].pc = "loop", ![j].rcpt = durable'[j]]
       /\ UNCHANGED stopped

CleanupFails == "cleanup" \in Faults
Cleaned(j) == custody' = [custody EXCEPT ![j] = "none"]

-----------------------------------------------------------------------------
(***************************************************************************)
(* Starting: async_ensure_job, then the claim of _async_run.               *)
(***************************************************************************)

EnsureJob(j) ==
  /\ worker[j] = NoWorker
  /\ j \notin stopped
  /\ Claimable(durable[j])
  /\ Refresh
  /\ worker' = [worker EXCEPT ![j] = NewWorker]
  /\ UNCHANGED <<stopped, custody, panelVars, restarts>>

Load(j) ==
  /\ At(j, "load")
  /\ Refresh
  /\ Adopt(j, "claim")
  /\ UNCHANGED <<custody, panelVars, restarts>>

\* A first revision error is retried from a new read, a second one stops.
RetryClaim(j) ==
  /\ Refresh
  /\ IF worker[j].again THEN Stop(j)
     ELSE /\ worker' = [worker EXCEPT ![j].pc = "load", ![j].again = TRUE]
          /\ UNCHANGED stopped

ClaimJob(j) ==
  /\ At(j, "claim")
  /\ \/ ~Fresh(j) /\ RetryClaim(j)
     \/ Fresh(j) /\ ~Claimable(durable[j]) /\ Refresh /\ Stop(j)
     \/ Fresh(j) /\ Holds(j) /\ Refresh /\ Adopt(j, "loop")
     \/ /\ Fresh(j) /\ Claimable(durable[j]) /\ ~Holds(j)
        /\ ClaimTerminalizes(durable[j])
        /\ Refresh /\ Goto(j, "clean_claim")
     \/ Fresh(j) /\ Claim(j, FALSE) /\ AfterWrite(j)
  /\ UNCHANGED <<custody, panelVars, restarts>>

\* Exact local custody goes, after a new read, before a claim that ends the
\* job.
CleanBeforeClaim(j) ==
  /\ At(j, "clean_claim")
  /\ Refresh
  /\ \/ CleanupFails /\ Stop(j) /\ UNCHANGED custody
     \/ Cleaned(j) /\ Adopt(j, "claim_clean")
  /\ UNCHANGED <<panelVars, restarts>>

ClaimCleaned(j) ==
  /\ At(j, "claim_clean")
  /\ \/ ~Fresh(j) /\ RetryClaim(j)
     \/ Fresh(j) /\ ~Claimable(durable[j]) /\ Refresh /\ Stop(j)
     \/ Fresh(j) /\ Claim(j, TRUE) /\ AfterWrite(j)
  /\ UNCHANGED <<custody, panelVars, restarts>>

-----------------------------------------------------------------------------
(***************************************************************************)
(* The phase loop of _async_run, up to staging.                            *)
(***************************************************************************)

\* Nothing left to do for this worker.
Finish(j) ==
  /\ At(j, "loop")
  /\ ~Claimable(worker[j].rcpt)
  /\ Exit(j)
  /\ UNCHANGED <<jobVars, custody, panelVars, restarts>>

Approved(j) ==
  /\ InPhase(j, "approved")
  /\ Advance(j, "authorizing")
  /\ UNCHANGED <<jobVars, custody, panelVars, restarts>>

Authorizing(j) ==
  /\ InPhase(j, "authorizing")
  /\ Advance(j, "preflight") \/ Fail(j, "authorization_failed")
  /\ UNCHANGED <<jobVars, custody, panelVars, restarts>>

\* A clean panel is downloaded for; one already running exactly these bytes
\* has nothing to install.
Preflight(j) ==
  /\ InPhase(j, "preflight")
  /\ \/ ~app[j] /\ Advance(j, "downloading")
     \/ app[j] /\ Advance(j, "installed")
     \/ \E code \in {"preflight_rejected", "transport_failed"} : Fail(j, code)
  /\ UNCHANGED <<jobVars, custody, panelVars, restarts>>

\* The phases that obtain the APK: downloading, and a resumed worker's later
\* phases whose local artifact went with the process that had it.
Fetching(j) ==
  \/ InPhase(j, "downloading")
  \/ InPhase(j, "artifact_ready") /\ ~worker[j].local
  \/ InPhase(j, "revalidating") /\ ~worker[j].local

\* The worker now holds the verified file.
Obtained(j) ==
  /\ worker' =
       [worker EXCEPT
          ![j].local = TRUE,
          ![j].pc = IF worker[j].rcpt.phase = "revalidating" THEN "loop" ELSE "write",
          ![j].to = IF worker[j].rcpt.phase = "downloading"
                    THEN "artifact_ready" ELSE "revalidating",
          ![j].code = None]
  /\ UNCHANGED stopped

\* A verified file is reused, an absent one is begun, and a partial one left
\* by an earlier process is removed once.
Fetch(j) ==
  /\ Fetching(j)
  /\ \/ custody[j] = "ready" /\ Obtained(j) /\ UNCHANGED custody
     \/ /\ custody[j] = "none" /\ Goto(j, "fetch")
        /\ custody' = [custody EXCEPT ![j] = "partial"]
     \/ /\ custody[j] = "partial" /\ ~worker[j].swept
        /\ Cleaned(j)
        /\ worker' = [worker EXCEPT ![j].swept = TRUE]
        /\ UNCHANGED stopped
     \/ /\ custody[j] = "partial" /\ ~worker[j].swept /\ CleanupFails
        /\ Exit(j) /\ UNCHANGED custody
     \/ custody[j] = "partial" /\ worker[j].swept /\ Stop(j) /\ UNCHANGED custody
     \/ CleanFail(j, "artifact_rejected") /\ UNCHANGED custody
  /\ UNCHANGED <<jobVars, panelVars, restarts>>

Fetched(j) ==
  /\ At(j, "fetch")
  /\ \/ Obtained(j) /\ custody' = [custody EXCEPT ![j] = "ready"]
     \/ CleanFail(j, "transport_failed") /\ Cleaned(j)
  /\ UNCHANGED <<jobVars, panelVars, restarts>>

ArtifactReady(j) ==
  /\ InPhase(j, "artifact_ready") /\ worker[j].local
  /\ Advance(j, "revalidating") \/ CleanFail(j, "artifact_rejected")
  /\ UNCHANGED <<jobVars, custody, panelVars, restarts>>

Revalidating(j) ==
  /\ InPhase(j, "revalidating") /\ worker[j].local
  /\ \/ ~app[j] /\ Advance(j, "staging")
     \/ \E code \in FailureCodesByPhase("revalidating") : CleanFail(j, code)
  /\ UNCHANGED <<jobVars, custody, panelVars, restarts>>

-----------------------------------------------------------------------------
(***************************************************************************)
(* The phases that touch the panel.  Each proves its authority first: a    *)
(* read against the snapshot, then the durable barrier, then credentials.  *)
(***************************************************************************)

\* Only this process's own earlier step can vouch for the bytes involved.
Staging(j) ==
  /\ InPhase(j, "staging")
  /\ IF worker[j].local
     THEN /\ worker' = [worker EXCEPT ![j].pc = "authority", ![j].use = "mutate"]
          /\ UNCHANGED stopped
     ELSE Recover(j, "ambiguous_mutation")
  /\ UNCHANGED <<jobVars, custody, panelVars, restarts>>

Installing(j) ==
  /\ InPhase(j, "installing")
  /\ IF worker[j].staged
     THEN /\ worker' = [worker EXCEPT ![j].pc = "authority", ![j].use = "mutate"]
          /\ UNCHANGED stopped
     ELSE Recover(j, "ambiguous_mutation")
  /\ UNCHANGED <<jobVars, custody, panelVars, restarts>>

\* The installed bytes stand for the staged ones; local custody ends here.
Installed(j) ==
  /\ InPhase(j, "installed")
  /\ \/ /\ CleanupFails
        /\ worker' = [worker EXCEPT ![j].staged = TRUE, ![j].pc = "clean",
                                    ![j].to = "recovery_required",
                                    ![j].code = "verification_required"]
        /\ UNCHANGED custody
     \/ /\ Cleaned(j)
        /\ worker' = [worker EXCEPT ![j].staged = TRUE, ![j].pc = "write",
                                    ![j].to = "launching", ![j].code = None]
  /\ UNCHANGED <<jobVars, stopped, panelVars, restarts>>

Launching(j) ==
  /\ InPhase(j, "launching")
  /\ IF worker[j].staged
     THEN /\ worker' = [worker EXCEPT ![j].pc = "authority", ![j].use = "cleanup"]
          /\ UNCHANGED stopped
     ELSE Recover(j, "ambiguous_mutation")
  /\ UNCHANGED <<jobVars, custody, panelVars, restarts>>

HealthCheck(j) ==
  /\ InPhase(j, "health_check")
  /\ \/ /\ app[j]
        /\ worker' = [worker EXCEPT ![j].pc = "authority", ![j].use = "mutate"]
        /\ UNCHANGED stopped
     \/ Recover(j, "verification_required")
  /\ UNCHANGED <<jobVars, custody, panelVars, restarts>>

\* The read of _async_mutation_authority and _async_cleanup_authority.
Authority(j) ==
  /\ At(j, "authority")
  /\ Refresh
  /\ IF Fresh(j) THEN Goto(j, "verify")
     ELSE IF worker[j].use = "mutate" /\ OnlyCancelled(j) THEN Adopt(j, "loop")
     ELSE Stop(j)
  /\ UNCHANGED <<custody, panelVars, restarts>>

\* What the two durable barriers demand of the stored receipt.
BarrierHolds(j) ==
  /\ durable[j].phase = worker[j].rcpt.phase
  /\ Holds(j)
  /\ IF worker[j].use = "mutate"
     THEN durable[j].phase \in MutationBarriers /\ ~durable[j].cancel_requested
     ELSE /\ durable[j].phase \in DOMAIN CleanupBarrierCancelPolarity
          /\ durable[j].cancel_requested
               = CleanupBarrierCancelPolarity[durable[j].phase]

\* async_verify_mutation_barrier and async_verify_cleanup_barrier: a stale
\* revision is an error, a lost claim also drops what the process believed.
Verify(j) ==
  /\ At(j, "verify")
  /\ \/ Fresh(j) /\ BarrierHolds(j) /\ Refresh /\ Goto(j, "effect")
     \/ ~Fresh(j) /\ Refresh /\ Stop(j)
     \/ Fresh(j) /\ ~BarrierHolds(j) /\ LoseCache /\ Stop(j)
  /\ UNCHANGED <<custody, panelVars, restarts>>

\* The pinned address or the ADB credential is not what the plan froze.
EnvironmentFails(j) ==
  /\ At(j, "authority") \/ At(j, "effect")
  /\ LET phase == worker[j].rcpt.phase
     IN  CASE worker[j].use = "cleanup" -> Recover(j, "verification_required")
           [] worker[j].use = "mutate" /\ phase = "staging" ->
                CleanFail(j, "transport_failed")
           [] worker[j].use = "mutate" /\ phase = "launching" ->
                Fail(j, "launch_failed")
           [] OTHER -> Recover(j, "verification_required")
  /\ UNCHANGED <<jobVars, custody, panelVars, restarts>>

Effect(j, phase, use) ==
  At(j, "effect") /\ worker[j].rcpt.phase = phase /\ worker[j].use = use

\* async_stage_apk: staged and verified; interrupted, with a best-effort
\* removal; or unverifiable.
Stage(j) ==
  /\ Effect(j, "staging", "mutate")
  /\ \/ /\ custody[j] = "ready" /\ ~app[j]
        /\ slot' = [slot EXCEPT ![j] = TRUE]
        /\ worker' = [worker EXCEPT ![j].staged = TRUE, ![j].pc = "write",
                                    ![j].to = "installing", ![j].code = None]
        /\ UNCHANGED stopped
     \/ \E left \in BOOLEAN :
          /\ slot' = [slot EXCEPT ![j] = left]
          /\ \/ CleanFail(j, "artifact_rejected")
             \/ CleanFail(j, "transport_failed")
             \/ Recover(j, "ambiguous_mutation")
  /\ UNCHANGED <<jobVars, custody, app, installs, restarts>>

\* Faulty variant: an unknown result is tried again.
InstallAgain(j) ==
  /\ Effect(j, "installing", "mutate")
  /\ installs' = [installs EXCEPT ![j] = @ + 1]
  /\ \/ app' = [app EXCEPT ![j] = TRUE] /\ Advance(j, "installed")
     \/ UNCHANGED app /\ Goto(j, IF installs[j] > 1 THEN "refused" ELSE "loop")
  /\ UNCHANGED <<jobVars, custody, slot, restarts>>

\* Faulty variant: an unknown result is taken for a refusal.
InstallPresumedRefused(j) ==
  /\ Effect(j, "installing", "mutate")
  /\ installs' = [installs EXCEPT ![j] = @ + 1]
  /\ \E landed \in BOOLEAN : app' = [app EXCEPT ![j] = landed]
  /\ Goto(j, "refused")
  /\ UNCHANGED <<jobVars, custody, slot, restarts>>

\* async_install_staged_apk: the package manager ran and installed, ran and
\* refused, ran with an unknown result, or was never reached.
Install(j) ==
  /\ Effect(j, "installing", "mutate")
  /\ \/ /\ installs' = [installs EXCEPT ![j] = @ + 1]
        /\ \/ app' = [app EXCEPT ![j] = TRUE] /\ Advance(j, "installed")
           \/ UNCHANGED app /\ Goto(j, "refused")
           \/ \E landed \in BOOLEAN :
                /\ app' = [app EXCEPT ![j] = landed]
                /\ Recover(j, "ambiguous_mutation")
     \/ /\ UNCHANGED <<app, installs>>
        /\ \/ Goto(j, "refused")
           \/ Recover(j, "verification_required")
  /\ UNCHANGED <<jobVars, custody, slot, restarts>>

\* _async_install_refused, entered for a refusal and for a late admission
\* refusal alike.
Refused(j) ==
  /\ At(j, "refused")
  /\ worker' = [worker EXCEPT ![j].pc = "authority", ![j].use = "cleanup"]
  /\ UNCHANGED <<jobVars, stopped, custody, panelVars, restarts>>

\* async_cleanup_staged_apk after a cancellation, a refusal or a success.
RemoteCleanup(j) ==
  /\ \E p \in RestartAmbiguousPhases : Effect(j, p, "cleanup")
  /\ \/ /\ slot' = [slot EXCEPT ![j] = FALSE]
        /\ CASE worker[j].rcpt.phase = "staging" -> Goto(j, "cancel")
             [] worker[j].rcpt.phase = "installing" ->
                  Toward(j, "clean", "failed", "install_failed")
             [] worker[j].rcpt.phase = "launching" ->
                  /\ worker' = [worker EXCEPT ![j].pc = "authority",
                                              ![j].use = "mutate"]
                  /\ UNCHANGED stopped
     \/ \E left \in {slot[j], FALSE}, code \in RecoveryCodes :
          slot' = [slot EXCEPT ![j] = left] /\ Recover(j, code)
  /\ UNCHANGED <<jobVars, custody, app, installs, restarts>>

\* async_start_installed_app
Launch(j) ==
  /\ Effect(j, "launching", "mutate")
  /\ \/ Advance(j, "health_check")
     \/ Fail(j, "launch_failed")
     \/ \E code \in RecoveryCodes : Recover(j, code)
  /\ UNCHANGED <<jobVars, custody, panelVars, restarts>>

\* _async_settle_display_and_launch, then the health it led to.
Settle(j) ==
  /\ Effect(j, "health_check", "mutate")
  /\ Advance(j, "healthy_unclaimed") \/ Recover(j, "verification_required")
  /\ UNCHANGED <<jobVars, custody, panelVars, restarts>>

-----------------------------------------------------------------------------
(***************************************************************************)
(* Ending: cancellation, failure, quarantine, and the write they lead to.  *)
(***************************************************************************)

\* Faulty variant: only a worker with something to remove notices a cancellation.
CancelSeenWithBytes(j) ==
  /\ At(j, "loop")
  /\ Claimable(worker[j].rcpt) /\ worker[j].rcpt.cancel_requested
  /\ worker[j].local \/ worker[j].staged
  /\ worker' = [worker EXCEPT ![j].pc = "cancel"]
  /\ UNCHANGED <<jobVars, stopped, custody, panelVars, restarts>>

\* _async_cancel_requested: what this worker staged is removed first.
CancelSeen(j) ==
  /\ At(j, "loop")
  /\ Claimable(worker[j].rcpt) /\ worker[j].rcpt.cancel_requested
  /\ IF worker[j].rcpt.phase = "staging" /\ worker[j].staged
     THEN worker' = [worker EXCEPT ![j].pc = "authority", ![j].use = "cleanup"]
     ELSE worker' = [worker EXCEPT ![j].pc = "cancel"]
  /\ UNCHANGED <<jobVars, stopped, custody, panelVars, restarts>>

\* Faulty variant: only a file this very worker fetched is counted.
HasFetched(j) == worker[j].local

\* The job may have bytes in local custody.
HasCustody(j) ==
  \/ worker[j].local
  \/ worker[j].rcpt.actual_apk_bytes
  \/ worker[j].rcpt.phase = "downloading"

CancelLocally(j) ==
  /\ At(j, "cancel")
  /\ \/ /\ IF HasCustody(j) THEN Cleaned(j) ELSE UNCHANGED custody
        /\ Toward(j, "write", "cancelled",
                  IF worker[j].rcpt.phase = "staging"
                  THEN "cancelled_after_staging_cleanup"
                  ELSE "cancelled_by_user")
     \/ /\ HasCustody(j) /\ CleanupFails /\ UNCHANGED custody
        /\ IF worker[j].rcpt.phase = "staging"
           THEN Recover(j, "verification_required") ELSE Exit(j)
  /\ UNCHANGED <<jobVars, panelVars, restarts>>

\* The local cleanup of _async_cleanup_local_then_fail and of
\* _async_install_refused: where the panel may hold bytes a failure to clean
\* quarantines, elsewhere it only pauses.
CleanThenFail(j) ==
  /\ At(j, "clean") /\ worker[j].to = "failed"
  /\ \/ Cleaned(j) /\ Goto(j, "reread")
     \/ /\ CleanupFails /\ UNCHANGED custody
        /\ IF worker[j].rcpt.phase \in {"staging", "installing"}
           THEN Recover(j, "verification_required") ELSE Exit(j)
  /\ UNCHANGED <<jobVars, panelVars, restarts>>

\* _async_recovery reads, cleans local custody, and reads again.
CleanThenRecover(j) ==
  /\ At(j, "clean") /\ worker[j].to = "recovery_required"
  /\ Refresh
  /\ \/ ~IsActive(durable[j]) /\ Adopt(j, "loop") /\ UNCHANGED custody
     \/ IsActive(durable[j]) /\ Cleaned(j) /\ Goto(j, "reread")
     \/ IsActive(durable[j]) /\ CleanupFails /\ Stop(j) /\ UNCHANGED custody
  /\ UNCHANGED <<panelVars, restarts>>

\* The read of _async_fail and the second read of _async_recovery.
Reread(j) ==
  /\ At(j, "reread")
  /\ Refresh
  /\ Adopt(j, IF IsActive(durable[j]) THEN "write" ELSE "loop")
  /\ UNCHANGED <<custody, panelVars, restarts>>

\* The manager's async_transition, and what each caller makes of a revision
\* error: only _async_transition adopts a cancellation.
Write(j) ==
  /\ At(j, "write")
  /\ LET to == worker[j].to
         code == worker[j].code
         allowed == MayTransition(durable[j], to, code, None) /\ MayAct(j, to)
     IN  \/ Fresh(j) /\ Transition(j, to, code, None) /\ AfterWrite(j)
         \/ Fresh(j) /\ ~allowed /\ Refresh /\ Stop(j)
         \/ /\ ~Fresh(j)
            /\ Refresh
            /\ IF to \notin {"failed", "recovery_required"} /\ OnlyCancelled(j)
               THEN Adopt(j, "loop") ELSE Stop(j)
  /\ UNCHANGED <<custody, panelVars, restarts>>

\* The worker's own call into the manager fails.
ReadingPcs == {"load", "claim", "clean_claim", "claim_clean", "authority",
               "verify", "reread", "write"}
StoreFails(j) ==
  /\ "store" \in Faults
  /\ \E pc \in ReadingPcs : At(j, pc)
  /\ LoseCache
  /\ Stop(j)
  /\ UNCHANGED <<custody, panelVars, restarts>>

WorkerStep(j) ==
  \/ Load(j) \/ ClaimJob(j) \/ CleanBeforeClaim(j) \/ ClaimCleaned(j)
  \/ Finish(j) \/ Approved(j) \/ Authorizing(j) \/ Preflight(j)
  \/ Fetch(j) \/ Fetched(j) \/ ArtifactReady(j) \/ Revalidating(j)
  \/ Staging(j) \/ Installing(j) \/ Installed(j) \/ Launching(j)
  \/ HealthCheck(j) \/ Authority(j) \/ Verify(j) \/ EnvironmentFails(j)
  \/ Stage(j) \/ Install(j) \/ Refused(j) \/ RemoteCleanup(j) \/ Launch(j)
  \/ Settle(j) \/ CancelSeen(j) \/ CancelLocally(j) \/ CleanThenFail(j)
  \/ CleanThenRecover(j) \/ Reread(j) \/ Write(j) \/ StoreFails(j)

-----------------------------------------------------------------------------
(***************************************************************************)
(* What runs beside the workers.                                           *)
(***************************************************************************)

\* A flow approves an install.
Approve(plan) ==
  /\ Create(plan)
  /\ UNCHANGED execVars

\* The owner asks to cancel.
AskCancel(j) ==
  /\ RequestCancel(j)
  /\ UNCHANGED execVars

\* Another job's flow reads the store and fails, or is cancelled in the read.
ReaderFails ==
  /\ "reader" \in Faults
  /\ LoseCache
  /\ UNCHANGED execVars

\* async_resume_loaded_jobs, when an entry loads: a job in an ambiguous phase
\* this process holds no claim on is cleaned locally and quarantined.
ResumeQuarantines(j) ==
  /\ durable[j] # NoReceipt
  /\ durable[j].phase \in RestartAmbiguousPhases
  /\ Cleaned(j)
  /\ Claim(j, TRUE)
  /\ UNCHANGED <<localVars, panelVars, restarts>>

\* The process ends; the next one's executor starts by removing the custody of
\* jobs that are no longer active.
Restart ==
  /\ restarts < MaxRestarts
  /\ restarts' = restarts + 1
  /\ LoseCache
  /\ worker' = [j \in Jobs |-> NoWorker]
  /\ stopped' = {}
  /\ custody' = [j \in Jobs |-> IF IsActive(durable[j]) THEN custody[j] ELSE "none"]
  /\ UNCHANGED panelVars

ExecInit ==
  /\ Init
  /\ worker = [j \in Jobs |-> NoWorker]
  /\ stopped = {}
  /\ custody = [j \in Jobs |-> "none"]
  /\ slot = [j \in Jobs |-> FALSE]
  /\ app \in [Jobs -> BOOLEAN]
  /\ installs = [j \in Jobs |-> 0]
  /\ restarts = 0

ExecNext ==
  \/ ReaderFails
  \/ \E j \in Jobs : \/ EnsureJob(j) \/ WorkerStep(j)
                     \/ AskCancel(j) \/ ResumeQuarantines(j)
  \/ \E plan \in Plans : Approve(plan)
  \/ Restart

ExecSpec == ExecInit /\ [][ExecNext]_vars

\* Scheduling: a created worker task runs.  Failures and restarts are never owed,
\* and neither is a worker: there is no startup hook, a job is picked up when an
\* entry loads or when somebody opens a flow (async_resume_loaded_jobs).
Fairness == \A j \in Jobs : WF_vars(WorkerStep(j))

FairExecSpec == ExecSpec /\ Fairness

-----------------------------------------------------------------------------
\* The shape of the executor's state.
ExecTypeOK ==
  /\ worker \in [Jobs -> Workers \cup {NoWorker}]
  /\ stopped \in SUBSET Jobs
  /\ custody \in [Jobs -> {"none", "partial", "ready"}]
  /\ slot \in [Jobs -> BOOLEAN]
  /\ app \in [Jobs -> BOOLEAN]
  /\ installs \in [Jobs -> Nat]
  /\ restarts \in 0..MaxRestarts

\* The package manager is run at most once for a job, whatever worker, restart,
\* lost claim or unknown result came between.
InstallAtMostOnce == \A j \in Jobs : installs[j] <= 1

\* A finished job keeps no APK bytes on the Home Assistant host.
FinishedJobIsClean ==
  \A j \in TerminalJobs(durable) : custody[j] = "none"

\* The recorded phase tells the truth about the panel: past installation the
\* app is there, and an installation recorded as failed left none.
PhaseMatchesPanel ==
  \A j \in Jobs : durable[j] # NoReceipt =>
    /\ durable[j].phase \in {"installed", "launching", "health_check",
                             "healthy_unclaimed"} => app[j]
    /\ durable[j].phase = "failed" /\ durable[j].failure_stage = "installing"
         => ~app[j]

\* "An active same-manager worker retains its claim. It must never be
\* duplicated or have its live artifact cleaned" (install_executor.py:371):
\* no one but its worker removes the artifact of a job whose worker runs on.
LiveArtifactIsKept ==
  [][\A j \in Jobs : worker[j] # NoWorker /\ worker'[j] = worker[j]
       => custody'[j] = custody[j]]_vars

\* The worker gives its job up for now; it may be picked up again.
Pauses(j) ==
  /\ worker[j] # NoWorker /\ worker'[j] = NoWorker
  /\ Claimable(durable[j]) /\ j \notin stopped'

\* The job could go on, but nobody has asked for a worker.
Idle(j) == Claimable(durable[j]) /\ worker[j] = NoWorker /\ j \notin stopped

\* An approved job does not stay in the middle.  Every worker comes to an end,
\* whatever its panel answers and whenever it is cancelled; and a job that is
\* picked up again whenever it is left without a worker (which the code leaves
\* to entries that load and to people who open a flow), and whose pauses end,
\* finishes, becomes healthy, or is held for the next process because its
\* outcome became unknown.
EveryJobSettles ==
  \A j \in Jobs :
    /\ worker[j] # NoWorker ~> worker[j] = NoWorker
    /\ (Idle(j) ~> ~Idle(j)) /\ <>[][~Pauses(j)]_vars =>
         (Claimable(durable[j]) ~> (~Claimable(durable[j]) \/ j \in stopped))
=============================================================================
