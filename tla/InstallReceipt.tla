--------------------------- MODULE InstallReceipt ---------------------------
(***************************************************************************)
(* The receipt of one durable first-install job (install_receipt.py): its  *)
(* phases, the tables that say which phase may follow which, and the       *)
(* invariants a receipt must satisfy before it is written and after it is  *)
(* read.  No state: the manager and the executor are built on it.          *)
(*                                                                         *)
(* Data is abstracted to what those rules tell apart.  A learned value     *)
(* (root mode, measured APK size, health timestamp) is TRUE once known; a  *)
(* subcode and the deferred-HOME flag are diagnostics and are left out.    *)
(***************************************************************************)
EXTENDS Naturals

CONSTANTS
  Plans,        \* frozen (target, artifact, plan, credential) combinations
  Entries,      \* config entry ids
  MaxAttempts,  \* _MAX_ATTEMPTS: claims one job may ever be given
  NoReceipt,    \* no job of this id is stored
  None          \* an optional field that is not set

InstallPhase ==
  {"approved", "authorizing", "preflight", "downloading", "artifact_ready",
   "revalidating", "staging", "installing", "installed", "launching",
   "health_check", "healthy_unclaimed", "consumed", "cancelled", "failed",
   "recovery_required"}

TerminalPhases == {"consumed", "cancelled", "failed", "recovery_required"}
ActivePhases == InstallPhase \ TerminalPhases

FailureCodes ==
  {"authorization_failed", "preflight_rejected", "artifact_rejected",
   "transport_failed", "install_failed", "launch_failed",
   "health_check_failed"}
RecoveryCodes == {"ambiguous_mutation", "verification_required"}
CancelCodes == {"cancelled_by_user", "cancelled_after_staging_cleanup"}
InstallResultCode ==
  FailureCodes \cup RecoveryCodes \cup CancelCodes \cup {"entry_created"}

\* Phases whose worker may already have touched the panel when it vanished.
RestartAmbiguousPhases == {"staging", "installing", "launching"}
MutationBarriers == RestartAmbiguousPhases \cup {"health_check"}
\* The cleanup barriers, and whether cleanup there is a cancellation's.
CleanupBarrierCancelPolarity ==
  [p \in RestartAmbiguousPhases |-> p = "staging"]

CancellablePhases ==
  {"approved", "authorizing", "preflight", "downloading", "artifact_ready",
   "revalidating", "staging"}
ArtifactRequiredPhases ==
  {"artifact_ready", "revalidating", "staging", "installing", "installed",
   "launching", "health_check", "healthy_unclaimed", "consumed"}
RootModeForbiddenPhases == {"approved", "authorizing", "preflight"}
RootModeRequiredPhases == ArtifactRequiredPhases \cup {"downloading"}

FailureCodesByPhase(p) ==
  CASE p = "authorizing" -> {"authorization_failed", "transport_failed"}
    [] p = "preflight" -> {"preflight_rejected", "transport_failed"}
    [] p \in {"downloading", "artifact_ready", "staging"} ->
         {"artifact_rejected", "transport_failed"}
    [] p = "revalidating" ->
         {"artifact_rejected", "preflight_rejected", "transport_failed"}
    [] p \in {"installing", "installed"} -> {"install_failed"}
    [] p = "launching" -> {"launch_failed", "transport_failed"}
    [] p = "health_check" -> {"health_check_failed", "transport_failed"}
    [] OTHER -> {}

\* _NEXT_PHASE: the edges of the workflow.
Step ==
  [p \in ActivePhases |->
     CASE p = "approved" -> {"authorizing"}
       [] p = "authorizing" -> {"preflight"}
       [] p = "preflight" -> {"downloading", "installed"}
       [] p = "downloading" -> {"artifact_ready"}
       [] p = "artifact_ready" -> {"revalidating"}
       [] p = "revalidating" -> {"staging"}
       [] p = "staging" -> {"installing"}
       [] p = "installing" -> {"installed"}
       [] p = "installed" -> {"launching"}
       [] p = "launching" -> {"health_check"}
       [] p = "health_check" -> {"healthy_unclaimed"}
       [] p = "healthy_unclaimed" -> {"consumed"}]

NextPhase(p) ==
  IF p \in TerminalPhases THEN {}
  ELSE Step[p]
         \cup (IF p \in CancellablePhases THEN {"cancelled"} ELSE {})
         \cup (IF p # "healthy_unclaimed" THEN {"failed"} ELSE {})
         \cup (IF p \in {"staging", "installing", "installed", "launching",
                         "health_check", "healthy_unclaimed"}
               THEN {"recovery_required"} ELSE {})

ASSUME ReceiptAssumption ==
  /\ MaxAttempts \in Nat \ {0}
  /\ None \notin Entries \cup InstallPhase \cup InstallResultCode

InstallJobReceipt ==
  [plan : Plans, revision : Nat, executor_generation : Nat, attempt : Nat,
   phase : InstallPhase, cancel_requested : BOOLEAN,
   preflight_root_mode : BOOLEAN, actual_apk_bytes : BOOLEAN,
   health_checked_at : BOOLEAN, result_code : InstallResultCode \cup {None},
   failure_stage : InstallPhase \cup {None},
   consumed_entry_id : Entries \cup {None}]

IsTerminal(r) == r.phase \in TerminalPhases
IsActive(r) == r # NoReceipt /\ ~IsTerminal(r)

ApprovedReceipt(plan) ==
  [plan |-> plan, revision |-> 0, executor_generation |-> 0, attempt |-> 0,
   phase |-> "approved", cancel_requested |-> FALSE,
   preflight_root_mode |-> FALSE, actual_apk_bytes |-> FALSE,
   health_checked_at |-> FALSE, result_code |-> None, failure_stage |-> None,
   consumed_entry_id |-> None]

\* The result code a phase demands.
CodeFits(r) ==
  CASE r.phase = "consumed" -> r.result_code = "entry_created"
    [] r.phase = "cancelled" -> r.result_code \in CancelCodes
    [] r.phase = "failed" ->
         /\ r.result_code \in FailureCodes
         /\ r.failure_stage # None =>
              r.result_code \in FailureCodesByPhase(r.failure_stage)
    [] r.phase = "recovery_required" -> r.result_code \in RecoveryCodes
    [] OTHER -> r.result_code = None

\* _validate_receipt_invariants: what every written and every read receipt
\* satisfies.
ValidReceipt(r) ==
  /\ r.failure_stage # None => r.phase \in {"failed", "recovery_required"}
  /\ r.attempt = r.executor_generation
  /\ r.executor_generation <= r.revision
  /\ r.phase \in RootModeForbiddenPhases => ~r.preflight_root_mode
  /\ r.phase \in RootModeRequiredPhases => r.preflight_root_mode
  /\ r.phase \in ArtifactRequiredPhases => r.actual_apk_bytes
  /\ r.phase \notin ArtifactRequiredPhases \cup TerminalPhases
       => ~r.actual_apk_bytes
  /\ (r.phase = "consumed") <=> (r.consumed_entry_id # None)
  /\ r.phase = "cancelled" => r.cancel_requested
  /\ CodeFits(r)
  /\ r.health_checked_at <=> r.phase \in {"healthy_unclaimed", "consumed"}

-----------------------------------------------------------------------------
(***************************************************************************)
(* The updated receipt each manager operation writes.                      *)
(***************************************************************************)

LearnsRootMode(r, to) ==
  r.phase = "preflight" /\ to \in {"downloading", "installed"}

LearnsApkBytes(r, to) ==
  \/ to = "artifact_ready"
  \/ r.phase = "preflight" /\ to = "installed"

\* async_transition: the record written for r -> to.
Transitioned(r, to, code, entry) ==
  [r EXCEPT
     !.revision = @ + 1,
     !.phase = to,
     !.preflight_root_mode = @ \/ LearnsRootMode(r, to),
     !.actual_apk_bytes = @ \/ LearnsApkBytes(r, to),
     !.health_checked_at =
        IF to = "healthy_unclaimed" THEN TRUE
        ELSE IF r.phase = "healthy_unclaimed" /\ to = "recovery_required"
             THEN FALSE ELSE @,
     !.result_code = code,
     !.failure_stage =
        IF to \in {"failed", "recovery_required"} THEN r.phase ELSE None,
     !.consumed_entry_id = entry]

\* The result code and entry id a transition must name.
OutcomeFits(r, to, code, entry) ==
  CASE to = "cancelled" ->
         /\ r.cancel_requested
         /\ code = IF r.phase = "staging"
                   THEN "cancelled_after_staging_cleanup"
                   ELSE "cancelled_by_user"
         /\ entry = None
    [] to = "failed" -> entry = None
    [] to = "recovery_required" -> code \in RecoveryCodes /\ entry = None
    [] to = "consumed" -> code = "entry_created" /\ entry # None
    [] OTHER -> code = None /\ entry = None

\* Faulty variant: a cancelled receipt may still advance.
MayTransitionCancelled(r, to, code, entry) ==
  /\ to \in NextPhase(r.phase)
  /\ OutcomeFits(r, to, code, entry)
  /\ ValidReceipt(Transitioned(r, to, code, entry))

\* The receipt-local part of async_transition's refusals.
MayTransition(r, to, code, entry) ==
  /\ to \in NextPhase(r.phase)
  /\ r.cancel_requested => to \in {"cancelled", "failed", "recovery_required"}
  /\ LearnsRootMode(r, to) => ~r.preflight_root_mode
  /\ LearnsApkBytes(r, to) => ~r.actual_apk_bytes
  /\ to = "healthy_unclaimed" => ~r.health_checked_at
  /\ OutcomeFits(r, to, code, entry)
  /\ ValidReceipt(Transitioned(r, to, code, entry))

\* The generation has a bound of its own (2^31 - 1), which attempt, always
\* equal to it, never lets it reach.
Exhausted(r) == r.attempt >= MaxAttempts

\* A claim of this receipt would end the job.
ClaimTerminalizes(r) == Exhausted(r) \/ r.phase \in RestartAmbiguousPhases

\* async_claim: the record written for a job this process has no claim on.
Claimed(r) ==
  LET quarantined ==
        [r EXCEPT !.revision = @ + 1, !.phase = "recovery_required",
                  !.result_code = "verification_required",
                  !.failure_stage = r.phase]
      taken == [r EXCEPT !.revision = @ + 1, !.executor_generation = @ + 1,
                         !.attempt = @ + 1]
  IN  CASE Exhausted(r) -> quarantined
        [] ~Exhausted(r) /\ r.phase \in RestartAmbiguousPhases ->
             [quarantined EXCEPT !.executor_generation = @ + 1,
                                 !.attempt = @ + 1]
        [] OTHER -> taken

\* async_request_cancel: the record written for a first request.
CancelRequested(r) ==
  [r EXCEPT !.revision = @ + 1, !.cancel_requested = TRUE]
=============================================================================
