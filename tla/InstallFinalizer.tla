-------------------------- MODULE InstallFinalizer --------------------------
(***************************************************************************)
(* Finalization of a healthy install: from a receipt in healthy_unclaimed  *)
(* to the config entry it becomes (install_executor.py, config_flow.py).   *)
(*                                                                         *)
(* Several config flows may show the same finished install, and the entry  *)
(* one of them adds is set up while that flow still runs.  The executor's  *)
(* in-memory lease lets one of them finalize; the receipt's revision       *)
(* decides who settles it.                                                 *)
(*                                                                         *)
(*   lease     self._finalizers[job]                                       *)
(*   flow      the config flows: where each stands, whether Home Assistant *)
(*             removed it, the entry it found before verifying or added,   *)
(*             and _finalizer_job_id                                       *)
(*   setup     async_reconcile_entry of each entry, run by its setup       *)
(*   entries   config entries for the panel's address                      *)
(*   made      those a finalizing flow made (a history variable)           *)
(*   restarts  process restarts so far, bounded by MaxRestarts             *)
(*                                                                         *)
(* Home Assistant itself is external: it adds the entry of a finished flow *)
(* without an await in between, sets it up before async_on_create_entry,   *)
(* calls async_remove whenever a flow ends or is aborted, and keeps added  *)
(* entries across a restart.                                               *)
(***************************************************************************)
EXTENDS InstallJobs

CONSTANTS
  Flows,     \* config flow ids, each used once
  Job,       \* the job that became healthy
  Healthy,   \* its stored receipt
  NoLease,
  MaxRestarts

VARIABLES lease, flow, setup, entries, made, restarts

finVars == <<lease, flow, setup, entries, made, restarts>>
vars == <<jobVars, finVars>>

Owners == Flows \cup Entries
Leases == [owner : Owners, verifying : BOOLEAN, release_requested : BOOLEAN]

ASSUME FinalizerAssumption ==
  /\ Job \in Jobs
  /\ Healthy \in InstallJobReceipt
  /\ ValidReceipt(Healthy)
  /\ Healthy.phase = "healthy_unclaimed"
  /\ Flows \cap Entries = {}
  /\ NoLease \notin Leases
  /\ MaxRestarts \in Nat

Lease(owner, verifying) ==
  [owner |-> owner, verifying |-> verifying, release_requested |-> FALSE]

Waiting == durable[Job] # NoReceipt /\ durable[Job].phase = "healthy_unclaimed"

\* release_finalizer
Released(held, owner) ==
  CASE held = NoLease \/ held.owner # owner -> held
    [] held # NoLease /\ held.owner = owner /\ held.verifying ->
         [held EXCEPT !.release_requested = TRUE]
    [] OTHER -> NoLease

HeldBy(held, owner) == held # NoLease /\ held.owner = owner
ReleaseAsked(f) == HeldBy(lease, f) /\ lease.release_requested

\* The end of async_verify_finalization: the lease stays for a verified entry.
VerificationLeft(held, owner, keep) ==
  CASE ~HeldBy(held, owner) -> held
    [] HeldBy(held, owner) /\ keep /\ ~held.release_requested ->
         [held EXCEPT !.verifying = FALSE]
    [] OTHER -> Released([held EXCEPT !.verifying = FALSE], owner)

Moved(f, pc) == flow' = [flow EXCEPT ![f].pc = pc]
FlowAt(f, pc) == flow[f].pc = pc

\* A flow whose step ended without an entry: Home Assistant shows it again, or
\* it was removed meanwhile and is done.
BackToForm(f) == Moved(f, IF flow[f].removed THEN "gone" ELSE "form")

\* A call to the manager that only reads, or one that fails.
Reads == Refresh
ReadFails == LoseCache

-----------------------------------------------------------------------------
(***************************************************************************)
(* async_verify_finalization, called by _async_finalize_healthy_install.   *)
(***************************************************************************)

\* Faulty variant: a lease held by another flow that is past verifying is
\* taken over.
BeginOver(f) ==
  /\ FlowAt(f, "form") /\ ~flow[f].removed
  /\ \E retained \in IF entries = {} THEN {None} ELSE entries :
       IF lease = NoLease \/ ~lease.verifying
       THEN /\ lease' = Lease(f, TRUE)
            /\ flow' = [flow EXCEPT ![f].pc = "reading", ![f].entry = retained,
                                    ![f].recorded = TRUE]
       ELSE /\ flow' = [flow EXCEPT ![f].entry = retained, ![f].recorded = TRUE]
            /\ UNCHANGED lease
  /\ UNCHANGED <<jobVars, setup, entries, made, restarts>>

\* Reserved before the first await; a lease of another owner means BUSY and
\* the form again.
Begin(f) ==
  /\ FlowAt(f, "form") /\ ~flow[f].removed
  /\ \E retained \in IF entries = {} THEN {None} ELSE entries :
       IF lease = NoLease \/ (lease.owner = f /\ ~lease.verifying)
       THEN /\ lease' = Lease(f, TRUE)
            /\ flow' = [flow EXCEPT ![f].pc = "reading", ![f].entry = retained,
                                    ![f].recorded = TRUE]
       ELSE /\ flow' = [flow EXCEPT ![f].entry = retained, ![f].recorded = TRUE]
            /\ UNCHANGED lease
  /\ UNCHANGED <<jobVars, setup, entries, made, restarts>>

\* The receipt is read under the lease.
VerifyRead(f) ==
  /\ FlowAt(f, "reading")
  /\ \/ /\ Reads /\ Waiting /\ ~ReleaseAsked(f)
        /\ Moved(f, "proving") /\ UNCHANGED lease
     \/ /\ Reads /\ (~Waiting \/ ReleaseAsked(f))
        /\ lease' = VerificationLeft(lease, f, FALSE)
        /\ BackToForm(f)
     \/ /\ ReadFails
        /\ lease' = VerificationLeft(lease, f, FALSE)
        /\ Moved(f, "gone")
  /\ UNCHANGED <<setup, entries, made, restarts>>

\* _async_reverify: transient loss, drift, or proof.  A proved install whose
\* address is configured may only be the entry that already was there.
Prove(f) ==
  /\ FlowAt(f, "proving")
  /\ \/ /\ lease' = VerificationLeft(lease, f, FALSE)
        /\ BackToForm(f)
     \/ Moved(f, "reject") /\ UNCHANGED lease
     \/ LET kept == VerificationLeft(lease, f, TRUE)
        IN  CASE flow[f].removed ->
                   lease' = Released(kept, f) /\ Moved(f, "gone")
              [] ~flow[f].removed /\ entries = {} ->
                   lease' = kept /\ Moved(f, "setup")
              [] ~flow[f].removed /\ entries # {} ->
                   \/ /\ flow[f].entry \in entries
                      /\ lease' = kept /\ Moved(f, "consume")
                   \/ lease' = Released(kept, f) /\ Moved(f, "gone")
  /\ UNCHANGED <<jobVars, setup, entries, made, restarts>>

\* The write that settles the receipt: consumed by an entry, or quarantined.
\* A receipt somebody else settled first has another revision.
Settles(to, code, entry) ==
  \/ Waiting /\ Transition(Job, to, code, entry)
  \/ ~Waiting /\ Reads
  \/ ReadFails

\* _async_reject_healthy: drift is recorded before the entry is refused.
Reject(f) ==
  /\ FlowAt(f, "reject")
  /\ Settles("recovery_required", "verification_required", None)
  /\ lease' = VerificationLeft(lease, f, FALSE)
  /\ Moved(f, "gone") \/ (cache' = NoCache /\ BackToForm(f))
  /\ UNCHANGED <<setup, entries, made, restarts>>

-----------------------------------------------------------------------------
(***************************************************************************)
(* From a verified receipt to its entry.                                   *)
(***************************************************************************)

\* Faulty variant: the lease is kept for the next try.
SetupIncompleteKept(f) ==
  /\ FlowAt(f, "setup")
  /\ flow' = [flow EXCEPT ![f].pc = IF flow[f].removed THEN "gone" ELSE "form",
                          ![f].recorded = FALSE]
  /\ UNCHANGED <<jobVars, lease, setup, entries, made, restarts>>

\* The panel's own setup is not finished, or the flow was removed: no entry.
SetupIncomplete(f) ==
  /\ FlowAt(f, "setup")
  /\ lease' = Released(lease, f)
  /\ flow' = [flow EXCEPT ![f].pc = IF flow[f].removed THEN "gone" ELSE "form",
                          ![f].recorded = FALSE]
  /\ UNCHANGED <<jobVars, setup, entries, made, restarts>>

\* async_create_entry, and Home Assistant's add of the entry.
CreateEntry(f) ==
  /\ FlowAt(f, "setup") /\ ~flow[f].removed
  /\ \E e \in Entries \ entries :
       /\ entries' = entries \cup {e}
       /\ made' = made \cup {e}
       /\ setup' = [setup EXCEPT ![e] = "find"]
       /\ flow' = [flow EXCEPT ![f].pc = "adding", ![f].entry = e]
  /\ UNCHANGED <<jobVars, lease, restarts>>

\* async_on_create_entry, once the new entry has been set up.
OnCreateEntry(f) ==
  /\ FlowAt(f, "adding") /\ setup[flow[f].entry] = "done"
  /\ Moved(f, IF flow[f].recorded THEN "consume" ELSE "gone")
  /\ UNCHANGED <<jobVars, lease, setup, entries, made, restarts>>

\* _async_acquire_finalizer, under its lock.
Acquires(owner) ==
  /\ Reads /\ Waiting
  /\ lease # NoLease => lease.owner = owner
  /\ lease' = IF lease = NoLease THEN Lease(owner, FALSE) ELSE lease

NotAcquired(owner) ==
  /\ \/ Reads /\ (~Waiting \/ (lease # NoLease /\ lease.owner # owner))
     \/ ReadFails
  /\ lease' = Released(lease, owner)

\* async_consume_finalization
ConsumeAcquire(f) ==
  /\ FlowAt(f, "consume")
  /\ \/ Acquires(f) /\ Moved(f, "consume_write")
     \/ NotAcquired(f) /\ Moved(f, "gone")
  /\ UNCHANGED <<setup, entries, made, restarts>>

ConsumeWrite(f) ==
  /\ FlowAt(f, "consume_write")
  /\ Settles("consumed", "entry_created", flow[f].entry)
  /\ lease' = Released(lease, f)
  /\ Moved(f, "gone")
  /\ UNCHANGED <<setup, entries, made, restarts>>

\* async_remove: Home Assistant drops the flow, at any point.
Remove(f) ==
  /\ ~FlowAt(f, "gone") /\ ~flow[f].removed
  /\ lease' = IF flow[f].recorded THEN Released(lease, f) ELSE lease
  /\ flow' = [flow EXCEPT ![f].removed = TRUE,
                          ![f].pc = IF @ = "form" THEN "gone" ELSE @]
  /\ UNCHANGED <<jobVars, setup, entries, made, restarts>>

\* The request that drives the flow is cancelled in an await.
CancelRequest(f) ==
  /\ \E pc \in {"reading", "proving", "setup", "consume"} : FlowAt(f, pc)
  /\ \/ /\ flow[f].pc \in {"reading", "proving"}
        /\ lease' = VerificationLeft(lease, f, FALSE)
        /\ BackToForm(f)
     \/ /\ flow[f].pc \in {"setup", "consume"}
        /\ lease' = Released(lease, f)
        /\ flow' = [flow EXCEPT ![f].pc = IF flow[f].removed THEN "gone" ELSE "form",
                                ![f].recorded = flow[f].pc = "consume"]
  /\ IF flow[f].pc \in {"reading", "consume"} THEN ReadFails ELSE UNCHANGED jobVars
  /\ UNCHANGED <<setup, entries, made, restarts>>

-----------------------------------------------------------------------------
(***************************************************************************)
(* async_reconcile_entry, run by the setup of an entry.                    *)
(***************************************************************************)

SetupAt(e, pc) == setup[e] = pc
SetupMoved(e, pc) == setup' = [setup EXCEPT ![e] = pc]

ReconcileFind(e) ==
  /\ SetupAt(e, "find")
  /\ \/ Reads /\ SetupMoved(e, IF Waiting THEN "acquire" ELSE "done")
     \/ ReadFails /\ SetupMoved(e, "done")
  /\ UNCHANGED <<lease, flow, entries, made, restarts>>

ReconcileAcquire(e) ==
  /\ SetupAt(e, "acquire")
  /\ \/ Acquires(e) /\ SetupMoved(e, "write")
     \/ NotAcquired(e) /\ SetupMoved(e, "done")
  /\ UNCHANGED <<flow, entries, made, restarts>>

ReconcileWrite(e) ==
  /\ SetupAt(e, "write")
  /\ \/ Settles("consumed", "entry_created", e)
     \/ Settles("recovery_required", "verification_required", None)
  /\ lease' = Released(lease, e)
  /\ SetupMoved(e, "done")
  /\ UNCHANGED <<flow, entries, made, restarts>>

\* An entry is reloaded: its setup runs again.
Reload(e) ==
  /\ e \in entries /\ SetupAt(e, "done")
  /\ SetupMoved(e, "find")
  /\ UNCHANGED <<jobVars, lease, flow, entries, made, restarts>>

\* Another dialog adds the panel by its address, without the installer's lease:
\* its own check saw no entry.
AddBeside ==
  /\ entries = {}
  /\ \E e \in Entries :
       /\ entries' = {e}
       /\ setup' = [setup EXCEPT ![e] = "find"]
  /\ UNCHANGED <<jobVars, lease, flow, made, restarts>>

\* Flows and leases end with the process; entries are set up by the next one.
Restart ==
  /\ restarts < MaxRestarts
  /\ restarts' = restarts + 1
  /\ LoseCache
  /\ lease' = NoLease
  /\ flow' = [f \in Flows |->
                IF FlowAt(f, "form") THEN flow[f] ELSE [flow[f] EXCEPT !.pc = "gone"]]
  /\ setup' = [e \in Entries |-> IF e \in entries THEN "find" ELSE "done"]
  /\ UNCHANGED <<entries, made>>

FlowPcs == {"form", "reading", "proving", "reject", "setup", "adding", "consume",
            "consume_write", "gone"}

FinInit ==
  /\ durable = [j \in Jobs |-> IF j = Job THEN Healthy ELSE NoReceipt]
  /\ cache = NoCache
  /\ claimed = NoClaims
  /\ issued = {Job}
  /\ lease = NoLease
  /\ flow = [f \in Flows |-> [pc |-> "form", removed |-> FALSE, entry |-> None,
                              recorded |-> FALSE]]
  /\ setup = [e \in Entries |-> "done"]
  /\ entries = {}
  /\ made = {}
  /\ restarts = 0

FinNext ==
  \/ \E f \in Flows :
       \/ Begin(f) \/ VerifyRead(f) \/ Prove(f) \/ Reject(f)
       \/ SetupIncomplete(f) \/ CreateEntry(f) \/ OnCreateEntry(f)
       \/ ConsumeAcquire(f) \/ ConsumeWrite(f) \/ Remove(f) \/ CancelRequest(f)
  \/ \E e \in Entries :
       ReconcileFind(e) \/ ReconcileAcquire(e) \/ ReconcileWrite(e) \/ Reload(e)
  \/ AddBeside
  \/ Restart

FinSpec == FinInit /\ [][FinNext]_vars

-----------------------------------------------------------------------------
\* The shape of the finalizer's state.
FinTypeOK ==
  /\ lease \in Leases \cup {NoLease}
  /\ flow \in [Flows -> [pc : FlowPcs, removed : BOOLEAN,
                         entry : Entries \cup {None}, recorded : BOOLEAN]]
  /\ setup \in [Entries -> {"find", "acquire", "write", "done"}]
  /\ made \subseteq entries /\ entries \subseteq Entries
  /\ restarts \in 0..MaxRestarts

Verifying(f) == flow[f].pc \in {"reading", "proving", "reject"}

\* One install makes one entry, however many flows show it, are aborted or fail
\* to record it.  (An entry added beside the installer can join it: the address
\* is checked before the panel's setup is awaited and not again.)
OneEntryPerInstall == Cardinality(made) <= 1

=============================================================================
