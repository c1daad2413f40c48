----------------------------- MODULE InstallJobs -----------------------------
(***************************************************************************)
(* InstallJobManager (install_jobs.py): the one authority over the durable *)
(* receipts of first-install jobs.                                         *)
(*                                                                         *)
(*   durable   what the private Store file holds                           *)
(*   cache     self._jobs: the last verified read of it, or NoCache        *)
(*   claimed   self._claimed_jobs: the generations this process may act on *)
(*   issued    the random job ids drawn so far (a history variable: an id  *)
(*             is 128 random bits and is taken never to repeat)            *)
(*                                                                         *)
(* Every operation holds one asyncio lock from its read to its verified    *)
(* write, so an operation is one action.  What interleaves with it is      *)
(* failure: a write may be refused, may land without being verified (an    *)
(* I/O error in the read-back, a caller cancelled meanwhile), or the       *)
(* process may end; all of these leave the process without its cache and   *)
(* without its claims, with or without the new document on disk.           *)
(*                                                                         *)
(* A caller names the revision it last read.  A stale revision is refused  *)
(* after the read, so such a call is a Refresh; the actions below are the  *)
(* calls that name the stored revision.  Timestamps only order the pruning *)
(* of finished jobs: any set of them that leaves at most MaxTerminal may   *)
(* be dropped, by age or by rank.                                          *)
(***************************************************************************)
EXTENDS InstallReceipt, FiniteSets

CONSTANTS
  Jobs,         \* job ids
  MaxActive,    \* _MAX_ACTIVE_JOBS
  MaxTerminal,  \* _MAX_TERMINAL_JOBS
  NoCache,      \* self._jobs is None
  NoClaim       \* the job is not in self._claimed_jobs

VARIABLES durable, cache, claimed, issued

jobVars == <<durable, cache, claimed, issued>>

Documents == [Jobs -> InstallJobReceipt \cup {NoReceipt}]
NoClaims == [j \in Jobs |-> NoClaim]

ASSUME JobsAssumption ==
  /\ IsFiniteSet(Jobs)
  /\ MaxActive \in Nat
  /\ MaxTerminal \in Nat \ {0}
  /\ NoReceipt \notin InstallJobReceipt
  /\ NoClaim \notin Nat
  /\ NoCache \notin Documents

ActiveJobs(doc) == {j \in Jobs : IsActive(doc[j])}
TerminalJobs(doc) == {j \in Jobs : doc[j] # NoReceipt /\ IsTerminal(doc[j])}

\* Two plans that must not be active together: they reach the same panel by
\* configured address, by pinned address or by ADB serial.
SamePanel(p, q) ==
  p.address = q.address \/ p.pinned = q.pinned \/ p.serial = q.serial

\* _prune, applied before the document that finishes or adds job j is saved.
Prunes(doc, j) ==
  {D \in SUBSET (TerminalJobs(doc) \ {j}) :
     Cardinality(TerminalJobs(doc) \ D) <= MaxTerminal}
Without(doc, D) == [j \in Jobs |-> IF j \in D THEN NoReceipt ELSE doc[j]]

\* _reconcile_claims: a claim survives only on a live receipt of its own
\* generation.
Reconciled(claims, doc) ==
  [j \in Jobs |->
     IF /\ IsActive(doc[j])
        /\ doc[j].phase # "healthy_unclaimed"
        /\ doc[j].executor_generation = claims[j]
     THEN claims[j] ELSE NoClaim]

\* Faulty variant: claims go, the possibly outdated read stays.
ForgetClaims == claimed' = NoClaims /\ UNCHANGED cache

\* _invalidate_cache
Forget == cache' = NoCache /\ claimed' = NoClaims

\* A refreshing read succeeds only if no claimed receipt changed behind it.
ReadAgrees ==
  cache = NoCache \/ \A j \in Jobs : claimed[j] # NoClaim => durable[j] = cache[j]

\* _async_save_locked as one step: written, read back and adopted; or refused
\* or unverified, with the document on disk the old one or the new one.
\* ReceiptStore refines it into the writes of two files.
Save(doc, claims) ==
  \/ durable' = doc /\ cache' = doc /\ claimed' = claims
  \/ durable' \in {durable, doc} /\ Forget

Commit(doc, claims, ids) == Save(doc, claims) /\ issued' = ids

Holds(j) == claimed[j] = durable[j].executor_generation

-----------------------------------------------------------------------------
(***************************************************************************)
(* The operations.  One that rewrites the document hands what it wants     *)
(* written, the claims to hold afterwards and the ids drawn to Write.      *)
(***************************************************************************)

\* A read that changes no receipt: async_get, async_list, async_find_active, a
\* barrier that verifies, and every call refused after its read.
Refresh ==
  /\ ReadAgrees
  /\ cache' = durable
  /\ claimed' = Reconciled(claimed, durable)
  /\ UNCHANGED <<durable, issued>>

\* A read that fails or is cancelled, a barrier that does not verify, or the
\* end of the process.
LoseCache ==
  /\ Forget
  /\ UNCHANGED <<durable, issued>>

\* The bound on active jobs lets another one in.
HasRoom(doc) == Cardinality(ActiveJobs(doc)) < MaxActive

\* Faulty variant: only the configured address identifies a panel.
PanelFreeByAddress(doc, plan) ==
  \A k \in ActiveJobs(doc) : doc[k].plan.address # plan.address

\* No active job reaches the panel of this plan.
PanelFree(doc, plan) ==
  \A k \in ActiveJobs(doc) : ~SamePanel(doc[k].plan, plan)

\* async_create_or_join, when it creates.  Joining an identical active job and
\* refusing a conflicting or surplus one are reads.
Creating(plan, Write(_, _, _)) ==
  /\ ReadAgrees
  /\ PanelFree(durable, plan)
  /\ HasRoom(durable)
  /\ \E j \in Jobs \ issued :
       \E D \in Prunes(durable, j) :
         Write([Without(durable, D) EXCEPT ![j] = ApprovedReceipt(plan)],
               Reconciled(claimed, durable), issued \cup {j})
Create(plan) == Creating(plan, Commit)

\* async_request_cancel; repeating it is a read.
Cancelling(j, Write(_, _, _)) ==
  /\ ReadAgrees
  /\ durable[j] # NoReceipt
  /\ durable[j].phase \in CancellablePhases
  /\ ~durable[j].cancel_requested
  /\ Write([durable EXCEPT ![j] = CancelRequested(@)],
           Reconciled(claimed, durable), issued)
RequestCancel(j) == Cancelling(j, Commit)

\* Faulty variant: a finished receipt can be claimed.
ClaimableFinished(r) == r # NoReceipt /\ r.phase # "healthy_unclaimed"

\* Receipts there is work left on.
Claimable(r) == IsActive(r) /\ r.phase # "healthy_unclaimed"

\* async_claim, when this process does not already hold the job's generation.
\* cleaned: the caller proved local custody clean at the stored revision.
Claiming(j, cleaned, Write(_, _, _)) ==
  /\ ReadAgrees
  /\ Claimable(durable[j])
  /\ ~Holds(j)
  /\ ClaimTerminalizes(durable[j]) => cleaned
  /\ LET doc == [durable EXCEPT ![j] = Claimed(@)]
     IN  \E D \in Prunes(doc, j) :
           Write(Without(doc, D),
                 Reconciled([claimed EXCEPT ![j] = doc[j].executor_generation],
                            doc),
                 issued)
Claim(j, cleaned) == Claiming(j, cleaned, Commit)

\* Faulty variant: a claim is compared only if this process has one.
MayActUnclaimed(j, to) ==
  claimed[j] \in {NoClaim, durable[j].executor_generation}

\* Who may move a receipt: the holder of its claim, and anyone finishing a
\* healthy one.
MayAct(j, to) ==
  \/ Holds(j)
  \/ /\ durable[j].phase = "healthy_unclaimed"
     /\ to \in {"consumed", "recovery_required"}

\* async_transition
Transitioning(j, to, code, entry, Write(_, _, _)) ==
  /\ ReadAgrees
  /\ durable[j] # NoReceipt
  /\ MayTransition(durable[j], to, code, entry)
  /\ MayAct(j, to)
  /\ LET doc == [durable EXCEPT ![j] = Transitioned(@, to, code, entry)]
     IN  \E D \in Prunes(doc, j) :
           Write(Without(doc, D), Reconciled(claimed, doc), issued)
Transition(j, to, code, entry) == Transitioning(j, to, code, entry, Commit)

Init ==
  /\ durable = [j \in Jobs |-> NoReceipt]
  /\ cache = NoCache
  /\ claimed = NoClaims
  /\ issued = {}

Next ==
  \/ Refresh
  \/ LoseCache
  \/ \E plan \in Plans : Create(plan)
  \/ \E j \in Jobs : RequestCancel(j)
  \/ \E j \in Jobs, cleaned \in BOOLEAN : Claim(j, cleaned)
  \/ \E j \in {k \in Jobs : durable[k] # NoReceipt} :
       \E to \in NextPhase(durable[j].phase),
          code \in InstallResultCode \cup {None}, entry \in Entries \cup {None} :
         Transition(j, to, code, entry)

Spec == Init /\ [][Next]_jobVars

-----------------------------------------------------------------------------
\* The shape of the state; every stored record has the receipt's fields.
TypeOK ==
  /\ durable \in Documents
  /\ cache \in Documents \cup {NoCache}
  /\ claimed \in [Jobs -> Nat \cup {NoClaim}]
  /\ issued \in SUBSET Jobs

\* _parse_document accepts what is on disk: every receipt is valid, the bounds
\* hold and no two active jobs reach the same panel.  The document is checked
\* before each write; that this holds without modelling the check says that no
\* sequence of operations ever writes itself into a store it must refuse.
Readable(doc) ==
  /\ \A j \in Jobs : doc[j] # NoReceipt => ValidReceipt(doc[j])
  /\ Cardinality(ActiveJobs(doc)) <= MaxActive
  /\ Cardinality(TerminalJobs(doc)) <= MaxTerminal
  /\ \A j, k \in ActiveJobs(doc) :
       j # k => ~SamePanel(doc[j].plan, doc[k].plan)

StoreReadable == Readable(durable)

\* What the process believes is what a fresh process would read, and a claim
\* is held only by a process that has read its receipt, at its generation,
\* while there is still work on it.
AuthorityIsDurable ==
  /\ cache # NoCache => cache = durable
  /\ \A j \in Jobs : claimed[j] # NoClaim =>
       /\ cache # NoCache
       /\ Claimable(durable[j])
       /\ Holds(j)

\* An accepted cancellation was accepted before the package manager could run,
\* and the job then ends without becoming healthy: no phase past staging ever
\* carries one.
CancelPrecedesInstall ==
  \A j \in Jobs : durable[j] # NoReceipt /\ durable[j].cancel_requested =>
    durable[j].phase \in CancellablePhases
                           \cup {"cancelled", "failed", "recovery_required"}

\* A finished job never changes again; it can only be pruned.
TerminalIsFinal ==
  [][\A j \in TerminalJobs(durable) :
       durable'[j] \in {durable[j], NoReceipt}]_jobVars

\* The revision a caller compares is a true version: it moves by one exactly
\* when the receipt changes, so two different receipts never share it.
RevisionIsVersion ==
  [][\A j \in Jobs :
       durable[j] # NoReceipt /\ durable'[j] \notin {durable[j], NoReceipt}
         => durable'[j].revision = durable[j].revision + 1]_jobVars

\* A job whose worker vanished while the panel may have been touched is never
\* continued: without the claim it was entered with it can only be quarantined.
InterruptedMutationIsQuarantined ==
  [][\A j \in Jobs :
       /\ durable[j] # NoReceipt
       /\ durable[j].phase \in {"staging", "installing", "launching"}
       /\ ~Holds(j)
       => \/ durable'[j].phase = durable[j].phase /\ ~Holds(j)'
          \/ durable'[j].phase = "recovery_required"]_jobVars
=============================================================================
