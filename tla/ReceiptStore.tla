---------------------------- MODULE ReceiptStore ----------------------------
(***************************************************************************)
(* _async_save_locked (install_jobs.py) in its steps.  The receipts live   *)
(* in two files, each replaced atomically: the primary one in a format     *)
(* older releases read, which has no failure stage, and a second one with  *)
(* a detail (the stage) for each failed receipt, bound to it by job id,    *)
(* revision and a digest of the primary record.  A reader joins the two.   *)
(*                                                                         *)
(*   primary   the primary file: each job's record without its stage       *)
(*   details   the detail file                                             *)
(*   save      the save in progress, or Idle (the manager's lock is free)  *)
(*                                                                         *)
(* The digest is taken to be injective: it is the record itself.  A save   *)
(* may stop after any of its steps: a write or a read-back fails, the      *)
(* caller is cancelled (each file operation is drained first) or the       *)
(* process ends.  That the joined file nevertheless changes only as the    *)
(* one atomic write of InstallJobs does is the property Refines.           *)
(***************************************************************************)
EXTENDS InstallReceipt, FiniteSets

CONSTANTS Jobs, MaxActive, MaxTerminal, NoCache, NoClaim,
  Idle          \* no save is in progress

\* A document, and what a save remembers of one.
Docs == [Jobs -> InstallJobReceipt \cup {NoReceipt}]

Saves == [at : {"details", "primary", "verify", "compact"}, doc : Docs,
          claims : [Jobs -> Nat \cup {NoClaim}], before : SUBSET Jobs,
          compact : BOOLEAN]

ASSUME StoreAssumption ==
  /\ NoReceipt \notin InstallJobReceipt
  /\ NoClaim \notin Nat
  /\ Idle \notin Saves

VARIABLES primary, details, cache, claimed, issued, save

storeVars == <<primary, details, cache, claimed, issued, save>>

\* _serialize_receipt: what the primary file keeps of a receipt.
Record(r) == IF r = NoReceipt THEN NoReceipt ELSE [r EXCEPT !.failure_stage = None]
Records(doc) == [j \in Jobs |-> Record(doc[j])]

\* Faulty variant: a detail names its receipt by revision alone.
BoundByRevision(detail, record) == detail.record.revision = record.revision

\* A detail belongs to the one record with its revision and digest.
Bound(detail, record) == detail.record = record

\* _detail_for of each receipt of a document.
DetailsOf(doc) ==
  {[job |-> j, record |-> Record(doc[j]), failure_stage |-> doc[j].failure_stage] :
     j \in {k \in Jobs : doc[k] # NoReceipt /\ doc[k].failure_stage # None}}

\* _join_details
Joined(records, ds) ==
  [j \in Jobs |->
     LET own == {d \in ds : d.job = j /\ records[j] # NoReceipt
                                      /\ Bound(d, records[j])}
     IN  IF own = {} THEN records[j]
         ELSE [records[j] EXCEPT
                 !.failure_stage = (CHOOSE d \in own : TRUE).failure_stage]]

\* What a fresh process reads.
Disk == Joined(primary, details)

\* The document and the claims a successful save leaves: they are on disk from
\* the write of the primary file on.
Written == save # Idle /\ save.at \in {"verify", "compact"}

\* The promise: one document, replaced in one step.  The ids drawn for a
\* document that is not written yet do not count.
Promise == INSTANCE InstallJobs WITH
  durable <- Disk,
  cache <- IF Written THEN save.doc ELSE cache,
  claimed <- IF Written THEN save.claims ELSE claimed,
  issued <- IF save = Idle \/ Written THEN issued ELSE save.before

-----------------------------------------------------------------------------

Forget == cache' = NoCache /\ claimed' = Promise!NoClaims

\* The details to be on disk while the primary file is replaced: those of the
\* document it holds, so that an aborted write strands none, and the new ones.
Kept(doc) == DetailsOf(Disk) \cup DetailsOf(doc)

\* A read that changes nothing; it takes the lock.
Refresh ==
  /\ save = Idle
  /\ Promise!ReadAgrees
  /\ cache' = Disk
  /\ claimed' = Promise!Reconciled(claimed, Disk)
  /\ UNCHANGED <<primary, details, issued, save>>

\* A save begins, after the refreshing read that found Disk.  With no detail
\* to keep it goes straight to the primary file, and remembers whether the
\* detail file has to be emptied afterwards.
Begin(doc, claims, ids) ==
  /\ cache' = Disk
  /\ save' = [at |-> IF Kept(doc) = {} THEN "primary" ELSE "details",
              doc |-> doc, claims |-> claims, before |-> issued,
              compact |-> IF Kept(doc) = {} THEN details # {}
                          ELSE Kept(doc) # DetailsOf(doc)]
  /\ issued' = ids
  /\ claimed' = Promise!Reconciled(claimed, Disk)
  /\ UNCHANGED <<primary, details>>

\* The detail file is written and read back.
WriteDetails ==
  /\ save # Idle /\ save.at = "details"
  /\ details' = Kept(save.doc)
  /\ save' = [save EXCEPT !.at = "primary"]
  /\ UNCHANGED <<primary, cache, claimed, issued>>

\* The primary file is written.
WritePrimary ==
  /\ save # Idle /\ save.at = "primary"
  /\ primary' = Records(save.doc)
  /\ save' = [save EXCEPT !.at = "verify"]
  /\ UNCHANGED <<details, cache, claimed, issued>>

\* Both files are read back and joined: the new document, which is adopted.
Adopt ==
  /\ save # Idle /\ save.at = "verify"
  /\ Disk = save.doc
  /\ cache' = Disk
  /\ IF save.compact
     THEN /\ save' = [save EXCEPT !.at = "compact"]
          /\ claimed' = Promise!Reconciled(claimed, Disk)
     ELSE save' = Idle /\ claimed' = save.claims
  /\ UNCHANGED <<primary, details, issued>>

\* The best-effort removal of details that belong to no stored receipt; the
\* save has succeeded whether it works or not.
Compact ==
  /\ save # Idle /\ save.at = "compact"
  /\ details' \in {details, DetailsOf(save.doc)}
  /\ save' = Idle
  /\ claimed' = save.claims
  /\ UNCHANGED <<primary, cache, issued>>

\* The save stops here, with the next write done or not; or, with no save in
\* progress, a read fails.
Abort ==
  /\ Forget
  /\ save' = Idle
  /\ IF save # Idle /\ save.at = "details"
     THEN details' \in {details, Kept(save.doc)}
     ELSE IF save # Idle /\ save.at = "compact"
     THEN details' \in {details, DetailsOf(save.doc)}
     ELSE UNCHANGED details
  /\ IF save # Idle /\ save.at = "primary"
     THEN primary' \in {primary, Records(save.doc)}
     ELSE UNCHANGED primary
  /\ UNCHANGED issued

Operate ==
  /\ save = Idle
  /\ \/ \E plan \in Plans : Promise!Creating(plan, Begin)
     \/ \E j \in Jobs : Promise!Cancelling(j, Begin)
     \/ \E j \in Jobs, cleaned \in BOOLEAN : Promise!Claiming(j, cleaned, Begin)
     \/ \E j \in {k \in Jobs : Disk[k] # NoReceipt} :
          \E to \in NextPhase(Disk[j].phase),
             code \in InstallResultCode \cup {None},
             entry \in Entries \cup {None} :
            Promise!Transitioning(j, to, code, entry, Begin)

Init ==
  /\ primary = [j \in Jobs |-> NoReceipt]
  /\ details = {}
  /\ cache = NoCache
  /\ claimed = [j \in Jobs |-> NoClaim]
  /\ issued = {}
  /\ save = Idle

Next ==
  \/ Refresh \/ Operate
  \/ WriteDetails \/ WritePrimary \/ Adopt \/ Compact \/ Abort

Spec == Init /\ [][Next]_storeVars

-----------------------------------------------------------------------------
\* Shape: the primary file never holds a stage (releases before the detail
\* file refuse one), and every detail is one of a receipt that failed.
StoreTypeOK ==
  /\ primary \in [Jobs -> InstallJobReceipt \cup {NoReceipt}]
  /\ \A j \in Jobs : primary[j] # NoReceipt => primary[j].failure_stage = None
  /\ \A d \in details :
       /\ d.job \in Jobs
       /\ d.failure_stage \in ActivePhases
       /\ d.record \in InstallJobReceipt
       /\ d.record.phase \in {"failed", "recovery_required"}
  /\ claimed \in [Jobs -> Nat \cup {NoClaim}]
  /\ save # Idle => save.at \in {"details", "primary", "verify", "compact"}

\* The two files, wherever a save stops, read as one document that changes
\* only as the atomic save of InstallJobs changes it: an aborted write strands
\* no stage, and none ever appears on a receipt it was not recorded for.
Refines == Promise!Spec

=============================================================================
