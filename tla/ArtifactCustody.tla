--------------------------- MODULE ArtifactCustody ---------------------------
(***************************************************************************)
(* install_artifacts.py: the download of one job's APK into a private      *)
(* directory.  Every file operation runs in a thread of the executor while *)
(* its caller waits for it; the caller may be cancelled at any await, and  *)
(* the future of a queued operation when Home Assistant stops.             *)
(*                                                                         *)
(*   partFile    the partial file                                          *)
(*   readyFile   the published file                                        *)
(*   published   its name is flushed to the directory                      *)
(*   handle      the descriptor the partial file is written through        *)
(*   workers     each file operation's thread, from QUEUED on              *)
(*   transfer    the caller                                                *)
(*   held        the executor has been given the ready file                *)
(*   residue     a removal failed, or a restart found a partial file       *)
(*   aborts, reboots   futures cancelled, restarts (bounds)                *)
(*                                                                         *)
(* The executor runs one worker for a job, so there is one caller          *)
(* (InstallExecutor models what it asks for and when).  A file is its      *)
(* number of pieces and whether they are the release's bytes.  The checks  *)
(* that the directory and the names are what they were are left out:       *)
(* nobody else writes there.                                               *)
(***************************************************************************)
EXTENDS Naturals

CONSTANTS
  Size,          \* the pieces of the APK
  MaxAborts,     \* bound: how often a queued future is cancelled
  MaxReboots,    \* bound
  Nil

\* A file: how many pieces, whether they are the release's, whether flushed.
Files == [size : Nat, sound : BOOLEAN, synced : BOOLEAN]

ASSUME CustodyAssumption == Nil \notin Files

VARIABLES partFile, readyFile, published, handle, workers, transfer, held,
          residue, aborts, reboots

custodyVars == <<partFile, readyFile, published, handle, workers, transfer, held,
                 residue, aborts, reboots>>

fileVars == <<partFile, readyFile, published, handle, residue>>

FileOps == {"prepare", "write", "finish", "promote", "abandon", "remove", "reconcile"}
Ended == {"ok", "reuse", "error", "aborted"}

\* Faulty variant: a file of the right size is taken for the release.
WholeBySize(file) == file.size = Size

\* _hash_open_file accepts it.
Whole(file) == file.size = Size /\ file.sound

\* _finish_file: flushed, then closed.
FlushedFile(file) == [file EXCEPT !.synced = TRUE]

\* No operation is under way; the executor exists.
AtRest == [at |-> "idle", op |-> Nil, cancelled |-> FALSE, fd |-> FALSE,
           got |-> 0, sound |-> TRUE, chunk |-> TRUE]

CustodyInit ==
  /\ partFile = Nil
  /\ readyFile = Nil
  /\ published = FALSE
  /\ handle = "closed"
  /\ workers = [op \in FileOps |-> "none"]
  /\ transfer = [AtRest EXCEPT !.at = "boot"]
  /\ held = FALSE
  /\ residue = FALSE
  /\ aborts = 0
  /\ reboots = 0

-----------------------------------------------------------------------------
(* The threads (_run_worker).                                              *)

\* _start_worker: queued, and t waits for it (_async_wait_for_worker).
Await(op, t) ==
  /\ workers' = [workers EXCEPT ![op] = "queued"]
  /\ transfer' = [t EXCEPT !.at = "waiting", !.op = op]

WorkerStarts(op) ==
  /\ workers[op] = "queued"
  /\ workers' = [workers EXCEPT ![op] = "running"]
  /\ UNCHANGED <<fileVars, transfer, held, aborts, reboots>>

\* Faulty variant: the cancelled future's completion is not signalled.
AbortedSilently == "none"

AbortedState == "aborted"

\* _abort_queued_worker, for the future of a thread that has not begun.
WorkerAborted(op) ==
  /\ workers[op] = "queued"
  /\ aborts < MaxAborts
  /\ aborts' = aborts + 1
  /\ workers' = [workers EXCEPT ![op] = AbortedState]
  /\ UNCHANGED <<fileVars, transfer, held, reboots>>

Ends(op, how) ==
  /\ workers[op] = "running"
  /\ workers' = [workers EXCEPT ![op] = how]
  /\ UNCHANGED <<transfer, held, aborts, reboots>>

EmptyFile == [size |-> 0, sound |-> TRUE, synced |-> FALSE]

\* _prepare_destination.  A directory that does not close discards the file it
\* has just made, or leaves it behind when it cannot be opened again either.
PrepareRuns ==
  \/ /\ Ends("prepare", "error")
     /\ UNCHANGED fileVars
  \/ /\ readyFile # Nil => partFile = Nil /\ Whole(readyFile)
     /\ readyFile # Nil
     /\ Ends("prepare", "reuse")
     /\ UNCHANGED fileVars
  \/ /\ readyFile = Nil /\ partFile = Nil
     /\ Ends("prepare", "ok")
     /\ partFile' = EmptyFile
     /\ handle' = "open"
     /\ UNCHANGED <<readyFile, published, residue>>
  \/ /\ readyFile = Nil /\ partFile = Nil
     /\ Ends("prepare", "error")
     /\ partFile' = EmptyFile
     /\ residue' = TRUE
     /\ UNCHANGED <<readyFile, published, handle>>

\* _write_all: a failure may have written some of it, and what is written may
\* not be what is read back later.
WriteRuns ==
  \E how \in {"ok", "error"}, sound \in {transfer.chunk, FALSE} :
    /\ Ends("write", how)
    /\ handle = "open"
    /\ partFile' = [partFile EXCEPT !.size = @ + 1, !.sound = @ /\ sound]
    /\ UNCHANGED <<readyFile, published, handle, residue>>

FinishRuns ==
  \/ /\ Ends("finish", "ok")
     /\ partFile' = FlushedFile(partFile)
     /\ handle' = "closed"
     /\ UNCHANGED <<readyFile, published, residue>>
  \/ /\ Ends("finish", "error")
     /\ handle' = "closed"
     /\ UNCHANGED <<partFile, readyFile, published, residue>>

\* _promote_partial up to the replacement.
PromoteRuns ==
  \/ /\ Ends("promote", "error")
     /\ UNCHANGED fileVars
  \/ /\ partFile # Nil /\ readyFile = Nil
     /\ Whole(partFile)
     /\ Ends("promote", "renamed")
     /\ readyFile' = partFile
     /\ partFile' = Nil
     /\ published' = FALSE
     /\ UNCHANGED <<handle, residue>>

\* The rest of it: flush and hash again, or withdraw the name, if that works.
PromoteEnds ==
  /\ workers["promote"] = "renamed"
  /\ \/ /\ workers' = [workers EXCEPT !["promote"] = "ok"]
        /\ published' = TRUE
        /\ UNCHANGED readyFile
     \/ /\ workers' = [workers EXCEPT !["promote"] = "error"]
        /\ \/ readyFile' = Nil
           \/ UNCHANGED readyFile
        /\ UNCHANGED published
  /\ UNCHANGED <<partFile, handle, residue, transfer, held, aborts, reboots>>

\* _abandon_partial: closes what it was given, then unlinks the partial file.
AbandonRuns ==
  /\ handle' = IF transfer.fd THEN "closed" ELSE handle
  /\ UNCHANGED <<readyFile, published>>
  /\ \/ /\ \E how \in {"ok", "error"} : Ends("abandon", how)
        /\ partFile' = Nil
        /\ UNCHANGED residue
     \/ /\ Ends("abandon", "error")
        /\ residue' = (partFile # Nil)
        /\ UNCHANGED partFile

\* _remove_owned_files with the ready file: the partial one goes first.
RemoveRuns ==
  /\ UNCHANGED <<published, handle>>
  /\ \/ /\ \E how \in {"ok", "error"} : Ends("remove", how)
        /\ partFile' = Nil
        /\ readyFile' = Nil
        /\ residue' = FALSE
     \/ /\ Ends("remove", "error")
        /\ partFile' = Nil
        /\ residue' = FALSE
        /\ UNCHANGED readyFile
     \/ /\ Ends("remove", "error")
        /\ residue' = (partFile # Nil)
        /\ UNCHANGED <<partFile, readyFile>>

\* _reconcile_install_artifacts: a job whose receipt has ended does not retain
\* its files, which go in the order of their names.
ReconcileRuns ==
  /\ UNCHANGED <<published, handle>>
  /\ \/ /\ \E how \in {"ok", "error"} : Ends("reconcile", how)
        /\ UNCHANGED <<partFile, readyFile, residue>>
     \/ /\ \E how \in {"ok", "error"} : Ends("reconcile", how)
        /\ partFile' = Nil
        /\ readyFile' = Nil
        /\ residue' = FALSE
     \/ /\ Ends("reconcile", "error")
        /\ readyFile' = Nil
        /\ UNCHANGED <<partFile, residue>>

WorkerRuns ==
  PrepareRuns \/ WriteRuns \/ FinishRuns \/ PromoteRuns \/ PromoteEnds
  \/ AbandonRuns \/ RemoveRuns \/ ReconcileRuns

-----------------------------------------------------------------------------
(* The caller, when it is its turn.                                        *)

CallerOnly == UNCHANGED <<fileVars, aborts, reboots>>

\* async_get_install_executor: nothing is fetched until this has succeeded.
BeginReconcile ==
  /\ transfer.at = "boot"
  /\ Await("reconcile", AtRest)
  /\ UNCHANGED held
  /\ CallerOnly

\* async_download_install_artifact
Download ==
  /\ transfer.at = "idle"
  /\ Await("prepare", AtRest)
  /\ UNCHANGED held
  /\ CallerOnly

\* async_cleanup_install_artifact
Cleanup ==
  /\ transfer.at = "idle"
  /\ Await("remove", AtRest)
  /\ held' = FALSE
  /\ CallerOnly

\* A cancellation while a thread runs is recorded until it has ended; while the
\* response is awaited it stops the download at once.
CancelCaller ==
  /\ transfer.at = "waiting"
  /\ ~transfer.cancelled
  /\ transfer' = [transfer EXCEPT !.cancelled = TRUE]
  /\ UNCHANGED <<workers, held>>
  /\ CallerOnly

\* The answer is a redirect too many, an error, another size, or never comes.
FetchFails ==
  /\ transfer.at = "fetching"
  /\ Await("abandon", transfer)
  /\ UNCHANGED held
  /\ CallerOnly

FetchChunk ==
  /\ transfer.at = "fetching"
  /\ transfer.got < Size
  /\ \E sound \in BOOLEAN : Await("write", [transfer EXCEPT !.chunk = sound])
  /\ UNCHANGED held
  /\ CallerOnly

FetchEnds ==
  /\ transfer.at = "fetching"
  /\ IF transfer.got = Size /\ transfer.sound
     THEN Await("finish", transfer)
     ELSE Await("abandon", transfer)
  /\ UNCHANGED held
  /\ CallerOnly

\* _async_wait_for_worker returns.
MayGoOn(op) == workers[op] \in Ended

Rests(ok) ==
  /\ transfer' = AtRest
  /\ held' = ok

GoesOn(op) ==
  /\ transfer.at = "waiting" /\ transfer.op = op
  /\ MayGoOn(op)
  /\ CallerOnly

Succeeded(op) == workers[op] \in {"ok", "reuse"} /\ ~transfer.cancelled

\* Faulty variant: a cancelled preparation is taken for one that made nothing.
CancelledPlain == Rests(held) /\ UNCHANGED workers

\* The prepared file, if any, is abandoned.
CancelledPrepare ==
  /\ Await("abandon", [transfer EXCEPT !.fd = workers["prepare"] = "ok"])
  /\ UNCHANGED held

AfterPrepare ==
  /\ GoesOn("prepare")
  /\ \/ /\ transfer.cancelled
        /\ CancelledPrepare
     \/ /\ ~transfer.cancelled /\ workers["prepare"] = "ok"
        /\ transfer' = [transfer EXCEPT !.at = "fetching", !.op = Nil, !.fd = TRUE]
        /\ UNCHANGED <<workers, held>>
     \/ /\ ~transfer.cancelled /\ workers["prepare"] # "ok"
        /\ Rests(workers["prepare"] = "reuse")
        /\ UNCHANGED workers

\* A write that was not done, or whose caller is cancelled, ends the download.
AfterWrite ==
  /\ GoesOn("write")
  /\ UNCHANGED held
  /\ IF Succeeded("write")
     THEN /\ transfer' = [transfer EXCEPT !.at = "fetching", !.op = Nil,
                            !.got = @ + 1, !.sound = @ /\ transfer.chunk]
          /\ UNCHANGED workers
     ELSE Await("abandon", transfer)

AfterFinish ==
  /\ GoesOn("finish")
  /\ UNCHANGED held
  /\ Await(IF Succeeded("finish") THEN "promote" ELSE "abandon",
           [transfer EXCEPT !.fd = FALSE])

AfterPromote ==
  /\ GoesOn("promote")
  /\ IF Succeeded("promote")
     THEN Rests(TRUE) /\ UNCHANGED workers
     ELSE Await("abandon", transfer) /\ UNCHANGED held

\* _async_cleanup_executor: again, if its thread never ran.
AfterAbandon ==
  /\ GoesOn("abandon")
  /\ IF workers["abandon"] = "aborted"
     THEN Await("abandon", transfer) /\ UNCHANGED held
     ELSE Rests(FALSE) /\ UNCHANGED workers

AfterRemove == GoesOn("remove") /\ Rests(FALSE) /\ UNCHANGED workers

AfterReconcile ==
  /\ GoesOn("reconcile")
  /\ transfer' = [AtRest EXCEPT !.at = IF Succeeded("reconcile") THEN "idle" ELSE "boot"]
  /\ UNCHANGED <<workers, held>>

TakesTurn ==
  AfterPrepare \/ AfterWrite \/ AfterFinish \/ AfterPromote \/ AfterAbandon
  \/ AfterRemove \/ AfterReconcile

\* Bytes that were not flushed may be lost, and so may a name.
Surviving(file) ==
  IF file = Nil THEN {Nil}
  ELSE IF file.synced THEN {file}
  ELSE [size : 0..file.size, sound : {file.sound, FALSE}, synced : {FALSE}]

\* The machine stops at any moment and starts again.
Reboot ==
  /\ reboots < MaxReboots
  /\ reboots' = reboots + 1
  /\ \/ /\ partFile' \in Surviving(partFile) \cup {Nil}
        /\ readyFile' \in Surviving(readyFile)
     \/ /\ ~published                      \* its name had not reached the disk
        /\ partFile' \in Surviving(readyFile)
        /\ readyFile' = Nil
  /\ published' = TRUE
  /\ residue' = (partFile' # Nil)
  /\ handle' = "closed"
  /\ workers' = [op \in FileOps |-> "none"]
  /\ transfer' = [AtRest EXCEPT !.at = "boot"]
  /\ held' = FALSE
  /\ UNCHANGED aborts

CustodyNext ==
  \/ \E op \in FileOps : WorkerStarts(op) \/ WorkerAborted(op)
  \/ WorkerRuns
  \/ BeginReconcile \/ Download \/ Cleanup \/ CancelCaller
  \/ FetchFails \/ FetchChunk \/ FetchEnds
  \/ TakesTurn
  \/ Reboot

\* Threads run, the caller gets its turns, and the download has a time limit.
CustodyFairness ==
  /\ WF_custodyVars(\E op \in FileOps : WorkerStarts(op))
  /\ WF_custodyVars(WorkerRuns)
  /\ WF_custodyVars(TakesTurn)
  /\ WF_custodyVars(FetchFails)

CustodySpec == CustodyInit /\ [][CustodyNext]_custodyVars /\ CustodyFairness

-----------------------------------------------------------------------------
(* Properties.                                                             *)

\* The published file is the release, byte for byte, whatever was cancelled,
\* failed or stopped while it came to be; and it is there for whoever was given
\* it, until it is removed.
ReadyIsTheRelease ==
  /\ readyFile # Nil => readyFile.size = Size /\ readyFile.sound
  /\ held => readyFile # Nil

\* A download that has ended, however it ended, leaves no partial file behind
\* and no descriptor open, except where a removal itself failed or the process
\* was stopping: the executor takes a partial file it meets for the residue of
\* an earlier process and removes it.
EndedLeavesNothing ==
  transfer.at = "idle" =>
    /\ partFile # Nil => residue
    /\ handle = "open" => aborts > 0

\* A download, a removal or a reconciliation always ends, also when Home
\* Assistant cancels the future of a thread that has not begun.
TransferEnds == transfer.at = "waiting" ~> transfer.at \in {"idle", "boot"}
=============================================================================
