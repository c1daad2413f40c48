------------------------------ MODULE MCStores ------------------------------
(***************************************************************************)
(* What the integration keeps on disk: the receipts (ReceiptStore), the    *)
(* downloaded APK of a job (ArtifactCustody) and the key panels know it by *)
(* (AdbCredentials).  They share no state, so a behaviour explores one of  *)
(* them: part.                                                             *)
(*                                                                         *)
(* Receipts: two jobs, one after the other (MaxActive = 1), of which one   *)
(* finished one is kept.  Artifact: two pieces, one future cancelled by    *)
(* the stop of Home Assistant, one restart.  Key: two callers.             *)
(***************************************************************************)
EXTENDS ReceiptStore, ArtifactCustody, AdbCredentials, TLC

CONSTANTS j1, j2, e1, g1, g2

VARIABLE part

MCPlans == {[address |-> "a", pinned |-> "a", serial |-> "s1"]}

GetterSymmetry == Permutations(Getters)

partVars == <<storeVars, custodyVars, keyVars, part>>

PartInit ==
  /\ part \in {"receipts", "artifact", "key"}
  /\ Init /\ CustodyInit /\ KeyInit

PartNext ==
  /\ UNCHANGED part
  /\ \/ part = "receipts" /\ Next /\ UNCHANGED <<custodyVars, keyVars>>
     \/ part = "artifact" /\ CustodyNext /\ UNCHANGED <<storeVars, keyVars>>
     \/ part = "key" /\ KeyNext /\ UNCHANGED <<storeVars, custodyVars>>

\* CustodySpec's fairness, in its part.
PartSpec ==
  /\ PartInit /\ [][PartNext]_partVars
  /\ WF_custodyVars(part = "artifact" /\ \E op \in FileOps : WorkerStarts(op))
  /\ WF_custodyVars(part = "artifact" /\ WorkerRuns)
  /\ WF_custodyVars(part = "artifact" /\ TakesTurn)
  /\ WF_custodyVars(part = "artifact" /\ FetchFails)
=============================================================================
