---------------------------- MODULE Flows_proofs ----------------------------
(***************************************************************************)
(* How a panel gets its app and its entry, for any numbers of flows,       *)
(* entries, offers, steps at a time and bounds:                            *)
(*                                                                         *)
(*   install   InstallFinalizer: one install makes one entry.              *)
(*   cards     DiscoveryCards: an entry ends the cards of its address, and *)
(*             no card with a running step is taken away.                  *)
(*   panel     InstallDevice: a job that failed never installs, and the    *)
(*             HOME before the dashboard stays on record.                  *)
(*   add       AddPanelFlow: what is approved is what was shown, unless a  *)
(*             step is disturbed by another.                               *)
(*                                                                         *)
(* Each part states its inductive invariant, one lemma for every step or   *)
(* kind of step, and then its theorems.                                    *)
(***************************************************************************)
EXTENDS InstallFinalizer, DiscoveryCards, InstallDevice, AddPanelFlow, FiniteSetTheorems, TLAPS

-----------------------------------------------------------------------------
(***************************************************************************)
(* The install.  A flow that Home Assistant has not removed holds the      *)
(* lease from its check that there is no entry until it adds one, so       *)
(* nobody else's finalization adds one between.                            *)
(***************************************************************************)
FlowRecords == [pc : FlowPcs, removed : BOOLEAN, entry : Entries \cup {None},
                recorded : BOOLEAN]

LeaseTypes == Leases \cup {NoLease}

FlowFits(f) ==
  ~flow[f].removed =>
    /\ Verifying(f) => lease = Lease(f, TRUE)
    /\ FlowAt(f, "setup") => HeldBy(lease, f) /\ made = {}

FinInv ==
  /\ FinTypeOK
  /\ \A f \in Flows : FlowFits(f)
  /\ \A d, e \in made : d = e

\* What an owner does to the lease leaves another's lease alone.
LeavesOthers(owner) ==
  /\ lease' \in LeaseTypes
  /\ \A f \in Flows \ {owner} : HeldBy(lease, f) => lease' = lease

LEMMA LeaseFacts ==
  ASSUME NEW owner \in Owners, NEW v \in BOOLEAN
  PROVE  Lease(owner, v) \in Leases /\ HeldBy(Lease(owner, v), owner)
<1>1. Lease(owner, v) \in Leases /\ Lease(owner, v).owner = owner
  BY DEF Lease, Leases
<1> QED BY <1>1, FinalizerAssumption DEF HeldBy

LEMMA ReleasedFacts ==
  ASSUME NEW held \in LeaseTypes, NEW owner \in Owners
  PROVE  /\ Released(held, owner) \in LeaseTypes
         /\ ~HeldBy(held, owner) => Released(held, owner) = held
<1>1. CASE held = NoLease \/ held.owner # owner
  BY <1>1 DEF Released
<1>2. CASE held # NoLease /\ held.owner = owner
  <2>1. held \in Leases
    BY <1>2 DEF LeaseTypes
  <2>2. [held EXCEPT !.release_requested = TRUE] \in Leases
    BY <2>1 DEF Leases
  <2>3. Released(held, owner) \in {[held EXCEPT !.release_requested = TRUE], NoLease}
    BY <1>2, <2>1 DEF Released, Leases
  <2> QED BY <1>2, <2>2, <2>3 DEF HeldBy, LeaseTypes
<1> QED BY <1>1, <1>2

LEMMA VerificationLeftFacts ==
  ASSUME NEW held \in LeaseTypes, NEW owner \in Owners, NEW keep \in BOOLEAN
  PROVE  /\ VerificationLeft(held, owner, keep) \in LeaseTypes
         /\ ~HeldBy(held, owner) => VerificationLeft(held, owner, keep) = held
         /\ held = Lease(owner, TRUE) /\ keep =>
              HeldBy(VerificationLeft(held, owner, keep), owner)
<1> DEFINE free == [held EXCEPT !.verifying = FALSE]
<1>1. CASE ~HeldBy(held, owner)
  <2>1. VerificationLeft(held, owner, keep) = held
    BY <1>1 DEF VerificationLeft
  <2>2. held # Lease(owner, TRUE)
    BY <1>1, LeaseFacts
  <2> QED BY <2>1, <2>2
<1>2. CASE HeldBy(held, owner)
  <2>1. held \in Leases /\ held.owner = owner
    BY <1>2 DEF HeldBy, LeaseTypes
  <2>2. free \in Leases /\ free.owner = owner /\ free # NoLease
    BY <2>1, FinalizerAssumption DEF Leases
  <2>3. free \in LeaseTypes
    BY <2>2 DEF LeaseTypes
  <2>4. Released(free, owner) \in LeaseTypes
    BY <2>3, ReleasedFacts
  <2>5. CASE keep /\ ~held.release_requested
    <3>1. VerificationLeft(held, owner, keep) = free
      BY <1>2, <2>5 DEF VerificationLeft
    <3> QED BY <1>2, <2>2, <2>3, <3>1 DEF HeldBy
  <2>6. CASE ~(keep /\ ~held.release_requested)
    <3>1. VerificationLeft(held, owner, keep) = Released(free, owner)
      BY <1>2, <2>6 DEF VerificationLeft
    <3>2. ~(held = Lease(owner, TRUE) /\ keep)
      BY <2>6 DEF Lease
    <3> QED BY <1>2, <2>4, <3>1, <3>2
  <2> QED BY <2>5, <2>6
<1> QED BY <1>1, <1>2

\* The two ways in which a lease is given back.
LEMMA GivenBack ==
  ASSUME FinInv, NEW owner \in Owners,
         \/ lease' = Released(lease, owner)
         \/ \E keep \in BOOLEAN : lease' = VerificationLeft(lease, owner, keep)
         \/ lease' = Released(VerificationLeft(lease, owner, TRUE), owner)
  PROVE  LeavesOthers(owner)
<1>1. lease \in LeaseTypes
  BY DEF FinInv, FinTypeOK, LeaseTypes
<1>2. lease' \in LeaseTypes
  BY <1>1, ReleasedFacts, VerificationLeftFacts
<1>3. ASSUME NEW f \in Flows \ {owner}, HeldBy(lease, f)
      PROVE  lease' = lease
  <2>1. ~HeldBy(lease, owner)
    BY <1>3 DEF HeldBy
  <2> QED BY <1>1, <2>1, ReleasedFacts, VerificationLeftFacts
<1> QED BY <1>2, <1>3 DEF LeavesOthers

\* One flow moves, and what it does to the lease concerns itself.
LEMMA FlowMoves1 ==
  ASSUME FinInv, NEW f \in Flows, LeavesOthers(f),
         NEW r \in FlowRecords, flow' = [flow EXCEPT ![f] = r],
         UNCHANGED <<setup, entries, made, restarts>>,
         ~r.removed =>
           /\ r.pc \in {"reading", "proving", "reject"} => lease' = Lease(f, TRUE)
           /\ r.pc = "setup" => HeldBy(lease', f) /\ made = {}
  PROVE  FinInv'
<1>1. flow \in [Flows -> FlowRecords]
  BY DEF FinInv, FinTypeOK, FlowRecords
<1>2. flow' \in [Flows -> FlowRecords]
  BY <1>1
<1>3. FinTypeOK'
  BY <1>2 DEF FinInv, FinTypeOK, FlowRecords, LeavesOthers, LeaseTypes
<1>4. FlowFits(f)'
  BY <1>1 DEF FlowFits, Verifying, FlowAt, HeldBy
<1>5. ASSUME NEW g \in Flows \ {f} PROVE FlowFits(g)'
  <2>1. flow'[g] = flow[g]
    BY <1>1
  <2>2. FlowFits(g)
    BY DEF FinInv
  <2>3. ~flow[g].removed /\ Verifying(g) => HeldBy(lease, g)
    <3>1. HeldBy(Lease(g, TRUE), g)
      BY LeaseFacts DEF Owners
    <3> QED BY <2>2, <3>1 DEF FlowFits
  <2>4. ~flow[g].removed /\ (Verifying(g) \/ FlowAt(g, "setup")) => lease' = lease
    BY <2>2, <2>3 DEF FlowFits, LeavesOthers
  <2> QED BY <2>1, <2>2, <2>4 DEF FlowFits, Verifying, FlowAt, HeldBy
<1> QED BY <1>3, <1>4, <1>5 DEF FinInv

\* Begin: the lease is taken, or somebody else has it.
LEMMA BeginKeeps ==
  ASSUME FinInv, NEW f \in Flows, Begin(f)
  PROVE  FinInv'
<1>1. flow[f] \in FlowRecords /\ flow[f].pc = "form" /\ flow \in [Flows -> FlowRecords]
  BY DEF FinInv, FinTypeOK, FlowRecords, Begin, FlowAt
<1>2. PICK retained \in IF entries = {} THEN {None} ELSE entries :
        IF lease = NoLease \/ (lease.owner = f /\ ~lease.verifying)
        THEN /\ lease' = Lease(f, TRUE)
             /\ flow' = [flow EXCEPT ![f].pc = "reading", ![f].entry = retained,
                                     ![f].recorded = TRUE]
        ELSE /\ flow' = [flow EXCEPT ![f].entry = retained, ![f].recorded = TRUE]
             /\ UNCHANGED lease
  BY DEF Begin
<1>3. retained \in Entries \cup {None} /\ lease \in LeaseTypes
  BY DEF FinInv, FinTypeOK, LeaseTypes
<1>4. UNCHANGED <<setup, entries, made, restarts>>
  BY DEF Begin
<1>5. CASE lease = NoLease \/ (lease.owner = f /\ ~lease.verifying)
  <2> DEFINE r == [flow[f] EXCEPT !.pc = "reading", !.entry = retained, !.recorded = TRUE]
  <2>1. r \in FlowRecords /\ r.pc = "reading"
    BY <1>1, <1>3 DEF FlowRecords, FlowPcs
  <2>2. flow' = [flow EXCEPT ![f] = r] /\ lease' = Lease(f, TRUE)
    BY <1>1, <1>2, <1>5
  <2>3. LeavesOthers(f)
    BY <1>5, <2>2, LeaseFacts DEF LeavesOthers, LeaseTypes, HeldBy, Owners
  <2> HIDE DEF r
  <2> QED BY <1>4, <2>1, <2>2, <2>3, FlowMoves1
<1>6. CASE ~(lease = NoLease \/ (lease.owner = f /\ ~lease.verifying))
  <2> DEFINE r == [flow[f] EXCEPT !.entry = retained, !.recorded = TRUE]
  <2>1. r \in FlowRecords /\ r.pc = "form"
    BY <1>1, <1>3 DEF FlowRecords, FlowPcs
  <2>2. flow' = [flow EXCEPT ![f] = r] /\ lease' = lease
    BY <1>1, <1>2, <1>6
  <2>3. LeavesOthers(f)
    BY <1>3, <2>2 DEF LeavesOthers
  <2> HIDE DEF r
  <2> QED BY <1>4, <2>1, <2>2, <2>3, FlowMoves1
<1> QED BY <1>5, <1>6

\* What becomes of a flow by the definitions Moved and BackToForm.
LEMMA MovedFacts ==
  ASSUME FinInv, NEW f \in Flows, NEW pc \in FlowPcs, Moved(f, pc)
  PROVE  \E r \in FlowRecords :
           /\ r.pc = pc /\ r.removed = flow[f].removed
           /\ flow' = [flow EXCEPT ![f] = r]
<1> DEFINE r == [flow[f] EXCEPT !.pc = pc]
<1>1. flow[f] \in FlowRecords /\ flow \in [Flows -> FlowRecords]
  BY DEF FinInv, FinTypeOK, FlowRecords
<1>2. r \in FlowRecords /\ r.pc = pc /\ r.removed = flow[f].removed
  BY <1>1 DEF FlowRecords
<1>3. flow' = [flow EXCEPT ![f] = r]
  BY <1>1 DEF Moved
<1> QED BY <1>2, <1>3

\* A flow goes where it needs no lease, and gives back its own or leaves it.
LEMMA RestsKeeps ==
  ASSUME FinInv, NEW f \in Flows, LeavesOthers(f),
         NEW pc \in FlowPcs \ {"reading", "proving", "reject", "setup"}, Moved(f, pc),
         UNCHANGED <<setup, entries, made, restarts>>
  PROVE  FinInv'
<1>1. PICK r \in FlowRecords : r.pc = pc /\ flow' = [flow EXCEPT ![f] = r]
  BY MovedFacts
<1>2. r.pc \notin {"reading", "proving", "reject"} /\ r.pc # "setup"
  BY <1>1
<1> QED BY <1>1, <1>2, FlowMoves1

LEMMA BackKeeps ==
  ASSUME FinInv, NEW f \in Flows, LeavesOthers(f), BackToForm(f),
         UNCHANGED <<setup, entries, made, restarts>>
  PROVE  FinInv'
<1>1. \E pc \in {"form", "gone"} : Moved(f, pc)
  BY DEF BackToForm
<1> QED BY <1>1, RestsKeeps DEF FlowPcs

LEMMA StaysLeft == FinInv /\ lease' = lease => \A o : LeavesOthers(o)
BY DEF FinInv, FinTypeOK, LeavesOthers, LeaseTypes

\* A flow goes on verifying, with the lease as it is.
LEMMA VerifiesOn ==
  ASSUME FinInv, NEW f \in Flows, Verifying(f), lease' = lease,
         NEW pc \in {"proving", "reject"}, Moved(f, pc),
         UNCHANGED <<setup, entries, made, restarts>>
  PROVE  FinInv'
<1>1. ~flow[f].removed => lease = Lease(f, TRUE)
  BY DEF FinInv, FlowFits
<1>2. LeavesOthers(f) /\ pc \in FlowPcs
  BY StaysLeft DEF FlowPcs
<1>3. PICK r \in FlowRecords :
        r.pc = pc /\ r.removed = flow[f].removed /\ flow' = [flow EXCEPT ![f] = r]
  BY <1>2, MovedFacts
<1> QED BY <1>1, <1>2, <1>3, FlowMoves1

LEMMA VerifyReadKeeps ==
  ASSUME FinInv, NEW f \in Flows, VerifyRead(f)
  PROVE  FinInv'
<1>0. UNCHANGED <<setup, entries, made, restarts>> /\ f \in Owners /\ Verifying(f)
  BY DEF VerifyRead, Owners, Verifying, FlowAt
<1>1. CASE Moved(f, "proving") /\ UNCHANGED lease
  BY <1>0, <1>1, VerifiesOn
<1>2. CASE lease' = VerificationLeft(lease, f, FALSE) /\ (BackToForm(f) \/ Moved(f, "gone"))
  <2>1. LeavesOthers(f)
    BY <1>0, <1>2, GivenBack
  <2> QED BY <1>0, <1>2, <2>1, BackKeeps, RestsKeeps DEF FlowPcs
<1> QED BY <1>1, <1>2 DEF VerifyRead

\* Prove: only a flow that is still shown, whose lease is kept, may go on to
\* make an entry, and there is none yet.
LEMMA ProveKeeps ==
  ASSUME FinInv, NEW f \in Flows, Prove(f)
  PROVE  FinInv'
<1> DEFINE kept == VerificationLeft(lease, f, TRUE)
<1>0. UNCHANGED <<setup, entries, made, restarts>> /\ f \in Owners /\ Verifying(f)
  BY DEF Prove, Owners, Verifying, FlowAt
<1>1. CASE lease' = VerificationLeft(lease, f, FALSE) /\ BackToForm(f)
  BY <1>0, <1>1, GivenBack, BackKeeps
<1>2. CASE Moved(f, "reject") /\ UNCHANGED lease
  BY <1>0, <1>2, VerifiesOn
<1>3. CASE lease' = Released(kept, f) /\ Moved(f, "gone")
  <2>1. LeavesOthers(f)
    BY <1>0, <1>3, GivenBack
  <2> QED BY <1>0, <1>3, <2>1, RestsKeeps DEF FlowPcs
<1>4. CASE lease' = kept /\ Moved(f, "consume")
  <2>1. LeavesOthers(f)
    BY <1>0, <1>4, GivenBack
  <2> QED BY <1>0, <1>4, <2>1, RestsKeeps DEF FlowPcs
<1>5. CASE ~flow[f].removed /\ entries = {} /\ lease' = kept /\ Moved(f, "setup")
  <2>1. LeavesOthers(f)
    BY <1>0, <1>5, GivenBack
  <2>2. lease = Lease(f, TRUE)
    BY <1>0, <1>5 DEF FinInv, FlowFits
  <2>3. lease \in LeaseTypes
    BY DEF FinInv, FinTypeOK, LeaseTypes
  <2>4. HeldBy(lease', f)
    BY <1>0, <1>5, <2>2, <2>3, VerificationLeftFacts
  <2>5. made = {}
    BY <1>5 DEF FinInv, FinTypeOK
  <2>6. PICK r \in FlowRecords : r.pc = "setup" /\ flow' = [flow EXCEPT ![f] = r]
    BY <1>5, MovedFacts DEF FlowPcs
  <2> QED BY <1>0, <2>1, <2>4, <2>5, <2>6, FlowMoves1
<1> QED BY <1>1, <1>2, <1>3, <1>4, <1>5 DEF Prove

LEMMA RejectKeeps ==
  ASSUME FinInv, NEW f \in Flows, Reject(f)
  PROVE  FinInv'
<1>1. /\ UNCHANGED <<setup, entries, made, restarts>> /\ f \in Owners
      /\ lease' = VerificationLeft(lease, f, FALSE)
      /\ Moved(f, "gone") \/ BackToForm(f)
  BY DEF Reject, Owners
<1>2. LeavesOthers(f)
  BY <1>1, GivenBack
<1> QED BY <1>1, <1>2, BackKeeps, RestsKeeps DEF FlowPcs

LEMMA SetupIncompleteKeeps ==
  ASSUME FinInv, NEW f \in Flows, SetupIncomplete(f)
  PROVE  FinInv'
<1>1. /\ UNCHANGED <<setup, entries, made, restarts>> /\ f \in Owners
      /\ lease' = Released(lease, f)
  BY DEF SetupIncomplete, Owners
<1>2. LeavesOthers(f)
  BY <1>1, GivenBack
<1>3. flow[f] \in FlowRecords /\ flow \in [Flows -> FlowRecords]
  BY DEF FinInv, FinTypeOK, FlowRecords
<1> DEFINE r == [flow[f] EXCEPT !.pc = IF flow[f].removed THEN "gone" ELSE "form",
                                !.recorded = FALSE]
<1>4. r \in FlowRecords /\ r.pc \in {"form", "gone"}
  BY <1>3 DEF FlowRecords, FlowPcs
<1>5. flow' = [flow EXCEPT ![f] = r]
  BY <1>3 DEF SetupIncomplete
<1> HIDE DEF r
<1> QED BY <1>1, <1>2, <1>4, <1>5, FlowMoves1

\* The one step that makes an entry: whoever else is about to make one would
\* hold the lease as well.
LEMMA CreateEntryKeeps ==
  ASSUME FinInv, NEW f \in Flows, CreateEntry(f)
  PROVE  FinInv'
<1>1. PICK e \in Entries \ entries :
        /\ entries' = entries \cup {e} /\ made' = made \cup {e}
        /\ setup' = [setup EXCEPT ![e] = "find"]
        /\ flow' = [flow EXCEPT ![f].pc = "adding", ![f].entry = e]
  BY DEF CreateEntry
<1>2. UNCHANGED <<lease, restarts>> /\ FlowAt(f, "setup") /\ ~flow[f].removed
  BY DEF CreateEntry
<1>3. HeldBy(lease, f) /\ made = {}
  BY <1>2 DEF FinInv, FlowFits
<1>4. flow[f] \in FlowRecords /\ flow \in [Flows -> FlowRecords]
  BY DEF FinInv, FinTypeOK, FlowRecords
<1> DEFINE r == [flow[f] EXCEPT !.pc = "adding", !.entry = e]
<1>5. r \in FlowRecords /\ r.pc = "adding" /\ flow' = [flow EXCEPT ![f] = r]
  BY <1>1, <1>4 DEF FlowRecords, FlowPcs
<1> HIDE DEF r
<1>6. FinTypeOK'
  <2>1. FinTypeOK
    BY DEF FinInv
  <2>2. flow' \in [Flows -> FlowRecords]
    BY <1>4, <1>5
  <2>3. setup' \in [Entries -> {"find", "acquire", "write", "done"}]
    BY <1>1, <2>1 DEF FinTypeOK
  <2>4. made' \subseteq entries' /\ entries' \subseteq Entries
    BY <1>1, <2>1 DEF FinTypeOK
  <2> QED BY <1>2, <2>1, <2>2, <2>3, <2>4 DEF FinTypeOK, FlowRecords
<1>7. ASSUME NEW g \in Flows, ~flow'[g].removed
      PROVE  ~Verifying(g)' /\ ~FlowAt(g, "setup")'
  <2>1. CASE g = f
    BY <1>4, <1>5, <2>1 DEF Verifying, FlowAt
  <2>2. CASE g # f
    <3>1. flow'[g] = flow[g] /\ g \in Owners
      BY <1>4, <1>5, <2>2 DEF Owners
    <3>2. ~HeldBy(lease, g)
      BY <1>3, <2>2 DEF HeldBy
    <3>3. lease # Lease(g, TRUE)
      BY <3>1, <3>2, LeaseFacts
    <3>4. FlowFits(g)
      BY DEF FinInv
    <3> QED BY <1>7, <3>1, <3>2, <3>3, <3>4 DEF FlowFits, Verifying, FlowAt
  <2> QED BY <2>1, <2>2
<1>8. \A d, x \in made' : d = x
  BY <1>1, <1>3
<1> QED BY <1>6, <1>7, <1>8 DEF FinInv, FlowFits

LEMMA OnCreateEntryKeeps ==
  ASSUME FinInv, NEW f \in Flows, OnCreateEntry(f)
  PROVE  FinInv'
<1>1. UNCHANGED <<setup, entries, made, restarts>> /\ LeavesOthers(f)
  BY StaysLeft DEF OnCreateEntry
<1>2. \E pc \in {"consume", "gone"} : Moved(f, pc)
  BY DEF OnCreateEntry
<1> QED BY <1>1, <1>2, RestsKeeps DEF FlowPcs

\* The lease is taken by one who finds it free, or kept by its owner.
LEMMA AcquiredFacts ==
  ASSUME FinInv, NEW owner \in Owners, Acquires(owner) \/ NotAcquired(owner)
  PROVE  LeavesOthers(owner)
<1>1. CASE Acquires(owner)
  <2>1. lease \in LeaseTypes
    BY DEF FinInv, FinTypeOK, LeaseTypes
  <2>2. CASE lease = NoLease
    BY <1>1, <2>2, LeaseFacts DEF Acquires, LeavesOthers, LeaseTypes, HeldBy
  <2>3. CASE lease # NoLease
    BY <1>1, <2>1, <2>3 DEF Acquires, LeavesOthers
  <2> QED BY <2>2, <2>3
<1>2. CASE NotAcquired(owner)
  BY <1>2, GivenBack DEF NotAcquired
<1> QED BY <1>1, <1>2

LEMMA ConsumeKeeps ==
  ASSUME FinInv, NEW f \in Flows, ConsumeAcquire(f) \/ ConsumeWrite(f)
  PROVE  FinInv'
<1>1. UNCHANGED <<setup, entries, made, restarts>> /\ f \in Owners
  BY DEF ConsumeAcquire, ConsumeWrite, Owners
<1>2. CASE ConsumeAcquire(f)
  <2>1. \E pc \in {"consume_write", "gone"} : Moved(f, pc)
    BY <1>2 DEF ConsumeAcquire
  <2>2. LeavesOthers(f)
    BY <1>1, <1>2, AcquiredFacts DEF ConsumeAcquire
  <2> QED BY <1>1, <2>1, <2>2, RestsKeeps DEF FlowPcs
<1>3. CASE ConsumeWrite(f)
  <2>1. Moved(f, "gone") /\ LeavesOthers(f)
    BY <1>1, <1>3, GivenBack DEF ConsumeWrite
  <2> QED BY <1>1, <2>1, RestsKeeps DEF FlowPcs
<1> QED BY <1>2, <1>3

LEMMA RemoveKeeps ==
  ASSUME FinInv, NEW f \in Flows, Remove(f)
  PROVE  FinInv'
<1>1. UNCHANGED <<setup, entries, made, restarts>> /\ f \in Owners
  BY DEF Remove, Owners
<1>2. LeavesOthers(f)
  BY <1>1, GivenBack, StaysLeft DEF Remove
<1>3. flow[f] \in FlowRecords /\ flow \in [Flows -> FlowRecords]
  BY DEF FinInv, FinTypeOK, FlowRecords
<1> DEFINE r == [flow[f] EXCEPT !.removed = TRUE, !.pc = IF @ = "form" THEN "gone" ELSE @]
<1>4. r \in FlowRecords /\ r.removed
  BY <1>3 DEF FlowRecords, FlowPcs
<1>5. flow' = [flow EXCEPT ![f] = r]
  BY <1>3 DEF Remove
<1> HIDE DEF r
<1> QED BY <1>1, <1>2, <1>4, <1>5, FlowMoves1

LEMMA CancelRequestKeeps ==
  ASSUME FinInv, NEW f \in Flows, CancelRequest(f)
  PROVE  FinInv'
<1>1. UNCHANGED <<setup, entries, made, restarts>> /\ f \in Owners
  BY DEF CancelRequest, Owners
<1>2. CASE lease' = VerificationLeft(lease, f, FALSE) /\ BackToForm(f)
  BY <1>1, <1>2, GivenBack, BackKeeps
<1>3. CASE /\ lease' = Released(lease, f)
           /\ flow' = [flow EXCEPT ![f].pc = IF flow[f].removed THEN "gone" ELSE "form",
                                ![f].recorded = flow[f].pc = "consume"]
  <2>1. flow[f] \in FlowRecords /\ flow \in [Flows -> FlowRecords]
    BY DEF FinInv, FinTypeOK, FlowRecords
  <2> DEFINE r == [flow[f] EXCEPT !.pc = IF flow[f].removed THEN "gone" ELSE "form",
                                  !.recorded = flow[f].pc = "consume"]
  <2>2. r \in FlowRecords /\ r.pc \in {"form", "gone"}
    BY <2>1 DEF FlowRecords, FlowPcs
  <2>3. flow' = [flow EXCEPT ![f] = r]
    BY <1>3, <2>1
  <2>4. LeavesOthers(f)
    BY <1>1, <1>3, GivenBack
  <2> HIDE DEF r
  <2> QED BY <1>1, <2>2, <2>3, <2>4, FlowMoves1
<1> QED BY <1>2, <1>3 DEF CancelRequest

\* The setup of an entry takes and gives back no flow's lease.
LEMMA SetupKeeps ==
  ASSUME FinInv, NEW e \in Entries, LeavesOthers(e),
         NEW pc \in {"find", "acquire", "write", "done"}, SetupMoved(e, pc),
         UNCHANGED <<flow, entries, made, restarts>>
  PROVE  FinInv'
<1>1. FinTypeOK'
  BY DEF FinInv, FinTypeOK, SetupMoved, LeavesOthers, LeaseTypes
<1>2. ASSUME NEW f \in Flows, ~flow[f].removed, Verifying(f) \/ FlowAt(f, "setup")
      PROVE  lease' = lease
  <2>1. f # e /\ f \in Owners
    BY FinalizerAssumption DEF Owners
  <2>2. FlowFits(f) /\ HeldBy(Lease(f, TRUE), f)
    BY <2>1, LeaseFacts DEF FinInv
  <2>3. HeldBy(lease, f)
    BY <1>2, <2>2 DEF FlowFits
  <2> QED BY <2>1, <2>3 DEF LeavesOthers
<1>3. \A f \in Flows : FlowFits(f)'
  BY <1>2 DEF FinInv, FlowFits, Verifying, FlowAt, HeldBy
<1> QED BY <1>1, <1>3 DEF FinInv

LEMMA ReconcileKeeps ==
  ASSUME FinInv, NEW e \in Entries,
         ReconcileFind(e) \/ ReconcileAcquire(e) \/ ReconcileWrite(e) \/ Reload(e)
  PROVE  FinInv'
<1>1. UNCHANGED <<flow, entries, made, restarts>> /\ e \in Owners
  BY DEF ReconcileFind, ReconcileAcquire, ReconcileWrite, Reload, Owners
<1>2. \E pc \in {"find", "acquire", "write", "done"} : SetupMoved(e, pc)
  BY DEF ReconcileFind, ReconcileAcquire, ReconcileWrite, Reload
<1>3. CASE lease' = lease
  BY <1>1, <1>2, <1>3, StaysLeft, SetupKeeps
<1>4. CASE ReconcileAcquire(e)
  <2>1. LeavesOthers(e)
    BY <1>1, <1>4, AcquiredFacts DEF ReconcileAcquire
  <2> QED BY <1>1, <1>2, <2>1, SetupKeeps
<1>5. CASE ReconcileWrite(e)
  <2>1. LeavesOthers(e)
    BY <1>1, <1>5, GivenBack DEF ReconcileWrite
  <2> QED BY <1>1, <1>2, <2>1, SetupKeeps
<1> QED BY <1>3, <1>4, <1>5 DEF ReconcileFind, Reload

LEMMA AddBesideKeeps ==
  ASSUME FinInv, AddBeside
  PROVE  FinInv'
<1>1. PICK e \in Entries : entries' = {e} /\ setup' = [setup EXCEPT ![e] = "find"]
  BY DEF AddBeside
<1>2. UNCHANGED <<lease, flow, made, restarts>> /\ made = {}
  BY DEF AddBeside, FinInv, FinTypeOK
<1> QED BY <1>1, <1>2 DEF FinInv, FinTypeOK, FlowFits, Verifying, FlowAt, HeldBy

\* A restart ends every flow that verifies or is about to make an entry.
LEMMA RestartKeeps ==
  ASSUME FinInv, Restart
  PROVE  FinInv'
<1>1. flow \in [Flows -> FlowRecords]
  BY DEF FinInv, FinTypeOK, FlowRecords
<1>2. ASSUME NEW f \in Flows
      PROVE  flow'[f] \in FlowRecords /\ flow'[f].pc \in {"form", "gone"}
  <2>1. flow'[f] = IF FlowAt(f, "form") THEN flow[f] ELSE [flow[f] EXCEPT !.pc = "gone"]
    BY DEF Restart
  <2> QED BY <1>1, <2>1 DEF FlowRecords, FlowPcs, FlowAt
<1>3. flow' \in [Flows -> FlowRecords]
  BY <1>2 DEF Restart
<1>4. lease' = NoLease /\ UNCHANGED <<entries, made>>
      /\ setup' \in [Entries -> {"find", "acquire", "write", "done"}]
  BY DEF Restart
<1>5. restarts' \in 0..MaxRestarts
  BY FinalizerAssumption DEF Restart, FinInv, FinTypeOK
<1>6. FinTypeOK'
  BY <1>3, <1>4, <1>5 DEF FinInv, FinTypeOK, FlowRecords
<1>7. \A f \in Flows : FlowFits(f)'
  BY <1>2 DEF FlowFits, Verifying, FlowAt
<1> QED BY <1>4, <1>6, <1>7 DEF FinInv

LEMMA FinInitHolds == FinInit => FinInv
<1> SUFFICES ASSUME FinInit PROVE FinInv
  OBVIOUS
<1>1. \A f \in Flows : flow[f] \in FlowRecords /\ flow[f].pc = "form"
  BY DEF FinInit, FlowRecords, FlowPcs
<1>2. FinTypeOK
  BY <1>1, FinalizerAssumption DEF FinInit, FinTypeOK, FlowRecords
<1>3. \A f \in Flows : FlowFits(f)
  BY <1>1 DEF FlowFits, Verifying, FlowAt
<1> QED BY <1>2, <1>3 DEF FinInv, FinInit

LEMMA FinStepKeeps == FinInv /\ [FinNext]_vars => FinInv'
<1> SUFFICES ASSUME FinInv, [FinNext]_vars PROVE FinInv'
  OBVIOUS
<1>1. CASE UNCHANGED vars
  BY <1>1 DEF vars, finVars, FinInv, FinTypeOK, FlowFits, Verifying, FlowAt, HeldBy
<1>2. ASSUME NEW f \in Flows,
             \/ Begin(f) \/ VerifyRead(f) \/ Prove(f) \/ Reject(f)
             \/ SetupIncomplete(f) \/ CreateEntry(f) \/ OnCreateEntry(f)
             \/ ConsumeAcquire(f) \/ ConsumeWrite(f) \/ Remove(f) \/ CancelRequest(f)
      PROVE  FinInv'
  BY <1>2, BeginKeeps, VerifyReadKeeps, ProveKeeps, RejectKeeps, SetupIncompleteKeeps,
     CreateEntryKeeps, OnCreateEntryKeeps, ConsumeKeeps, RemoveKeeps, CancelRequestKeeps
<1>3. ASSUME NEW e \in Entries,
             ReconcileFind(e) \/ ReconcileAcquire(e) \/ ReconcileWrite(e) \/ Reload(e)
      PROVE  FinInv'
  BY <1>3, ReconcileKeeps
<1>4. CASE AddBeside \/ Restart
  BY <1>4, AddBesideKeeps, RestartKeeps
<1> QED BY <1>1, <1>2, <1>3, <1>4 DEF FinNext

\* async_verify_finalization and async_consume_finalization: one install makes
\* one entry, however many flows show it, are removed or cancelled, and however
\* often the process restarts.
THEOREM InstallMakesOneEntry == FinSpec => []OneEntryPerInstall
<1>1. FinInv => OneEntryPerInstall
  <2> SUFFICES ASSUME FinInv PROVE Cardinality(made) <= 1
    BY DEF OneEntryPerInstall
  <2>1. CASE made = {}
    BY <2>1, FS_EmptySet
  <2>2. CASE made # {}
    <3>1. PICK e : e \in made
      BY <2>2
    <3>2. made = {e}
      BY <3>1 DEF FinInv
    <3> QED BY <3>2, FS_Singleton
  <2> QED BY <2>1, <2>2
<1> QED BY <1>1, FinInitHolds, FinStepKeeps, PTL DEF FinSpec

-----------------------------------------------------------------------------
(***************************************************************************)
(* The cards.  The mark in a card's title tells whether a step of its flow *)
(* runs, though the dialog was opened twice: who closes the cards of an    *)
(* address reads it.  A flow that waits to create an entry has the panel's *)
(* identity, so it does not outlive the entry another flow creates.        *)
(***************************************************************************)
CardFits(c) ==
  /\ c.runs > 0 <=> c.mark # "none"
  /\ c.stage = "probing" => c.runs = 0
  /\ c.accepted => c.runs > 0 /\ c.identity = c.at

\* A person is at it.
Running(o) == Listed(o) /\ card[o].stage = "listed" /\ card[o].runs > 0

\* The panel whose identity the flow has gets an entry.
Gains(o) == card[o].identity \in configured' \ configured

Expecting(c) == c # Nil /\ c.accepted /\ c.stage = "listed"

CardInv ==
  /\ CardTypeOK
  /\ \A o \in Offers : card[o] # Nil => CardFits(card[o])
  /\ \A o \in Offers : Expecting(card[o]) => card[o].at \notin configured
  /\ \A o \in over : card[o] # Nil /\ card[o].mark = "closing"

\* What becomes of the flows, when no card with a running step is taken away.
Tame(cards) ==
  /\ cards \in [Offers -> Cards \cup {Nil}]
  /\ \A o \in Offers : cards[o] # Nil => CardFits(cards[o])
  /\ \A o \in over : cards[o] # Nil => cards[o].mark = "closing"
  /\ \A o \in Offers : Running(o) => cards[o] # Nil \/ Gains(o)

\* Nobody waits to create an entry where there is one.
Unclaimed(cards) ==
  \A o \in Offers : Expecting(cards[o]) => cards[o].at \notin configured'

\* What the steps must do.
CardsKept == CardInv' /\ \A o \in Offers : Running(o) => card'[o] # Nil \/ Gains(o)

RestTypes ==
  /\ ignored' \in [Offers -> Places \cup {Nil}]
  /\ configured' \subseteq Places /\ byHand' \in Places \cup {Nil}

LEMMA RestStays ==
  ASSUME CardInv, UNCHANGED <<ignored, configured, byHand>>
  PROVE  RestTypes
BY DEF CardInv, CardTypeOK, RestTypes

LEMMA PlaceFacts ==
  ASSUME CardInv, NEW o \in Offers
  PROVE  /\ o.at \in Places
         /\ Open(o) => card[o] \in Cards /\ card[o].at \in Places /\ CardFits(card[o])
BY DEF CardInv, CardTypeOK, Places, Open, Cards

LEMMA CardIsSomething == \A c \in Cards : c # Nil
BY CardAssumption

LEMMA RememberedKeeps ==
  ASSUME CardInv, Tame(card'), Unclaimed(card'), RestTypes,
         NEW more \in SUBSET Offers, Remembers(card', more),
         \A o \in more : card'[o] # Nil => card'[o].mark = "closing"
  PROVE  CardsKept
BY DEF CardInv, CardTypeOK, Tame, Unclaimed, Expecting, RestTypes, Remembers, CardsKept

\* One flow changes, or is gone.
LEMMA TameExcept ==
  ASSUME NEW cards, Tame(cards), NEW o \in Offers, NEW c \in Cards \cup {Nil},
         c # Nil => CardFits(c), o \in over /\ c # Nil => c.mark = "closing",
         Running(o) => c # Nil
  PROVE  Tame([cards EXCEPT ![o] = c])
<1> DEFINE new == [cards EXCEPT ![o] = c]
<1>1. cards \in [Offers -> Cards \cup {Nil}]
  BY DEF Tame
<1>2. new \in [Offers -> Cards \cup {Nil}] /\ new[o] = c
      /\ \A q \in Offers \ {o} : new[q] = cards[q]
  BY <1>1
<1> HIDE DEF new
<1>3. /\ \A q \in Offers : new[q] # Nil => CardFits(new[q])
      /\ \A q \in Offers : Running(q) => new[q] # Nil \/ Gains(q)
  BY <1>2 DEF Tame
<1>4. \A q \in over : new[q] # Nil => new[q].mark = "closing"
  BY <1>1, <1>2 DEF Tame, new
<1> QED BY <1>2, <1>3, <1>4 DEF Tame, new

LEMMA CardIsTame == CardInv => Tame(card)
BY DEF Tame, CardInv, CardTypeOK, Running, Listed, Open

LEMMA OneCardTame ==
  ASSUME CardInv, NEW o \in Offers, NEW c \in Cards \cup {Nil},
         c # Nil => CardFits(c), o \in over /\ c # Nil => c.mark = "closing",
         Running(o) => c # Nil
  PROVE  Tame([card EXCEPT ![o] = c])
BY CardIsTame, TameExcept

LEMMA OneCardKeeps ==
  ASSUME CardInv, NEW o \in Offers, NEW c \in Cards, card' = [card EXCEPT ![o] = c],
         CardFits(c), o \in over => c.mark = "closing",
         Expecting(c) => c.at \notin configured,
         UNCHANGED <<ignored, configured, byHand, over>>
  PROVE  CardsKept
<1>1. Tame(card')
  BY OneCardTame, CardIsSomething
<1>2. card'[o] = c /\ c # Nil /\ \A q \in Offers \ {o} : card'[q] = card[q]
  BY CardIsSomething DEF CardInv, CardTypeOK
<1>3. \A q \in Offers : Expecting(card'[q]) => card'[q].at \notin configured'
  BY <1>2 DEF CardInv
<1> QED BY <1>1, <1>2, <1>3, RestStays DEF CardsKept, Tame, CardInv, CardTypeOK, RestTypes, Expecting

LEMMA GoneKeeps ==
  ASSUME CardInv, NEW o \in Offers, Gone(o), ~Running(o),
         ignored' \in [Offers -> Places \cup {Nil}], UNCHANGED <<configured, byHand>>
  PROVE  CardsKept
<1>1. Tame(card')
  BY OneCardTame DEF Gone
<1>2. over' = over \ {o} /\ \A q \in Offers \ {o} : card'[q] = card[q]
  BY DEF Gone, CardInv, CardTypeOK
<1>3. card'[o] = Nil
  BY DEF Gone, CardInv, CardTypeOK
<1> QED BY <1>1, <1>2, <1>3 DEF CardsKept, Tame, CardInv, CardTypeOK, Expecting

\* close_offers leaves what runs, and asks it to end.
LEMMA ClosedFacts ==
  ASSUME CardInv, NEW x, NEW by, NEW pressed \in BOOLEAN
  PROVE  /\ Tame(Closed(x, by, pressed))
         /\ pressed => \A o \in ListedAt(x) \ {by} :
              LET c == Closed(x, by, pressed)[o] IN c # Nil => c.mark = "closing"
<1> DEFINE cards == Closed(x, by, pressed)
           hit(o) == Listed(o) /\ o # by /\ card[o].at = x /\ (pressed \/ ~card[o].pressed)
<1>1. \A o \in Offers : cards[o] = IF hit(o) THEN AskedOrClosed(card[o]) ELSE card[o]
  BY DEF Closed
<1>2. ASSUME NEW o \in Offers, hit(o)
      PROVE  /\ cards[o] \in Cards \cup {Nil}
             /\ cards[o] # Nil => CardFits(cards[o]) /\ cards[o].mark = "closing"
             /\ Running(o) => cards[o] # Nil
  <2>1. card[o] \in Cards /\ CardFits(card[o]) /\ cards[o] = AskedOrClosed(card[o])
    BY <1>1, <1>2, PlaceFacts DEF Listed
  <2>2. CASE card[o].mark = "none"
    <3>1. cards[o] = Nil /\ ~(card[o].runs > 0)
      BY <2>1, <2>2 DEF AskedOrClosed, CardFits
    <3> QED BY <3>1 DEF Running
  <2>3. CASE card[o].mark # "none"
    <3> DEFINE c == [card[o] EXCEPT !.mark = "closing"]
    <3>1. c \in Cards /\ CardFits(c) /\ c.mark = "closing"
      BY <2>1, <2>3 DEF Cards, CardFits
    <3>2. cards[o] = c
      BY <2>1, <2>3 DEF AskedOrClosed
    <3> HIDE DEF c, cards
    <3> QED BY <3>1, <3>2, CardIsSomething
  <2> QED BY <2>2, <2>3
<1>3. ASSUME NEW o \in Offers, ~hit(o)
      PROVE  cards[o] = card[o]
  BY <1>1, <1>3
<1>4. cards = [o \in Offers |-> cards[o]]
  BY DEF Closed
<1> HIDE DEF cards
<1>5. cards \in [Offers -> Cards \cup {Nil}]
  BY <1>2, <1>3, <1>4 DEF CardInv, CardTypeOK
<1>6. Tame(cards)
  BY <1>2, <1>3, <1>5 DEF Tame, CardInv, CardTypeOK, Running, Listed, Open
<1>7. ASSUME pressed, NEW o \in ListedAt(x) \ {by}, cards[o] # Nil
      PROVE  cards[o].mark = "closing"
  BY <1>2, <1>7 DEF ListedAt
<1> QED BY <1>6, <1>7 DEF cards

\* It changes nothing of a flow but its mark.
LEMMA ClosedSame ==
  ASSUME CardInv, NEW x, NEW by, NEW pressed \in BOOLEAN, NEW o \in Offers,
         Closed(x, by, pressed)[o] # Nil
  PROVE  LET c == Closed(x, by, pressed)[o] IN
         /\ card[o] # Nil /\ c.at = card[o].at /\ c.identity = card[o].identity
         /\ c.accepted = card[o].accepted /\ c.stage = card[o].stage
<1> DEFINE c == Closed(x, by, pressed)[o]
<1>1. card[o] # Nil
  BY DEF Closed, Listed, Open
<1>2. card[o] \in Cards
  BY <1>1, PlaceFacts DEF Open
<1>3. c \in {card[o], [card[o] EXCEPT !.mark = "closing"]}
  BY DEF Closed, AskedOrClosed
<1> QED BY <1>1, <1>2, <1>3 DEF Cards

LEMMA ClosedWait ==
  ASSUME CardInv, NEW x, NEW by, NEW pressed \in BOOLEAN
  PROVE  LET cards == Closed(x, by, pressed) IN
         \A o \in Offers : cards[o] # Nil =>
           /\ cards[o].identity = card[o].identity
           /\ Expecting(cards[o]) => cards[o].at \notin configured
<1> DEFINE cards == Closed(x, by, pressed)
<1>1. SUFFICES ASSUME NEW o \in Offers, cards[o] # Nil
               PROVE  /\ cards[o].identity = card[o].identity
                      /\ Expecting(cards[o]) => cards[o].at \notin configured
  OBVIOUS
<1>2. /\ card[o] # Nil /\ cards[o].at = card[o].at
      /\ cards[o].identity = card[o].identity
      /\ cards[o].accepted = card[o].accepted /\ cards[o].stage = card[o].stage
  BY <1>1, ClosedSame
<1> HIDE DEF cards
<1>3. Expecting(cards[o]) => Expecting(card[o])
  BY <1>2 DEF Expecting
<1> QED BY <1>2, <1>3 DEF CardInv

\* Home Assistant ends the flows that have the identity of the panel with the new
\* entry; of those that waited to create it nobody is left.
LEMMA OthersEndFacts ==
  ASSUME CardInv, NEW cards, Tame(cards), NEW x \in Places, NEW by,
         x \notin configured, configured' = configured \cup {x},
         \A o \in Offers \ {by} : cards[o] # Nil =>
           /\ cards[o].identity = card[o].identity
           /\ Expecting(cards[o]) => cards[o].at \notin configured,
         by \in Offers => ~Expecting(cards[by])
  PROVE  /\ Tame(OthersEnd(x, by, cards)) /\ Unclaimed(OthersEnd(x, by, cards))
         /\ \A o \in Offers : OthersEnd(x, by, cards)[o] \in {cards[o], Nil}
<1> DEFINE ends == OthersEnd(x, by, cards)
<1>1. \A o \in Offers :
        ends[o] = IF o # by /\ Knows(o, x, cards) /\ cards[o].stage # "probing"
                  THEN Nil ELSE cards[o]
  BY DEF OthersEnd
<1>2. ends = [o \in Offers |-> ends[o]]
  BY DEF OthersEnd
<1> HIDE DEF ends
<1>3. ends \in [Offers -> Cards \cup {Nil}]
  BY <1>1, <1>2 DEF Tame
<1>4. ASSUME NEW o \in Offers, Running(o)
      PROVE  ends[o] # Nil \/ Gains(o)
  BY <1>1, <1>4 DEF Tame, Gains, Knows
<1>5. Tame(ends)
  BY <1>1, <1>3, <1>4 DEF Tame, CardInv, CardTypeOK
<1>6. ASSUME NEW o \in Offers, Expecting(ends[o])
      PROVE  ends[o].at \notin configured'
  <2>1. ends[o] = cards[o] /\ cards[o] # Nil /\ Expecting(cards[o]) /\ o # by
    BY <1>1, <1>6 DEF Expecting
  <2>2. cards[o].identity = cards[o].at /\ cards[o].stage # "probing"
    BY <2>1 DEF Tame, CardFits, Expecting
  <2>3. cards[o].identity # x
    BY <1>1, <2>1, <2>2 DEF Knows
  <2> QED BY <2>1, <2>2, <2>3
<1> QED BY <1>1, <1>5, <1>6 DEF Unclaimed, ends

-----------------------------------------------------------------------------
\* The steps of a flow before it has a card.
LEMMA AnnouncedKeeps ==
  ASSUME CardInv, NEW o \in Offers, Announced(o)
  PROVE  CardsKept
<1> DEFINE c == [stage |-> "probing", at |-> o.at, kept |-> o.at \in configured,
                 pressed |-> FALSE, runs |-> 0, mark |-> "none", accepted |-> FALSE,
                 identity |-> IF IsApp(o) THEN o.at ELSE Nil]
<1>1. c \in Cards /\ CardFits(c) /\ ~Expecting(c)
  BY PlaceFacts, CardAssumption DEF Cards, CardFits, Expecting
<1>2. o \notin over
  BY DEF Announced, Open, CardInv
<1>3. card' = [card EXCEPT ![o] = c] /\ UNCHANGED <<ignored, configured, byHand, over>>
  BY DEF Announced
<1> HIDE DEF c
<1> QED BY <1>1, <1>2, <1>3, OneCardKeeps

\* A probing flow has no card yet, so nobody runs a step of it.
LEMMA ProbingFacts ==
  ASSUME CardInv, NEW o \in Offers, Open(o), card[o].stage = "probing"
  PROVE  /\ ~Running(o) /\ o \notin over
         /\ [card[o] EXCEPT !.stage = "listed"] \in Cards
         /\ CardFits([card[o] EXCEPT !.stage = "listed"])
         /\ ~[card[o] EXCEPT !.stage = "listed"].accepted
<1>1. card[o] \in Cards /\ CardFits(card[o])
  BY PlaceFacts
<1>2. card[o].mark = "none" /\ o \notin over
  BY <1>1 DEF CardFits, CardInv, Cards
<1> QED BY <1>1, <1>2 DEF Running, Listed, Cards, CardFits

LEMMA ProbeEndsKeeps ==
  ASSUME CardInv, NEW o \in Offers, ProbedWeakly(o) \/ NotFound(o)
  PROVE  CardsKept
<1>1. /\ Open(o) /\ card[o].stage = "probing"
      /\ UNCHANGED <<ignored, configured, byHand>>
  BY DEF ProbedWeakly, NotFound
<1>2. CASE Gone(o)
  BY <1>1, <1>2, ProbingFacts, GoneKeeps DEF CardInv, CardTypeOK
<1>3. CASE card' = Shown(o, card) /\ UNCHANGED over
  <2> DEFINE c == [card[o] EXCEPT !.stage = "listed"]
  <2>1. card' = [card EXCEPT ![o] = c]
    BY <1>3 DEF Shown, CardInv, CardTypeOK
  <2>2. c \in Cards /\ CardFits(c) /\ o \notin over /\ ~Expecting(c)
    BY <1>1, ProbingFacts DEF Expecting
  <2> HIDE DEF c
  <2> QED BY <1>1, <1>3, <2>1, <2>2, OneCardKeeps
<1> QED BY <1>2, <1>3 DEF ProbedWeakly, NotFound

LEMMA ProbedAppKeeps ==
  ASSUME CardInv, NEW o \in Offers, ProbedApp(o)
  PROVE  CardsKept
<1> DEFINE cards == Closed(o.at, o, FALSE)
           c == [card[o] EXCEPT !.stage = "listed"]
<1>1. /\ Open(o) /\ card[o].stage = "probing" /\ RestTypes
      /\ card' \in {[cards EXCEPT ![o] = Nil], Shown(o, cards)}
      /\ Remembers(card', {})
  BY RestStays DEF ProbedApp
<1>2. c \in Cards /\ CardFits(c) /\ o \notin over /\ ~Running(o) /\ c # Nil /\ ~Expecting(c)
  BY <1>1, ProbingFacts, CardIsSomething DEF Expecting
<1>3. /\ Tame(cards)
      /\ \A q \in Offers : Expecting(cards[q]) => cards[q].at \notin configured
  BY ClosedFacts, ClosedWait DEF Expecting
<1>4. cards[o] = card[o]
  BY DEF Closed
<1> HIDE DEF cards
<1>5. cards \in [Offers -> Cards \cup {Nil}]
  BY <1>3 DEF Tame
<1>6. card' \in {[cards EXCEPT ![o] = Nil], [cards EXCEPT ![o] = c]}
  BY <1>1, <1>4, <1>5 DEF Shown
<1> HIDE DEF c
<1>7. Tame(card')
  BY <1>2, <1>3, <1>6, TameExcept
<1>8. UNCHANGED configured /\ ~Expecting(Nil)
  BY DEF ProbedApp, Expecting
<1>9. Unclaimed(card')
  BY <1>2, <1>3, <1>5, <1>6, <1>8 DEF Unclaimed
<1> QED BY <1>1, <1>7, <1>9, RememberedKeeps

-----------------------------------------------------------------------------
\* The steps of a card.
LEMMA PressKeeps ==
  ASSUME CardInv, NEW o \in Offers, NEW x \in Places, Press(o, x)
  PROVE  CardsKept
<1>1. card[o] \in Cards /\ CardFits(card[o]) /\ card[o].stage = "listed"
      /\ card[o].runs < MaxRuns
  BY PlaceFacts DEF Press
<1> DEFINE c == [card[o] EXCEPT !.pressed = TRUE, !.runs = @ + 1, !.at = x,
                                !.mark = IF @ = "none" THEN "running" ELSE @,
                                !.accepted = @ /\ x = card[o].at]
<1>2. c \in Cards
  <2>1. card[o].runs + 1 \in 0..MaxRuns
    BY <1>1, CardAssumption DEF Cards
  <2>2. (IF card[o].mark = "none" THEN "running" ELSE card[o].mark)
          \in {"none", "running", "closing"}
    BY <1>1 DEF Cards
  <2> QED BY <1>1, <2>1, <2>2 DEF Cards
<1>3. /\ CardFits(c) /\ (card[o].mark = "closing" => c.mark = "closing")
  <2>1. /\ c.runs = card[o].runs + 1 /\ c.mark # "none" /\ c.stage = "listed"
        /\ c.at = x /\ c.identity = card[o].identity
        /\ card[o].mark = "closing" => c.mark = "closing"
    BY <1>1 DEF Cards
  <2>2. c.accepted = (card[o].accepted /\ x = card[o].at)
    BY <1>1 DEF Cards
  <2>3. c.accepted => c.identity = c.at
    BY <1>1, <2>1, <2>2, Zenon DEF CardFits
  <2>4. c.runs > 0
    BY <1>1, <2>1 DEF Cards
  <2> HIDE DEF c
  <2> QED BY <2>1, <2>3, <2>4 DEF CardFits
<1>4. card' = [card EXCEPT ![o] = c] /\ UNCHANGED <<ignored, configured, byHand, over>>
  BY DEF Press, CardInv, CardTypeOK
<1>5. /\ o \in over => card[o].mark = "closing"
      /\ Expecting(c) => c.at \notin configured
  BY <1>1, PlaceFacts, CardIsSomething DEF CardInv, Expecting, Cards
<1> HIDE DEF c
<1> QED BY <1>2, <1>3, <1>4, <1>5, OneCardKeeps

LEMMA AcceptsKeeps ==
  ASSUME CardInv, NEW o \in Offers, Accepts(o)
  PROVE  CardsKept
<1>1. card[o] \in Cards /\ CardFits(card[o])
  BY PlaceFacts DEF Accepts
<1> DEFINE c == [card[o] EXCEPT !.accepted = TRUE, !.identity = card[o].at]
<1>2. c \in Cards /\ CardFits(c) /\ c.mark = card[o].mark /\ c.at = card[o].at
  BY <1>1 DEF Cards, CardFits, Accepts
<1>3. card' = [card EXCEPT ![o] = c] /\ UNCHANGED <<ignored, configured, byHand, over>>
  BY DEF Accepts, CardInv, CardTypeOK
<1>4. /\ o \in over => card[o].mark = "closing"
      /\ c.at \notin configured
  BY <1>2 DEF CardInv, Accepts
<1> HIDE DEF c
<1> QED BY <1>2, <1>3, <1>4, OneCardKeeps

LEMMA EndedFacts ==
  ASSUME CardInv, NEW o \in Offers, Open(o), card[o].runs > 0, ~MustClose(card[o])
  PROVE  /\ Ended(card[o]) \in Cards /\ o \notin over
         /\ Ended(card[o]).runs > 0 <=> Ended(card[o]).mark # "none"
         /\ Ended(card[o]).stage = card[o].stage /\ Ended(card[o]).at = card[o].at
         /\ Ended(card[o]).identity = card[o].identity
         /\ Ended(card[o]).accepted => card[o].accepted /\ Ended(card[o]).runs > 0
<1>1. card[o] \in Cards /\ CardFits(card[o])
  BY PlaceFacts
<1>2. Ended(card[o]) = [card[o] EXCEPT !.runs = @ - 1,
                                       !.mark = IF card[o].runs = 1 THEN "none" ELSE @,
                                       !.accepted = @ /\ card[o].runs > 1]
  BY <1>1 DEF Ended, MarkAfter, Cards
<1>3. o \notin over
  BY DEF MustClose, CardInv
<1>4. /\ card[o].runs - 1 \in 0..MaxRuns /\ (card[o].runs - 1 > 0 <=> card[o].runs # 1)
      /\ card[o].runs > 1 <=> card[o].runs - 1 > 0
  BY <1>1, CardAssumption DEF Cards
<1> QED BY <1>1, <1>2, <1>3, <1>4 DEF Cards, CardFits

\* A step that ends is the one step that may take its own flow away.
LEMMA StepEndsKeeps ==
  ASSUME CardInv, NEW o \in Offers, StepEnds(o)
  PROVE  CardInv' /\ \A q \in Offers : Running(q) /\ card'[q] = Nil => StepEnds(q) \/ Gains(q)
<1>1. /\ Open(o) /\ card[o].runs > 0 /\ card[o].stage = "listed"
      /\ UNCHANGED <<ignored, configured, byHand>>
  BY DEF StepEnds
<1>2. \A q \in Offers \ {o} : card'[q] = card[q]
  BY DEF StepEnds, Gone, CardInv, CardTypeOK
<1>3. CASE Gone(o)
  <2>1. card' = [card EXCEPT ![o] = Nil] /\ over' = over \ {o}
    BY <1>3 DEF Gone
  <2>2. /\ card' \in [Offers -> Cards \cup {Nil}] /\ card'[o] = Nil
        /\ over' \subseteq Offers
    BY <2>1 DEF CardInv, CardTypeOK
  <2>3. CardTypeOK'
    BY <1>1, <2>2 DEF CardInv, CardTypeOK
  <2>4. /\ \A q \in Offers : card'[q] # Nil => CardFits(card'[q])
        /\ \A q \in Offers : Expecting(card'[q]) => card'[q].at \notin configured'
    BY <1>1, <1>2, <2>2 DEF CardInv, Expecting
  <2>5. \A q \in over' : card'[q] # Nil /\ card'[q].mark = "closing"
    BY <1>2, <2>1 DEF CardInv, CardTypeOK
  <2>6. CardInv'
    BY <2>3, <2>4, <2>5 DEF CardInv
  <2> QED BY <1>2, <2>6, <1>1, StepEnds(o) DEF Running, Listed, Open
<1>4. CASE ~MustClose(card[o]) /\ card' = [card EXCEPT ![o] = Ended(card[o])] /\ UNCHANGED over
  <2>1. card[o] \in Cards /\ CardFits(card[o]) /\ card[o] # Nil
    BY <1>1, PlaceFacts DEF Open
  <2>2. /\ Ended(card[o]) \in Cards /\ CardFits(Ended(card[o])) /\ o \notin over
        /\ Expecting(Ended(card[o])) => Ended(card[o]).at \notin configured
    BY <1>1, <1>4, <2>1, EndedFacts DEF CardFits, CardInv, Expecting
  <2> QED BY <2>2, <1>1, <1>4, <2>1, OneCardKeeps DEF CardsKept
<1> QED BY <1>2, <1>3, <1>4 DEF StepEnds, Running, Listed, Open

-----------------------------------------------------------------------------
\* The adding of an entry.
LEMMA RestGrows ==
  ASSUME CardInv, NEW x \in Places, configured' = configured \cup {x}
  PROVE  configured' \subseteq Places
BY DEF CardInv, CardTypeOK

LEMMA CreatesKeeps ==
  ASSUME CardInv, NEW o \in Offers, Creates(o)
  PROVE  CardsKept
<1> DEFINE c == [Ended(card[o]) EXCEPT !.stage = "created"]
           cards == [card EXCEPT ![o] = c]
<1>1. /\ Open(o) /\ card[o].runs > 0 /\ card[o].accepted /\ ~MustClose(card[o])
      /\ UNCHANGED <<ignored, byHand>> /\ configured' = configured \cup {card[o].at}
      /\ card' = OthersEnd(card[o].at, o, cards) /\ Remembers(card', {})
  BY DEF Creates
<1>2. Ended(card[o]) \in Cards /\ o \notin over
  BY <1>1, EndedFacts
<1>3. c \in Cards /\ CardFits(c)
  <2>1. /\ Ended(card[o]).runs > 0 <=> Ended(card[o]).mark # "none"
        /\ Ended(card[o]).at = card[o].at /\ Ended(card[o]).identity = card[o].identity
        /\ Ended(card[o]).accepted => card[o].accepted /\ Ended(card[o]).runs > 0
    BY <1>1, EndedFacts
  <2>2. card[o].accepted => card[o].identity = card[o].at
    BY <1>1, PlaceFacts DEF CardFits
  <2>3. /\ c \in Cards /\ c.stage = "created" /\ c.runs = Ended(card[o]).runs
        /\ c.mark = Ended(card[o]).mark /\ c.accepted = Ended(card[o]).accepted
        /\ c.at = Ended(card[o]).at /\ c.identity = Ended(card[o]).identity
    BY <1>2 DEF Cards
  <2> HIDE DEF c
  <2> QED BY <2>1, <2>2, <2>3 DEF CardFits
<1> HIDE DEF c
<1>4. Tame(cards)
  BY <1>2, <1>3, CardIsSomething, OneCardTame
<1>5. cards[o] = c /\ \A q \in Offers \ {o} : cards[q] = card[q]
  BY DEF CardInv, CardTypeOK
<1> HIDE DEF cards
<1>6. /\ card[o].at \in Places /\ card[o].at \notin configured
      /\ card[o].stage = "listed" /\ ~Expecting(c)
  BY <1>1, <1>2, PlaceFacts DEF CardInv, Expecting, Creates, Open, c, Cards
<1>9. Tame(card') /\ Unclaimed(card')
  BY <1>1, <1>4, <1>5, <1>6, OthersEndFacts DEF CardInv
<1>7. RestTypes
  BY <1>1, PlaceFacts, RestGrows DEF RestTypes, CardInv, CardTypeOK
<1>8. Remembers(card', {})
  BY <1>1
<1> QED BY <1>7, <1>8, <1>9, RememberedKeeps

LEMMA ClosesOthersKeeps ==
  ASSUME CardInv, RestTypes, NEW x, NEW by, NEW cards, ClosesOthers(x, by, cards),
         Tame(cards), Unclaimed(cards),
         \A o \in ListedAt(x) \ {by} : cards[o] # Nil => cards[o].mark = "closing"
  PROVE  CardsKept
<1>1. card' = cards /\ Remembers(card', ListedAt(x) \ {by})
      /\ ListedAt(x) \ {by} \in SUBSET Offers
  BY DEF ClosesOthers, ListedAt
<1> QED BY <1>1, RememberedKeeps

LEMMA OnCreateKeeps ==
  ASSUME CardInv, NEW o \in Offers, OnCreate(o)
  PROVE  CardsKept
<1> DEFINE closed == Closed(card[o].at, o, TRUE)
           cards == [closed EXCEPT ![o] = Nil]
<1>1. /\ Open(o) /\ card[o].stage = "created" /\ RestTypes
      /\ ClosesOthers(card[o].at, o, cards)
  BY RestStays DEF OnCreate
<1>2. ~Running(o) /\ UNCHANGED configured
  BY <1>1 DEF Running, OnCreate
<1>7. \A q \in Offers : Expecting(closed[q]) => closed[q].at \notin configured
  BY ClosedWait DEF Expecting
<1>3. /\ Tame(closed)
      /\ \A q \in ListedAt(card[o].at) \ {o} : closed[q] # Nil => closed[q].mark = "closing"
  BY ClosedFacts
<1> HIDE DEF closed
<1>4. Tame(cards) /\ Unclaimed(cards)
  BY <1>2, <1>3, <1>7 DEF Tame, Unclaimed, Expecting
<1>5. \A q \in ListedAt(card[o].at) \ {o} : cards[q] # Nil => cards[q].mark = "closing"
  BY <1>3 DEF Tame, ListedAt
<1> QED BY <1>1, <1>4, <1>5, ClosesOthersKeeps

LEMMA AddByHandKeeps ==
  ASSUME CardInv, NEW x \in Places, AddByHand(x)
  PROVE  CardsKept
<1>1. Tame(card)
  BY CardIsTame
<1>2. /\ card' = OthersEnd(x, Nil, card) /\ Remembers(card', {})
      /\ x \notin configured /\ configured' = configured \cup {x}
  BY DEF AddByHand
<1>3. Tame(card') /\ Unclaimed(card')
  BY <1>1, <1>2, CardAssumption, OthersEndFacts DEF CardInv
<1>4. RestTypes
  BY RestGrows DEF AddByHand, RestTypes, CardInv, CardTypeOK
<1> QED BY <1>2, <1>3, <1>4, RememberedKeeps

LEMMA OnCreateByHandKeeps ==
  ASSUME CardInv, OnCreateByHand
  PROVE  CardsKept
<1> DEFINE closed == Closed(byHand, Nil, TRUE)
<1>1. ClosesOthers(byHand, Nil, closed) /\ RestTypes /\ UNCHANGED configured
  BY DEF OnCreateByHand, RestTypes, CardInv, CardTypeOK
<1>2. \A q \in Offers : Expecting(closed[q]) => closed[q].at \notin configured
  BY ClosedWait DEF Expecting
<1>3. /\ Tame(closed)
      /\ \A q \in ListedAt(byHand) \ {Nil} : closed[q] # Nil => closed[q].mark = "closing"
  BY ClosedFacts
<1> HIDE DEF closed
<1>4. Unclaimed(closed)
  BY <1>1, <1>2 DEF Unclaimed
<1> QED BY <1>1, <1>3, <1>4, ClosesOthersKeeps

LEMMA ReplaceIgnoreKeeps ==
  ASSUME CardInv, NEW o \in Offers, ReplaceIgnore(o)
  PROVE  CardsKept
<1> DEFINE closed == Closed(o.at, Nil, TRUE)
           cards == OthersEnd(o.at, Nil, closed)
<1>1. ClosesOthers(o.at, Nil, cards)
  BY DEF ReplaceIgnore
<1>2. RestTypes
  BY PlaceFacts, RestGrows DEF ReplaceIgnore, RestTypes, CardInv, CardTypeOK
<1>3. /\ Tame(closed)
      /\ \A q \in ListedAt(o.at) \ {Nil} : closed[q] # Nil => closed[q].mark = "closing"
  BY ClosedFacts
<1>4. \A q \in Offers : closed[q] # Nil =>
        /\ closed[q].identity = card[q].identity
        /\ Expecting(closed[q]) => closed[q].at \notin configured
  BY ClosedWait DEF Expecting
<1> HIDE DEF closed
<1>7. /\ o.at \in Places /\ o.at \notin configured
      /\ configured' = configured \cup {o.at}
  BY PlaceFacts DEF ReplaceIgnore
<1>5. /\ Tame(cards) /\ Unclaimed(cards)
      /\ \A q \in Offers : cards[q] \in {closed[q], Nil}
  BY <1>3, <1>4, <1>7, CardAssumption, OthersEndFacts
<1> HIDE DEF cards
<1>6. \A q \in ListedAt(o.at) \ {Nil} : cards[q] # Nil => cards[q].mark = "closing"
  BY <1>3, <1>5 DEF ListedAt
<1> QED BY <1>1, <1>2, <1>5, <1>6, ClosesOthersKeeps

LEMMA IgnoreKeeps ==
  ASSUME CardInv, NEW o \in Offers, Ignore(o)
  PROVE  CardsKept
<1>1. ~Running(o) /\ Gone(o) /\ UNCHANGED <<configured, byHand>>
  BY DEF Ignore, Running
<1>2. ignored' \in [Offers -> Places \cup {Nil}]
  BY PlaceFacts DEF Ignore, Listed, CardInv, CardTypeOK
<1> QED BY <1>1, <1>2, GoneKeeps

LEMMA ForgetCardKeeps ==
  ASSUME CardInv, NEW x \in Places, ForgetCard(x)
  PROVE  CardsKept
<1>1. UNCHANGED <<card, byHand, over>> /\ RestTypes
  BY DEF ForgetCard, RestTypes, CardInv, CardTypeOK
<1>2. configured' \subseteq configured
  BY DEF ForgetCard
<1> QED BY <1>1, <1>2 DEF CardsKept, CardInv, CardTypeOK, RestTypes, Running, Listed, Open

LEMMA CardInitHolds == CardInit => CardInv
BY DEF CardInit, CardInv, CardTypeOK

LEMMA CardStepKeeps ==
  ASSUME CardInv, [CardNext]_cardVars
  PROVE  CardInv' /\ \A q \in Offers : Running(q) /\ card'[q] = Nil => StepEnds(q) \/ Gains(q)
<1>1. CASE UNCHANGED cardVars
  BY <1>1 DEF cardVars, CardInv, CardTypeOK, Running, Listed, Open
<1>2. ASSUME NEW o \in Offers, StepEnds(o)
      PROVE  CardInv' /\ \A q \in Offers : Running(q) /\ card'[q] = Nil => StepEnds(q) \/ Gains(q)
  BY <1>2, StepEndsKeeps
<1>3. ASSUME NEW o \in Offers,
             \/ Announced(o) \/ ProbedWeakly(o) \/ ProbedApp(o) \/ NotFound(o)
             \/ Accepts(o) \/ Creates(o) \/ OnCreate(o) \/ ReplaceIgnore(o) \/ Ignore(o)
             \/ \E x \in Places : Press(o, x)
      PROVE  CardsKept
  BY <1>3, AnnouncedKeeps, ProbeEndsKeeps, ProbedAppKeeps, AcceptsKeeps, CreatesKeeps,
     OnCreateKeeps, ReplaceIgnoreKeeps, IgnoreKeeps, PressKeeps
<1>4. ASSUME \E x \in Places : AddByHand(x) \/ ForgetCard(x)
      PROVE  CardsKept
  BY <1>4, AddByHandKeeps, ForgetCardKeeps
<1>5. ASSUME OnCreateByHand PROVE CardsKept
  BY <1>5, OnCreateByHandKeeps
<1> QED BY <1>1, <1>2, <1>3, <1>4, <1>5 DEF CardNext, CardsKept

\* close_offers: a card that was listed when its address got an entry does not
\* stay, however many of its steps ran and whatever they wanted.
THEOREM EntryEndsCards == CardSpec => []EntryEndsItsCards
<1>1. CardInv => EntryEndsItsCards
  BY DEF CardInv, CardTypeOK, CardFits, EntryEndsItsCards
<1>2. CardInv /\ [CardNext]_cardVars => CardInv'
  BY CardStepKeeps
<1> QED BY <1>1, <1>2, CardInitHolds, PTL DEF CardSpec

\* closes_when_done: nobody who runs a step of a card meets a flow that another
\* channel, an Ignore or the closing of an address has taken away; only Home
\* Assistant takes it, when the panel whose identity it has gets an entry.
THEOREM RunningCardStays == CardSpec => RunningCardIsLeft
<1>1. CardInv /\ [CardNext]_cardVars =>
        CardInv' /\ [\A o \in Offers :
                      Listed(o) /\ card[o].stage = "listed" /\ card[o].runs > 0 /\ card'[o] = Nil
                      => StepEnds(o) \/ card[o].identity \in configured' \ configured]_cardVars
  BY CardStepKeeps DEF Running, Gains
<1> QED BY <1>1, CardInitHolds, PTL DEF CardSpec, RunningCardIsLeft

-----------------------------------------------------------------------------
(***************************************************************************)
(* The panel.  Of its invariant, DeviceTypeOK says where an operation and  *)
(* its programs can be; Told, who may still install the app; and Answered, *)
(* where the previous HOME is while custody lasts.                         *)
(***************************************************************************)
Installing == {InstallProgram, <<"install", "hand", "drop">>, UpdateProgram}

MayInstall(p) == p.steps \in Installing

\* The phases in which the app is not on the panel by this job.
Undecided ==
  \/ op.phase \in {"preflight", "stage", "refused", "cancelled"}
  \/ op.phase = "install" /\ op.pc # "running"
  \/ op.phase = "update" /\ op.pc \notin {"running", "erasing"}
  \/ /\ op.phase \in {"install", "update"} /\ op.pc = "running"
     /\ MayInstall(linked) \/ linked.answer = "refused"

Told ==
  /\ dev[Panel].by \in 0..job /\ left.by \in 0..job
  /\ dev[Panel].by \notin denied
  /\ MayInstall(left) => left.by \notin denied
  /\ op.phase # "none" => job \notin denied /\ ~(MayInstall(left) /\ left.by = job)
  /\ Busy(linked) => linked.by = job
  /\ MayInstall(linked) => op.phase \in {"install", "update"} /\ op.pc = "running"
  /\ Undecided => dev[Panel].by # job

TellInv == DeviceTypeOK /\ Told

\* A device whose previous HOME is answered for.
Kept(d) ==
  /\ d.app \in {"none", "new"} /\ d.note \in {Unset, Launcher}
  /\ d.app = "none" => d.home = Launcher
  /\ d.app = "new" => Launcher \in {d.kept, d.note}

\* The programs a panel without the app gets, and those for one that has it.
ForEmpty == {InstallProgram, <<"install", "hand", "drop">>, <<"discard", "remove">>}

ForApp == {TransferProgram, <<"drop">>, GrantProgram, <<"home", "tap">>, <<"tap">>,
           <<"restore">>}

Suits(p, d) ==
  /\ p.steps \in ForEmpty => d.app = "none"
  /\ p.steps = <<"install", "hand", "drop">> => d.note = Launcher
  /\ p.steps \in ForApp => d.app = "new"
  /\ p.steps = <<"drop">> => d.kept = Launcher

NoAppYet ==
  \/ op.phase \in {"stage", "refused", "cancelled"}
  \/ op.phase = "install" /\ (op.pc # "running" \/ linked.answer = "refused")

\* Beyond its look at the panel, a start finds the app.
Starting == op.phase \in {"start", "launch"} /\ op.pc # "connect"

Answered ==
  custody =>
    /\ Kept(dev[Panel]) /\ Suits(linked, dev[Panel]) /\ Suits(left, dev[Panel])
    /\ op.phase # "none" => ~Busy(left)
    /\ op.phase = "install" => linked.steps # UpdateProgram
    /\ NoAppYet => dev[Panel].app = "none"
    /\ Starting => dev[Panel].app = "new"

KeptInv == TellInv /\ Answered

\* What each remainder of a program does next, and what it leaves.
LEMMA Runs ==
  ASSUME NEW p, NEW d
  PROVE
    /\ p.steps = InstallProgram =>
         Effects(d, p) = Snapshot(d) /\ Rest(d, p) = {<<"install", "hand", "drop">>}
    /\ p.steps = <<"install", "hand", "drop">> =>
         Effects(d, p) = Install(d, p.by) /\ Rest(d, p) = {TransferProgram}
    /\ p.steps = TransferProgram => Effects(d, p) = Hand(d) /\ Rest(d, p) = {<<"drop">>}
    /\ p.steps = <<"drop">> => Effects(d, p) = Drop(d) /\ Rest(d, p) = {<<>>}
    /\ p.steps = UpdateProgram =>
         Effects(d, p) = Replace(d, p.by) /\ Rest(d, p) = {<<>>}
    /\ p.steps = GrantProgram => Effects(d, p) = {d} /\ Rest(d, p) = HomePolicy(d)
    /\ p.steps = <<"home", "tap">> =>
         Effects(d, p) = SetHome(d) /\ Rest(d, p) \subseteq {<<"tap">>, <<>>}
    /\ p.steps = <<"tap">> => Effects(d, p) = TapAlways(d) /\ Rest(d, p) = {<<>>}
    /\ p.steps = <<"restore">> => Effects(d, p) = Restore(d) /\ Rest(d, p) = {<<>>}
    /\ p.steps = LaunchProgram => Effects(d, p) = {d} /\ Rest(d, p) = {<<>>}
    /\ p.steps = <<"erase">> => Effects(d, p) = Erase(d, p.by) /\ Rest(d, p) = {<<>>}
    /\ p.steps = <<"discard", "remove">> =>
         Effects(d, p) = Drop(d) /\ Rest(d, p) = {<<"remove">>}
    /\ p.steps = <<"remove">> => Effects(d, p) = RemoveSlot(d) /\ Rest(d, p) = {<<>>}
<1>1. ASSUME p.steps = InstallProgram
      PROVE  Head(p.steps) = "snapshot" /\ Tail(p.steps) = <<"install", "hand", "drop">>
  BY <1>1 DEF InstallProgram
<1>2. ASSUME p.steps = <<"install", "hand", "drop">>
      PROVE  Head(p.steps) = "install" /\ Tail(p.steps) = TransferProgram
  BY <1>2 DEF TransferProgram
<1>3. ASSUME p.steps = TransferProgram
      PROVE  Head(p.steps) = "hand" /\ Tail(p.steps) = <<"drop">>
  BY <1>3 DEF TransferProgram
<1>4. ASSUME p.steps = <<"drop">>
      PROVE  Head(p.steps) = "drop" /\ Tail(p.steps) = <<>>
  BY <1>4
<1>5. ASSUME p.steps = UpdateProgram
      PROVE  Head(p.steps) = "replace" /\ Tail(p.steps) = <<>>
  BY <1>5 DEF UpdateProgram
<1>6. ASSUME p.steps = GrantProgram PROVE Head(p.steps) = "policy"
  BY <1>6 DEF GrantProgram
<1>7. ASSUME p.steps = <<"home", "tap">> PROVE Head(p.steps) = "home"
  BY <1>7
<1>8. ASSUME p.steps = <<"tap">>
      PROVE  Head(p.steps) = "tap" /\ Tail(p.steps) = <<>>
  BY <1>8
<1>9. ASSUME p.steps = <<"restore">>
      PROVE  Head(p.steps) = "restore" /\ Tail(p.steps) = <<>>
  BY <1>9
<1>10. ASSUME p.steps = LaunchProgram
       PROVE  Head(p.steps) = "launch" /\ Tail(p.steps) = <<>>
  BY <1>10 DEF LaunchProgram
<1>11. ASSUME p.steps = <<"erase">>
       PROVE  Head(p.steps) = "erase" /\ Tail(p.steps) = <<>>
  BY <1>11
<1>12. ASSUME p.steps = <<"discard", "remove">>
       PROVE  Head(p.steps) = "discard" /\ Tail(p.steps) = <<"remove">>
  BY <1>12
<1>13. ASSUME p.steps = <<"remove">>
       PROVE  Head(p.steps) = "remove" /\ Tail(p.steps) = <<>>
  BY <1>13
<1>14. Head(p.steps) = "snapshot" =>
         Effects(d, p) = Snapshot(d) /\ Rest(d, p) = {Tail(p.steps)}
  BY DEF Effects, Rest
<1>15. Head(p.steps) = "install" =>
         Effects(d, p) = Install(d, p.by) /\ Rest(d, p) = {Tail(p.steps)}
  BY DEF Effects, Rest
<1>16. Head(p.steps) = "replace" =>
         Effects(d, p) = Replace(d, p.by) /\ Rest(d, p) = {Tail(p.steps)}
  BY DEF Effects, Rest
<1>17. Head(p.steps) = "hand" => Effects(d, p) = Hand(d) /\ Rest(d, p) = {Tail(p.steps)}
  BY DEF Effects, Rest
<1>18. Head(p.steps) \in {"drop", "discard"} =>
         Effects(d, p) = Drop(d) /\ Rest(d, p) = {Tail(p.steps)}
  BY DEF Effects, Rest
<1>19. Head(p.steps) = "policy" => Effects(d, p) = {d} /\ Rest(d, p) = HomePolicy(d)
  BY DEF Effects, Rest
<1>20. Head(p.steps) = "home" =>
         Effects(d, p) = SetHome(d) /\ Rest(d, p) \subseteq {<<"tap">>, <<>>}
  BY DEF Effects, Rest
<1>21. Head(p.steps) = "tap" => Effects(d, p) = TapAlways(d) /\ Rest(d, p) = {Tail(p.steps)}
  BY DEF Effects, Rest
<1>22. Head(p.steps) = "restore" => Effects(d, p) = Restore(d) /\ Rest(d, p) = {Tail(p.steps)}
  BY DEF Effects, Rest
<1>23. Head(p.steps) = "launch" => Effects(d, p) = {d} /\ Rest(d, p) = {Tail(p.steps)}
  BY DEF Effects, Rest
<1>24. Head(p.steps) = "erase" =>
         Effects(d, p) = Erase(d, p.by) /\ Rest(d, p) = {Tail(p.steps)}
  BY DEF Effects, Rest
<1>25. Head(p.steps) = "remove" =>
         Effects(d, p) = RemoveSlot(d) /\ Rest(d, p) = {Tail(p.steps)}
  BY DEF Effects, Rest
<1> QED
  BY <1>1, <1>2, <1>3, <1>4, <1>5, <1>6, <1>7, <1>8, <1>9, <1>10, <1>11, <1>12, <1>13,
     <1>14, <1>15, <1>16, <1>17, <1>18, <1>19, <1>20, <1>21, <1>22, <1>23, <1>24, <1>25

\* What a step leaves of its program.
LEMMA SteppedFacts ==
  ASSUME NEW p \in ProgramRecords, NEW d, NEW next \in Stepped(p, d)
  PROVE  /\ next.steps \in Rest(d, p) /\ next.by = p.by /\ next.on = p.on
         /\ next.answer = IF next.steps = <<>> THEN "ok" ELSE p.answer
         /\ next \in [steps : Rest(d, p), answer : {"", "ok", "bad", "refused"},
                      on : {Panel}, by : Nat]
BY DEF Stepped, ProgramRecords

LEMMA RestRemains ==
  ASSUME NEW p \in ProgramRecords, Busy(p), NEW d
  PROVE  Rest(d, p) \subseteq Remainders
<1>1. HomePolicy(d) \subseteq Remainders
  BY DEF HomePolicy, Remainders
<1>2. {<<>>, <<"install", "hand", "drop">>, TransferProgram, <<"drop">>, <<"tap">>,
       <<"remove">>} \subseteq Remainders
  BY DEF Remainders
<1>3. p.steps \in Remainders \ {<<>>}
  BY DEF ProgramRecords, Busy
<1> QED BY <1>1, <1>2, <1>3, Runs DEF Remainders

\* A step leaves a device; only an installing step says who installed its app.
LEMMA EffectFacts ==
  ASSUME NEW p \in ProgramRecords, Busy(p), NEW d \in DeviceRecords, NEW e \in Effects(d, p)
  PROVE  /\ e \in DeviceRecords
         /\ p.steps \in Installing \ {InstallProgram} => e.by = p.by
         /\ p.steps \notin Installing \ {InstallProgram} => e.by = d.by
<1>1. p.steps \in Remainders \ {<<>>} /\ p.by \in Nat
  BY DEF ProgramRecords, Busy
<1>2. ASSUME e \in Install(d, p.by) \cup Replace(d, p.by)
      PROVE  e \in DeviceRecords /\ e.by = p.by
  <2>1. PICK home \in {d.home, "chooser"} :
          e = [d EXCEPT !.app = "new", !.home = home, !.by = p.by]
    BY <1>2 DEF Install, Replace
  <2> QED BY <1>1, <2>1 DEF DeviceRecords
<1>3. \A s \in Snapshot(d) \cup Hand(d) \cup Drop(d) \cup RemoveSlot(d) \cup Erase(d, p.by)
              \cup SetHome(d) \cup TapAlways(d) \cup Restore(d) :
        s \in DeviceRecords /\ s.by = d.by
  BY DEF DeviceRecords, Snapshot, Hand, Drop, RemoveSlot, Erase, SetHome, TapAlways, Restore
<1>4. CASE p.steps \in Installing \ {InstallProgram}
  <2>1. e \in Install(d, p.by) \cup Replace(d, p.by)
    BY <1>4, Runs DEF Installing
  <2> QED BY <1>2, <1>4, <2>1
<1>5. CASE p.steps \notin Installing \ {InstallProgram}
  <2>1. \/ e \in Snapshot(d) \cup Hand(d) \cup Drop(d) \cup RemoveSlot(d) \cup Erase(d, p.by)
                   \cup SetHome(d) \cup TapAlways(d) \cup Restore(d)
        \/ e = d
    BY <1>1, <1>5, Runs DEF Remainders, Installing
  <2> QED BY <1>3, <1>5, <2>1
<1> QED BY <1>4, <1>5

-----------------------------------------------------------------------------
(* Types: where an operation and its programs can be.                      *)

\* One kind of step: the operation goes on in its phase or another, with a
\* program that is sent, as it was, or none.
LEMMA GoesOn ==
  ASSUME DeviceTypeOK, NEW phase \in Phases, NEW pc \in PcsOf(phase),
         op' = [op EXCEPT !.phase = phase, !.pc = pc], phase # "none" => job > 0,
         linked' \in ProgramRecords,
         Busy(linked') => linked'.answer = "" /\ pc \in Awaiting,
         dev' \in [Devices -> DeviceRecords], left' \in ProgramRecords,
         UNCHANGED <<address, job, custody>>, denied' = denied
  PROVE  DeviceTypeOK'
<1>1. op' \in [phase : Phases, pc : PcsOf(op'.phase), on : {Panel}] /\ op'.pc = pc
  BY DEF DeviceTypeOK
<1> QED BY <1>1 DEF DeviceTypeOK, Busy

\* The program an operation sends.
LEMMA Sent ==
  ASSUME DeviceTypeOK, NEW steps \in Remainders, NEW pc \in Awaiting, Sends(steps, pc)
  PROVE  /\ linked' \in ProgramRecords /\ linked'.answer = "" /\ linked'.steps = steps
         /\ linked'.by = job /\ op' = [op EXCEPT !.phase = op.phase, !.pc = pc]
BY DEF DeviceTypeOK, Sends, ProgramRecords

LEMMA NoProgramFacts == NoProgram \in ProgramRecords /\ ~Busy(NoProgram)
BY DEF NoProgram, ProgramRecords, Remainders, Busy

LEMMA EndsTypes ==
  ASSUME DeviceTypeOK, NEW told \in BOOLEAN, Ends(told), op.phase # "none",
         UNCHANGED <<address, job, custody>>,
         dev' \in [Devices -> DeviceRecords], left' \in ProgramRecords
  PROVE  DeviceTypeOK'
<1>1. op' \in [phase : Phases, pc : PcsOf(op'.phase), on : {Panel}] /\ op'.phase = "none"
  BY DEF Ends, NoOperation, PcsOf, Phases
<1>2. linked' \in ProgramRecords /\ ~Busy(linked')
  BY NoProgramFacts DEF Ends
<1>3. denied' \subseteq 1..job
  <2>1. job \in Nat /\ job > 0 /\ denied \subseteq 1..job
    BY DEF DeviceTypeOK
  <2> QED BY <2>1 DEF Ends
<1> QED BY <1>1, <1>2, <1>3 DEF DeviceTypeOK, Phases

\* The phase an operation's progress belongs to.
LEMMA PhaseOf ==
  ASSUME DeviceTypeOK
  PROVE  /\ op.phase = "none" <=> op.pc = ""
         /\ op.pc \in {"clearing", "push", "reconnect"} => op.phase = "stage"
         /\ op.pc \in {"pushing", "pushed", "clearing again"} => op.phase \in {"stage", "update"}
         /\ op.pc \in {"ready", "erasing", "erasing refused"} => op.phase = "update"
         /\ op.pc = "granting" => op.phase = "start"
         /\ op.pc = "launching" => op.phase \in {"start", "launch"}
         /\ op.pc = "proved" => op.phase # "preflight"
         /\ op.pc = "running" => op.phase \notin {"preflight", "stage"}
<1>1. op.phase \in Phases /\ op.pc \in PcsOf(op.phase)
  BY DEF DeviceTypeOK
<1>2. CASE op.phase \in {"install", "installed", "refused", "cancelled"}
  <2>1. op.pc \in {"connect", "proved", "running"}
    BY <1>1, <1>2 DEF PcsOf
  <2> QED BY <1>2, <2>1
<1>3. CASE op.phase \in {"none", "preflight", "start", "launch"}
  BY <1>1, <1>3 DEF PcsOf
<1>4. CASE op.phase = "stage"
  BY <1>1, <1>4 DEF PcsOf
<1>5. CASE op.phase = "update"
  BY <1>1, <1>5 DEF PcsOf
<1> QED BY <1>1, <1>2, <1>3, <1>4, <1>5 DEF Phases

\* Where each phase can go next.
LEMMA Pcs ==
  /\ "" \in PcsOf("none") /\ {"connect", "proved", "clearing", "push", "pushing", "pushed",
                             "reconnect", "clearing again"} \subseteq PcsOf("stage")
  /\ {"connect", "proved", "pushing", "pushed", "ready", "running", "erasing",
      "erasing refused", "clearing again"} \subseteq PcsOf("update")
  /\ {"connect", "proved", "running", "granting", "launching"} \subseteq PcsOf("start")
  /\ {"connect", "proved", "running", "launching"} \subseteq PcsOf("launch")
  /\ \A phase \in {"install", "installed", "refused", "cancelled"} :
       {"connect", "proved", "running"} \subseteq PcsOf(phase)
  /\ "connect" \in PcsOf("preflight")
BY DEF PcsOf

LEMMA ProgramsRemain ==
  /\ {InstallProgram, UpdateProgram, TransferProgram, GrantProgram, LaunchProgram,
      <<"erase">>} \subseteq Remainders
  /\ \A phase \in Phases : CleanupProgram(phase) \in Remainders
BY DEF Remainders, CleanupProgram

LEMMA PanelRecord ==
  DeviceTypeOK => Panel \in Devices /\ dev \in [Devices -> DeviceRecords] /\ dev[Panel] \in DeviceRecords
BY DEF DeviceTypeOK, Devices

\* What copies, erased files and the renderer change of a device.
LEMMA RecordUpdates ==
  ASSUME NEW d \in DeviceRecords, NEW file \in {"absent", "part", "whole"},
         NEW renderer \in {"builtin", "retained", "restore"}
  PROVE  /\ [d EXCEPT !.slot = file] \in DeviceRecords /\ [d EXCEPT !.file = file] \in DeviceRecords
         /\ [d EXCEPT !.renderer = renderer] \in DeviceRecords
BY DEF DeviceRecords

\* A program takes a step: what it is on is a device, and what is left of it
\* a program.
LEMMA ProgramTypes ==
  ASSUME DeviceTypeOK, NEW p \in {linked, left}, Busy(p),
         NEW d \in Effects(dev[p.on], p), NEW next \in Stepped(p, d)
  PROVE  /\ p \in ProgramRecords /\ p.on = Panel /\ dev[Panel] \in DeviceRecords
         /\ d \in DeviceRecords /\ next \in ProgramRecords
         /\ Busy(next) => next.answer = p.answer
<1>1. p \in ProgramRecords /\ p.on = Panel /\ dev[p.on] \in DeviceRecords
  BY DEF DeviceTypeOK, ProgramRecords, Devices
<1>2. Rest(d, p) \subseteq Remainders
  BY <1>1, RestRemains
<1>3. next \in [steps : Rest(d, p), answer : {"", "ok", "bad", "refused"},
                on : {Panel}, by : Nat]
  BY <1>1, SteppedFacts
<1>4. next \in ProgramRecords
  BY <1>2, <1>3 DEF ProgramRecords
<1>5. d \in DeviceRecords
  BY <1>1, EffectFacts
<1>6. Busy(next) => next.answer = p.answer
  BY <1>1, SteppedFacts DEF Busy
<1> QED BY <1>1, <1>4, <1>5, <1>6

LEMMA LinkedTypes ==
  ASSUME DeviceTypeOK, LinkedSteps
  PROVE  DeviceTypeOK'
<1>1. Busy(linked) /\ linked.answer = "" /\ linked.on = Panel /\ linked \in ProgramRecords
  BY DEF LinkedSteps, DeviceTypeOK, ProgramRecords
<1>2. UNCHANGED <<left, address, op, job, denied, custody>>
  BY DEF LinkedSteps
<1>3. ASSUME NEW d \in Effects(dev[linked.on], linked),
             dev' = [dev EXCEPT ![linked.on] = d], linked' \in Stepped(linked, d)
      PROVE  DeviceTypeOK'
  <2>1. d \in DeviceRecords /\ linked' \in ProgramRecords /\ (Busy(linked') => linked'.answer = "")
    BY <1>1, <1>3, ProgramTypes
  <2>2. dev' \in [Devices -> DeviceRecords]
    BY <1>3, <2>1 DEF DeviceTypeOK
  <2> QED BY <1>1, <1>2, <2>1, <2>2 DEF DeviceTypeOK, Busy
<1>4. ASSUME linked' = Failed(linked), UNCHANGED dev
      PROVE  DeviceTypeOK'
  <2>1. linked' \in ProgramRecords /\ ~Busy(linked')
    BY <1>1, <1>4 DEF Failed, ProgramRecords, Busy, Remainders
  <2> QED BY <1>2, <1>4, <2>1 DEF DeviceTypeOK, Busy
<1> QED BY <1>3, <1>4 DEF LinkedSteps

LEMMA LeftTypes ==
  ASSUME DeviceTypeOK, LeftSteps
  PROVE  DeviceTypeOK'
<1>1. UNCHANGED <<linked, address, op, job, denied, custody>> /\ Busy(left)
  BY DEF LeftSteps
<1>2. ASSUME NEW d \in Effects(dev[left.on], left),
             dev' = [dev EXCEPT ![left.on] = d],
             NEW p \in Stepped(left, d), left' = IF Busy(p) THEN p ELSE NoProgram
      PROVE  DeviceTypeOK'
  <2>1. d \in DeviceRecords /\ left' \in ProgramRecords
    BY <1>1, <1>2, ProgramTypes, NoProgramFacts
  <2>2. dev' \in [Devices -> DeviceRecords]
    BY <1>2, <2>1 DEF DeviceTypeOK
  <2> QED BY <1>1, <2>1, <2>2 DEF DeviceTypeOK, Busy
<1>3. ASSUME left' = NoProgram, UNCHANGED dev
      PROVE  DeviceTypeOK'
  BY <1>1, <1>3, NoProgramFacts DEF DeviceTypeOK, Busy
<1> QED BY <1>2, <1>3 DEF LeftSteps

\* The operation's step that touches neither device nor what was left there.
LEMMA QuietFacts ==
  ASSUME DeviceTypeOK, Quiet
  PROVE  /\ UNCHANGED <<address, job, custody>> /\ dev' = dev /\ left' = left
         /\ dev' \in [Devices -> DeviceRecords] /\ left' \in ProgramRecords
BY DEF DeviceTypeOK, Quiet

\* It goes on without a program.
LEMMA QuietGoes ==
  ASSUME DeviceTypeOK, Quiet, NEW phase \in Phases, NEW pc \in PcsOf(phase),
         phase # "none" => op.phase # "none", Goes(phase, pc)
  PROVE  DeviceTypeOK'
<1>1. linked' \in ProgramRecords /\ ~Busy(linked')
  BY NoProgramFacts DEF Goes
<1>2. phase # "none" => job > 0
  BY DEF DeviceTypeOK
<1> QED BY <1>1, <1>2, QuietFacts, GoesOn DEF Goes, At

\* It goes on beside its idle program.
LEMMA QuietAt ==
  ASSUME DeviceTypeOK, Quiet, NEW phase \in Phases, NEW pc \in PcsOf(phase),
         phase # "none" => op.phase # "none", At(phase, pc), UNCHANGED <<linked, denied>>,
         ~Busy(linked)
  PROVE  DeviceTypeOK'
<1>1. linked' \in ProgramRecords /\ ~Busy(linked')
  BY DEF DeviceTypeOK, Busy
<1>2. phase # "none" => job > 0
  BY DEF DeviceTypeOK
<1> QED BY <1>1, <1>2, QuietFacts, GoesOn DEF At

\* It sends a program.
LEMMA QuietSends ==
  ASSUME DeviceTypeOK, Quiet, op.phase # "none", UNCHANGED denied,
         NEW steps \in Remainders, NEW pc \in Awaiting \cap PcsOf(op.phase), Sends(steps, pc)
  PROVE  DeviceTypeOK'
<1>1. op.phase \in Phases /\ job > 0
  BY DEF DeviceTypeOK
<1> QED BY <1>1, Sent, QuietFacts, GoesOn

LEMMA QuietEnds ==
  ASSUME DeviceTypeOK, Quiet, op.phase # "none", NEW told \in BOOLEAN, Ends(told)
  PROVE  DeviceTypeOK'
BY QuietFacts, EndsTypes

LEMMA IdleUnlessAwaiting == DeviceTypeOK /\ op.pc \notin Awaiting => ~Busy(linked)
BY DEF DeviceTypeOK

\* The operations one by one.
LEMMA ConnectTypes ==
  ASSUME DeviceTypeOK, NotAdmitted \/ Proves \/ Cancel
  PROVE  DeviceTypeOK'
<1>1. op.pc = "connect" /\ Quiet /\ op.phase # "none" /\ op.phase \in Phases
  BY PhaseOf DEF NotAdmitted, Proves, Cancel, DeviceTypeOK
<1>2. ~Busy(linked)
  BY <1>1, IdleUnlessAwaiting DEF Awaiting
<1>3. CASE NotAdmitted
  <2>1. NothingInstalledBy(op.phase) \in BOOLEAN
    BY DEF NothingInstalledBy
  <2>2. Ends(NothingInstalledBy(op.phase))
    BY <1>3 DEF NotAdmitted
  <2> QED BY <1>1, <2>1, <2>2, QuietEnds
<1>4. CASE Cancel
  BY <1>1, <1>2, <1>4, Pcs, QuietAt DEF Cancel, Phases
<1>5. CASE Proves /\ op.phase # "preflight"
  <2>1. At(op.phase, "proved") /\ UNCHANGED <<linked, denied>>
    BY <1>5 DEF Proves, At, PinnedPanel, DeviceTypeOK
  <2>2. "proved" \in PcsOf(op.phase)
    BY <1>1, <1>5, Pcs DEF Phases
  <2> QED BY <1>1, <1>2, <2>1, <2>2, QuietAt
<1>6. CASE Proves /\ op.phase = "preflight"
  <2>1. PICK phase \in {"installed", "stage"} : At(phase, "connect")
    BY <1>1, <1>6 DEF Proves, At, DeviceTypeOK
  <2>2. UNCHANGED <<linked, denied>>
    BY <1>6 DEF Proves
  <2> QED BY <1>1, <1>2, <2>1, <2>2, Pcs, QuietAt DEF Phases
<1> QED BY <1>3, <1>4, <1>5, <1>6

LEMMA SlotTypes ==
  ASSUME DeviceTypeOK, LooksAtSlot \/ SlotCleared
  PROVE  DeviceTypeOK'
<1>1. op.phase = "stage" /\ Quiet /\ "stage" \in Phases /\ CleanupProgram("stage") \in Remainders
  BY PhaseOf, ProgramsRemain DEF LooksAtSlot, SlotCleared, Phases
<1>2. CASE LooksAtSlot
  <2>1. ~Busy(linked)
    BY <1>2, IdleUnlessAwaiting DEF LooksAtSlot, Awaiting
  <2>2. UNCHANGED denied
    BY <1>2 DEF LooksAtSlot
  <2>3. "push" \in PcsOf("stage") /\ "clearing" \in Awaiting \cap PcsOf("stage")
    BY Pcs DEF Awaiting
  <2>4. CASE At("stage", "push") /\ UNCHANGED linked
    BY <1>1, <2>1, <2>2, <2>3, <2>4, QuietAt
  <2>5. CASE Sends(CleanupProgram("stage"), "clearing")
    BY <1>1, <2>2, <2>3, <2>5, QuietSends
  <2> QED BY <1>2, <2>4, <2>5 DEF LooksAtSlot
<1>3. CASE SlotCleared
  BY <1>1, <1>3, Pcs, QuietGoes, QuietEnds DEF SlotCleared
<1> QED BY <1>2, <1>3

LEMMA PushTypes ==
  ASSUME DeviceTypeOK, Push
  PROVE  DeviceTypeOK'
<1>1. op.phase \in {"stage", "update"} /\ op.pc \in {"push", "pushing", "proved"} /\ op.on = Panel
  BY PhaseOf DEF Push, DeviceTypeOK
<1>2. ~Busy(linked)
  BY <1>1, IdleUnlessAwaiting DEF Awaiting
<1>3. PICK pc \in {"pushing", "pushed"}, file \in {"part", "whole"} :
        At(op.phase, pc) /\ dev' = [dev EXCEPT ![Panel] = Receives(dev[Panel], file)]
  BY <1>1 DEF Push
<1>4. Receives(dev[Panel], file) \in DeviceRecords
  BY PanelRecord, RecordUpdates DEF Receives
<1>5. dev' \in [Devices -> DeviceRecords]
  BY <1>3, <1>4 DEF DeviceTypeOK
<1>6. UNCHANGED <<linked, left, address, job, denied, custody>>
  BY DEF Push
<1>7. pc \in PcsOf(op.phase) /\ op.phase \in Phases /\ job > 0
  BY <1>1, Pcs DEF DeviceTypeOK
<1>8. linked' \in ProgramRecords /\ left' \in ProgramRecords /\ ~Busy(linked')
  BY <1>2, <1>6 DEF DeviceTypeOK, Busy
<1> QED BY <1>3, <1>5, <1>6, <1>7, <1>8, GoesOn DEF At

LEMMA ArrivalTypes ==
  ASSUME DeviceTypeOK, Verifies \/ NotArrived
  PROVE  DeviceTypeOK'
<1>1. /\ op.pc = "pushed" /\ op.phase \in {"stage", "update"} /\ Quiet /\ UNCHANGED denied
      /\ op.phase # "none" /\ ~Busy(linked)
  BY PhaseOf, IdleUnlessAwaiting DEF Verifies, NotArrived, Awaiting
<1>2. CASE Verifies
  <2>1. PICK phase \in {"install", "update"}, pc \in {"connect", "ready"} :
          At(phase, pc) /\ pc \in PcsOf(phase)
    BY <1>1, <1>2, Pcs DEF Verifies
  <2>2. UNCHANGED linked /\ phase \in Phases
    BY <1>2 DEF Verifies, Phases
  <2> QED BY <1>1, <2>1, <2>2, QuietAt
<1>3. CASE NotArrived /\ ClearsSlot
  <2>1. At("stage", "reconnect") /\ UNCHANGED linked
    BY <1>3 DEF NotArrived
  <2>2. "stage" \in Phases /\ "reconnect" \in PcsOf("stage")
    BY Pcs DEF Phases
  <2> QED BY <1>1, <2>1, <2>2, QuietAt
<1>4. CASE NotArrived /\ ~ClearsSlot
  <2>1. Sends(<<"erase">>, "clearing again")
    BY <1>4 DEF NotArrived
  <2>2. "clearing again" \in Awaiting \cap PcsOf(op.phase)
    BY <1>1, Pcs DEF Awaiting
  <2> QED BY <1>1, <2>1, <2>2, ProgramsRemain, QuietSends
<1> QED BY <1>2, <1>3, <1>4

LEMMA ReconnectTypes ==
  ASSUME DeviceTypeOK, Reconnects
  PROVE  DeviceTypeOK'
<1>1. op.phase = "stage" /\ op.phase # "none" /\ Quiet /\ job > 0 /\ job \in Nat
  BY PhaseOf DEF Reconnects, DeviceTypeOK
<1>2. CASE Ends(TRUE)
  BY <1>1, <1>2, QuietEnds
<1>3. CASE PinnedPanel(address) /\ ~Ends(TRUE)
  <2>1. /\ linked' = [NoProgram EXCEPT !.steps = CleanupProgram("stage"),
                                       !.on = address, !.by = job]
        /\ op' = [op EXCEPT !.on = address, !.pc = "clearing again"]
        /\ denied' = denied
    BY <1>3 DEF Reconnects
  <2>2. linked' \in ProgramRecords /\ linked'.answer = ""
    BY <1>1, <1>3, <2>1, ProgramsRemain DEF ProgramRecords, NoProgram, PinnedPanel, Phases
  <2>3. op' = [op EXCEPT !.phase = "stage", !.pc = "clearing again"]
    BY <1>1, <1>3, <2>1 DEF PinnedPanel, DeviceTypeOK
  <2>4. "stage" \in Phases /\ "clearing again" \in PcsOf("stage") /\ "clearing again" \in Awaiting
    BY Pcs DEF Phases, Awaiting
  <2> QED BY <1>1, <2>1, <2>2, <2>3, <2>4, QuietFacts, GoesOn
<1> QED BY <1>2, <1>3 DEF Reconnects

LEMMA SendsTypes ==
  ASSUME DeviceTypeOK, SendsProgram
  PROVE  DeviceTypeOK'
<1>1. op.phase \notin {"none", "preflight", "stage"} /\ op.phase \in Phases
  BY PhaseOf DEF SendsProgram, DeviceTypeOK
<1>2. "running" \in Awaiting \cap PcsOf(op.phase)
  BY <1>1, Pcs DEF Awaiting, Phases
<1>3. Program(op.phase) \in Remainders
  BY <1>1, ProgramsRemain DEF Program
<1>4. Sends(Program(op.phase), "running") /\ Quiet /\ UNCHANGED denied
  BY DEF SendsProgram
<1> QED BY <1>1, <1>2, <1>3, <1>4, QuietSends

LEMMA AnswerTypes ==
  ASSUME DeviceTypeOK,
         StageCleared \/ InstallAnswers \/ UpdateAnswers \/ UpdateErased \/ CleanupAnswers
           \/ StartAnswers
  PROVE  DeviceTypeOK'
<1>1. Quiet /\ op.phase # "none" /\ op.phase \in Phases
  BY PhaseOf DEF StageCleared, InstallAnswers, UpdateAnswers, UpdateErased, CleanupAnswers,
                 StartAnswers, DeviceTypeOK
<1>2. \A told \in BOOLEAN : Ends(told) => DeviceTypeOK'
  BY <1>1, QuietEnds
<1>3. \A phase \in {"installed", "refused", "start", "launch"} :
        Goes(phase, "connect") => DeviceTypeOK'
  BY <1>1, Pcs, QuietGoes DEF Phases
<1>4. CASE StageCleared
  BY <1>2, <1>4 DEF StageCleared
<1>5. CASE InstallAnswers
  BY <1>2, <1>3, <1>5 DEF InstallAnswers
<1>6. CASE UpdateAnswers
  <2>1. Ends(FALSE) \/ \E pc \in {"erasing", "erasing refused"} :
                         Sends(<<"erase">>, pc) /\ UNCHANGED denied
    BY <1>6 DEF UpdateAnswers
  <2>2. {"erasing", "erasing refused"} \subseteq Awaiting \cap PcsOf(op.phase)
    BY <1>6, Pcs DEF UpdateAnswers, Awaiting
  <2> QED BY <1>1, <1>2, <2>1, <2>2, ProgramsRemain, QuietSends
<1>7. CASE UpdateErased
  BY <1>2, <1>3, <1>7 DEF UpdateErased
<1>8. CASE CleanupAnswers
  BY <1>2, <1>3, <1>8 DEF CleanupAnswers
<1>9. CASE StartAnswers
  <2>1. CASE Ends(FALSE)
    BY <1>2, <2>1
  <2>2. CASE ~Ends(FALSE)
    <3>1. PICK steps \in {GrantProgram, LaunchProgram}, pc \in {"granting", "launching"} :
            Sends(steps, pc) /\ UNCHANGED denied /\ (pc = "granting" => op.phase = "start")
      BY <1>9, <2>2 DEF StartAnswers
    <3>2. steps \in Remainders /\ pc \in Awaiting \cap PcsOf(op.phase)
      BY <1>9, <3>1, Pcs, ProgramsRemain DEF Awaiting, StartAnswers
    <3> QED BY <1>1, <3>1, <3>2, QuietSends
  <2> QED BY <2>1, <2>2
<1> QED BY <1>4, <1>5, <1>6, <1>7, <1>8, <1>9

LEMMA LosesTypes ==
  ASSUME DeviceTypeOK, Loses
  PROVE  DeviceTypeOK'
<1>1. /\ op.phase # "none" /\ op.phase \in Phases /\ job > 0
      /\ UNCHANGED <<address, job, custody>> /\ dev' \in [Devices -> DeviceRecords]
      /\ left' \in ProgramRecords
  BY PhaseOf DEF Loses, DeviceTypeOK
<1>2. CASE ClearsSlot /\ Goes("stage", "reconnect")
  <2>1. linked' \in ProgramRecords /\ ~Busy(linked') /\ denied' = denied
    BY <1>2, NoProgramFacts DEF Goes
  <2>2. "stage" \in Phases /\ "reconnect" \in PcsOf("stage")
    BY Pcs DEF Phases
  <2> QED BY <1>1, <1>2, <2>1, <2>2, GoesOn DEF Goes, At
<1>3. CASE ClearsFile /\ Sends(<<"erase">>, "clearing again") /\ UNCHANGED denied
  <2>1. "clearing again" \in Awaiting /\ "clearing again" \in PcsOf(op.phase)
    BY <1>3, Pcs DEF ClearsFile, Awaiting
  <2> QED BY <1>1, <1>3, <2>1, ProgramsRemain, Sent, GoesOn
<1>4. ASSUME NEW told \in BOOLEAN, Ends(told)
      PROVE  DeviceTypeOK'
  BY <1>1, <1>4, EndsTypes
<1>5. \/ ClearsSlot /\ Goes("stage", "reconnect")
      \/ ClearsFile /\ Sends(<<"erase">>, "clearing again") /\ UNCHANGED denied
      \/ \E told \in BOOLEAN : Ends(told)
  BY DEF Loses, NothingInstalledBy
<1> QED BY <1>2, <1>3, <1>4, <1>5

LEMMA StartJobTypes ==
  ASSUME DeviceTypeOK, NEW phase \in {"preflight", "update"}, StartJob(phase)
  PROVE  DeviceTypeOK'
<1>1. op.phase = "none" /\ ~Busy(linked) /\ job' = job + 1 /\ job \in Nat /\ denied \subseteq 1..job
  BY PhaseOf, IdleUnlessAwaiting DEF StartJob, Awaiting, DeviceTypeOK
<1>2. op' \in [phase : Phases, pc : PcsOf(op'.phase), on : {Panel}]
  BY Pcs DEF StartJob, At, DeviceTypeOK, Phases
<1>3. dev' \in [Devices -> DeviceRecords]
  <2>1. dev' = [dev EXCEPT ![Panel] = [dev[Panel] EXCEPT !.file = "absent"]]
    BY DEF StartJob
  <2>2. [dev[Panel] EXCEPT !.file = "absent"] \in DeviceRecords
    BY PanelRecord, RecordUpdates
  <2> QED BY <2>1, <2>2, PanelRecord
<1>4. custody' \in BOOLEAN /\ UNCHANGED <<linked, left, address, denied>>
  BY DEF StartJob, DeviceTypeOK
<1>5. job' \in Nat /\ job' > 0 /\ denied' \subseteq 1..job'
  BY <1>1, <1>4
<1> QED BY <1>1, <1>2, <1>3, <1>4, <1>5 DEF DeviceTypeOK, Busy

LEMMA AroundTypes ==
  ASSUME DeviceTypeOK, AddressMoves \/ RendererChanges
  PROVE  DeviceTypeOK'
<1>1. UNCHANGED <<linked, left, op, job, denied, custody>>
  BY DEF AddressMoves, RendererChanges
<1>2. address' \in Devices
  BY DEF AddressMoves, RendererChanges, DeviceTypeOK
<1>3. dev' \in [Devices -> DeviceRecords]
  <2>1. CASE AddressMoves
    BY <2>1 DEF AddressMoves, DeviceTypeOK
  <2>2. CASE RendererChanges
    <3>1. PICK renderer \in {"builtin", "retained", "restore"} :
            dev' = [dev EXCEPT ![Panel].renderer = renderer]
      BY <2>2 DEF RendererChanges
    <3>2. [dev[Panel] EXCEPT !.renderer = renderer] \in DeviceRecords
      BY PanelRecord, RecordUpdates
    <3> QED BY <3>1, <3>2, PanelRecord
  <2> QED BY <2>1, <2>2
<1> QED BY <1>1, <1>2, <1>3 DEF DeviceTypeOK, Busy

LEMMA DeviceTypesKept == DeviceTypeOK /\ [DeviceNext]_deviceVars => DeviceTypeOK'
<1> SUFFICES ASSUME DeviceTypeOK, [DeviceNext]_deviceVars PROVE DeviceTypeOK'
  OBVIOUS
<1>1. CASE UNCHANGED deviceVars
  BY <1>1 DEF deviceVars, DeviceTypeOK, Busy
<1>2. CASE DeviceNext
  BY <1>2, LinkedTypes, LeftTypes, StartJobTypes, ConnectTypes, SlotTypes, PushTypes,
     ArrivalTypes, ReconnectTypes, AnswerTypes, SendsTypes, LosesTypes, AroundTypes
     DEF DeviceNext
<1> QED BY <1>1, <1>2

LEMMA DeviceTypesInit == DeviceInit => DeviceTypeOK
<1> SUFFICES ASSUME DeviceInit PROVE DeviceTypeOK
  OBVIOUS
<1>1. dev \in [Devices -> DeviceRecords] /\ custody \in BOOLEAN
  BY DEF DeviceInit, DeviceState, DeviceRecords, Devices
<1>2. op \in [phase : Phases, pc : PcsOf(op.phase), on : {Panel}] /\ op.phase = "none"
  BY Pcs DEF DeviceInit, NoOperation, Phases
<1> QED BY <1>1, <1>2, NoProgramFacts DEF DeviceInit, DeviceTypeOK, Devices

-----------------------------------------------------------------------------
(* A job that is told to have failed.  It is told so only where no program  *)
(* of its own can still install; from then on none of its own is sent.      *)

LEMMA TellGoes ==
  ASSUME TellInv, op.phase # "none", UNCHANGED <<dev, left, job, denied>>,
         Busy(linked') => linked'.by = job,
         MayInstall(linked') => op'.phase \in {"install", "update"} /\ op'.pc = "running",
         Undecided' => Undecided
  PROVE  Told'
BY DEF TellInv, Told, MayInstall

LEMMA TellEnds ==
  ASSUME TellInv, op.phase # "none", UNCHANGED <<dev, job>>, NEW told \in BOOLEAN,
         Ends(told), told => Undecided,
         left' = left \/ (left' = linked /\ Busy(linked) /\ (told => ~MayInstall(linked)))
  PROVE  Told'
<1>1. op'.phase = "none" /\ op'.pc = "" /\ ~Busy(linked') /\ ~MayInstall(linked') /\ ~Undecided'
  BY DEF Ends, NoOperation, NoProgram, Busy, MayInstall, Installing, Undecided,
         InstallProgram, UpdateProgram
<1>2. denied' = IF told THEN denied \cup {job} ELSE denied
  BY DEF Ends
<1>3. dev'[Panel].by \notin denied'
  BY <1>2 DEF TellInv, Told
<1>4. left'.by \in 0..job' /\ (MayInstall(left)' => left'.by \notin denied')
  <2>1. CASE left' = left
    BY <1>2, <2>1 DEF TellInv, Told, MayInstall
  <2>2. CASE left' # left
    <3>1. left' = linked /\ left'.by = job /\ (told => ~MayInstall(left)')
      BY <2>2 DEF TellInv, Told, MayInstall
    <3>2. job \in Nat /\ job \notin denied
      BY DEF TellInv, Told, DeviceTypeOK
    <3> QED BY <1>2, <3>1, <3>2
  <2> QED BY <2>1, <2>2
<1> QED BY <1>1, <1>3, <1>4 DEF TellInv, Told, MayInstall, Busy

\* Which programs can still install after a step, and which step installs.
LEMMA NextInstalls ==
  ASSUME NEW p \in ProgramRecords, Busy(p), NEW d, NEW rest \in Rest(d, p),
         rest \in Installing
  PROVE  p.steps = InstallProgram
<1>1. p.steps \in Remainders \ {<<>>}
  BY DEF ProgramRecords, Busy
<1>2. rest \notin HomePolicy(d)
  BY DEF HomePolicy, Installing, InstallProgram, UpdateProgram
<1>3. rest \notin {<<>>, TransferProgram, <<"drop">>, <<"tap">>, <<"remove">>}
  BY DEF Installing, InstallProgram, UpdateProgram, TransferProgram
<1> QED BY <1>1, <1>2, <1>3, Runs DEF Remainders

LEMMA HeadInstalls ==
  ASSUME NEW steps \in Remainders \ {<<>>}, Head(steps) \in {"install", "replace"}
  PROVE  steps \in Installing \ {InstallProgram}
<1>1. CASE steps \in {InstallProgram, <<"install", "hand", "drop">>, UpdateProgram}
  BY <1>1 DEF InstallProgram, UpdateProgram, Installing
<1>2. CASE steps \in {TransferProgram, <<"drop">>, GrantProgram, <<"home", "tap">>}
  BY <1>2 DEF TransferProgram, GrantProgram
<1>3. CASE steps \in {<<"tap">>, <<"restore">>, LaunchProgram, <<"erase">>}
  BY <1>3 DEF LaunchProgram
<1>4. CASE steps \in {<<"discard", "remove">>, <<"remove">>}
  BY <1>4
<1> QED BY <1>1, <1>2, <1>3, <1>4 DEF Remainders

LEMMA UpToItself == \A n \in Nat : n \in 0..n
OBVIOUS

LEMMA LinkedTells ==
  ASSUME TellInv, LinkedSteps
  PROVE  Told'
<1>1. /\ Busy(linked) /\ linked.answer = "" /\ linked.on = Panel /\ linked \in ProgramRecords
      /\ linked.by = job /\ dev \in [Devices -> DeviceRecords] /\ job \in Nat
  BY DEF LinkedSteps, TellInv, Told, DeviceTypeOK, ProgramRecords
<1>2. UNCHANGED <<left, op, job, denied>>
  BY DEF LinkedSteps
<1>3. op.phase # "none" /\ job \notin denied
  BY <1>1, PhaseOf DEF TellInv, Told, DeviceTypeOK, Awaiting
<1>4. ASSUME NEW d \in Effects(dev[linked.on], linked),
             dev' = [dev EXCEPT ![linked.on] = d], linked' \in Stepped(linked, d)
      PROVE  Told'
  <2>1. dev'[Panel] = d /\ d \in Effects(dev[Panel], linked) /\ dev[Panel] \in DeviceRecords
    BY <1>1, <1>4 DEF Devices
  <2>2. /\ linked.steps \in Installing \ {InstallProgram} => dev'[Panel].by = job
        /\ linked.steps \notin Installing \ {InstallProgram} => dev'[Panel].by = dev[Panel].by
    <3>1. /\ linked \in ProgramRecords /\ Busy(linked)
          /\ dev[Panel] \in DeviceRecords /\ d \in Effects(dev[Panel], linked)
      BY <1>1, <2>1
    <3>2. /\ linked.steps \in Installing \ {InstallProgram} => d.by = linked.by
          /\ linked.steps \notin Installing \ {InstallProgram} => d.by = dev[Panel].by
      BY <3>1, EffectFacts
    <3> QED BY <1>1, <2>1, <3>2
  <2>3. linked'.by = job /\ (linked'.steps = <<>> \/ linked'.answer = "")
        /\ linked'.steps \in Rest(d, linked) /\ linked'.answer # "refused"
    BY <1>1, <1>4, SteppedFacts
  <2>4. MayInstall(linked)' => linked.steps = InstallProgram
    BY <1>1, <2>3, NextInstalls DEF MayInstall
  <2>5. linked.steps = InstallProgram => MayInstall(linked)
    BY DEF MayInstall, Installing
  <2>6. Undecided' => dev'[Panel].by # job'
    BY <1>2, <2>2, <2>3, <2>4, <2>5 DEF TellInv, Told, Undecided, MayInstall
  <2>7. dev'[Panel].by \in 0..job /\ dev'[Panel].by \notin denied
    <3>1. job \in 0..job
      BY <1>1, UpToItself
    <3>2. dev[Panel].by \in 0..job /\ dev[Panel].by \notin denied
      BY DEF TellInv, Told
    <3> QED BY <1>3, <2>2, <3>1, <3>2
  <2>8. MayInstall(linked)' => op.phase \in {"install", "update"} /\ op.pc = "running"
    BY <2>4, <2>5 DEF TellInv, Told
  <2> QED BY <1>2, <2>3, <2>6, <2>7, <2>8 DEF TellInv, Told, MayInstall
<1>5. ASSUME linked' = Failed(linked), UNCHANGED dev
      PROVE  Told'
  <2>1. linked'.steps = <<>> /\ (linked'.answer = "refused" => MayInstall(linked))
    <3>1. linked.steps \in Remainders \ {<<>>}
      BY <1>1 DEF ProgramRecords, Busy
    <3>2. Head(linked.steps) \in {"install", "replace"} => MayInstall(linked)
      BY <3>1, HeadInstalls DEF MayInstall
    <3> QED BY <1>1, <1>5, <3>2 DEF Failed, ProgramRecords
  <2>2. ~Busy(linked') /\ ~MayInstall(linked')
    BY <2>1 DEF Busy, MayInstall, Installing, InstallProgram, UpdateProgram
  <2>3. Undecided' => Undecided
    BY <1>2, <2>1, <2>2 DEF Undecided
  <2> QED BY <1>2, <1>3, <1>5, <2>2, <2>3, TellGoes
<1> QED BY <1>4, <1>5 DEF LinkedSteps

LEMMA LeftTells ==
  ASSUME TellInv, LeftSteps
  PROVE  Told'
<1>1. /\ Busy(left) /\ left.on = Panel /\ left \in ProgramRecords
      /\ dev \in [Devices -> DeviceRecords] /\ job \in Nat
  BY DEF LeftSteps, TellInv, DeviceTypeOK, ProgramRecords
<1>2. UNCHANGED <<linked, op, job, denied>>
  BY DEF LeftSteps
<1>3. /\ left.by \in 0..job /\ (MayInstall(left) => left.by \notin denied)
      /\ dev[Panel].by \in 0..job /\ dev[Panel].by \notin denied
      /\ op.phase # "none" => ~(MayInstall(left) /\ left.by = job)
  BY DEF TellInv, Told
<1>4. ~MayInstall(NoProgram) /\ NoProgram.by = 0
  BY DEF MayInstall, NoProgram, Installing, InstallProgram, UpdateProgram
<1>5. ASSUME MayInstall(left)' => MayInstall(left) /\ left'.by = left.by,
             left'.by \in {0, left.by},
             \/ dev'[Panel].by = dev[Panel].by
             \/ dev'[Panel].by = left.by /\ MayInstall(left)
      PROVE  Told'
  <2>1. Undecided => op.phase # "none"
    BY DEF Undecided
  <2>2. Undecided' <=> Undecided
    BY <1>2 DEF Undecided, MayInstall
  <2>3. Undecided' => dev'[Panel].by # job'
    BY <1>2, <1>3, <1>5, <2>1, <2>2 DEF TellInv, Told
  <2>4. left'.by \in 0..job' /\ dev'[Panel].by \in 0..job' /\ dev'[Panel].by \notin denied'
    BY <1>1, <1>2, <1>3, <1>5
  <2>5. MayInstall(left)' => left'.by \notin denied'
    BY <1>2, <1>3, <1>5
  <2>6. op'.phase # "none" => job' \notin denied' /\ ~(MayInstall(left)' /\ left'.by = job')
    BY <1>2, <1>3, <1>5 DEF TellInv, Told
  <2> QED BY <1>2, <2>3, <2>4, <2>5, <2>6 DEF TellInv, Told, MayInstall
<1>6. ASSUME NEW d \in Effects(dev[left.on], left),
             dev' = [dev EXCEPT ![left.on] = d],
             NEW p \in Stepped(left, d), left' = IF Busy(p) THEN p ELSE NoProgram
      PROVE  Told'
  <2>1. dev'[Panel] = d /\ d \in Effects(dev[Panel], left) /\ dev[Panel] \in DeviceRecords
    BY <1>1, <1>6 DEF Devices
  <2>2. \/ dev'[Panel].by = dev[Panel].by
        \/ dev'[Panel].by = left.by /\ MayInstall(left)
    BY <1>1, <2>1, EffectFacts DEF MayInstall
  <2>3. p.steps \in Rest(d, left) /\ p.by = left.by
    BY <1>1, SteppedFacts
  <2>4. p.steps \in Installing => MayInstall(left)
    BY <1>1, <2>3, NextInstalls DEF MayInstall, Installing
  <2>5. MayInstall(left)' => MayInstall(left) /\ left'.by = left.by
    BY <1>4, <1>6, <2>3, <2>4 DEF MayInstall
  <2>6. left'.by \in {0, left.by}
    BY <1>4, <1>6, <2>3
  <2> QED BY <1>5, <2>2, <2>5, <2>6
<1>7. ASSUME left' = NoProgram, UNCHANGED dev
      PROVE  Told'
  BY <1>4, <1>5, <1>7 DEF MayInstall
<1> QED BY <1>6, <1>7 DEF LeftSteps

\* The operation's programs that install are sent where the app is not yet.
LEMMA TellQuiet ==
  ASSUME TellInv, Quiet, op.phase # "none", UNCHANGED denied, Undecided' => Undecided,
         \/ ~Busy(linked') /\ ~MayInstall(linked')
         \/ \E steps, pc : Sends(steps, pc) /\ steps \notin Installing
         \/ \E steps : Sends(steps, "running") /\ op.phase \in {"install", "update"}
  PROVE  Told'
<1>1. UNCHANGED <<dev, left, job>>
  BY DEF Quiet
<1>2. CASE ~Busy(linked') /\ ~MayInstall(linked')
  BY <1>1, <1>2, TellGoes
<1>3. ASSUME NEW steps, NEW pc, Sends(steps, pc), steps \notin Installing
      PROVE  Told'
  <2>1. linked'.by = job /\ ~MayInstall(linked')
    BY <1>3 DEF Sends, MayInstall
  <2> QED BY <1>1, <2>1, TellGoes
<1>4. ASSUME NEW steps, Sends(steps, "running"), op.phase \in {"install", "update"}
      PROVE  Told'
  <2>1. linked'.by = job /\ op'.phase = op.phase /\ op'.pc = "running"
    BY <1>4 DEF Sends, TellInv, DeviceTypeOK
  <2> QED BY <1>1, <1>4, <2>1, TellGoes
<1> QED BY <1>2, <1>3, <1>4

LEMMA TellQuietEnds ==
  ASSUME TellInv, Quiet, op.phase # "none", NEW told \in BOOLEAN, Ends(told), told => Undecided
  PROVE  Told'
<1>1. UNCHANGED <<dev, left, job>>
  BY DEF Quiet
<1> QED BY <1>1, TellEnds

LEMMA NotInstalling ==
  /\ ~MayInstall(NoProgram) /\ ~Busy(NoProgram)
  /\ \A steps \in {TransferProgram, GrantProgram, LaunchProgram, <<"erase">>, <<"discard", "remove">>,
                   <<"remove">>} : steps \notin Installing
  /\ \A phase : CleanupProgram(phase) \notin Installing
<1>1. <<>> \notin Installing
  BY DEF Installing, InstallProgram, UpdateProgram
<1>2. \A steps \in {TransferProgram, GrantProgram, LaunchProgram, <<"erase">>, <<"discard", "remove">>,
                    <<"remove">>} : steps \notin Installing
  BY DEF Installing, InstallProgram, UpdateProgram, TransferProgram, GrantProgram, LaunchProgram
<1> QED BY <1>1, <1>2 DEF MayInstall, NoProgram, Busy, CleanupProgram

LEMMA OperationTells ==
  ASSUME TellInv,
         \/ NotAdmitted \/ Proves \/ Cancel \/ LooksAtSlot \/ SlotCleared \/ Verifies
         \/ NotArrived \/ Reconnects \/ StageCleared \/ SendsProgram
  PROVE  Told'
<1>1. DeviceTypeOK /\ Quiet /\ op.phase # "none"
  BY PhaseOf DEF TellInv, NotAdmitted, Proves, Cancel, LooksAtSlot, SlotCleared, Verifies,
     NotArrived, Reconnects, StageCleared, SendsProgram
<1>2. op.pc # "running" => ~MayInstall(linked)
  BY DEF TellInv, Told
<1>3. CASE NotAdmitted
  <2>1. NothingInstalledBy(op.phase) => Undecided
    BY <1>3 DEF NotAdmitted, NothingInstalledBy, Undecided
  <2>2. Ends(NothingInstalledBy(op.phase)) /\ NothingInstalledBy(op.phase) \in BOOLEAN
    BY <1>3 DEF NotAdmitted, NothingInstalledBy
  <2> QED BY <1>1, <2>1, <2>2, TellQuietEnds
<1>4. ASSUME UNCHANGED <<linked, denied>>, ~Busy(linked), op.pc # "running", Undecided' => Undecided
      PROVE  Told'
  <2>1. ~Busy(linked') /\ ~MayInstall(linked')
    BY <1>2, <1>4 DEF Busy, MayInstall
  <2> QED BY <1>1, <1>4, <2>1, TellQuiet
<1>5. CASE Proves
  <2>1. UNCHANGED <<linked, denied>> /\ op.pc = "connect" /\ ~Busy(linked)
    BY <1>1, <1>5, IdleUnlessAwaiting DEF Proves, Awaiting
  <2>2. CASE op.phase = "preflight"
    BY <1>4, <2>1, <2>2 DEF Undecided
  <2>3. CASE op.phase # "preflight"
    <3>1. op'.phase = op.phase /\ op'.pc = "proved"
      BY <1>1, <1>5, <2>3 DEF Proves, DeviceTypeOK
    <3>2. Undecided' => Undecided
      BY <2>1, <3>1 DEF Undecided
    <3> QED BY <1>4, <2>1, <3>2
  <2> QED BY <2>2, <2>3
<1>6. CASE Cancel
  <2>1. UNCHANGED <<linked, denied>> /\ op.pc = "connect" /\ ~Busy(linked)
    BY <1>1, <1>6, IdleUnlessAwaiting DEF Cancel, Awaiting
  <2>2. Undecided
    BY <1>6, <2>1 DEF Cancel, Undecided
  <2> QED BY <1>4, <2>1, <2>2
<1>7. CASE op.phase = "stage" \/ (op.phase = "update" /\ op.pc \notin {"running", "erasing"})
  <2>1. Undecided
    BY <1>7 DEF Undecided
  <2>2. Ends(TRUE) => Told'
    BY <1>1, <2>1, TellQuietEnds
  <2>3. ASSUME UNCHANGED denied, \E steps, pc : Sends(steps, pc) /\ steps \notin Installing
        PROVE  Told'
    BY <1>1, <2>1, <2>3, TellQuiet
  <2>4. ASSUME UNCHANGED denied, linked' = NoProgram
        PROVE  Told'
    BY <1>1, <2>1, <2>4, NotInstalling, TellQuiet
  <2>5. CASE LooksAtSlot
    <3>1. UNCHANGED denied
      BY <2>5 DEF LooksAtSlot
    <3>2. CASE Sends(CleanupProgram("stage"), "clearing")
      BY <2>3, <3>1, <3>2, NotInstalling
    <3>3. CASE UNCHANGED linked
      BY <1>1, <1>4, <2>1, <2>5, <3>1, <3>3, IdleUnlessAwaiting DEF LooksAtSlot, Awaiting
    <3> QED BY <2>5, <3>2, <3>3 DEF LooksAtSlot
  <2>6. CASE SlotCleared
    BY <2>2, <2>4, <2>6 DEF SlotCleared, Goes
  <2>7. CASE Verifies
    BY <1>1, <1>4, <2>1, <2>7, IdleUnlessAwaiting DEF Verifies, Awaiting
  <2>8. CASE NotArrived
    <3>1. UNCHANGED denied
      BY <2>8 DEF NotArrived
    <3>2. CASE Sends(<<"erase">>, "clearing again")
      BY <2>3, <3>1, <3>2, NotInstalling
    <3>3. CASE UNCHANGED linked
      BY <1>1, <1>4, <2>1, <2>8, <3>1, <3>3, IdleUnlessAwaiting DEF NotArrived, Awaiting
    <3> QED BY <2>8, <3>2, <3>3 DEF NotArrived
  <2>9. CASE Reconnects /\ ~Ends(TRUE)
    <3>1. /\ linked' = [NoProgram EXCEPT !.steps = CleanupProgram("stage"),
                                         !.on = address, !.by = job]
          /\ UNCHANGED denied
      BY <2>9 DEF Reconnects
    <3>2. linked'.by = job /\ ~MayInstall(linked')
      BY <3>1, NotInstalling DEF NoProgram, MayInstall
    <3> QED BY <1>1, <2>1, <3>1, <3>2, TellGoes DEF Quiet
  <2>10. CASE StageCleared
    BY <2>2, <2>10 DEF StageCleared
  <2>11. CASE SendsProgram
    <3>1. Sends(UpdateProgram, "running") /\ UNCHANGED denied /\ op.phase = "update"
      BY <1>1, <1>7, <2>11, PhaseOf DEF SendsProgram, Program
    <3> QED BY <1>1, <2>1, <3>1, TellQuiet
  <2> QED BY <1>3, <1>5, <1>6, <2>2, <2>5, <2>6, <2>7, <2>8, <2>9, <2>10, <2>11
<1>8. CASE op.phase \notin {"stage", "update"}
  <2>1. CASE SendsProgram /\ op.phase = "install"
    <3>1. Sends(InstallProgram, "running") /\ UNCHANGED denied /\ Undecided
      BY <1>8, <2>1 DEF SendsProgram, Program, Undecided
    <3> QED BY <1>1, <2>1, <3>1, TellQuiet
  <2>2. CASE SendsProgram /\ op.phase # "install"
    <3>1. Sends(Program(op.phase), "running") /\ UNCHANGED denied
      BY <2>2 DEF SendsProgram
    <3>2. Program(op.phase) \notin Installing
      BY <1>8, <2>2, NotInstalling DEF Program
    <3>3. op'.phase = op.phase /\ op'.pc = "running"
      BY <1>1, <3>1 DEF Sends, DeviceTypeOK
    <3>4. Undecided' => Undecided
      BY <1>8, <2>2, <3>3 DEF Undecided
    <3> QED BY <1>1, <3>1, <3>2, <3>4, TellQuiet
  <2> QED BY <1>1, <1>3, <1>5, <1>6, <1>8, <2>1, <2>2, PhaseOf
          DEF LooksAtSlot, SlotCleared, Verifies, NotArrived, Reconnects, StageCleared
<1>9. op.phase = "update" /\ op.pc \in {"running", "erasing"} =>
        NotAdmitted \/ Proves \/ Cancel
  BY DEF LooksAtSlot, SlotCleared, Verifies, NotArrived, Reconnects, StageCleared, SendsProgram
<1> QED BY <1>3, <1>5, <1>6, <1>7, <1>8, <1>9

LEMMA AnswerTells ==
  ASSUME TellInv,
         InstallAnswers \/ UpdateAnswers \/ UpdateErased \/ CleanupAnswers \/ StartAnswers
  PROVE  Told'
<1>1. DeviceTypeOK /\ Quiet /\ op.phase # "none" /\ ~Busy(linked)
  BY PhaseOf DEF TellInv, InstallAnswers, UpdateAnswers, UpdateErased, CleanupAnswers,
                 StartAnswers
<1>2. Ends(FALSE) => Told'
  BY <1>1, TellQuietEnds
<1>3. ASSUME NEW phase, Goes(phase, "connect"), phase # "refused" \/ Undecided,
             phase \in {"installed", "refused", "start", "launch"}
      PROVE  Told'
  <2>1. linked' = NoProgram /\ op'.phase = phase /\ op'.pc = "connect" /\ UNCHANGED denied
    BY <1>1, <1>3 DEF Goes, At, DeviceTypeOK
  <2>2. Undecided' => Undecided
    BY <1>3, <2>1 DEF Undecided
  <2> QED BY <1>1, <2>1, <2>2, NotInstalling, TellQuiet
<1>4. ASSUME NEW steps, NEW pc, Sends(steps, pc), steps \notin Installing, UNCHANGED denied,
             \/ op.phase \in {"start", "launch"}
             \/ op.phase = "update" /\ pc = "erasing"
             \/ Undecided
      PROVE  Told'
  <2>1. op'.phase = op.phase /\ op'.pc = pc /\ linked'.steps = steps
    BY <1>1, <1>4 DEF Sends, DeviceTypeOK
  <2>2. Undecided' => Undecided
    BY <1>4, <2>1 DEF Undecided
  <2> QED BY <1>1, <1>4, <2>2, TellQuiet
<1>5. CASE InstallAnswers
  <2>1. linked.answer = "refused" => Undecided
    BY <1>5 DEF InstallAnswers, Undecided
  <2> QED BY <1>2, <1>3, <1>5, <2>1 DEF InstallAnswers, Refused
<1>6. CASE UpdateAnswers
  <2>1. linked.answer = "refused" => Undecided
    BY <1>6 DEF UpdateAnswers, Undecided
  <2>2. op.phase = "update" /\ <<"erase">> \notin Installing
    BY <1>6, NotInstalling DEF UpdateAnswers
  <2> QED BY <1>2, <1>4, <1>6, <2>1, <2>2 DEF UpdateAnswers, Refused
<1>7. CASE UpdateErased
  <2>1. CASE op.pc = "erasing"
    BY <1>2, <1>3, <1>7, <2>1 DEF UpdateErased
  <2>2. CASE op.pc = "erasing refused"
    <3>1. Undecided
      BY <1>1, <2>2, PhaseOf DEF Undecided
    <3>2. \E told \in BOOLEAN : Ends(told)
      BY <1>7, <2>2 DEF UpdateErased
    <3> QED BY <1>1, <3>1, <3>2, TellQuietEnds
  <2> QED BY <1>7, <2>1, <2>2 DEF UpdateErased
<1>8. CASE CleanupAnswers
  <2>1. CASE op.phase = "installed"
    BY <1>2, <1>3, <1>8, <2>1 DEF CleanupAnswers
  <2>2. CASE op.phase \in {"refused", "cancelled"}
    <3>1. Undecided
      BY <2>2 DEF Undecided
    <3>2. \E told \in BOOLEAN : Ends(told)
      BY <1>8, <2>2 DEF CleanupAnswers
    <3> QED BY <1>1, <3>1, <3>2, TellQuietEnds
  <2> QED BY <1>8, <2>1, <2>2 DEF CleanupAnswers
<1>9. CASE StartAnswers
  <2>1. op.phase \in {"start", "launch"}
    BY <1>9 DEF StartAnswers
  <2>2. \/ Ends(FALSE)
        \/ \E steps \in {GrantProgram, LaunchProgram}, pc \in {"granting", "launching"} :
             Sends(steps, pc) /\ UNCHANGED denied
    BY <1>9 DEF StartAnswers
  <2>3. \A steps \in {GrantProgram, LaunchProgram} : steps \notin Installing
    BY NotInstalling
  <2> QED BY <1>2, <1>4, <2>1, <2>2, <2>3
<1> QED BY <1>5, <1>6, <1>7, <1>8, <1>9

LEMMA LosesTells ==
  ASSUME TellInv, Loses
  PROVE  Told'
<1>1. /\ DeviceTypeOK /\ op.phase # "none" /\ UNCHANGED <<dev, job>>
      /\ left' = left \/ (left' = linked /\ Busy(linked))
  BY PhaseOf DEF TellInv, Loses
<1>2. CASE ClearsSlot \/ ClearsFile
  <2>1. ~Busy(linked) /\ left' = left
    BY <1>1, <1>2, IdleUnlessAwaiting DEF ClearsSlot, ClearsFile, Awaiting
  <2>2. Undecided
    BY <1>2 DEF ClearsSlot, ClearsFile, Undecided
  <2>3. CASE Goes("stage", "reconnect")
    BY <1>1, <2>1, <2>2, <2>3, NotInstalling, TellGoes DEF Goes
  <2>4. CASE Sends(<<"erase">>, "clearing again") /\ UNCHANGED denied
    <3>1. linked'.by = job /\ ~MayInstall(linked')
      BY <2>4, NotInstalling DEF Sends, MayInstall
    <3> QED BY <1>1, <2>1, <2>2, <2>4, <3>1, TellGoes
  <2>5. CASE \E told \in BOOLEAN : Ends(told)
    BY <1>1, <2>1, <2>2, <2>5, TellEnds
  <2> QED BY <2>3, <2>4, <2>5 DEF Loses, NothingInstalledBy
<1>3. CASE ~ClearsSlot /\ ~ClearsFile
  <2> DEFINE told == NothingInstalledBy(op.phase)
                       /\ op.pc \notin {"running", "erasing", "erasing refused"}
  <2>1. Ends(told) /\ told \in BOOLEAN
    BY <1>3 DEF Loses
  <2>2. told => Undecided /\ ~MayInstall(linked)
    BY DEF NothingInstalledBy, Undecided, TellInv, Told
  <2> HIDE DEF told
  <2> QED BY <1>1, <2>1, <2>2, TellEnds
<1> QED BY <1>2, <1>3

LEMMA DeviceTells ==
  ASSUME TellInv, Push \/ StartJob("preflight") \/ StartJob("update") \/ RendererChanges
  PROVE  Told'
<1>0. dev \in [Devices -> DeviceRecords] /\ job \in Nat /\ DeviceTypeOK /\ Panel \in Devices
  BY DEF TellInv, DeviceTypeOK, Devices
<1>1. CASE Push
  <2>1. op.phase \in {"stage", "update"} /\ op.pc \in {"push", "pushing", "proved"}
    BY <1>0, <1>1, PhaseOf DEF Push
  <2>2. Undecided /\ ~MayInstall(linked)
    BY <2>1 DEF Undecided, TellInv, Told
  <2>3. dev'[Panel].by = dev[Panel].by
    BY <1>0, <1>1 DEF Push, Receives, DeviceRecords
  <2>4. UNCHANGED <<linked, left, job, denied>> /\ op'.phase = op.phase
    BY <1>0, <1>1 DEF Push, At, DeviceTypeOK
  <2> QED BY <2>1, <2>2, <2>3, <2>4 DEF TellInv, Told, MayInstall, Busy
<1>2. CASE StartJob("preflight") \/ StartJob("update")
  <2>1. dev'[Panel].by = dev[Panel].by
    BY <1>0, <1>2 DEF StartJob, DeviceRecords
  <2>2. job' = job + 1 /\ UNCHANGED <<linked, left, denied>> /\ op.phase = "none"
    BY <1>2 DEF StartJob
  <2>3. ~Busy(linked) /\ ~MayInstall(linked) /\ denied \subseteq 1..job
    BY <1>0, <2>2, PhaseOf, IdleUnlessAwaiting DEF Awaiting, TellInv, Told, DeviceTypeOK
  <2>4. dev[Panel].by \in 0..job /\ left.by \in 0..job
    BY DEF TellInv, Told
  <2>5. dev'[Panel].by \in 0..job' /\ left'.by \in 0..job' /\ dev'[Panel].by # job'
        /\ left'.by # job' /\ job' \notin denied'
    BY <1>0, <2>1, <2>2, <2>3, <2>4
  <2> QED BY <2>1, <2>2, <2>3, <2>5 DEF TellInv, Told, MayInstall, Busy
<1>3. CASE RendererChanges
  <2>1. dev'[Panel].by = dev[Panel].by
    BY <1>0, <1>3 DEF RendererChanges, DeviceRecords
  <2>2. UNCHANGED <<linked, left, op, job, denied>>
    BY <1>3 DEF RendererChanges
  <2> QED BY <2>1, <2>2 DEF TellInv, Told, MayInstall, Busy, Undecided
<1> QED BY <1>1, <1>2, <1>3

LEMMA TellInvKept == TellInv /\ [DeviceNext]_deviceVars => TellInv'
<1> SUFFICES ASSUME TellInv, [DeviceNext]_deviceVars PROVE TellInv'
  OBVIOUS
<1>1. DeviceTypeOK'
  BY DeviceTypesKept DEF TellInv
<1>2. UNCHANGED <<dev, linked, left, op, job, denied>> => Told'
  BY DEF TellInv, Told, MayInstall, Busy, Undecided
<1>3. UNCHANGED deviceVars \/ AddressMoves => UNCHANGED <<dev, linked, left, op, job, denied>>
  BY DEF deviceVars, AddressMoves
<1>4. CASE \/ LinkedSteps \/ LeftSteps \/ Loses \/ Push \/ RendererChanges
           \/ StartJob("preflight") \/ StartJob("update")
  BY <1>1, <1>4, LinkedTells, LeftTells, LosesTells, DeviceTells DEF TellInv
<1>5. CASE \/ NotAdmitted \/ Proves \/ Cancel \/ LooksAtSlot \/ SlotCleared \/ Verifies
           \/ NotArrived \/ Reconnects \/ StageCleared \/ SendsProgram
  BY <1>1, <1>5, OperationTells DEF TellInv
<1>6. CASE InstallAnswers \/ UpdateAnswers \/ UpdateErased \/ CleanupAnswers \/ StartAnswers
  BY <1>1, <1>6, AnswerTells DEF TellInv
<1> QED BY <1>1, <1>2, <1>3, <1>4, <1>5, <1>6 DEF DeviceNext, TellInv

LEMMA TellInvInit == DeviceInit => TellInv
<1> SUFFICES ASSUME DeviceInit PROVE TellInv
  OBVIOUS
<1>1. left = NoProgram /\ linked = NoProgram /\ job = 0 /\ denied = {} /\ op = NoOperation
  BY DEF DeviceInit
<1>2. dev[Panel].by = 0
  BY DEF DeviceInit, DeviceState, Devices
<1>3. op.phase = "none" /\ op.pc = "" /\ NoProgram.by = 0
  BY <1>1 DEF NoOperation, NoProgram
<1>4. ~Undecided /\ ~MayInstall(linked) /\ ~Busy(linked) /\ ~MayInstall(left)
  BY <1>1, <1>3, NotInstalling DEF Undecided
<1>5. dev[Panel].by \in 0..job /\ left.by \in 0..job
  <2>1. 0 \in 0..0
    OBVIOUS
  <2> QED BY <1>1, <1>2, <1>3, <2>1
<1> QED BY <1>1, <1>3, <1>4, <1>5, DeviceTypesInit DEF TellInv, Told

\* A job whose answer says that nothing was installed has not installed the app,
\* and no program it left on the panel installs it later, whatever connections,
\* answers and addresses are lost (install_executor.py, update_staging.py).
THEOREM FailedNeverInstalls == DeviceSpec => []FailedJobNeverInstalls
<1>1. TellInv => FailedJobNeverInstalls
  BY DEF TellInv, Told, FailedJobNeverInstalls
<1> QED BY <1>1, TellInvInit, TellInvKept, PTL DEF DeviceSpec

-----------------------------------------------------------------------------
(* The previous HOME.  While custody lasts one program at a time is under   *)
(* way; one that drops a record runs where there is no app yet, or where    *)
(* the app has the record already.                                          *)

LEMMA SuitsOf ==
  ASSUME NEW q, NEW d
  PROVE
    /\ q.steps \in {<<>>, UpdateProgram, LaunchProgram, <<"erase">>, <<"remove">>} => Suits(q, d)
    /\ q.steps \in {InstallProgram, <<"discard", "remove">>} => (Suits(q, d) <=> d.app = "none")
    /\ q.steps = <<"install", "hand", "drop">> =>
         (Suits(q, d) <=> d.app = "none" /\ d.note = Launcher)
    /\ q.steps \in {TransferProgram, GrantProgram, <<"home", "tap">>, <<"tap">>, <<"restore">>} =>
         (Suits(q, d) <=> d.app = "new")
    /\ q.steps = <<"drop">> => (Suits(q, d) <=> d.app = "new" /\ d.kept = Launcher)
<1>1. CASE q.steps \in {<<>>, UpdateProgram, LaunchProgram, <<"erase">>, <<"remove">>}
  BY <1>1 DEF Suits, ForEmpty, ForApp, InstallProgram, UpdateProgram, LaunchProgram,
              TransferProgram, GrantProgram
<1>2. CASE q.steps \in ForEmpty
  BY <1>2 DEF Suits, ForEmpty, ForApp, InstallProgram, UpdateProgram, LaunchProgram,
              TransferProgram, GrantProgram
<1>3. CASE q.steps \in ForApp
  BY <1>3 DEF Suits, ForEmpty, ForApp, InstallProgram, UpdateProgram, LaunchProgram,
              TransferProgram, GrantProgram
<1>4. CASE q.steps \notin ForEmpty \cup ForApp \cup
                          {<<>>, UpdateProgram, LaunchProgram, <<"erase">>, <<"remove">>}
  BY <1>4 DEF ForEmpty, ForApp
<1> QED BY <1>1, <1>2, <1>3, <1>4

\* One step of a program that suits its panel, and what is left of it.
LEMMA StepAnswers ==
  ASSUME NEW p \in ProgramRecords, Busy(p), NEW d \in DeviceRecords, Kept(d), Suits(p, d),
         NEW e \in Effects(d, p), NEW next, next.steps \in Rest(e, p)
  PROVE  /\ Kept(e) /\ Suits(next, e)
         /\ p.steps # <<"install", "hand", "drop">> => e.app = d.app
         /\ d.app = "new" => e.app = "new"
<1>1. p.steps \in Remainders \ {<<>>}
  BY DEF ProgramRecords, Busy
<1>2. CASE p.steps = InstallProgram
  <2>1. e \in Snapshot(d) /\ next.steps = <<"install", "hand", "drop">> /\ d.app = "none"
    BY <1>2, Runs, SuitsOf
  <2>2. e.app = "none" /\ e.note = Launcher /\ e.home = d.home
    BY <2>1, HomeAssumption DEF Snapshot, Kept, DeviceRecords
  <2> QED BY <1>2, <2>1, <2>2, SuitsOf, HomeAssumption DEF Kept, InstallProgram
<1>3. CASE p.steps = <<"install", "hand", "drop">>
  <2>1. e \in Install(d, p.by) /\ next.steps = TransferProgram /\ d.note = Launcher
    BY <1>3, Runs, SuitsOf
  <2>2. e.app = "new" /\ e.note = Launcher
    BY <2>1 DEF Install, DeviceRecords
  <2> QED BY <1>3, <2>1, <2>2, SuitsOf DEF Kept
<1>4. CASE p.steps = TransferProgram
  <2>1. e \in Hand(d) /\ next.steps = <<"drop">> /\ d.app = "new"
    BY <1>4, Runs, SuitsOf
  <2>2. e.app = "new" /\ e.note = d.note /\ e.kept = Launcher
    BY <2>1, HomeAssumption DEF Hand, Kept, DeviceRecords
  <2> QED BY <2>1, <2>2, SuitsOf DEF Kept
<1>5. CASE p.steps \in {<<"drop">>, <<"discard", "remove">>}
  <2>1. e \in Drop(d) /\ next.steps \in {<<>>, <<"remove">>}
    BY <1>5, Runs
  <2>2. e.app = d.app /\ e.note = Unset /\ e.home = d.home /\ e.kept = d.kept
    BY <2>1 DEF Drop, DeviceRecords
  <2>3. d.app = "new" => d.kept = Launcher
    BY <1>5, SuitsOf
  <2> QED BY <2>1, <2>2, <2>3, SuitsOf DEF Kept
<1>6. CASE p.steps \in {<<"home", "tap">>, <<"tap">>, <<"restore">>}
  <2>1. /\ e \in SetHome(d) \cup TapAlways(d) \cup Restore(d) /\ d.app = "new"
        /\ next.steps \in {<<>>, <<"tap">>}
    BY <1>6, Runs, SuitsOf
  <2>2. e.app = d.app /\ e.note = d.note /\ e.kept = d.kept
    BY <2>1 DEF SetHome, TapAlways, Restore, DeviceRecords
  <2> QED BY <2>1, <2>2, SuitsOf DEF Kept
<1>7. CASE p.steps = GrantProgram
  <2>1. e = d /\ next.steps \in HomePolicy(d) /\ d.app = "new"
    BY <1>7, Runs, SuitsOf
  <2>2. next.steps \in {<<>>, <<"home", "tap">>, <<"restore">>}
    BY <2>1 DEF HomePolicy
  <2> QED BY <2>1, <2>2, SuitsOf
<1>8. CASE p.steps \in {LaunchProgram, <<"erase">>, <<"remove">>}
  <2>1. e \in {d} \cup Erase(d, p.by) \cup RemoveSlot(d) /\ next.steps = <<>>
    BY <1>8, Runs
  <2>2. e.app = d.app /\ e.note = d.note /\ e.kept = d.kept /\ e.home = d.home
    BY <2>1 DEF Erase, RemoveSlot, DeviceRecords
  <2> QED BY <2>1, <2>2, SuitsOf DEF Kept
<1>9. CASE p.steps = UpdateProgram
  <2>1. e \in Replace(d, p.by) /\ next.steps = <<>>
    BY <1>9, Runs
  <2>2. d.app = "new" /\ e.app = "new" /\ e.note = d.note /\ e.kept = d.kept
    BY <2>1 DEF Replace, DeviceRecords, Kept
  <2> QED BY <2>1, <2>2, SuitsOf DEF Kept
<1> QED BY <1>1, <1>2, <1>3, <1>4, <1>5, <1>6, <1>7, <1>8, <1>9 DEF Remainders

LEMMA LinkedKeeps ==
  ASSUME KeptInv, LinkedSteps, custody
  PROVE  Answered'
<1>1. /\ DeviceTypeOK /\ Busy(linked) /\ linked.answer = "" /\ linked.on = Panel
      /\ linked \in ProgramRecords /\ dev \in [Devices -> DeviceRecords] /\ Panel \in Devices
  BY DEF LinkedSteps, KeptInv, TellInv, DeviceTypeOK, ProgramRecords, Devices
<1>2. /\ Kept(dev[Panel]) /\ Suits(linked, dev[Panel]) /\ (NoAppYet => dev[Panel].app = "none")
      /\ (op.phase = "install" => linked.steps # UpdateProgram)
      /\ (Starting => dev[Panel].app = "new")
  BY DEF KeptInv, Answered
<1>3. UNCHANGED <<left, op, custody>>
  BY DEF LinkedSteps
<1>4. op.phase # "none" /\ ~Busy(left)
  BY <1>1, PhaseOf DEF KeptInv, Answered, DeviceTypeOK, Awaiting
<1>5. \A d : Suits(left, d)
  BY <1>4, SuitsOf DEF Busy
<1>6. linked.steps \in Installing => op.phase \in {"install", "update"} /\ op.pc = "running"
  BY DEF KeptInv, TellInv, Told, MayInstall
<1>7. ASSUME NEW d \in Effects(dev[linked.on], linked),
             dev' = [dev EXCEPT ![linked.on] = d], linked' \in Stepped(linked, d)
      PROVE  Answered'
  <2>1. dev'[Panel] = d /\ d \in Effects(dev[Panel], linked) /\ dev[Panel] \in DeviceRecords
    BY <1>1, <1>7
  <2>2. linked'.steps \in Rest(d, linked) /\ linked'.answer # "refused"
    BY <1>1, <1>7, SteppedFacts
  <2>3. /\ Kept(d) /\ Suits(linked', d) /\ (dev[Panel].app = "new" => d.app = "new")
        /\ linked.steps # <<"install", "hand", "drop">> => d.app = dev[Panel].app
    BY <1>1, <1>2, <2>1, <2>2, StepAnswers
  <2>4. linked'.steps # UpdateProgram
    <3>1. CASE linked'.steps \in Installing
      <4>1. linked.steps = InstallProgram
        BY <1>1, <2>2, <3>1, NextInstalls
      <4>2. linked'.steps = <<"install", "hand", "drop">>
        BY <2>2, <4>1, Runs
      <4> QED BY <4>2 DEF UpdateProgram
    <3>2. CASE linked'.steps \notin Installing
      BY <3>2 DEF Installing
    <3> QED BY <3>1, <3>2
  <2>5. NoAppYet' => d.app = "none"
    <3>1. NoAppYet' => NoAppYet /\ ~(op.phase = "install" /\ op.pc = "running")
      BY <1>3, <2>2 DEF NoAppYet
    <3>2. NoAppYet' => linked.steps # <<"install", "hand", "drop">>
      BY <1>6, <3>1 DEF NoAppYet, Installing
    <3> QED BY <1>2, <2>3, <3>1, <3>2
  <2>6. Starting' => d.app = "new"
    BY <1>2, <1>3, <2>3 DEF Starting
  <2> QED BY <1>3, <1>4, <1>5, <2>1, <2>3, <2>4, <2>5, <2>6 DEF Answered, Busy
<1>8. ASSUME linked' = Failed(linked), UNCHANGED dev
      PROVE  Answered'
  <2>1. linked'.steps = <<>> /\ (linked'.answer = "refused" => Head(linked.steps) \in {"install", "replace"})
    BY <1>1, <1>8 DEF Failed, ProgramRecords
  <2>2. linked.steps \in Remainders \ {<<>>}
    BY <1>1 DEF ProgramRecords, Busy
  <2>3. op.phase = "install" /\ linked'.answer = "refused" =>
          linked.steps = <<"install", "hand", "drop">>
    BY <1>2, <2>1, <2>2, HeadInstalls DEF Installing
  <2>4. NoAppYet' => dev[Panel].app = "none"
    <3>1. op.phase = "install" /\ linked'.answer = "refused" => dev[Panel].app = "none"
      BY <1>2, <2>3, SuitsOf
    <3> QED BY <1>2, <1>3, <3>1 DEF NoAppYet
  <2>5. \A d : Suits(linked', d)
    BY <2>1, SuitsOf
  <2>6. linked'.steps # UpdateProgram
    BY <2>1 DEF UpdateProgram
  <2> QED BY <1>2, <1>3, <1>4, <1>5, <1>8, <2>4, <2>5, <2>6 DEF Answered, Busy, Starting
<1> QED BY <1>7, <1>8 DEF LinkedSteps

LEMMA LeftKeeps ==
  ASSUME KeptInv, LeftSteps, custody
  PROVE  Answered'
<1>1. /\ DeviceTypeOK /\ Busy(left) /\ left.on = Panel
      /\ left \in ProgramRecords /\ dev \in [Devices -> DeviceRecords] /\ Panel \in Devices
  BY DEF LeftSteps, KeptInv, TellInv, DeviceTypeOK, ProgramRecords, Devices
<1>2. Kept(dev[Panel]) /\ Suits(left, dev[Panel]) /\ op.phase = "none"
  BY <1>1 DEF KeptInv, Answered
<1>3. UNCHANGED <<linked, op, custody>> /\ ~Busy(linked) /\ ~NoAppYet' /\ ~Starting'
  BY <1>1, <1>2, PhaseOf, IdleUnlessAwaiting DEF LeftSteps, Awaiting, NoAppYet, Starting
<1>4. \A d : Suits(linked, d)
  BY <1>3, SuitsOf DEF Busy
<1>5. ASSUME NEW d \in Effects(dev[left.on], left),
             dev' = [dev EXCEPT ![left.on] = d],
             NEW p \in Stepped(left, d), left' = IF Busy(p) THEN p ELSE NoProgram
      PROVE  Answered'
  <2>1. dev'[Panel] = d /\ d \in Effects(dev[Panel], left) /\ dev[Panel] \in DeviceRecords
    BY <1>1, <1>5
  <2>2. p.steps \in Rest(d, left)
    BY <1>1, SteppedFacts
  <2>3. Kept(d) /\ Suits(p, d)
    BY <1>1, <1>2, <2>1, <2>2, StepAnswers
  <2>4. Suits(left', d)
    BY <1>5, <2>3, SuitsOf DEF NoProgram
  <2> QED BY <1>2, <1>3, <1>4, <2>1, <2>3, <2>4 DEF Answered
<1>6. ASSUME left' = NoProgram, UNCHANGED dev
      PROVE  Answered'
  <2>1. \A d : Suits(left', d)
    BY <1>6, SuitsOf DEF NoProgram
  <2> QED BY <1>2, <1>3, <1>4, <1>6, <2>1 DEF Answered
<1> QED BY <1>5, <1>6 DEF LeftSteps

\* The operation's own steps: what it sends suits the panel it has found.
LEMMA KeptMoves ==
  ASSUME KeptInv, custody, UNCHANGED <<left, custody>>, op.phase # "none",
         dev'[Panel].app = dev[Panel].app, dev'[Panel].home = dev[Panel].home,
         dev'[Panel].note = dev[Panel].note, dev'[Panel].kept = dev[Panel].kept,
         Suits(linked', dev[Panel]), op'.phase = "install" => linked'.steps # UpdateProgram,
         NoAppYet' => dev[Panel].app = "none", Starting' => dev[Panel].app = "new"
  PROVE  Answered'
<1>1. Kept(dev[Panel]) /\ Suits(left, dev[Panel]) /\ ~Busy(left)
  BY DEF KeptInv, Answered
<1>2. Kept(dev'[Panel])
  BY <1>1 DEF Kept
<1>3. Suits(linked', dev'[Panel]) /\ Suits(left', dev'[Panel]) /\ ~Busy(left')
  BY <1>1 DEF Suits, Busy
<1> QED BY <1>2, <1>3 DEF Answered, Busy

LEMMA KeptEnds ==
  ASSUME KeptInv, custody, UNCHANGED <<dev, custody>>, NEW told, Ends(told),
         left' \in {left, linked}
  PROVE  Answered'
<1>1. Kept(dev[Panel]) /\ Suits(left, dev[Panel]) /\ Suits(linked, dev[Panel])
  BY DEF KeptInv, Answered
<1>2. linked' = NoProgram /\ op'.phase = "none" /\ ~NoAppYet' /\ ~Starting'
  BY DEF Ends, NoOperation, NoAppYet, Starting
<1>3. Suits(linked', dev'[Panel]) /\ Suits(left', dev'[Panel])
  BY <1>1, <1>2, SuitsOf DEF NoProgram
<1> QED BY <1>1, <1>2, <1>3 DEF Answered

\* What the operation's step needs when nothing at the panel changes.
LEMMA KeptQuiet ==
  ASSUME KeptInv, custody, Quiet, op.phase # "none",
         Suits(linked', dev[Panel]), op'.phase = "install" => linked'.steps # UpdateProgram,
         NoAppYet' => dev[Panel].app = "none", Starting' => dev[Panel].app = "new"
  PROVE  Answered'
<1>1. UNCHANGED <<dev, left, custody>>
  BY DEF Quiet
<1> QED BY <1>1, KeptMoves

LEMMA KeptQuietEnds ==
  ASSUME KeptInv, custody, Quiet, NEW told, Ends(told)
  PROVE  Answered'
BY KeptEnds DEF Quiet

\* What is known of an operation under way while custody lasts.
LEMMA CustodyFacts ==
  ASSUME KeptInv, custody
  PROVE  /\ DeviceTypeOK /\ Suits(linked, dev[Panel]) /\ dev[Panel].app \in {"none", "new"}
         /\ op.phase = "install" => linked.steps # UpdateProgram
         /\ NoAppYet => dev[Panel].app = "none"
         /\ Starting => dev[Panel].app = "new"
         /\ op.on = Panel
BY DEF KeptInv, TellInv, Answered, Kept, DeviceTypeOK

\* It goes to a phase with no program.
LEMMA KeptGoes ==
  ASSUME KeptInv, custody, Quiet, op.phase # "none", NEW phase, NEW pc, Goes(phase, pc),
         phase \in {"stage", "refused"} => NoAppYet,
         phase \notin {"install", "cancelled"}, phase \in {"start", "launch"} => pc = "connect"
  PROVE  Answered'
<1>1. linked' = NoProgram /\ op'.phase = phase /\ op'.pc = pc
  BY CustodyFacts DEF Goes, At, DeviceTypeOK
<1>2. Suits(linked', dev[Panel])
  BY <1>1, SuitsOf DEF NoProgram
<1>3. NoAppYet' => NoAppYet
  BY <1>1 DEF NoAppYet
<1>4. ~Starting'
  BY <1>1 DEF Starting
<1> QED BY <1>1, <1>2, <1>3, <1>4, CustodyFacts, KeptQuiet

\* It goes on beside its idle program.
LEMMA KeptAt ==
  ASSUME KeptInv, custody, Quiet, op.phase # "none", UNCHANGED linked, ~Busy(linked),
         NoAppYet' => dev[Panel].app = "none", Starting' => dev[Panel].app = "new"
  PROVE  Answered'
<1>1. linked'.steps = <<>> /\ Suits(linked', dev[Panel])
  BY SuitsOf DEF Busy
<1>2. linked'.steps # UpdateProgram
  BY <1>1 DEF UpdateProgram
<1> QED BY <1>1, <1>2, KeptQuiet

\* It sends a program in its phase.
LEMMA KeptSends ==
  ASSUME KeptInv, custody, Quiet, op.phase # "none", NEW steps, NEW pc, Sends(steps, pc),
         \A q : q.steps = steps => Suits(q, dev[Panel]),
         op.phase = "install" => steps # UpdateProgram /\ pc = "running",
         op.phase \in {"start", "launch"} => op.pc # "connect"
  PROVE  Answered'
<1>1. /\ linked'.steps = steps /\ linked'.answer = ""
      /\ op'.phase = op.phase /\ op'.pc = pc
  BY CustodyFacts DEF Sends, DeviceTypeOK
<1>2. NoAppYet' => NoAppYet
  BY <1>1 DEF NoAppYet
<1>3. Starting' => Starting
  BY <1>1 DEF Starting
<1> QED BY <1>1, <1>2, <1>3, CustodyFacts, KeptQuiet

LEMMA ConnectKeeps ==
  ASSUME KeptInv, custody, NotAdmitted \/ Proves \/ Cancel
  PROVE  Answered'
<1>1. DeviceTypeOK /\ Quiet /\ op.phase # "none" /\ ~Busy(linked) /\ op.pc = "connect"
  BY CustodyFacts, PhaseOf, IdleUnlessAwaiting DEF NotAdmitted, Proves, Cancel, Awaiting
<1>2. CASE NotAdmitted
  BY <1>1, <1>2, KeptQuietEnds DEF NotAdmitted
<1>3. CASE Cancel
  <2>1. NoAppYet /\ UNCHANGED linked /\ op'.phase = "cancelled"
    BY <1>1, <1>3 DEF Cancel, NoAppYet, At, DeviceTypeOK
  <2>2. ~Starting'
    BY <2>1 DEF Starting
  <2> QED BY <1>1, <2>1, <2>2, CustodyFacts, KeptAt
<1>4. CASE Proves /\ op.phase = "preflight"
  <2>1. UNCHANGED linked /\ address = Panel
    BY <1>4 DEF Proves, PinnedPanel
  <2>2. op'.phase = IF ExactBuild(dev[Panel]) THEN "installed" ELSE "stage"
    BY <1>1, <1>4, <2>1 DEF Proves, DeviceTypeOK
  <2>3. NoAppYet' => dev[Panel].app = "none"
    BY <2>2, CustodyFacts DEF NoAppYet, ExactBuild
  <2>4. ~Starting'
    BY <2>2 DEF Starting
  <2> QED BY <1>1, <2>1, <2>3, <2>4, KeptAt
<1>5. CASE Proves /\ op.phase # "preflight"
  <2>1. UNCHANGED linked /\ address = Panel
    BY <1>5 DEF Proves, PinnedPanel
  <2>2. op'.phase = op.phase /\ op'.pc = "proved"
    BY <1>1, <1>5 DEF Proves, DeviceTypeOK
  <2>3. NoAppYet' => NoAppYet
    BY <1>1, <2>2 DEF NoAppYet
  <2>4. Starting' => dev[Panel].app # "none"
    BY <1>5, <2>1, <2>2 DEF Starting, Proves, Admits
  <2> QED BY <1>1, <2>1, <2>3, <2>4, CustodyFacts, KeptAt
<1> QED BY <1>2, <1>3, <1>4, <1>5

LEMMA StageKeeps ==
  ASSUME KeptInv, custody,
         LooksAtSlot \/ SlotCleared \/ Verifies \/ NotArrived \/ Reconnects \/ StageCleared
  PROVE  Answered'
<1>1. DeviceTypeOK /\ Quiet /\ op.phase \in {"stage", "update"} /\ op.phase # "none"
  BY CustodyFacts, PhaseOf DEF LooksAtSlot, SlotCleared, Verifies, NotArrived, Reconnects,
                               StageCleared
<1>2. op.phase = "stage" => NoAppYet /\ dev[Panel].app = "none"
  BY CustodyFacts DEF NoAppYet
<1>3. \A told : Ends(told) => Answered'
  BY <1>1, KeptQuietEnds
<1>4. op.phase = "stage" => \A q : q.steps = CleanupProgram("stage") => Suits(q, dev[Panel])
  BY <1>2, SuitsOf DEF CleanupProgram
<1>5. ASSUME NEW phase, NEW pc, At(phase, pc), UNCHANGED linked, op.pc \notin Awaiting,
             \/ phase \in {"stage", "install"} /\ op.phase = "stage"
             \/ phase = "update"
      PROVE  Answered'
  <2>1. op'.phase = phase /\ ~Busy(linked)
    BY <1>1, <1>5, IdleUnlessAwaiting DEF At, DeviceTypeOK
  <2>2. NoAppYet' => dev[Panel].app = "none"
    BY <1>2, <1>5, <2>1 DEF NoAppYet
  <2>3. ~Starting'
    BY <1>5, <2>1 DEF Starting
  <2> QED BY <1>1, <1>5, <2>1, <2>2, <2>3, KeptAt
<1>6. CASE LooksAtSlot
  <2>1. CASE Sends(CleanupProgram("stage"), "clearing")
    BY <1>1, <1>4, <1>6, <2>1, KeptSends DEF LooksAtSlot
  <2>2. CASE At("stage", "push") /\ UNCHANGED linked
    BY <1>5, <1>6, <2>2 DEF LooksAtSlot, Awaiting
  <2> QED BY <1>6, <2>1, <2>2 DEF LooksAtSlot
<1>7. CASE SlotCleared
  <2>1. CASE Goes("stage", "push")
    BY <1>1, <1>2, <1>7, <2>1, PhaseOf, KeptGoes DEF SlotCleared
  <2> QED BY <1>3, <1>7, <2>1 DEF SlotCleared
<1>8. CASE Verifies
  BY <1>1, <1>5, <1>8 DEF Verifies, Awaiting
<1>9. CASE NotArrived
  <2>1. CASE At("stage", "reconnect") /\ UNCHANGED linked /\ ClearsSlot
    BY <1>5, <1>9, <2>1 DEF NotArrived, ClearsSlot, Awaiting
  <2>2. CASE Sends(<<"erase">>, "clearing again")
    <3>1. \A q : q.steps = <<"erase">> => Suits(q, dev[Panel])
      BY SuitsOf
    <3> QED BY <1>1, <2>2, <3>1, KeptSends
  <2> QED BY <1>9, <2>1, <2>2 DEF NotArrived
<1>10. CASE Reconnects /\ ~Ends(TRUE)
  <2>1. /\ linked'.steps = CleanupProgram("stage") /\ op'.phase = op.phase /\ op.phase = "stage"
    BY <1>1, <1>10, PhaseOf DEF Reconnects, NoProgram, DeviceTypeOK
  <2>2. Suits(linked', dev[Panel]) /\ dev[Panel].app = "none" /\ ~Starting'
    BY <1>2, <1>4, <2>1 DEF Starting
  <2> QED BY <1>1, <2>1, <2>2, KeptQuiet
<1>11. CASE StageCleared
  BY <1>3, <1>11 DEF StageCleared
<1> QED BY <1>3, <1>6, <1>7, <1>8, <1>9, <1>10, <1>11

LEMMA SendsKeeps ==
  ASSUME KeptInv, custody, SendsProgram
  PROVE  Answered'
<1>1. /\ DeviceTypeOK /\ Quiet /\ op.phase \notin {"none", "preflight", "stage"}
      /\ Sends(Program(op.phase), "running") /\ op.pc \in {"proved", "ready"}
  BY CustodyFacts, PhaseOf DEF SendsProgram
<1>2. CASE op.phase = "install"
  <2>1. NoAppYet /\ Program(op.phase) = InstallProgram
    BY <1>1, <1>2 DEF NoAppYet, Program
  <2>2. \A q : q.steps = InstallProgram => Suits(q, dev[Panel])
    BY <2>1, CustodyFacts, SuitsOf
  <2>3. InstallProgram # UpdateProgram
    BY DEF InstallProgram, UpdateProgram
  <2> QED BY <1>1, <1>2, <2>1, <2>2, <2>3, KeptSends
<1>3. CASE op.phase = "update"
  <2>1. \A q : q.steps = UpdateProgram => Suits(q, dev[Panel])
    BY SuitsOf
  <2> QED BY <1>1, <1>3, <2>1, KeptSends DEF Program
<1>4. CASE op.phase \in {"start", "launch"}
  <2>1. dev[Panel].app = "new"
    BY <1>1, <1>4, CustodyFacts DEF Starting
  <2>2. \A q : q.steps \in {TransferProgram, GrantProgram} => Suits(q, dev[Panel])
    BY <2>1, SuitsOf
  <2> QED BY <1>1, <1>4, <2>2, KeptSends DEF Program
<1>5. CASE op.phase = "installed"
  <2>1. \A q : q.steps = <<"remove">> => Suits(q, dev[Panel])
    BY SuitsOf
  <2> QED BY <1>1, <1>5, <2>1, KeptSends DEF Program, CleanupProgram
<1>6. CASE op.phase \in {"refused", "cancelled"}
  <2>1. dev[Panel].app = "none"
    BY <1>6, CustodyFacts DEF NoAppYet
  <2>2. \A q : q.steps = <<"discard", "remove">> => Suits(q, dev[Panel])
    BY <2>1, SuitsOf
  <2> QED BY <1>1, <1>6, <2>2, KeptSends DEF Program, CleanupProgram
<1> QED BY <1>1, <1>2, <1>3, <1>4, <1>5, <1>6 DEF DeviceTypeOK, Phases

LEMMA AnswerKeeps ==
  ASSUME KeptInv, custody,
         InstallAnswers \/ UpdateAnswers \/ UpdateErased \/ CleanupAnswers \/ StartAnswers
  PROVE  Answered'
<1>1. DeviceTypeOK /\ Quiet /\ op.phase # "none"
  BY CustodyFacts, PhaseOf DEF InstallAnswers, UpdateAnswers, UpdateErased, CleanupAnswers,
                               StartAnswers
<1>2. \A told : Ends(told) => Answered'
  BY <1>1, KeptQuietEnds
<1>3. \A phase \in {"installed", "start", "launch"} : Goes(phase, "connect") => Answered'
  BY <1>1, KeptGoes
<1>4. \A q : q.steps \in {<<"erase">>, LaunchProgram} => Suits(q, dev[Panel])
  BY SuitsOf
<1>5. CASE InstallAnswers
  <2>1. CASE Goes("refused", "connect") /\ linked.answer = "refused"
    <3>1. NoAppYet
      BY <1>5, <2>1 DEF InstallAnswers, NoAppYet
    <3> QED BY <1>1, <2>1, <3>1, KeptGoes
  <2> QED BY <1>2, <1>3, <1>5, <2>1 DEF InstallAnswers, Refused
<1>6. CASE UpdateAnswers
  <2>1. ASSUME NEW pc, Sends(<<"erase">>, pc) PROVE Answered'
    <3>1. op.phase = "update" /\ op.phase \notin {"install", "start", "launch"}
      BY <1>6 DEF UpdateAnswers
    <3>2. \A q : q.steps = <<"erase">> => Suits(q, dev[Panel])
      BY <1>4
    <3> QED BY <1>1, <2>1, <3>1, <3>2, KeptSends
  <2> QED BY <1>2, <1>6, <2>1 DEF UpdateAnswers
<1>7. CASE UpdateErased
  BY <1>2, <1>3, <1>7 DEF UpdateErased
<1>8. CASE CleanupAnswers
  BY <1>2, <1>3, <1>8 DEF CleanupAnswers
<1>9. CASE StartAnswers
  <2>1. op.phase \in {"start", "launch"} /\ op.pc # "connect"
    BY <1>9 DEF StartAnswers
  <2>2. dev[Panel].app = "new"
    BY <2>1, CustodyFacts DEF Starting
  <2>3. \A q : q.steps \in {GrantProgram, LaunchProgram} => Suits(q, dev[Panel])
    BY <2>2, SuitsOf
  <2>4. \A steps \in {GrantProgram, LaunchProgram} :
          \A pc : Sends(steps, pc) => Answered'
    BY <1>1, <2>1, <2>3, KeptSends
  <2> QED BY <1>2, <1>9, <2>4 DEF StartAnswers
<1> QED BY <1>5, <1>6, <1>7, <1>8, <1>9

LEMMA LosesKeeps ==
  ASSUME KeptInv, custody, Loses
  PROVE  Answered'
<1>1. /\ DeviceTypeOK /\ op.phase # "none" /\ UNCHANGED <<dev, custody>>
      /\ left' = left \/ (left' = linked /\ Busy(linked))
  BY CustodyFacts, PhaseOf DEF Loses
<1>2. CASE \E told : Ends(told)
  BY <1>1, <1>2, KeptEnds
<1>3. CASE (ClearsSlot \/ ClearsFile) /\ ~\E told : Ends(told)
  <2>1. ~Busy(linked) /\ left' = left
    BY <1>1, <1>3, IdleUnlessAwaiting DEF ClearsSlot, ClearsFile, Awaiting
  <2>2. CASE ClearsSlot /\ Goes("stage", "reconnect")
    <3>1. linked' = NoProgram /\ op'.phase = "stage" /\ ~Starting'
      BY <1>1, <2>2 DEF Goes, At, DeviceTypeOK, Starting
    <3>2. Suits(linked', dev[Panel]) /\ dev[Panel].app = "none"
      BY <2>2, <3>1, SuitsOf, CustodyFacts DEF NoProgram, NoAppYet, ClearsSlot
    <3> QED BY <1>1, <2>1, <3>1, <3>2, KeptMoves
  <2>3. CASE ClearsFile /\ Sends(<<"erase">>, "clearing again")
    <3>1. linked'.steps = <<"erase">> /\ op'.phase = "update" /\ ~Starting' /\ ~NoAppYet'
      BY <1>1, <2>3 DEF Sends, ClearsFile, DeviceTypeOK, Starting, NoAppYet
    <3>2. Suits(linked', dev[Panel])
      BY <3>1, SuitsOf
    <3> QED BY <1>1, <2>1, <3>1, <3>2, KeptMoves
  <2> QED BY <1>3, <2>2, <2>3 DEF Loses
<1> QED BY <1>2, <1>3 DEF Loses

LEMMA PanelKeeps ==
  ASSUME KeptInv, custody', Push \/ RendererChanges \/ StartJob("preflight") \/ StartJob("update")
  PROVE  Answered'
<1>1. custody /\ DeviceTypeOK /\ dev \in [Devices -> DeviceRecords] /\ Panel \in Devices
  BY CustodyFacts DEF Push, RendererChanges, StartJob, KeptInv, TellInv, DeviceTypeOK, Devices
<1>2. /\ Kept(dev[Panel]) /\ Suits(linked, dev[Panel]) /\ Suits(left, dev[Panel])
      /\ op.phase # "none" => ~Busy(left)
  BY <1>1 DEF KeptInv, Answered
<1>3. /\ dev'[Panel].app = dev[Panel].app /\ dev'[Panel].home = dev[Panel].home
      /\ dev'[Panel].note = dev[Panel].note /\ dev'[Panel].kept = dev[Panel].kept
  <2> DEFINE d == dev[Panel]
  <2>1. d \in DeviceRecords /\ op.on = Panel
    BY <1>1, CustodyFacts
  <2>2. CASE Push
    <3>1. \E file \in {"part", "whole"} :
            dev'[Panel] \in {[d EXCEPT !.slot = file], [d EXCEPT !.file = file]}
      BY <1>1, <2>1, <2>2 DEF Push, Receives
    <3> QED BY <2>1, <3>1 DEF DeviceRecords
  <2>3. CASE RendererChanges
    <3>1. \E renderer \in {"builtin", "retained", "restore"} :
            dev'[Panel] = [d EXCEPT !.renderer = renderer]
      BY <1>1, <2>3 DEF RendererChanges
    <3> QED BY <2>1, <3>1 DEF DeviceRecords
  <2>4. CASE StartJob("preflight") \/ StartJob("update")
    <3>1. dev'[Panel] = [d EXCEPT !.file = "absent"]
      BY <1>1, <2>4 DEF StartJob
    <3> QED BY <2>1, <3>1 DEF DeviceRecords
  <2> QED BY <2>2, <2>3, <2>4
<1>4. CASE Push
  <2>1. op.phase \in {"stage", "update"} /\ ~Busy(linked) /\ UNCHANGED <<linked, left, custody>>
    BY <1>1, <1>4, PhaseOf, IdleUnlessAwaiting DEF Push, Awaiting
  <2>2. op'.phase = op.phase /\ ~Starting'
    BY <1>1, <1>4, <2>1 DEF Push, At, DeviceTypeOK, Starting
  <2>3. NoAppYet' => dev[Panel].app = "none"
    BY <1>1, <2>1, <2>2, CustodyFacts DEF NoAppYet
  <2> QED BY <1>1, <1>2, <1>3, <2>1, <2>2, <2>3, KeptMoves
<1>5. CASE RendererChanges
  <2>1. UNCHANGED <<linked, left, op, custody>>
    BY <1>5 DEF RendererChanges
  <2>2. Kept(dev'[Panel]) /\ Suits(linked', dev'[Panel]) /\ Suits(left', dev'[Panel])
    BY <1>2, <1>3, <2>1 DEF Kept, Suits
  <2>3. (NoAppYet' => dev'[Panel].app = "none") /\ (Starting' => dev'[Panel].app = "new")
    BY <1>1, <1>3, <2>1, CustodyFacts DEF NoAppYet, Starting
  <2> QED BY <1>1, <1>2, <2>1, <2>2, <2>3, CustodyFacts DEF Answered, Busy
<1>6. CASE StartJob("preflight") \/ StartJob("update")
  <2>1. /\ op.phase = "none" /\ ~Busy(left) /\ UNCHANGED <<linked, left>>
        /\ op'.phase \in {"preflight", "update"} /\ op'.pc = "connect"
    BY <1>1, <1>6 DEF StartJob, At, DeviceTypeOK
  <2>2. Kept(dev'[Panel]) /\ Suits(linked', dev'[Panel]) /\ Suits(left', dev'[Panel])
    BY <1>2, <1>3, <2>1 DEF Kept, Suits
  <2>3. ~NoAppYet' /\ ~Starting'
    BY <2>1 DEF NoAppYet, Starting
  <2> QED BY <2>1, <2>2, <2>3 DEF Answered, Busy
<1> QED BY <1>4, <1>5, <1>6

LEMMA KeptInvKept == KeptInv /\ [DeviceNext]_deviceVars => KeptInv'
<1> SUFFICES ASSUME KeptInv, [DeviceNext]_deviceVars PROVE KeptInv'
  OBVIOUS
<1>1. TellInv'
  BY TellInvKept DEF KeptInv
<1>2. CASE UNCHANGED deviceVars \/ AddressMoves
  <2>1. UNCHANGED <<dev, linked, left, op, custody>>
    BY <1>2 DEF deviceVars, AddressMoves
  <2> QED BY <1>1, <2>1 DEF KeptInv, Answered, Suits, Busy, NoAppYet, Starting
<1>3. CASE Push \/ RendererChanges \/ StartJob("preflight") \/ StartJob("update")
  BY <1>1, <1>3, PanelKeeps DEF KeptInv, Answered
<1>4. CASE DeviceNext /\ ~AddressMoves /\ ~Push /\ ~RendererChanges
             /\ ~StartJob("preflight") /\ ~StartJob("update")
  <2>1. custody' = custody
    BY <1>4 DEF DeviceNext, LinkedSteps, LeftSteps, NotAdmitted, Proves, Cancel, LooksAtSlot,
       SlotCleared, Verifies, NotArrived, Reconnects, StageCleared, SendsProgram, InstallAnswers,
       UpdateAnswers, UpdateErased, CleanupAnswers, StartAnswers, Loses, Quiet
  <2>2. custody => Answered'
    BY <1>4, LinkedKeeps, LeftKeeps, ConnectKeeps, StageKeeps, SendsKeeps, AnswerKeeps,
       LosesKeeps DEF DeviceNext
  <2> QED BY <1>1, <2>1, <2>2 DEF KeptInv, Answered
<1> QED BY <1>2, <1>3, <1>4

LEMMA KeptInvInit == DeviceInit => KeptInv
<1> SUFFICES ASSUME DeviceInit PROVE KeptInv
  OBVIOUS
<1>1. left = NoProgram /\ linked = NoProgram /\ op = NoOperation
  BY DEF DeviceInit
<1>2. custody => dev[Panel] = DeviceState(Launcher, "none")
  BY DEF DeviceInit, Devices
<1>3. Kept(DeviceState(Launcher, "none")) /\ \A d : Suits(NoProgram, d)
  BY SuitsOf DEF Kept, DeviceState, NoProgram
<1>4. ~NoAppYet /\ ~Starting /\ op.phase = "none"
  BY <1>1 DEF NoAppYet, Starting, NoOperation
<1> QED BY <1>1, <1>2, <1>3, <1>4, TellInvInit DEF KeptInv, Answered

\* While the app is HOME on a panel that came without it, and no job began while
\* another's program still ran, the HOME it had is in the app's own record or
\* still in the slot's, through refused, broken-off and repeated installs.
THEOREM HomeIsKept == DeviceSpec => []PreviousHomeIsKept
<1>1. KeptInv => PreviousHomeIsKept
  BY HomeAssumption DEF KeptInv, Answered, Kept, PreviousHomeIsKept
<1> QED BY <1>1, KeptInvInit, KeptInvKept, PTL DEF DeviceSpec

-----------------------------------------------------------------------------
(***************************************************************************)
(* The setup flow.  What the flow remembers, what its step knows and what  *)
(* it shows agree: first their shape, for any number of dialogs, then what *)
(* the press of the question binds, while one dialog is open.              *)
(***************************************************************************)
Forms == [step : FormSteps, shown : Optional(Offered)]

AddSteps ==
  [pc : StepPcs, host : Optional(Hosts), at : Optional(Addresses), custom : BOOLEAN,
   seen : Optional(Units), plan : Optional(Offered), shown : Optional(Offered)]

InstallsOf ==
  [plan : Offered, pinned : Addresses, phase : {"running", "healthy", "ended", "consumed"}]

Waiters == [at : Addresses, done : BOOLEAN, probe : Optional(Probes)]

\* Where a step knows which host it is about, and which address.
Hosted == {"pin", "active", "health", "probe", "new_setup", "reprove", "inspect", "verify",
           "owner_setup"}
Sited == {"active", "offer", "reprove", "inspect", "create"}

\* What a step has found out by the time it waits where it does.
StepKnows(r) ==
  /\ r \in AddSteps
  /\ r.pc \in Hosted => r.host \in Hosts
  /\ r.pc \in Sited => r.at \in Addresses
  /\ r.pc = "inspect" => r.seen \in Units
  /\ r.pc = "create" => r.plan \in Offered

WorldOK ==
  /\ site \in [Addresses -> Optional(Units)] /\ unit \in [Units -> UnitStates]
  /\ resolves \in [Hosts -> SUBSET Addresses]
  /\ changes \in 0..MaxChanges

FlowOK ==
  /\ install \in [Hosts -> Optional(InstallsOf)]
  /\ pending \in Pending
  /\ pending.job # Blank => install[pending.job] \in InstallsOf
  /\ form \in Forms

AddTyped ==
  /\ WorldOK
  /\ entryAt \in [Units -> Optional(Hosts)]
  /\ FlowOK
  /\ listed # Blank => listed \subseteq Optional(Releases)
  /\ waiter # Blank => waiter \in Waiters
  /\ run \in [Dialogs -> AddSteps]
  /\ \A d \in Dialogs :
       /\ StepKnows(run[d])
       /\ run[d].pc \in {"verify", "owner_setup"} => install[run[d].host] \in InstallsOf

LEMMA TypedIsTypeOK == AddTyped => AddTypeOK
BY DEF AddTyped, WorldOK, FlowOK, AddTypeOK, Forms, Waiters, AddSteps, InstallsOf, Optional

\* Where a step of a dialog leads.
GoesTo(d, r) == run' = [run EXCEPT ![d] = r]

LEMMA ShowsWithGoes ==
  ASSUME AddTyped, NEW d \in Dialogs, NEW s \in FormSteps, NEW o \in Optional(Offered),
         ShowsWith(d, s, o)
  PROVE  /\ GoesTo(d, NoStep) /\ form' \in Forms
         /\ form' = [step |-> s, shown |-> o] \/ (form' = form /\ form.step = "ended")
BY DEF AddTyped, FlowOK, Forms, ShowsWith, GoesTo

LEMMA ShowsGoes ==
  ASSUME AddTyped, NEW d \in Dialogs, NEW s \in FormSteps, Shows(d, s)
  PROVE  /\ GoesTo(d, NoStep) /\ form' \in Forms
         /\ form' = [step |-> s, shown |-> Blank] \/ (form' = form /\ form.step = "ended")
BY ShowsWithGoes DEF Shows, Optional

LEMMA AwaitsGoes ==
  ASSUME AddTyped, NEW d \in Dialogs, NEW pc, Awaits(d, pc)
  PROVE  GoesTo(d, [run[d] EXCEPT !.pc = pc]) /\ form' = form
BY DEF AddTyped, Awaits, GoesTo

LEMMA AwaitsAtGoes ==
  ASSUME AddTyped, NEW d \in Dialogs, NEW pc, NEW a, AwaitsAt(d, pc, a)
  PROVE  GoesTo(d, [run[d] EXCEPT !.pc = pc, !.at = a]) /\ form' = form
BY DEF AddTyped, AwaitsAt, GoesTo

\* The question over what the flow remembers, or the dialog breaks.
Question(p) ==
  [at |-> p.address, unit |-> p.probe.unit, release |-> p.release, warned |-> Warns(p)]

LEMMA PreviewGoes ==
  ASSUME AddTyped, NEW d \in Dialogs, NEW p \in Pending, ShowsPreview(d, p)
  PROVE  /\ GoesTo(d, NoStep) /\ form' \in Forms
         /\ \/ form' = form
            \/ /\ form' = [step |-> "confirm", shown |-> Question(p)]
               /\ Blank \notin {p.address, p.probe, p.release}
<1>1. CASE Blank \in {p.address, p.probe, p.release}
  BY <1>1 DEF ShowsPreview, Breaks, GoesTo, AddTyped, FlowOK
<1>2. CASE Blank \notin {p.address, p.probe, p.release}
  <2>1. ShowsWith(d, "confirm", Question(p))
    BY <1>2 DEF ShowsPreview, Question
  <2>2. p.address \in Hosts /\ p.probe \in Probes /\ p.release \in Releases
    BY <1>2 DEF Pending, Optional
  <2>3. Question(p) \in Offered
    BY <2>2 DEF Question, Offered, Probes, Warns
  <2> QED BY <1>2, <2>1, <2>3, ShowsWithGoes DEF FormSteps, Optional
<1> QED BY <1>1, <1>2

LEMMA NothingKnown ==
  StepKnows(NoStep) /\ NoStep.pc = "idle"
BY DEF StepKnows, NoStep, AddSteps, StepPcs, Optional, Hosted, Sited

\* One dialog went on, and no install was forgotten.
LEMMA GoesKeeps ==
  ASSUME AddTyped, NEW d \in Dialogs, NEW r, GoesTo(d, r), StepKnows(r),
         r.pc \in {"verify", "owner_setup"} => install'[r.host] \in InstallsOf,
         \A x : install[x] \in InstallsOf => install'[x] \in InstallsOf
  PROVE  /\ run' \in [Dialogs -> AddSteps]
         /\ \A e \in Dialogs :
              /\ StepKnows(run'[e])
              /\ run'[e].pc \in {"verify", "owner_setup"} => install'[run'[e].host] \in InstallsOf
BY DEF AddTyped, GoesTo, StepKnows

LEMMA EntryHolderTyped ==
  ASSUME NEW x
  PROVE  EntryHolder(x) \in Optional(Units)
BY DEF EntryHolder, AddressIsConfigured, Optional

LEMMA HealthTyped ==
  ASSUME WorldOK, NEW a \in Optional(Addresses)
  PROVE  /\ PanelAt(a) \in Optional(Units)
         /\ Health(a) \subseteq Optional(Units)
BY DEF WorldOK, Health, PanelAt, Optional

LEMMA ReachedTyped ==
  ASSUME WorldOK, NEW x \in Hosts, NEW t \in Optional(Targets)
  PROVE  ReachedAt(t, x) \subseteq Optional(Addresses)
BY DEF WorldOK, ReachedAt, Targets, Optional

LEMMA ProbeTyped ==
  ASSUME WorldOK, NEW a \in Optional(Addresses), NEW signed \in BOOLEAN,
         NEW state \in Classified(a, signed), state \in Proved
  PROVE  a \in Addresses /\ ProbeAt(a, state) \in Probes
<1>1. PanelAt(a) # Blank
  BY DEF Classified, Proved
<1>2. a \in Addresses
  BY <1>1 DEF PanelAt, Optional
<1>3. site[a] \in Units
  BY <1>1, <1>2 DEF PanelAt, WorldOK, Optional
<1> QED BY <1>2, <1>3 DEF ProbeAt, Probes


\* What a step leaves behind, apart from where the dialogs are.
Well ==
  /\ UNCHANGED world
  /\ entryAt' \in [Units -> Optional(Hosts)]
  /\ install' \in [Hosts -> Optional(InstallsOf)]
  /\ \A x : install[x] \in InstallsOf => install'[x] \in InstallsOf
  /\ pending' \in Pending
  /\ pending'.job # Blank => install'[pending'.job] \in InstallsOf
  /\ listed' # Blank => listed' \subseteq Optional(Releases)
  /\ waiter' # Blank => waiter' \in Waiters

LEMMA PendingIsWell ==
  ASSUME AddTyped, UNCHANGED <<world, entryAt, install, listed, waiter>>,
         pending' \in Pending, pending'.job \in {Blank, pending.job}
  PROVE  Well
BY DEF AddTyped, FlowOK, Well

LEMMA SameIsWell ==
  ASSUME AddTyped, UNCHANGED <<world, entryAt, install, pending, listed, waiter>>
  PROVE  Well
BY DEF AddTyped, FlowOK, Well

LEMMA EntryIsWell ==
  ASSUME AddTyped, UNCHANGED <<world, install, listed, waiter>>,
         entryAt' \in [Units -> Optional(Hosts)],
         pending' \in Pending, pending'.job \in {Blank, pending.job}
  PROVE  Well
BY DEF AddTyped, FlowOK, Well

LEMMA StepTyped ==
  ASSUME AddTyped, Well, form' \in Forms, NEW d \in Dialogs, NEW r, GoesTo(d, r), StepKnows(r),
         r.pc \in {"verify", "owner_setup"} => install'[r.host] \in InstallsOf
  PROVE  AddTyped'
BY GoesKeeps DEF AddTyped, WorldOK, FlowOK, world, Well

LEMMA ShowsTyped ==
  ASSUME AddTyped, Well, NEW d \in Dialogs, NEW s \in FormSteps, Shows(d, s)
  PROVE  AddTyped'
BY ShowsGoes, NothingKnown, StepTyped

LEMMA BreaksTyped ==
  ASSUME AddTyped, Well, NEW d \in Dialogs, Breaks(d)
  PROVE  AddTyped'
BY NothingKnown, StepTyped DEF Breaks, GoesTo, AddTyped, FlowOK

LEMMA PreviewTyped ==
  ASSUME AddTyped, Well, NEW d \in Dialogs, NEW p \in Pending, ShowsPreview(d, p)
  PROVE  AddTyped'
BY PreviewGoes, NothingKnown, StepTyped

LEMMA AwaitsAtTyped ==
  ASSUME AddTyped, Well, NEW d \in Dialogs,
         NEW pc \in StepPcs \ {"verify", "owner_setup", "inspect", "create"},
         NEW a \in Optional(Addresses), AwaitsAt(d, pc, a),
         pc \in Hosted => run[d].host \in Hosts,
         pc \in Sited => a \in Addresses
  PROVE  AddTyped'
<1> DEFINE r == [run[d] EXCEPT !.pc = pc, !.at = a]
<1>1. run[d] \in AddSteps
  BY DEF AddTyped
<1>2. StepKnows(r) /\ r.pc = pc
  BY <1>1 DEF StepKnows, AddSteps
<1> QED BY <1>2, AwaitsAtGoes, StepTyped DEF AddTyped, FlowOK

LEMMA AwaitsTyped ==
  ASSUME AddTyped, Well, NEW d \in Dialogs,
         NEW pc \in StepPcs \ {"inspect", "create"}, Awaits(d, pc),
         pc \in Hosted => run[d].host \in Hosts,
         pc \in Sited => run[d].at \in Addresses,
         pc \in {"verify", "owner_setup"} => install'[run[d].host] \in InstallsOf
  PROVE  AddTyped'
<1> DEFINE r == [run[d] EXCEPT !.pc = pc]
<1>1. run[d] \in AddSteps
  BY DEF AddTyped
<1>2. StepKnows(r) /\ r.pc = pc /\ r.host = run[d].host
  BY <1>1 DEF StepKnows, AddSteps
<1> QED BY <1>2, AwaitsGoes, StepTyped DEF AddTyped, FlowOK

\* Where a step is, it knows what it needs.
LEMMA KnowsHost ==
  ASSUME AddTyped, NEW d \in Dialogs, run[d].pc \in Hosted
  PROVE  run[d].host \in Hosts
BY DEF AddTyped, StepKnows

LEMMA KnowsSite ==
  ASSUME AddTyped, NEW d \in Dialogs
  PROVE  /\ run[d].at \in Optional(Addresses) /\ run[d].seen \in Optional(Units)
         /\ run[d].pc \in Sited => run[d].at \in Addresses
BY DEF AddTyped, StepKnows, AddSteps

LEMMA Remembered ==
  ASSUME AddTyped
  PROVE  /\ WorldOK /\ pending \in Pending
         /\ pending.address # Blank => pending.address \in Hosts
         /\ pending.target # Blank => pending.target \in Targets
         /\ pending.target \in Optional(Targets)
         /\ pending.target # Blank => pending.target.pinned \in Addresses
BY DEF AddTyped, FlowOK, Pending, Optional, Targets

LEMMA Blanks ==
  ASSUME NEW S
  PROVE  Blank \in Optional(S) /\ S \subseteq Optional(S)
BY DEF Optional

LEMMA SubmitAddressTyped ==
  ASSUME AddTyped, NEW d \in Dialogs, NEW x \in Hosts, NEW custom \in BOOLEAN,
         SubmitAddress(d, x, custom)
  PROVE  AddTyped'
<1> DEFINE r == [NoStep EXCEPT !.pc = "pin", !.host = x, !.custom = custom]
<1>1. StepKnows(r) /\ r.pc = "pin"
  BY NothingKnown DEF StepKnows, NoStep, AddSteps, StepPcs, Optional, Hosted, Sited
<1>2. pending' \in Pending /\ pending'.job = Blank
  BY EntryHolderTyped DEF SubmitAddress, NothingPending, Pending, Optional
<1>3. Well
  BY <1>2, PendingIsWell DEF SubmitAddress
<1> QED BY <1>1, <1>3, StepTyped DEF SubmitAddress, GoesTo, AddTyped, FlowOK

LEMMA ShowAddressFormTyped ==
  ASSUME AddTyped, NEW d \in Dialogs, ShowAddressForm(d)
  PROVE  AddTyped'
<1>1. pending' \in Pending /\ pending'.job = Blank
  BY DEF ShowAddressForm, NothingPending, Pending, Optional
<1>2. Well
  BY <1>1, PendingIsWell DEF ShowAddressForm
<1> QED BY <1>2, ShowsTyped DEF ShowAddressForm, FormSteps

LEMMA PinTyped ==
  ASSUME AddTyped, NEW d \in Dialogs, Pin(d)
  PROVE  AddTyped'
<1> DEFINE x == run[d].host
<1>1. x \in Hosts
  BY KnowsHost DEF Pin, InStep, Hosted
<1>2. ASSUME NEW t \in Pinned(x),
             pending' = [pending EXCEPT !.address = x, !.target = t],
             AwaitsAt(d, "active", t.pinned)
      PROVE  AddTyped'
  <2>1. t \in Targets /\ t.pinned \in Addresses
    BY <1>1 DEF Pinned, Targets, AddTyped, WorldOK
  <2>2. pending' \in Pending /\ pending'.job = pending.job
    BY <1>1, <1>2, <2>1, Remembered DEF Pending, Optional
  <2>3. Well
    BY <2>2, PendingIsWell DEF Pin
  <2> QED BY <1>1, <1>2, <2>1, <2>3, AwaitsAtTyped DEF StepPcs, Optional
<1>3. ASSUME NEW a \in ReachedAt(Blank, x),
             pending' = [pending EXCEPT !.address = x, !.target = Blank],
             AwaitsAt(d, "health", a)
      PROVE  AddTyped'
  <2>1. a \in Optional(Addresses)
    BY <1>1, ReachedTyped DEF AddTyped, Optional
  <2>2. pending' \in Pending /\ pending'.job = pending.job
    BY <1>1, <1>3, <2>1, Remembered DEF Pending, Optional
  <2>3. Well
    BY <2>2, PendingIsWell DEF Pin
  <2> QED BY <1>1, <1>3, <2>1, <2>3, AwaitsAtTyped DEF StepPcs, Sited
<1>4. CASE Shows(d, "add_panel") /\ UNCHANGED pending
  <2>1. Well
    BY <1>4, SameIsWell DEF Pin
  <2> QED BY <1>4, <2>1, ShowsTyped DEF FormSteps
<1> QED BY <1>2, <1>3, <1>4 DEF Pin

LEMMA FindActiveTyped ==
  ASSUME AddTyped, NEW d \in Dialogs, FindActive(d)
  PROVE  AddTyped'
<1> DEFINE x == run[d].host
<1>1. x \in Hosts
  BY KnowsHost DEF FindActive, InStep, Hosted
<1>2. CASE UNCHANGED pending
  <2>1. Well
    BY <1>2, SameIsWell DEF FindActive
  <2>2. CASE Shows(d, "add_panel")
    BY <2>1, <2>2, ShowsTyped DEF FormSteps
  <2>3. CASE Awaits(d, "health")
    BY <1>1, <2>1, <2>3, AwaitsTyped DEF StepPcs, Sited
  <2>4. CASE Awaits(d, "receipt")
    BY <2>1, <2>4, AwaitsTyped DEF StepPcs, Sited, Hosted
  <2>5. CASE Shows(d, "progress") \/ Shows(d, "ended")
    BY <2>1, <2>5, ShowsTyped DEF FormSteps
  <2> QED BY <2>2, <2>3, <2>4, <2>5 DEF FindActive
<1>3. CASE IsJobOf(x, run[d].at) /\ pending' = [pending EXCEPT !.job = x]
  <2>1. install[x] \in InstallsOf
    BY <1>1, <1>3 DEF IsJobOf, IsAtWork, AddTyped, FlowOK, Optional
  <2>2. pending' \in Pending /\ pending'.job = x
    BY <1>1, <1>3, Remembered DEF Pending, Optional
  <2>3. Well
    BY <2>1, <2>2 DEF FindActive, Well, AddTyped, FlowOK
  <2>4. CASE Awaits(d, "receipt")
    BY <2>3, <2>4, AwaitsTyped DEF StepPcs, Sited, Hosted
  <2>5. CASE Shows(d, "progress") \/ Shows(d, "ended")
    BY <2>3, <2>5, ShowsTyped DEF FormSteps
  <2>6. Awaits(d, "receipt") \/ Shows(d, "progress") \/ Shows(d, "ended") \/ UNCHANGED pending
    BY DEF FindActive
  <2> QED BY <1>2, <2>4, <2>5, <2>6
<1> QED BY <1>2, <1>3 DEF FindActive

\* The steps that several actions end in.
LEMMA ToPanelEntryTyped ==
  ASSUME AddTyped, NEW d \in Dialogs, NEW x \in Hosts, NEW u \in Units,
         ToPanelEntry(d, x, u), UNCHANGED <<world, install, listed, waiter>>,
         pending' \in Pending, pending'.job \in {Blank, pending.job}
  PROVE  AddTyped'
<1>1. entryAt' \in [Units -> Optional(Hosts)]
  BY DEF ToPanelEntry, AddTyped, Optional
<1>2. Well
  BY <1>1, EntryIsWell
<1>3. CASE Shows(d, "ended")
  BY <1>2, <1>3, ShowsTyped DEF FormSteps
<1>4. CASE /\ run' = [run EXCEPT ![d].pc = "new_setup", ![d].host = x, ![d].seen = u]
           /\ UNCHANGED form
  <2> DEFINE r == [run[d] EXCEPT !.pc = "new_setup", !.host = x, !.seen = u]
  <2>1. run[d] \in AddSteps
    BY DEF AddTyped
  <2>2. StepKnows(r) /\ r.pc = "new_setup"
    BY <2>1 DEF StepKnows, AddSteps, StepPcs, Optional, Sited
  <2>3. GoesTo(d, r)
    BY <1>4 DEF GoesTo, AddTyped
  <2> QED BY <1>2, <1>4, <2>2, <2>3, StepTyped DEF AddTyped, FlowOK
<1> QED BY <1>3, <1>4 DEF ToPanelEntry

LEMMA ToFoundPanelTyped ==
  ASSUME AddTyped, NEW d \in Dialogs, NEW x \in Hosts, NEW u \in Units, NEW asked,
         ToFoundPanel(d, x, u, asked), UNCHANGED <<world, install, listed, waiter>>,
         pending' \in Pending, pending'.job \in {Blank, pending.job}
  PROVE  AddTyped'
<1>1. CASE ToPanelEntry(d, x, u)
  BY <1>1, ToPanelEntryTyped
<1>2. CASE Awaits(d, "setup_state") /\ UNCHANGED entryAt
  <2>1. Well
    BY <1>2, PendingIsWell
  <2> QED BY <1>2, <2>1, AwaitsTyped DEF StepPcs, Sited, Hosted
<1> QED BY <1>1, <1>2 DEF ToFoundPanel

LEMMA ConnectsTyped ==
  ASSUME AddTyped, NEW d \in Dialogs, Connects(d), Well
  PROVE  AddTyped'
<1>1. CASE Shows(d, "ended") \/ Shows(d, "add_panel")
  BY <1>1, ShowsTyped DEF FormSteps
<1>2. ASSUME pending.address # Blank, NEW a \in ReachedAt(pending.target, pending.address),
             AwaitsAt(d, "reread", a)
      PROVE  AddTyped'
  <2>1. a \in Optional(Addresses)
    BY <1>2, Remembered, ReachedTyped
  <2> QED BY <1>2, <2>1, AwaitsAtTyped DEF StepPcs, Sited, Hosted
<1> QED BY <1>1, <1>2 DEF Connects

LEMMA ReadHealthTyped ==
  ASSUME AddTyped, NEW d \in Dialogs, ReadHealth(d)
  PROVE  AddTyped'
<1> DEFINE x == run[d].host
<1>1. x \in Hosts
  BY KnowsHost DEF ReadHealth, InStep, Hosted
<1>2. PICK u \in Health(run[d].at) :
        IF u # Blank
        THEN IF AddressIsConfigured(x)
             THEN ToPanelEntry(d, x, u) /\ UNCHANGED pending
             ELSE /\ pending' = [pending EXCEPT !.health = u]
                  /\ ToFoundPanel(d, x, u, pending.job)
        ELSE /\ UNCHANGED <<pending, entryAt>>
             /\ \/ Shows(d, "add_panel")
                \/ ~run[d].custom /\ Awaits(d, "probe")
  BY DEF ReadHealth
<1>3. u \in Optional(Units)
  BY HealthTyped, KnowsSite, Remembered
<1>4. CASE u # Blank
  <2>1. u \in Units
    BY <1>3, <1>4 DEF Optional
  <2>2. pending' \in Pending /\ pending'.job = pending.job
    BY <1>2, <1>4, <2>1, Remembered DEF Pending, Optional
  <2> QED BY <1>1, <1>2, <1>4, <2>1, <2>2, ToPanelEntryTyped, ToFoundPanelTyped DEF ReadHealth
<1>5. CASE u = Blank
  <2>1. Well
    BY <1>2, <1>5, SameIsWell DEF ReadHealth
  <2>2. CASE Shows(d, "add_panel")
    BY <2>1, <2>2, ShowsTyped DEF FormSteps
  <2>3. CASE Awaits(d, "probe")
    BY <1>1, <2>1, <2>3, AwaitsTyped DEF StepPcs, Sited
  <2> QED BY <1>2, <1>5, <2>2, <2>3
<1> QED BY <1>4, <1>5

LEMMA ReadSetupStateTyped ==
  ASSUME AddTyped, NEW d \in Dialogs, ReadSetupState(d)
  PROVE  AddTyped'
<1>1. Well
  BY SameIsWell DEF ReadSetupState
<1> QED BY <1>1, BreaksTyped, ShowsTyped DEF ReadSetupState, FormSteps

LEMMA ShowFoundAgainTyped ==
  ASSUME AddTyped, NEW d \in Dialogs, ShowFoundAgain(d)
  PROVE  AddTyped'
<1>1. CASE pending.address = Blank \/ pending.health = Blank
  <2>1. pending' = NothingPending
    BY <1>1 DEF ShowFoundAgain
  <2>2. pending' \in Pending /\ pending'.job = Blank
    BY <2>1 DEF NothingPending, Pending, Optional
  <2>3. Well
    BY <1>1, <2>2, PendingIsWell DEF ShowFoundAgain
  <2> QED BY <1>1, <2>3, ShowsTyped DEF ShowFoundAgain, FormSteps
<1>2. CASE ~(pending.address = Blank \/ pending.health = Blank)
  <2>1. pending.address \in Hosts /\ pending.health \in Units
    BY <1>2, Remembered DEF Pending, Optional
  <2> QED BY <1>2, <2>1, Remembered, ToFoundPanelTyped DEF ShowFoundAgain
<1> QED BY <1>1, <1>2

LEMMA ConnectFoundTyped ==
  ASSUME AddTyped, NEW d \in Dialogs, ConnectFound(d)
  PROVE  AddTyped'
<1>1. Well
  BY SameIsWell DEF ConnectFound
<1> QED BY <1>1, ConnectsTyped DEF ConnectFound

LEMMA RereadHealthTyped ==
  ASSUME AddTyped, NEW d \in Dialogs, RereadHealth(d)
  PROVE  AddTyped'
<1>1. PICK u \in Health(run[d].at) :
        \/ u = Blank /\ Shows(d, "add_panel") /\ UNCHANGED entryAt
        \/ /\ u # Blank
           /\ IF pending.address = Blank THEN Breaks(d) /\ UNCHANGED entryAt
              ELSE ToPanelEntry(d, pending.address, u)
  BY DEF RereadHealth
<1>2. u \in Optional(Units)
  BY HealthTyped, KnowsSite, Remembered
<1>3. CASE UNCHANGED entryAt /\ (Shows(d, "add_panel") \/ Breaks(d))
  <2>1. Well
    BY <1>3, SameIsWell DEF RereadHealth
  <2> QED BY <1>3, <2>1, ShowsTyped, BreaksTyped DEF FormSteps
<1>4. CASE u # Blank /\ pending.address # Blank /\ ToPanelEntry(d, pending.address, u)
  <2>1. u \in Units /\ pending.address \in Hosts
    BY <1>2, <1>4, Remembered DEF Optional
  <2> QED BY <1>4, <2>1, Remembered, ToPanelEntryTyped DEF RereadHealth
<1> QED BY <1>1, <1>3, <1>4

LEMMA CreatePanelEntryTyped ==
  ASSUME AddTyped, NEW d \in Dialogs, CreatePanelEntry(d)
  PROVE  AddTyped'
<1> DEFINE x == run[d].host
<1>1. x \in Hosts /\ run[d].seen \in Optional(Units)
  BY KnowsHost, KnowsSite DEF CreatePanelEntry, InStep, Hosted
<1>2. CASE /\ entryAt' = [entryAt EXCEPT ![run[d].seen] = x]
           /\ Shows(d, "ended") /\ UNCHANGED pending
  <2>1. entryAt' \in [Units -> Optional(Hosts)]
    BY <1>1, <1>2 DEF AddTyped, Optional
  <2>2. Well
    BY <1>2, <2>1, Remembered, EntryIsWell DEF CreatePanelEntry
  <2> QED BY <1>2, <2>2, ShowsTyped DEF FormSteps
<1>3. CASE /\ pending' = [pending EXCEPT !.address = x, !.health = run[d].seen]
           /\ Shows(d, "panel_setup") /\ UNCHANGED entryAt
  <2>1. pending' \in Pending /\ pending'.job = pending.job
    BY <1>1, <1>3, Remembered DEF Pending, Optional
  <2>2. Well
    BY <1>3, <2>1, PendingIsWell DEF CreatePanelEntry
  <2> QED BY <1>3, <2>2, ShowsTyped DEF FormSteps
<1> QED BY <1>2, <1>3 DEF CreatePanelEntry

LEMMA OpenSetupTyped ==
  ASSUME AddTyped, NEW d \in Dialogs, OpenSetup(d)
  PROVE  AddTyped'
<1>1. Well
  BY SameIsWell DEF OpenSetup
<1> QED BY <1>1, ShowsTyped DEF OpenSetup, FormSteps

LEMMA SubmitSetupTyped ==
  ASSUME AddTyped, NEW d \in Dialogs, SubmitSetup(d)
  PROVE  AddTyped'
<1>1. Well
  BY SameIsWell DEF SubmitSetup
<1>2. CASE Shows(d, "ended")
  BY <1>1, <1>2, ShowsTyped DEF FormSteps
<1>3. ASSUME pending.address # Blank, NEW a \in ReachedAt(pending.target, pending.address),
             AwaitsAt(d, "setup_done", a)
      PROVE  AddTyped'
  <2>1. a \in Optional(Addresses)
    BY <1>3, Remembered, ReachedTyped
  <2> QED BY <1>1, <1>3, <2>1, AwaitsAtTyped DEF StepPcs, Sited, Hosted
<1> QED BY <1>2, <1>3 DEF SubmitSetup

LEMMA ReadSetupDoneTyped ==
  ASSUME AddTyped, NEW d \in Dialogs, ReadSetupDone(d)
  PROVE  AddTyped'
<1>1. Well
  BY SameIsWell DEF ReadSetupDone
<1>2. CASE Shows(d, "panel_setup")
  BY <1>1, <1>2, ShowsTyped DEF FormSteps
<1>3. CASE Awaits(d, "receipt")
  BY <1>1, <1>3, AwaitsTyped DEF StepPcs, Sited, Hosted
<1>4. CASE Connects(d)
  BY <1>1, <1>4, ConnectsTyped
<1> QED BY <1>2, <1>3, <1>4 DEF ReadSetupDone

LEMMA OffersVersionsTyped ==
  ASSUME AddTyped, NEW d \in Dialogs, OffersVersions(d),
         UNCHANGED <<world, entryAt, install, waiter>>,
         pending' \in Pending, pending'.job \in {Blank, pending.job}
  PROVE  AddTyped'
<1>1. listed' # Blank => listed' \subseteq Optional(Releases)
  BY DEF OffersVersions, Choices, AddTyped, Optional
<1>2. Well
  BY <1>1 DEF Well, AddTyped, FlowOK
<1>3. CASE Awaits(d, "resolve")
  BY <1>2, <1>3, AwaitsTyped DEF StepPcs, Sited, Hosted
<1>4. CASE Shows(d, "choose_version")
  BY <1>2, <1>4, ShowsTyped DEF FormSteps
<1> QED BY <1>3, <1>4 DEF OffersVersions

LEMMA FirstProbeTyped ==
  ASSUME AddTyped, NEW d \in Dialogs, FirstProbe(d)
  PROVE  AddTyped'
<1> DEFINE a == run[d].at
           P(state) == [pending EXCEPT
                          !.probe = IF state \in Proved THEN ProbeAt(a, state) ELSE Blank,
                          !.probe_state = state, !.tag = Blank]
<1>1. ASSUME NEW state \in Classified(a, FALSE), state \in Proved \cup {"adb_unauthorized"},
             pending' = P(state),
             (Shows(d, "ended") /\ UNCHANGED listed) \/ OffersVersions(d)
      PROVE  AddTyped'
  <2> DEFINE probe == IF state \in Proved THEN ProbeAt(a, state) ELSE Blank
  <2>1. state \in Proved => ProbeAt(a, state) \in Probes
    BY KnowsSite, Remembered, ProbeTyped
  <2>2. probe \in Optional(Probes) /\ state \in Optional(Proved \cup {"adb_unauthorized"})
    BY <1>1, <2>1 DEF Optional
  <2> HIDE DEF probe
  <2>3. /\ [pending EXCEPT !.probe = probe, !.probe_state = state, !.tag = Blank] \in Pending
        /\ [pending EXCEPT !.probe = probe, !.probe_state = state, !.tag = Blank].job
             = pending.job
    BY <2>2, Blanks, Remembered DEF Pending
  <2>4. P(state) \in Pending /\ P(state).job = pending.job
    BY <2>3 DEF probe
  <2>5. CASE Shows(d, "ended") /\ UNCHANGED listed
    <3>1. Well
      BY <1>1, <2>4, <2>5, PendingIsWell DEF FirstProbe
    <3> QED BY <2>5, <3>1, ShowsTyped DEF FormSteps
  <2>6. CASE OffersVersions(d)
    BY <1>1, <2>4, <2>6, OffersVersionsTyped DEF FirstProbe
  <2> QED BY <1>1, <2>5, <2>6
<1>2. CASE UNCHANGED <<pending, listed>> /\ (Shows(d, "ended") \/ Shows(d, "add_panel"))
  <2>1. Well
    BY <1>2, SameIsWell DEF FirstProbe
  <2> QED BY <1>2, <2>1, ShowsTyped DEF FormSteps
<1>3. PICK state \in Classified(a, FALSE) :
        \/ /\ state \in Proved \cup {"adb_unauthorized"} /\ pending' = P(state)
           /\ (Shows(d, "ended") /\ UNCHANGED listed) \/ OffersVersions(d)
        \/ UNCHANGED <<pending, listed>> /\ (Shows(d, "ended") \/ Shows(d, "add_panel"))
  BY DEF FirstProbe
<1> QED BY <1>1, <1>2, <1>3

LEMMA SubmitVersionTyped ==
  ASSUME AddTyped, NEW d \in Dialogs, NEW tag \in Optional(Releases), SubmitVersion(d, tag)
  PROVE  AddTyped'
<1>1. CASE Shows(d, "ended") /\ UNCHANGED <<pending, listed>>
  <2>1. Well
    BY <1>1, SameIsWell DEF SubmitVersion
  <2> QED BY <1>1, <2>1, ShowsTyped DEF FormSteps
<1>2. CASE OffersVersions(d) /\ pending' = [pending EXCEPT !.tag = Blank]
  <2>1. pending' \in Pending /\ pending'.job = pending.job
    BY <1>2, Remembered DEF Pending, Optional
  <2> QED BY <1>2, <2>1, OffersVersionsTyped DEF SubmitVersion
<1>3. CASE /\ UNCHANGED listed /\ pending' = [pending EXCEPT !.tag = tag]
           /\ Awaits(d, "resolve")
  <2>1. pending' \in Pending /\ pending'.job = pending.job
    BY <1>3, Remembered DEF Pending, Optional
  <2>2. Well
    BY <1>3, <2>1, PendingIsWell DEF SubmitVersion
  <2> QED BY <1>3, <2>2, AwaitsTyped DEF StepPcs, Sited, Hosted
<1> QED BY <1>1, <1>2, <1>3 DEF SubmitVersion

LEMMA AsksAdbTyped ==
  ASSUME AddTyped, NEW d \in Dialogs, AsksAdb(d), Well, pending.target # Blank
  PROVE  AddTyped'
<1>1. CASE AwaitsAt(d, "offer", pending.target.pinned)
  BY <1>1, Remembered, AwaitsAtTyped DEF StepPcs, Hosted, Optional
<1>2. CASE Shows(d, "authorize")
  BY <1>2, ShowsTyped DEF FormSteps
<1> QED BY <1>1, <1>2 DEF AsksAdb

LEMMA ResolveReleaseTyped ==
  ASSUME AddTyped, NEW d \in Dialogs, ResolveRelease(d)
  PROVE  AddTyped'
<1>1. CASE Shows(d, "choose_version") /\ UNCHANGED pending
  <2>1. Well
    BY <1>1, SameIsWell DEF ResolveRelease
  <2> QED BY <1>1, <2>1, ShowsTyped DEF FormSteps
<1>2. ASSUME NEW r \in ResolvedBy(pending.tag), NEW described \in BOOLEAN
      PROVE  LET resolved == [pending EXCEPT !.release = r, !.described = described] IN
             /\ pending' = resolved
             /\ CASE ~described -> Shows(d, "preview_only")
                  [] described /\ pending.probe_state = "adb_unauthorized" ->
                       IF pending.target = Blank THEN Breaks(d) ELSE AsksAdb(d)
                  [] described /\ pending.probe_state # "adb_unauthorized" ->
                       ShowsPreview(d, resolved)
             => AddTyped'
  <2> DEFINE resolved == [pending EXCEPT !.release = r, !.described = described]
  <2> SUFFICES ASSUME pending' = resolved,
                      \/ Shows(d, "preview_only")
                      \/ IF pending.target = Blank THEN Breaks(d) ELSE AsksAdb(d)
                      \/ ShowsPreview(d, resolved)
               PROVE  AddTyped'
    OBVIOUS
  <2>1. r \in Releases
    BY Remembered DEF ResolvedBy, Pending, Optional
  <2>2. resolved \in Pending /\ resolved.job = pending.job
    BY <2>1, Blanks, Remembered DEF Pending
  <2>3. Well
    BY <2>2, PendingIsWell DEF ResolveRelease
  <2>4. CASE Shows(d, "preview_only")
    BY <2>3, <2>4, ShowsTyped DEF FormSteps
  <2>5. CASE IF pending.target = Blank THEN Breaks(d) ELSE AsksAdb(d)
    BY <2>3, <2>5, BreaksTyped, AsksAdbTyped
  <2>6. CASE ShowsPreview(d, resolved)
    BY <2>2, <2>3, <2>6, PreviewTyped
  <2> QED BY <2>4, <2>5, <2>6
<1> QED BY <1>1, <1>2 DEF ResolveRelease

LEMMA SubmitPreviewOnlyTyped ==
  ASSUME AddTyped, NEW d \in Dialogs, SubmitPreviewOnly(d)
  PROVE  AddTyped'
<1>1. pending' \in Pending /\ pending'.job = pending.job
  BY Remembered DEF SubmitPreviewOnly, Pending, Optional
<1>2. Well
  BY <1>1, PendingIsWell DEF SubmitPreviewOnly
<1> QED BY <1>2, ShowsTyped DEF SubmitPreviewOnly, FormSteps

LEMMA SubmitAuthorizeTyped ==
  ASSUME AddTyped, NEW d \in Dialogs, SubmitAuthorize(d)
  PROVE  AddTyped'
<1>1. Well
  BY SameIsWell DEF SubmitAuthorize
<1>2. CASE Shows(d, "ended") \/ Shows(d, "authorizing")
  BY <1>1, <1>2, ShowsTyped DEF FormSteps
<1>3. CASE MayAuthorize /\ AsksAdb(d)
  BY <1>1, <1>3, AsksAdbTyped DEF MayAuthorize
<1> QED BY <1>2, <1>3 DEF SubmitAuthorize

LEMMA AuthorizeAdbTyped ==
  ASSUME AddTyped, NEW d \in Dialogs, AuthorizeAdb(d)
  PROVE  AddTyped'
<1> DEFINE a == run[d].at
<1>0. a \in Addresses
  BY KnowsSite DEF AuthorizeAdb, InStep, Sited
<1>1. CASE Shows(d, "authorize") /\ UNCHANGED <<pending, listed, waiter>>
  <2>1. Well
    BY <1>1, SameIsWell DEF AuthorizeAdb
  <2> QED BY <1>1, <2>1, ShowsTyped DEF FormSteps
<1>2. ASSUME NEW state \in Classified(a, TRUE), state \in Proved,
             pending' = Accepted(a, state), ShowsPreview(d, Accepted(a, state)),
             UNCHANGED waiter
      PROVE  AddTyped'
  <2>1. ProbeAt(a, state) \in Probes
    BY <1>0, <1>2, Remembered, ProbeTyped DEF Optional
  <2>2. Accepted(a, state) \in Pending /\ Accepted(a, state).job = pending.job
    BY <1>2, <2>1, Remembered DEF Accepted, Pending, Optional
  <2>3. Well
    BY <1>2, <2>2, PendingIsWell DEF AuthorizeAdb
  <2> QED BY <1>2, <2>2, <2>3, PreviewTyped
<1>3. CASE /\ waiter' = [at |-> a, done |-> FALSE, probe |-> Blank]
           /\ Shows(d, "authorizing") /\ UNCHANGED pending
  <2>1. waiter' \in Waiters
    BY <1>0, <1>3 DEF Waiters, Optional
  <2>2. Well
    BY <1>3, <2>1 DEF AuthorizeAdb, Well, AddTyped, FlowOK
  <2> QED BY <1>3, <2>2, ShowsTyped DEF FormSteps
<1> QED BY <1>1, <1>2, <1>3 DEF AuthorizeAdb

LEMMA WaitForAllowTyped ==
  ASSUME AddTyped, WaitForAllow
  PROVE  AddTyped'
<1>1. PICK state \in Classified(waiter.at, TRUE) :
        waiter' = [waiter EXCEPT !.done = TRUE,
                     !.probe = IF state \in Proved THEN ProbeAt(waiter.at, state) ELSE Blank]
  BY DEF WaitForAllow
<1>2. waiter \in Waiters
  BY DEF AddTyped, WaitForAllow
<1>3. state \in Proved => ProbeAt(waiter.at, state) \in Probes
  BY <1>2, Remembered, ProbeTyped DEF Waiters, Optional
<1>4. waiter' \in Waiters
  BY <1>1, <1>2, <1>3 DEF Waiters, Optional
<1> QED BY <1>4 DEF WaitForAllow, AddTyped, WorldOK, FlowOK, world

LEMMA EndWaitTyped ==
  ASSUME AddTyped, NEW d \in Dialogs, EndWait(d)
  PROVE  AddTyped'
<1> DEFINE p == IF waiter.probe = Blank THEN pending
                ELSE [pending EXCEPT !.probe = waiter.probe, !.probe_state = waiter.probe.state]
<1>1. CASE Shows(d, "ended") /\ UNCHANGED <<pending, listed, waiter>>
  <2>1. Well
    BY <1>1, SameIsWell DEF EndWait
  <2> QED BY <1>1, <2>1, ShowsTyped DEF FormSteps
<1>2. CASE waiter' = Blank /\ pending' = p /\ AfterWait(d, p)
  <2>1. waiter.probe \in Optional(Probes)
    BY DEF EndWait, AddTyped, Waiters
  <2>2. p \in Pending /\ p.job = pending.job
    <3>1. CASE waiter.probe = Blank
      BY <3>1, Remembered
    <3>2. CASE waiter.probe # Blank
      <4>1. waiter.probe.state \in Optional(Proved \cup {"adb_unauthorized"})
        BY <2>1, <3>2 DEF Probes, Optional
      <4> QED BY <2>1, <3>2, <4>1, Remembered DEF Pending
    <3> QED BY <3>1, <3>2
  <2>3. Well
    BY <1>2, <2>2 DEF EndWait, Well, AddTyped, FlowOK
  <2>4. CASE Shows(d, "authorize")
    BY <2>3, <2>4, ShowsTyped DEF FormSteps
  <2>5. CASE ShowsPreview(d, p)
    BY <2>2, <2>3, <2>5, PreviewTyped
  <2> QED BY <1>2, <2>4, <2>5 DEF AfterWait
<1> QED BY <1>1, <1>2 DEF EndWait

LEMMA PressInstallTyped ==
  ASSUME AddTyped, NEW d \in Dialogs, PressInstall(d)
  PROVE  AddTyped'
<1>1. Well
  BY SameIsWell DEF PressInstall
<1>2. CASE Shows(d, "ended") \/ Shows(d, "preview_only")
  BY <1>1, <1>2, ShowsTyped DEF FormSteps
<1>3. CASE ShowsPreview(d, pending)
  BY <1>1, <1>3, Remembered, PreviewTyped
<1>4. CASE /\ ReadyToInstall
           /\ run' = [run EXCEPT ![d].pc = "reprove", ![d].shown = form.shown,
                                 ![d].host = pending.target.host,
                                 ![d].at = pending.target.pinned]
           /\ UNCHANGED form
  <2> DEFINE r == [run[d] EXCEPT !.pc = "reprove", !.shown = form.shown,
                                 !.host = pending.target.host, !.at = pending.target.pinned]
  <2>1. pending.target \in Targets
    BY <1>4, Remembered DEF ReadyToInstall
  <2>2. run[d] \in AddSteps /\ form \in Forms
    BY DEF AddTyped, FlowOK
  <2>3. StepKnows(r) /\ r.pc = "reprove"
    BY <2>1, <2>2 DEF StepKnows, AddSteps, Forms, Targets, StepPcs, Optional
  <2>4. GoesTo(d, r)
    BY <1>4 DEF GoesTo, AddTyped
  <2> QED BY <1>1, <1>4, <2>2, <2>3, <2>4, StepTyped
<1> QED BY <1>2, <1>3, <1>4 DEF PressInstall

LEMMA BindsPlanTyped ==
  ASSUME AddTyped, NEW d \in Dialogs, NEW u \in Units, BindsPlan(d, u), Well,
         run[d].pc \in {"reprove", "inspect"}
  PROVE  AddTyped'
<1>1. CASE ShowsPreview(d, pending)
  BY <1>1, Remembered, PreviewTyped
<1>2. CASE PlanFits /\ run' = [run EXCEPT ![d].pc = "create", ![d].plan = BuiltPlan(d, u)]
           /\ UNCHANGED form
  <2> DEFINE r == [run[d] EXCEPT !.pc = "create", !.plan = BuiltPlan(d, u)]
  <2>1. pending.release \in Releases
    BY <1>2, Remembered DEF PlanFits, Pending, Optional
  <2>2. run[d] \in AddSteps /\ run[d].host \in Hosts /\ run[d].at \in Addresses
    BY KnowsHost, KnowsSite DEF AddTyped, Hosted, Sited
  <2>3. BuiltPlan(d, u) \in Offered
    BY <2>1, <2>2 DEF BuiltPlan, Offered, Warns
  <2>4. StepKnows(r) /\ r.pc = "create"
    BY <2>2, <2>3 DEF StepKnows, AddSteps, StepPcs, Optional, Hosted
  <2>5. GoesTo(d, r)
    BY <1>2 DEF GoesTo, AddTyped
  <2> QED BY <1>2, <2>4, <2>5, StepTyped DEF AddTyped, FlowOK
<1> QED BY <1>1, <1>2 DEF BindsPlan

\* What the probe finds again is a panel that was shown.
LEMMA SameIsKnown ==
  ASSUME AddTyped, NEW a, NEW state, pending.probe # Blank,
         SameInstallTarget(pending.probe, ProbeAt(a, state))
  PROVE  /\ ProbeAt(a, state).unit = pending.probe.unit
         /\ ProbeAt(a, state).unit \in Units
BY Remembered DEF SameInstallTarget, Pending, Probes, Optional

LEMMA ReproveTyped ==
  ASSUME AddTyped, NEW d \in Dialogs, Reprove(d)
  PROVE  AddTyped'
<1>1. Well
  BY SameIsWell DEF Reprove
<1>2. CASE ShowsPreview(d, pending)
  BY <1>1, <1>2, Remembered, PreviewTyped
<1>3. CASE Breaks(d)
  BY <1>1, <1>3, BreaksTyped
<1>4. ASSUME NEW state, pending.probe # Blank,
             SameInstallTarget(pending.probe, ProbeAt(run[d].at, state)),
             run' = [run EXCEPT ![d].pc = "inspect", ![d].seen = ProbeAt(run[d].at, state).unit],
             UNCHANGED form
      PROVE  AddTyped'
  <2> DEFINE u == ProbeAt(run[d].at, state).unit
             r == [run[d] EXCEPT !.pc = "inspect", !.seen = u]
  <2>1. u \in Units
    BY <1>4, SameIsKnown
  <2> HIDE DEF u
  <2>2. run[d] \in AddSteps /\ run[d].host \in Hosts /\ run[d].at \in Addresses
    BY KnowsHost, KnowsSite DEF Reprove, InStep, AddTyped, Hosted, Sited
  <2>3. StepKnows(r) /\ r.pc = "inspect"
    BY <2>1, <2>2 DEF StepKnows, AddSteps, StepPcs, Optional
  <2>4. GoesTo(d, r)
    BY <1>4 DEF GoesTo, AddTyped, u
  <2> QED BY <1>1, <1>4, <2>3, <2>4, StepTyped DEF AddTyped, FlowOK
<1>5. ASSUME NEW state, pending.probe # Blank,
             SameInstallTarget(pending.probe, ProbeAt(run[d].at, state)),
             BindsPlan(d, ProbeAt(run[d].at, state).unit)
      PROVE  AddTyped'
  <2>1. ProbeAt(run[d].at, state).unit \in Units
    BY <1>5, SameIsKnown
  <2> QED BY <1>1, <1>5, <2>1, BindsPlanTyped DEF Reprove, InStep
<1> QED BY <1>2, <1>3, <1>4, <1>5 DEF Reprove

LEMMA InspectTyped ==
  ASSUME AddTyped, NEW d \in Dialogs, Inspect(d)
  PROVE  AddTyped'
<1>1. Well
  BY SameIsWell DEF Inspect
<1>2. CASE ShowsPreview(d, pending)
  BY <1>1, <1>2, Remembered, PreviewTyped
<1>3. CASE BindsPlan(d, run[d].seen)
  <2>1. run[d].pc = "inspect" /\ run[d].seen \in Units
    BY DEF Inspect, InStep, AddTyped, StepKnows
  <2> QED BY <1>1, <1>3, <2>1, BindsPlanTyped
<1> QED BY <1>2, <1>3 DEF Inspect

LEMMA CreateOrJoinTyped ==
  ASSUME AddTyped, NEW d \in Dialogs, CreateOrJoin(d)
  PROVE  AddTyped'
<1> DEFINE plan == run[d].plan
<1>1. plan \in Offered /\ plan.at \in Hosts /\ run[d].at \in Addresses
  <2>1. plan \in Offered
    BY DEF CreateOrJoin, InStep, AddTyped, StepKnows
  <2> QED BY <2>1, KnowsSite DEF CreateOrJoin, InStep, Sited, Offered
<1>2. CASE ShowsPreview(d, pending) /\ UNCHANGED <<install, pending>>
  <2>1. Well
    BY <1>2, SameIsWell DEF CreateOrJoin
  <2> QED BY <1>2, <2>1, Remembered, PreviewTyped
<1>3. CASE /\ install' = IF IsAtWork(plan.at) THEN install
                         ELSE [install EXCEPT ![plan.at] =
                                 [plan |-> plan, pinned |-> run[d].at, phase |-> "running"]]
           /\ pending' = [pending EXCEPT !.job = plan.at]
           /\ Shows(d, "progress") \/ Shows(d, "ended")
  <2> DEFINE asked == [plan |-> plan, pinned |-> run[d].at, phase |-> "running"]
  <2>1. asked \in InstallsOf
    BY <1>1 DEF InstallsOf
  <2> HIDE DEF asked
  <2>2. /\ install' \in [Hosts -> Optional(InstallsOf)] /\ install'[plan.at] \in InstallsOf
        /\ \A x : install[x] \in InstallsOf => install'[x] \in InstallsOf
    <3>1. CASE IsAtWork(plan.at)
      BY <1>1, <1>3, <3>1 DEF IsAtWork, AddTyped, FlowOK, Optional
    <3>2. CASE ~IsAtWork(plan.at)
      <4>1. install' = [install EXCEPT ![plan.at] = asked]
        BY <1>3, <3>2 DEF asked
      <4> QED BY <1>1, <2>1, <4>1 DEF AddTyped, FlowOK, Optional
    <3> QED BY <3>1, <3>2
  <2>3. pending' \in Pending /\ pending'.job = plan.at
    BY <1>1, <1>3, Remembered DEF Pending, Optional
  <2>4. Well
    BY <2>2, <2>3 DEF CreateOrJoin, Well, AddTyped
  <2> QED BY <1>3, <2>4, ShowsTyped DEF FormSteps
<1> QED BY <1>2, <1>3 DEF CreateOrJoin

LEMMA ToInstallResultTyped ==
  ASSUME AddTyped, NEW d \in Dialogs, ToInstallResult(d)
  PROVE  AddTyped'
<1>1. Well
  BY SameIsWell DEF ToInstallResult
<1>2. CASE Shows(d, "ended")
  BY <1>1, <1>2, ShowsTyped DEF FormSteps
<1>3. CASE Awaits(d, "receipt")
  BY <1>1, <1>3, AwaitsTyped DEF StepPcs, Sited, Hosted
<1> QED BY <1>2, <1>3 DEF ToInstallResult

LEMMA ReadReceiptTyped ==
  ASSUME AddTyped, NEW d \in Dialogs, ReadReceipt(d)
  PROVE  AddTyped'
<1>1. Well
  BY SameIsWell DEF ReadReceipt
<1>2. CASE Shows(d, "ended") \/ Shows(d, "progress")
  BY <1>1, <1>2, ShowsTyped DEF FormSteps
<1>3. CASE /\ pending.job # Blank
           /\ run' = [run EXCEPT ![d].pc = "verify", ![d].host = pending.job,
                                 ![d].seen = EntryHolder(pending.job)]
           /\ UNCHANGED form
  <2> DEFINE r == [run[d] EXCEPT !.pc = "verify", !.host = pending.job,
                                 !.seen = EntryHolder(pending.job)]
  <2>1. pending.job \in Hosts /\ install[pending.job] \in InstallsOf
    BY <1>3, Remembered DEF AddTyped, FlowOK, Pending, Optional
  <2>2. run[d] \in AddSteps
    BY DEF AddTyped
  <2>3. StepKnows(r) /\ r.host = pending.job
    BY <2>1, <2>2, EntryHolderTyped DEF StepKnows, AddSteps, StepPcs, Optional, Sited
  <2>4. GoesTo(d, r)
    BY <1>3 DEF GoesTo, AddTyped
  <2> QED BY <1>1, <1>3, <2>1, <2>3, <2>4, StepTyped DEF AddTyped, FlowOK, ReadReceipt
<1>4. pending.job # Blank => install[pending.job] \in InstallsOf
  BY DEF AddTyped, FlowOK
<1> QED BY <1>2, <1>3, <1>4 DEF ReadReceipt, InstallsOf

LEMMA FinalizeTyped ==
  ASSUME AddTyped, NEW d \in Dialogs, Finalize(d)
  PROVE  AddTyped'
<1> DEFINE x == run[d].host
           u == install[x].plan.unit
<1>1. x \in Hosts /\ install[x] \in InstallsOf
  BY KnowsHost DEF Finalize, InStep, Hosted, AddTyped
<1>2. u \in Units
  BY <1>1 DEF InstallsOf, Offered
<1>3. CASE (Shows(d, "result") \/ Shows(d, "ended")) /\ UNCHANGED <<install, pending>>
  <2>1. Well
    BY <1>3, SameIsWell DEF Finalize
  <2> QED BY <1>3, <2>1, ShowsTyped DEF FormSteps
<1>4. CASE /\ pending' = [pending EXCEPT !.address = x, !.health = u]
           /\ Awaits(d, "owner_setup") /\ UNCHANGED install
  <2>1. pending' \in Pending /\ pending'.job = pending.job
    BY <1>1, <1>2, <1>4, Remembered DEF Pending, Optional
  <2>2. Well
    BY <1>4, <2>1, PendingIsWell DEF Finalize
  <2> QED BY <1>1, <1>4, <2>2, AwaitsTyped DEF StepPcs, Sited
<1>5. CASE /\ install' = [install EXCEPT ![x].phase = "consumed"]
           /\ pending' = [pending EXCEPT !.reinstall = u, !.address = x, !.health = u]
           /\ Shows(d, "panel_setup")
  <2>1. pending' \in Pending /\ pending'.job = pending.job
    BY <1>1, <1>2, <1>5, Remembered DEF Pending, Optional
  <2>2. [install[x] EXCEPT !.phase = "consumed"] \in InstallsOf
    BY <1>1 DEF InstallsOf
  <2>3. install' = [install EXCEPT ![x] = [install[x] EXCEPT !.phase = "consumed"]]
    BY <1>1, <1>5 DEF AddTyped, FlowOK
  <2>4. /\ install' \in [Hosts -> Optional(InstallsOf)]
        /\ \A y : install[y] \in InstallsOf => install'[y] \in InstallsOf
    BY <1>1, <2>2, <2>3 DEF AddTyped, FlowOK, Optional
  <2>5. Well
    BY <2>1, <2>4 DEF Finalize, Well, AddTyped, FlowOK
  <2> QED BY <1>5, <2>5, ShowsTyped DEF FormSteps
<1> QED BY <1>3, <1>4, <1>5 DEF Finalize

LEMMA FinishInstallTyped ==
  ASSUME AddTyped, NEW d \in Dialogs, FinishInstall(d)
  PROVE  AddTyped'
<1> DEFINE x == run[d].host
<1>1. x \in Hosts /\ install[x] \in InstallsOf
  BY KnowsHost DEF FinishInstall, InStep, Hosted, AddTyped
<1>2. CASE Shows(d, "panel_setup") /\ UNCHANGED <<entryAt, install>>
  <2>1. Well
    BY <1>2, SameIsWell DEF FinishInstall
  <2> QED BY <1>2, <2>1, ShowsTyped DEF FormSteps
<1>3. CASE /\ entryAt' = [entryAt EXCEPT ![install[x].plan.unit] = x]
           /\ install' = [install EXCEPT ![x].phase = "consumed"]
           /\ Shows(d, "ended")
  <2>1. [install[x] EXCEPT !.phase = "consumed"] \in InstallsOf
    BY <1>1 DEF InstallsOf
  <2>2. install' = [install EXCEPT ![x] = [install[x] EXCEPT !.phase = "consumed"]]
    BY <1>1, <1>3 DEF AddTyped, FlowOK
  <2>3. /\ install' \in [Hosts -> Optional(InstallsOf)]
        /\ \A y : install[y] \in InstallsOf => install'[y] \in InstallsOf
    BY <1>1, <2>1, <2>2 DEF AddTyped, FlowOK, Optional
  <2>4. entryAt' \in [Units -> Optional(Hosts)]
    BY <1>1, <1>3 DEF AddTyped, Optional
  <2>5. Well
    BY <2>3, <2>4 DEF FinishInstall, Well, AddTyped, FlowOK
  <2> QED BY <1>3, <2>5, ShowsTyped DEF FormSteps
<1> QED BY <1>2, <1>3 DEF FinishInstall

\* The world goes on beneath the dialogs.
LEMMA WorldChangesTyped ==
  ASSUME AddTyped, WorldChanges
  PROVE  AddTyped'
<1> DEFINE OthersKept == UNCHANGED <<install, pending, form, listed, waiter, run>>
<1>1. SUFFICES WorldOK' /\ entryAt' \in [Units -> Optional(Hosts)]
  BY DEF WorldChanges, AddTyped, FlowOK
<1>2. changes' \in 0..MaxChanges
  BY ChangesBounded DEF WorldChanges, AddTyped, WorldOK
<1>3. ASSUME NEW u \in Units, NEW a \in Addresses, UnitMoves(u, a)
      PROVE  WorldOK' /\ entryAt' = entryAt
  BY <1>2, <1>3 DEF UnitMoves, AddTyped, WorldOK, Optional
<1>4. ASSUME NEW u \in Units, UnitChanges(u)
      PROVE  WorldOK' /\ entryAt' = entryAt
  <2>1. unit' \in [Units -> UnitStates]
    <3>1. unit[u] \in UnitStates
      BY DEF AddTyped, WorldOK
    <3>2. CASE \E app \in Apps \ {unit[u].app} :
                 unit' = [unit EXCEPT ![u].app = app, ![u].ready = FALSE]
      <4>1. PICK app \in Apps : unit' = [unit EXCEPT ![u].app = app, ![u].ready = FALSE]
        BY <3>2
      <4>2. unit' = [unit EXCEPT ![u] = [unit[u] EXCEPT !.app = app, !.ready = FALSE]]
        BY <3>1, <4>1 DEF AddTyped, WorldOK, UnitStates
      <4>3. [unit[u] EXCEPT !.app = app, !.ready = FALSE] \in UnitStates
        BY <3>1 DEF UnitStates
      <4> QED BY <4>2, <4>3 DEF AddTyped, WorldOK
    <3>3. CASE unit' = [unit EXCEPT ![u].adb = "trusts"]
      BY <3>1, <3>3 DEF AddTyped, WorldOK, UnitStates
    <3>4. CASE unit' = [unit EXCEPT ![u].ready = TRUE]
      BY <3>1, <3>4 DEF AddTyped, WorldOK, UnitStates
    <3> QED BY <1>4, <3>2, <3>3, <3>4 DEF UnitChanges
  <2> QED BY <1>2, <1>4, <2>1 DEF UnitChanges, AddTyped, WorldOK
<1>5. ASSUME NEW u \in Units, NEW x \in Optional(Hosts), EntryChanges(u, x)
      PROVE  WorldOK' /\ entryAt' \in [Units -> Optional(Hosts)]
  BY <1>2, <1>5 DEF EntryChanges, AddTyped, WorldOK
<1>6. ASSUME NEW x \in Hosts, NEW as \in SUBSET Addresses, NameChanges(x, as)
      PROVE  WorldOK' /\ entryAt' = entryAt
  BY <1>2, <1>6 DEF NameChanges, AddTyped, WorldOK
<1> QED BY <1>3, <1>4, <1>5, <1>6 DEF WorldChanges, AddTyped

LEMMA InstallGoesOnTyped ==
  ASSUME AddTyped, NEW x \in Hosts, InstallGoesOn(x)
  PROVE  AddTyped'
<1>1. install[x] \in InstallsOf
  BY DEF InstallGoesOn, IsAtWork, AddTyped, FlowOK, Optional
<1>2. PICK phase \in {"ended", "consumed", "healthy"} :
        install' = [install EXCEPT ![x] = [install[x] EXCEPT !.phase = phase]]
  BY DEF InstallGoesOn, AddTyped, FlowOK
<1>3. [install[x] EXCEPT !.phase = phase] \in InstallsOf
  BY <1>1 DEF InstallsOf
<1>4. /\ install' \in [Hosts -> Optional(InstallsOf)]
      /\ \A y : install[y] \in InstallsOf => install'[y] \in InstallsOf
  BY <1>2, <1>3 DEF AddTyped, FlowOK, Optional
<1>5. unit' \in [Units -> UnitStates]
  <2>1. CASE UNCHANGED unit
    BY <2>1 DEF AddTyped, WorldOK
  <2>2. CASE unit' = [unit EXCEPT ![install[x].plan.unit].app = "running"]
    <3>1. install[x].plan.unit \in Units
      BY <1>1 DEF InstallsOf, Offered
    <3> QED BY <2>2, <3>1 DEF AddTyped, WorldOK, UnitStates, Apps
  <2> QED BY <2>1, <2>2 DEF InstallGoesOn
<1>6. WorldOK'
  BY <1>5 DEF InstallGoesOn, AddTyped, WorldOK
<1> QED BY <1>4, <1>6 DEF InstallGoesOn, AddTyped, FlowOK

LEMMA AddInitTyped == AddInit => AddTyped
<1> SUFFICES ASSUME AddInit PROVE AddTyped
  OBVIOUS
<1>1. WorldOK
  BY ChangesBounded DEF AddInit, WorldOK
<1>2. NothingPending \in Pending /\ NothingPending.job = Blank
  BY DEF NothingPending, Pending, Optional
<1>3. form \in Forms
  BY DEF AddInit, Forms, FormSteps, Optional
<1>4. FlowOK
  BY <1>2, <1>3 DEF AddInit, FlowOK, Optional
<1>5. run \in [Dialogs -> AddSteps] /\ \A d \in Dialogs : run[d] = NoStep
  BY NothingKnown DEF AddInit, StepKnows
<1> QED BY <1>1, <1>4, <1>5, NothingKnown DEF AddInit, AddTyped

LEMMA AddStepTyped == AddTyped /\ [AddNext]_addVars => AddTyped'
<1> SUFFICES ASSUME AddTyped, [AddNext]_addVars PROVE AddTyped'
  OBVIOUS
<1>1. ASSUME NEW d \in Dialogs, NEW x \in Hosts, NEW custom \in BOOLEAN,
             SubmitAddress(d, x, custom)
      PROVE  AddTyped'
  BY <1>1, SubmitAddressTyped
<1>2. ASSUME NEW d \in Dialogs, NEW tag \in Optional(Releases), SubmitVersion(d, tag)
      PROVE  AddTyped'
  BY <1>2, SubmitVersionTyped
<1>3. ASSUME NEW d \in Dialogs,
             \/ ShowAddressForm(d) \/ Pin(d) \/ FindActive(d) \/ ReadHealth(d)
             \/ ReadSetupState(d) \/ ShowFoundAgain(d) \/ ConnectFound(d) \/ RereadHealth(d)
             \/ CreatePanelEntry(d) \/ OpenSetup(d) \/ SubmitSetup(d) \/ ReadSetupDone(d)
      PROVE  AddTyped'
  BY <1>3, ShowAddressFormTyped, PinTyped, FindActiveTyped, ReadHealthTyped,
     ReadSetupStateTyped, ShowFoundAgainTyped, ConnectFoundTyped, RereadHealthTyped,
     CreatePanelEntryTyped, OpenSetupTyped, SubmitSetupTyped, ReadSetupDoneTyped
<1>4. ASSUME NEW d \in Dialogs,
             \/ FirstProbe(d) \/ ResolveRelease(d) \/ SubmitPreviewOnly(d)
             \/ SubmitAuthorize(d) \/ AuthorizeAdb(d) \/ EndWait(d) \/ PressInstall(d)
             \/ Reprove(d) \/ Inspect(d) \/ CreateOrJoin(d) \/ ToInstallResult(d)
             \/ ReadReceipt(d) \/ Finalize(d) \/ FinishInstall(d)
      PROVE  AddTyped'
  BY <1>4, FirstProbeTyped, ResolveReleaseTyped, SubmitPreviewOnlyTyped,
     SubmitAuthorizeTyped, AuthorizeAdbTyped, EndWaitTyped, PressInstallTyped, ReproveTyped,
     InspectTyped, CreateOrJoinTyped, ToInstallResultTyped, ReadReceiptTyped, FinalizeTyped,
     FinishInstallTyped
<1>5. CASE WaitForAllow \/ WorldChanges
  BY <1>5, WaitForAllowTyped, WorldChangesTyped
<1>6. ASSUME NEW x \in Hosts, InstallGoesOn(x)
      PROVE  AddTyped'
  BY <1>6, InstallGoesOnTyped
<1>7. CASE UNCHANGED addVars
  BY <1>7 DEF addVars, world, AddTyped, WorldOK, FlowOK
<1> QED BY <1>1, <1>2, <1>3, <1>4, <1>5, <1>6, <1>7 DEF AddNext

\* Shape of the flow's state: a step awaits only with what it needs, and a job
\* the flow remembers, or verifies, is one that was asked for.
THEOREM AddFlowTyped == AddSpec => []AddTypeOK
BY AddInitTyped, AddStepTyped, TypedIsTypeOK, PTL DEF AddSpec

(***************************************************************************)
(* What is approved, for any number of dialogs.  Two steps of a flow may   *)
(* run at once (closes_when_done counts them), and then a release that     *)
(* resolves late, or a form that starts over, may replace what the question*)
(* of the other one shows.  That is the only way: as long as whatever a    *)
(* step awaits leaves the flow's memory and its form to it, the plan is    *)
(* what was shown.                                                         *)
(***************************************************************************)
\* While a step awaits, no other step changes what the flow remembers and shows.
Undisturbed ==
  \A d \in Dialogs : run[d].pc # "idle" /\ run'[d] = run[d] => UNCHANGED <<pending, form>>

\* What the flow remembers is about one host.
Linked ==
  /\ pending.target # Blank => pending.target.host = pending.address
  /\ pending.job # Blank => pending.job = pending.address

\* From the press of the question until the job is asked for.
Pressed == {"reprove", "inspect", "create"}

\* Where a step's host is the flow's own.
AtAddress == {"active", "health", "probe", "new_setup", "verify", "reprove", "inspect"}

Fits(d) ==
  /\ form.step = "confirm" =>
       run[d].pc \in Pressed \cup {"idle"} /\ form.shown = Question(pending)
  /\ run[d].pc \in Pressed => form.step = "confirm" /\ run[d].shown = form.shown
  /\ run[d].pc \in AtAddress => run[d].host = pending.address
  /\ run[d].pc = "pin" => pending.target = Blank /\ pending.job = Blank
  /\ run[d].pc = "inspect" => run[d].seen = pending.probe.unit
  /\ run[d].pc = "create" => run[d].plan = run[d].shown

AddInv == AddTyped /\ Linked /\ \A d \in Dialogs : Fits(d)

\* What a step of a dialog must do, and its effect on the others.
StepFits(d) ==
  /\ Linked' /\ Fits(d)'
  /\ \A e \in Dialogs \ {d} : run'[e] = run[e]

LEMMA OthersStay ==
  ASSUME AddTyped, NEW d \in Dialogs, NEW r, GoesTo(d, r)
  PROVE  \A e \in Dialogs \ {d} : run'[e] = run[e]
BY DEF AddTyped, GoesTo

LEMMA FitTogether ==
  ASSUME AddInv, NEW d \in Dialogs, StepFits(d), Undisturbed
  PROVE  Linked' /\ \A e \in Dialogs : Fits(e)'
<1>1. ASSUME NEW e \in Dialogs \ {d}, run[e].pc = "idle"
      PROVE  Fits(e)'
  BY <1>1 DEF StepFits, Fits, Pressed, AtAddress
<1>2. ASSUME NEW e \in Dialogs \ {d}, run[e].pc # "idle"
      PROVE  Fits(e)'
  <2>1. run'[e] = run[e] /\ pending' = pending /\ form' = form /\ Fits(e)
    BY <1>2 DEF StepFits, Undisturbed, AddInv
  <2>2. Question(pending)' = Question(pending)
    BY <2>1 DEF Question, Warns
  <2> QED BY <2>1, <2>2 DEF Fits
<1> QED BY <1>1, <1>2 DEF StepFits

\* A dialog ends its step by showing another form than the question.
LEMMA ShowsFits ==
  ASSUME AddTyped, NEW d \in Dialogs, NEW s \in FormSteps \ {"confirm"},
         Shows(d, s), Linked'
  PROVE  StepFits(d)
<1>1. run'[d] = NoStep /\ form'.step # "confirm" /\ GoesTo(d, NoStep)
  BY ShowsGoes DEF GoesTo, AddTyped
<1> QED BY <1>1, OthersStay DEF StepFits, Fits, NoStep, Pressed, AtAddress

\* It asks the question over what is remembered now; a question that is open
\* already is about the same.
LEMMA PreviewFits ==
  ASSUME AddTyped, NEW d \in Dialogs, pending' \in Pending,
         ShowsPreview(d, pending'), Linked',
         form.step = "confirm" => form.shown = Question(pending')
  PROVE  StepFits(d)
<1>1. run'[d] = NoStep /\ GoesTo(d, NoStep)
  BY PreviewGoes DEF GoesTo, AddTyped
<1>2. form'.step = "confirm" => form'.shown = Question(pending')
  BY PreviewGoes
<1>3. Question(pending') = Question(pending)'
  BY DEF Question, Warns
<1> QED BY <1>1, <1>2, <1>3, OthersStay DEF StepFits, Fits, NoStep, Pressed, AtAddress

LEMMA BreaksFits ==
  ASSUME AddTyped, NEW d \in Dialogs, Breaks(d), Linked',
         form.step = "confirm" => form.shown = Question(pending')
  PROVE  StepFits(d)
<1>1. run'[d] = NoStep /\ form' = form /\ GoesTo(d, NoStep)
  BY DEF Breaks, AddTyped, GoesTo
<1>2. Question(pending') = Question(pending)'
  BY DEF Question, Warns
<1> QED BY <1>1, <1>2, OthersStay DEF StepFits, Fits, NoStep, Pressed, AtAddress

\* It waits before or after the question.
LEMMA WaitsFits ==
  ASSUME AddTyped, NEW d \in Dialogs, form' = form, form.step # "confirm",
         Linked', \A e \in Dialogs \ {d} : run'[e] = run[e], run'[d].pc \notin Pressed \cup {"pin"},
         run'[d].pc \in AtAddress => run'[d].host = pending'.address
  PROVE  StepFits(d)
BY DEF StepFits, Fits, Pressed

LEMMA AwaitsFits ==
  ASSUME AddTyped, NEW d \in Dialogs, NEW pc, Awaits(d, pc),
         form.step # "confirm", Linked', pc \notin Pressed \cup {"pin"},
         pc \in AtAddress => run[d].host = pending'.address
  PROVE  StepFits(d)
<1>1. /\ run'[d].pc = pc /\ run'[d].host = run[d].host /\ form' = form
      /\ \A e \in Dialogs \ {d} : run'[e] = run[e]
  BY AwaitsGoes DEF GoesTo, AddTyped, AddSteps
<1> QED BY <1>1, WaitsFits

LEMMA AwaitsAtFits ==
  ASSUME AddTyped, NEW d \in Dialogs, NEW pc, NEW a, AwaitsAt(d, pc, a),
         form.step # "confirm", Linked', pc \notin Pressed \cup {"pin"},
         pc \in AtAddress => run[d].host = pending'.address
  PROVE  StepFits(d)
<1> DEFINE r == [run[d] EXCEPT !.pc = pc, !.at = a]
<1>1. GoesTo(d, r) /\ form' = form
  BY AwaitsAtGoes
<1>2. run[d] \in AddSteps
  BY DEF AddTyped
<1>3. r.pc = pc /\ r.host = run[d].host
  BY <1>2 DEF AddSteps
<1>4. run'[d] = r /\ \A e \in Dialogs \ {d} : run'[e] = run[e]
  BY <1>1 DEF GoesTo, AddTyped
<1> HIDE DEF r
<1> QED BY <1>1, <1>3, <1>4, WaitsFits

\* No question is open where a step waits before it, or on another form.
LEMMA Unasked ==
  ASSUME AddInv, NEW d \in Dialogs,
         \/ run[d].pc \notin Pressed \cup {"idle"}
         \/ \E s \in FormSteps \ {"confirm"} : OnForm(d, s)
  PROVE  form.step # "confirm"
BY DEF AddInv, Fits, OnForm

LEMMA SameIsLinked ==
  ASSUME Linked, \/ UNCHANGED pending
                 \/ /\ pending'.target = pending.target /\ pending'.job = pending.job
                    /\ pending'.address = pending.address
  PROVE  Linked'
BY DEF Linked

LEMMA SubmitAddressFits ==
  ASSUME AddInv, NEW d \in Dialogs, NEW x \in Hosts, NEW custom \in BOOLEAN,
         SubmitAddress(d, x, custom)
  PROVE  StepFits(d)
<1>1. pending'.target = Blank /\ pending'.job = Blank
  BY DEF SubmitAddress, NothingPending
<1>2. run'[d].pc = "pin" /\ form' = form /\ form.step = "add_panel"
  BY DEF SubmitAddress, OnForm, NoStep, AddInv, AddTyped
<1>3. \A e \in Dialogs \ {d} : run'[e] = run[e]
  BY DEF SubmitAddress, AddInv, AddTyped
<1> QED BY <1>1, <1>2, <1>3 DEF StepFits, Linked, Fits, Pressed, AtAddress

LEMMA ShowAddressFormFits ==
  ASSUME AddInv, NEW d \in Dialogs, ShowAddressForm(d)
  PROVE  StepFits(d)
<1>1. Linked'
  BY DEF ShowAddressForm, NothingPending, Linked
<1> QED BY <1>1, ShowsFits DEF ShowAddressForm, FormSteps, AddInv

LEMMA PinFits ==
  ASSUME AddInv, NEW d \in Dialogs, Pin(d)
  PROVE  StepFits(d)
<1> DEFINE x == run[d].host
<1>1. form.step # "confirm"
  BY Unasked DEF Pin, InStep, Pressed
<1>2. AddTyped /\ Linked /\ pending.target = Blank /\ pending.job = Blank
  BY DEF AddInv, Fits, Pin, InStep
<1>3. ASSUME NEW t \in Pinned(x),
             pending' = [pending EXCEPT !.address = x, !.target = t],
             AwaitsAt(d, "active", t.pinned)
      PROVE  StepFits(d)
  <2>1. pending'.address = x /\ pending'.target = t /\ pending'.job = Blank
    BY <1>2, <1>3, Remembered DEF Pending
  <2>2. t.host = x
    BY DEF Pinned
  <2> QED BY <1>1, <1>2, <1>3, <2>1, <2>2, AwaitsAtFits DEF Linked, Pressed
<1>4. ASSUME NEW a, pending' = [pending EXCEPT !.address = x, !.target = Blank],
             AwaitsAt(d, "health", a)
      PROVE  StepFits(d)
  <2>1. pending'.address = x /\ pending'.target = Blank /\ pending'.job = Blank
    BY <1>2, <1>4, Remembered DEF Pending
  <2> QED BY <1>1, <1>2, <1>4, <2>1, AwaitsAtFits DEF Linked, Pressed
<1>5. CASE Shows(d, "add_panel") /\ UNCHANGED pending
  BY <1>2, <1>5, SameIsLinked, ShowsFits DEF FormSteps
<1> QED BY <1>3, <1>4, <1>5 DEF Pin

LEMMA FindActiveFits ==
  ASSUME AddInv, NEW d \in Dialogs, FindActive(d)
  PROVE  StepFits(d)
<1>1. form.step # "confirm"
  BY Unasked DEF FindActive, InStep, Pressed
<1>2. AddTyped /\ Linked /\ run[d].host = pending.address
  BY DEF AddInv, Fits, FindActive, InStep, AtAddress
<1>3. Linked' /\ pending'.address = pending.address
  <2>1. CASE UNCHANGED pending
    BY <1>2, <2>1, SameIsLinked
  <2>2. CASE pending' = [pending EXCEPT !.job = run[d].host]
    BY <1>2, <2>2, Remembered DEF Pending, Linked
  <2> QED BY <2>1, <2>2 DEF FindActive
<1>4. CASE \E s \in {"add_panel", "progress", "ended"} : Shows(d, s)
  BY <1>2, <1>3, <1>4, ShowsFits DEF FormSteps
<1>5. CASE \E pc \in {"health", "receipt"} : Awaits(d, pc)
  BY <1>1, <1>2, <1>3, <1>5, AwaitsFits DEF Pressed
<1> QED BY <1>4, <1>5 DEF FindActive

LEMMA ToPanelEntryFits ==
  ASSUME AddTyped, NEW d \in Dialogs, NEW x, NEW u, ToPanelEntry(d, x, u),
         form.step # "confirm", Linked', x = pending'.address
  PROVE  StepFits(d)
<1>1. CASE Shows(d, "ended")
  BY <1>1, ShowsFits DEF FormSteps
<1>2. CASE /\ run' = [run EXCEPT ![d].pc = "new_setup", ![d].host = x, ![d].seen = u]
           /\ UNCHANGED form
  <2>1. run'[d].pc = "new_setup" /\ run'[d].host = x
    BY <1>2 DEF AddTyped, AddSteps
  <2>2. \A e \in Dialogs \ {d} : run'[e] = run[e]
    BY <1>2 DEF AddTyped
  <2> QED BY <1>2, <2>1, <2>2, WaitsFits DEF Pressed
<1> QED BY <1>1, <1>2 DEF ToPanelEntry

LEMMA ToFoundPanelFits ==
  ASSUME AddTyped, NEW d \in Dialogs, NEW x, NEW u, NEW asked,
         ToFoundPanel(d, x, u, asked), form.step # "confirm", Linked', x = pending'.address
  PROVE  StepFits(d)
<1>1. CASE ToPanelEntry(d, x, u)
  BY <1>1, ToPanelEntryFits
<1>2. CASE Awaits(d, "setup_state")
  BY <1>2, AwaitsFits DEF Pressed, AtAddress
<1> QED BY <1>1, <1>2 DEF ToFoundPanel

LEMMA ConnectsFits ==
  ASSUME AddTyped, NEW d \in Dialogs, Connects(d), form.step # "confirm", Linked'
  PROVE  StepFits(d)
<1>1. CASE Shows(d, "ended") \/ Shows(d, "add_panel")
  BY <1>1, ShowsFits DEF FormSteps
<1>2. ASSUME NEW a, AwaitsAt(d, "reread", a)
      PROVE  StepFits(d)
  BY <1>2, AwaitsAtFits DEF Pressed, AtAddress
<1> QED BY <1>1, <1>2 DEF Connects

LEMMA ReadHealthFits ==
  ASSUME AddInv, NEW d \in Dialogs, ReadHealth(d)
  PROVE  StepFits(d)
<1> DEFINE x == run[d].host
<1>1. form.step # "confirm"
  BY Unasked DEF ReadHealth, InStep, Pressed
<1>2. AddTyped /\ Linked /\ x = pending.address
  BY DEF AddInv, Fits, ReadHealth, InStep, AtAddress
<1>3. Linked' /\ pending'.address = pending.address
  <2>1. CASE UNCHANGED pending
    BY <1>2, <2>1, SameIsLinked
  <2>2. ASSUME NEW u, pending' = [pending EXCEPT !.health = u]
        PROVE  Linked' /\ pending'.address = pending.address
    BY <1>2, <2>2, Remembered, SameIsLinked DEF Pending
  <2> QED BY <2>1, <2>2 DEF ReadHealth
<1>4. CASE \E u : ToPanelEntry(d, x, u) \/ ToFoundPanel(d, x, u, pending.job)
  BY <1>1, <1>2, <1>3, <1>4, ToPanelEntryFits, ToFoundPanelFits
<1>5. CASE Shows(d, "add_panel")
  BY <1>2, <1>3, <1>5, ShowsFits DEF FormSteps
<1>6. CASE Awaits(d, "probe")
  BY <1>1, <1>2, <1>3, <1>6, AwaitsFits DEF Pressed
<1> QED BY <1>4, <1>5, <1>6 DEF ReadHealth

LEMMA ReadSetupStateFits ==
  ASSUME AddInv, NEW d \in Dialogs, ReadSetupState(d)
  PROVE  StepFits(d)
<1>1. form.step # "confirm"
  BY Unasked DEF ReadSetupState, InStep, Pressed
<1>2. AddTyped /\ Linked'
  BY SameIsLinked DEF AddInv, ReadSetupState
<1> QED BY <1>1, <1>2, BreaksFits, ShowsFits DEF ReadSetupState, FormSteps

LEMMA ShowFoundAgainFits ==
  ASSUME AddInv, NEW d \in Dialogs, ShowFoundAgain(d)
  PROVE  StepFits(d)
<1>1. form.step # "confirm" /\ AddTyped
  BY Unasked DEF ShowFoundAgain, FormSteps, AddInv, OnForm
<1>2. CASE pending' = NothingPending /\ Shows(d, "add_panel")
  <2>1. Linked'
    BY <1>2 DEF NothingPending, Linked
  <2> QED BY <1>1, <1>2, <2>1, ShowsFits DEF FormSteps
<1>3. CASE UNCHANGED pending /\ ToFoundPanel(d, pending.address, pending.health, pending.job)
  <2>1. Linked'
    BY <1>3, SameIsLinked DEF AddInv
  <2> QED BY <1>1, <1>3, <2>1, ToFoundPanelFits
<1> QED BY <1>2, <1>3 DEF ShowFoundAgain

LEMMA ConnectFoundFits ==
  ASSUME AddInv, NEW d \in Dialogs, ConnectFound(d)
  PROVE  StepFits(d)
<1>1. form.step # "confirm" /\ AddTyped
  BY DEF ConnectFound, AddInv, OnForm
<1>2. Linked'
  BY SameIsLinked DEF AddInv, ConnectFound
<1> QED BY <1>1, <1>2, ConnectsFits DEF ConnectFound

LEMMA RereadHealthFits ==
  ASSUME AddInv, NEW d \in Dialogs, RereadHealth(d)
  PROVE  StepFits(d)
<1>1. form.step # "confirm" /\ AddTyped
  BY Unasked DEF RereadHealth, InStep, Pressed, AddInv
<1>2. Linked' /\ pending' = pending
  BY SameIsLinked DEF AddInv, RereadHealth
<1>3. CASE Shows(d, "add_panel") \/ Breaks(d)
  BY <1>1, <1>2, <1>3, ShowsFits, BreaksFits DEF FormSteps
<1>4. CASE \E u : ToPanelEntry(d, pending.address, u)
  BY <1>1, <1>2, <1>4, ToPanelEntryFits
<1> QED BY <1>3, <1>4 DEF RereadHealth

LEMMA CreatePanelEntryFits ==
  ASSUME AddInv, NEW d \in Dialogs, CreatePanelEntry(d)
  PROVE  StepFits(d)
<1>1. AddTyped /\ Linked /\ run[d].host = pending.address
  BY DEF AddInv, Fits, CreatePanelEntry, InStep, AtAddress
<1>2. Linked'
  <2>1. CASE UNCHANGED pending
    BY <1>1, <2>1, SameIsLinked
  <2>2. CASE pending' = [pending EXCEPT !.address = run[d].host, !.health = run[d].seen]
    BY <1>1, <2>2, Remembered, SameIsLinked DEF Pending
  <2> QED BY <2>1, <2>2 DEF CreatePanelEntry
<1> QED BY <1>1, <1>2, ShowsFits DEF CreatePanelEntry, FormSteps

LEMMA OpenSetupFits ==
  ASSUME AddInv, NEW d \in Dialogs, OpenSetup(d)
  PROVE  StepFits(d)
<1>1. AddTyped /\ Linked'
  BY SameIsLinked DEF AddInv, OpenSetup
<1> QED BY <1>1, ShowsFits DEF OpenSetup, FormSteps

LEMMA SubmitSetupFits ==
  ASSUME AddInv, NEW d \in Dialogs, SubmitSetup(d)
  PROVE  StepFits(d)
<1>1. AddTyped /\ Linked' /\ form.step # "confirm"
  BY SameIsLinked DEF AddInv, SubmitSetup, OnForm
<1>2. CASE Shows(d, "ended")
  BY <1>1, <1>2, ShowsFits DEF FormSteps
<1>3. CASE \E a : AwaitsAt(d, "setup_done", a)
  BY <1>1, <1>3, AwaitsAtFits DEF Pressed, AtAddress
<1> QED BY <1>2, <1>3 DEF SubmitSetup

LEMMA ReadSetupDoneFits ==
  ASSUME AddInv, NEW d \in Dialogs, ReadSetupDone(d)
  PROVE  StepFits(d)
<1>1. AddTyped /\ Linked' /\ form.step # "confirm"
  BY SameIsLinked, Unasked DEF AddInv, ReadSetupDone, InStep, Pressed
<1>2. CASE Shows(d, "panel_setup")
  BY <1>1, <1>2, ShowsFits DEF FormSteps
<1>3. CASE Awaits(d, "receipt")
  BY <1>1, <1>3, AwaitsFits DEF Pressed, AtAddress
<1>4. CASE Connects(d)
  BY <1>1, <1>4, ConnectsFits
<1> QED BY <1>2, <1>3, <1>4 DEF ReadSetupDone

LEMMA OffersVersionsFits ==
  ASSUME AddTyped, NEW d \in Dialogs, OffersVersions(d), form.step # "confirm",
         Linked'
  PROVE  StepFits(d)
<1>1. CASE Awaits(d, "resolve")
  BY <1>1, AwaitsFits DEF Pressed, AtAddress
<1>2. CASE Shows(d, "choose_version")
  BY <1>2, ShowsFits DEF FormSteps
<1> QED BY <1>1, <1>2 DEF OffersVersions

LEMMA FirstProbeFits ==
  ASSUME AddInv, NEW d \in Dialogs, FirstProbe(d)
  PROVE  StepFits(d)
<1>1. AddTyped /\ Linked /\ form.step # "confirm"
  BY Unasked DEF AddInv, FirstProbe, InStep, Pressed
<1>2. Linked'
  <2>1. CASE UNCHANGED pending
    BY <1>1, <2>1, SameIsLinked
  <2>2. ASSUME NEW probe, NEW state,
               pending' = [pending EXCEPT !.probe = probe, !.probe_state = state, !.tag = Blank]
        PROVE  Linked'
    BY <1>1, <2>2, Remembered, SameIsLinked DEF Pending
  <2> QED BY <2>1, <2>2 DEF FirstProbe
<1>3. CASE Shows(d, "ended") \/ Shows(d, "add_panel")
  BY <1>1, <1>2, <1>3, ShowsFits DEF FormSteps
<1>4. CASE OffersVersions(d)
  BY <1>1, <1>2, <1>4, OffersVersionsFits
<1> QED BY <1>3, <1>4 DEF FirstProbe

LEMMA SubmitVersionFits ==
  ASSUME AddInv, NEW d \in Dialogs, NEW tag, SubmitVersion(d, tag)
  PROVE  StepFits(d)
<1>1. AddTyped /\ Linked /\ form.step # "confirm"
  BY DEF AddInv, SubmitVersion, OnForm
<1>2. Linked'
  <2>1. CASE UNCHANGED pending
    BY <1>1, <2>1, SameIsLinked
  <2>2. ASSUME NEW t, pending' = [pending EXCEPT !.tag = t]
        PROVE  Linked'
    BY <1>1, <2>2, Remembered, SameIsLinked DEF Pending
  <2> QED BY <2>1, <2>2 DEF SubmitVersion
<1>3. CASE Shows(d, "ended")
  BY <1>1, <1>2, <1>3, ShowsFits DEF FormSteps
<1>4. CASE OffersVersions(d)
  BY <1>1, <1>2, <1>4, OffersVersionsFits
<1>5. CASE Awaits(d, "resolve")
  BY <1>1, <1>2, <1>5, AwaitsFits DEF Pressed, AtAddress
<1> QED BY <1>3, <1>4, <1>5 DEF SubmitVersion

LEMMA AsksAdbFits ==
  ASSUME AddTyped, NEW d \in Dialogs, AsksAdb(d), form.step # "confirm", Linked'
  PROVE  StepFits(d)
<1>1. CASE \E a : AwaitsAt(d, "offer", a)
  BY <1>1, AwaitsAtFits DEF Pressed, AtAddress
<1>2. CASE Shows(d, "authorize")
  BY <1>2, ShowsFits DEF FormSteps
<1> QED BY <1>1, <1>2 DEF AsksAdb

LEMMA ResolveReleaseFits ==
  ASSUME AddInv, NEW d \in Dialogs, ResolveRelease(d)
  PROVE  StepFits(d)
<1>1. AddTyped /\ Linked /\ form.step # "confirm"
  BY Unasked DEF AddInv, ResolveRelease, InStep, Pressed
<1>2. Linked'
  <2>1. CASE UNCHANGED pending
    BY <1>1, <2>1, SameIsLinked
  <2>2. ASSUME NEW r, NEW described,
               pending' = [pending EXCEPT !.release = r, !.described = described]
        PROVE  Linked'
    BY <1>1, <2>2, Remembered, SameIsLinked DEF Pending
  <2> QED BY <2>1, <2>2 DEF ResolveRelease
<1>3. pending' \in Pending
  BY <1>1, ResolveReleaseTyped DEF AddTyped, FlowOK
<1>4. CASE Shows(d, "choose_version") \/ Shows(d, "preview_only")
  BY <1>1, <1>2, <1>4, ShowsFits DEF FormSteps
<1>5. CASE Breaks(d)
  BY <1>1, <1>2, <1>5, BreaksFits
<1>6. CASE AsksAdb(d)
  BY <1>1, <1>2, <1>6, AsksAdbFits
<1>7. CASE ShowsPreview(d, pending')
  BY <1>1, <1>2, <1>3, <1>7, PreviewFits
<1> QED BY <1>4, <1>5, <1>6, <1>7 DEF ResolveRelease

LEMMA SubmitPreviewOnlyFits ==
  ASSUME AddInv, NEW d \in Dialogs, SubmitPreviewOnly(d)
  PROVE  StepFits(d)
<1>1. AddTyped /\ Linked
  BY DEF AddInv
<1>2. Linked'
  <2>1. CASE UNCHANGED pending
    BY <1>1, <2>1, SameIsLinked
  <2>2. CASE pending' = [pending EXCEPT !.release = Blank]
    BY <1>1, <2>2, Remembered, SameIsLinked DEF Pending
  <2> QED BY <2>1, <2>2 DEF SubmitPreviewOnly
<1> QED BY <1>1, <1>2, ShowsFits DEF SubmitPreviewOnly, FormSteps

LEMMA SubmitAuthorizeFits ==
  ASSUME AddInv, NEW d \in Dialogs, SubmitAuthorize(d)
  PROVE  StepFits(d)
<1>1. AddTyped /\ Linked' /\ form.step # "confirm"
  BY SameIsLinked DEF AddInv, SubmitAuthorize, OnForm
<1>2. CASE Shows(d, "ended") \/ Shows(d, "authorizing")
  BY <1>1, <1>2, ShowsFits DEF FormSteps
<1>3. CASE AsksAdb(d)
  BY <1>1, <1>3, AsksAdbFits
<1> QED BY <1>2, <1>3 DEF SubmitAuthorize

LEMMA AuthorizeAdbFits ==
  ASSUME AddInv, NEW d \in Dialogs, AuthorizeAdb(d)
  PROVE  StepFits(d)
<1>1. AddTyped /\ Linked /\ form.step # "confirm"
  BY Unasked DEF AddInv, AuthorizeAdb, InStep, Pressed
<1>2. Linked'
  <2>1. CASE UNCHANGED pending
    BY <1>1, <2>1, SameIsLinked
  <2>2. ASSUME NEW state, pending' = Accepted(run[d].at, state)
        PROVE  Linked'
    BY <1>1, <2>2, Remembered, SameIsLinked DEF Accepted, Pending
  <2> QED BY <2>1, <2>2 DEF AuthorizeAdb
<1>3. pending' \in Pending
  BY <1>1, AuthorizeAdbTyped DEF AddTyped, FlowOK
<1>4. CASE Shows(d, "authorize") \/ Shows(d, "authorizing")
  BY <1>1, <1>2, <1>4, ShowsFits DEF FormSteps
<1>5. CASE ShowsPreview(d, pending')
  BY <1>1, <1>2, <1>3, <1>5, PreviewFits
<1> QED BY <1>4, <1>5 DEF AuthorizeAdb

LEMMA EndWaitFits ==
  ASSUME AddInv, NEW d \in Dialogs, EndWait(d)
  PROVE  StepFits(d)
<1>1. AddTyped /\ Linked /\ form.step # "confirm"
  BY DEF AddInv, EndWait, OnForm
<1>2. Linked'
  <2>1. CASE UNCHANGED pending
    BY <1>1, <2>1, SameIsLinked
  <2>2. ASSUME NEW probe, NEW state,
               pending' = [pending EXCEPT !.probe = probe, !.probe_state = state]
        PROVE  Linked'
    BY <1>1, <2>2, Remembered, SameIsLinked DEF Pending
  <2> QED BY <2>1, <2>2 DEF EndWait
<1>3. pending' \in Pending
  BY <1>1, EndWaitTyped DEF AddTyped, FlowOK
<1>4. CASE Shows(d, "ended") \/ Shows(d, "authorize")
  BY <1>1, <1>2, <1>4, ShowsFits DEF FormSteps
<1>5. CASE ShowsPreview(d, pending')
  BY <1>1, <1>2, <1>3, <1>5, PreviewFits
<1> QED BY <1>4, <1>5 DEF EndWait, AfterWait

\* The press: the step takes along what the form showed, and the host it is of.
LEMMA PressInstallFits ==
  ASSUME AddInv, NEW d \in Dialogs, PressInstall(d)
  PROVE  StepFits(d)
<1>1. /\ AddTyped /\ Linked' /\ pending' = pending
      /\ form.step = "confirm" /\ form.shown = Question(pending)
  BY SameIsLinked DEF AddInv, PressInstall, OnForm, Fits
<1>2. CASE Shows(d, "ended") \/ Shows(d, "preview_only")
  BY <1>1, <1>2, ShowsFits DEF FormSteps
<1>3. CASE ShowsPreview(d, pending)
  BY <1>1, <1>3, Remembered, PreviewFits
<1>4. CASE /\ ReadyToInstall
           /\ run' = [run EXCEPT ![d].pc = "reprove", ![d].shown = form.shown,
                                 ![d].host = pending.target.host,
                                 ![d].at = pending.target.pinned]
           /\ UNCHANGED form
  <2>1. run'[d].pc = "reprove" /\ run'[d].shown = form.shown
        /\ run'[d].host = pending.target.host
    BY <1>1, <1>4 DEF AddTyped, AddSteps
  <2>2. pending.target.host = pending.address
    BY <1>4 DEF ReadyToInstall, AddInv, Linked
  <2>3. Question(pending)' = Question(pending)
    BY <1>1 DEF Question, Warns
  <2>4. \A e \in Dialogs \ {d} : run'[e] = run[e]
    BY <1>1, <1>4 DEF AddTyped
  <2> QED BY <1>1, <1>4, <2>1, <2>2, <2>3, <2>4 DEF StepFits, Fits, Pressed
<1> QED BY <1>2, <1>3, <1>4 DEF PressInstall

\* The plan is for the host that was typed, the panel that was shown, and the
\* release that the flow remembers: the question's own words.
LEMMA BindsPlanFits ==
  ASSUME AddInv, NEW d \in Dialogs, NEW u, BindsPlan(d, u),
         run[d].pc \in {"reprove", "inspect"}, u = pending.probe.unit, UNCHANGED pending
  PROVE  StepFits(d)
<1>1. /\ AddTyped /\ Linked' /\ run[d].host = pending.address
      /\ form.step = "confirm" /\ form.shown = Question(pending)
      /\ run[d].shown = form.shown
  BY SameIsLinked DEF AddInv, Fits, Pressed, AtAddress
<1>2. CASE ShowsPreview(d, pending)
  BY <1>1, <1>2, Remembered, PreviewFits
<1>3. CASE run' = [run EXCEPT ![d].pc = "create", ![d].plan = BuiltPlan(d, u)]
           /\ UNCHANGED form
  <2>1. run'[d].pc = "create" /\ run'[d].plan = BuiltPlan(d, u) /\ run'[d].shown = run[d].shown
    BY <1>1, <1>3 DEF AddTyped, AddSteps
  <2>2. BuiltPlan(d, u) = Question(pending)
    BY <1>1 DEF BuiltPlan, Question
  <2>3. Question(pending)' = Question(pending)
    BY DEF Question, Warns
  <2>4. \A e \in Dialogs \ {d} : run'[e] = run[e]
    BY <1>1, <1>3 DEF AddTyped
  <2> QED BY <1>1, <1>3, <2>1, <2>2, <2>3, <2>4 DEF StepFits, Fits, Pressed, AtAddress
<1> QED BY <1>2, <1>3 DEF BindsPlan

LEMMA ReproveFits ==
  ASSUME AddInv, NEW d \in Dialogs, Reprove(d)
  PROVE  StepFits(d)
<1>1. /\ AddTyped /\ Linked' /\ pending' = pending /\ run[d].host = pending.address
      /\ run[d].pc = "reprove"
      /\ form.step = "confirm" /\ form.shown = Question(pending)
      /\ run[d].shown = form.shown
  BY SameIsLinked DEF AddInv, Reprove, InStep, Fits, Pressed, AtAddress
<1>2. CASE ShowsPreview(d, pending)
  BY <1>1, <1>2, Remembered, PreviewFits
<1>3. CASE Breaks(d)
  BY <1>1, <1>3, BreaksFits
<1>4. ASSUME NEW u, u = pending.probe.unit,
             run' = [run EXCEPT ![d].pc = "inspect", ![d].seen = u], UNCHANGED form
      PROVE  StepFits(d)
  <2>1. /\ run'[d].pc = "inspect" /\ run'[d].seen = u /\ run'[d].host = run[d].host
        /\ run'[d].shown = run[d].shown
    BY <1>1, <1>4 DEF AddTyped, AddSteps
  <2>2. Question(pending)' = Question(pending)
    BY <1>1 DEF Question, Warns
  <2>3. \A e \in Dialogs \ {d} : run'[e] = run[e]
    BY <1>1, <1>4 DEF AddTyped
  <2> QED BY <1>1, <1>4, <2>1, <2>2, <2>3 DEF StepFits, Fits, Pressed
<1>5. ASSUME NEW u, u = pending.probe.unit, BindsPlan(d, u)
      PROVE  StepFits(d)
  BY <1>1, <1>5, BindsPlanFits
<1>6. ASSUME NEW state, pending.probe # Blank,
             SameInstallTarget(pending.probe, ProbeAt(run[d].at, state))
      PROVE  ProbeAt(run[d].at, state).unit = pending.probe.unit
  BY <1>1, <1>6, SameIsKnown
<1> QED BY <1>2, <1>3, <1>4, <1>5, <1>6 DEF Reprove

LEMMA InspectFits ==
  ASSUME AddInv, NEW d \in Dialogs, Inspect(d)
  PROVE  StepFits(d)
<1>1. /\ AddTyped /\ Linked' /\ pending' = pending
      /\ run[d].pc = "inspect" /\ run[d].seen = pending.probe.unit
      /\ form.step = "confirm" /\ form.shown = Question(pending)
  BY SameIsLinked DEF AddInv, Inspect, InStep, Fits, Pressed
<1>2. CASE ShowsPreview(d, pending)
  BY <1>1, <1>2, Remembered, PreviewFits
<1>3. CASE BindsPlan(d, run[d].seen)
  BY <1>1, <1>3, BindsPlanFits
<1> QED BY <1>2, <1>3 DEF Inspect

LEMMA CreateOrJoinFits ==
  ASSUME AddInv, NEW d \in Dialogs, CreateOrJoin(d)
  PROVE  StepFits(d)
<1>1. /\ AddTyped /\ Linked
      /\ form.step = "confirm" /\ form.shown = Question(pending)
      /\ run[d].plan = form.shown
  BY DEF AddInv, CreateOrJoin, InStep, Fits, Pressed
<1>2. CASE ShowsPreview(d, pending) /\ UNCHANGED pending
  BY <1>1, <1>2, Remembered, SameIsLinked, PreviewFits
<1>3. CASE pending' = [pending EXCEPT !.job = run[d].plan.at]
           /\ (Shows(d, "progress") \/ Shows(d, "ended"))
  <2>1. run[d].plan.at = pending.address
    BY <1>1 DEF Question
  <2>2. Linked'
    BY <1>1, <1>3, <2>1, Remembered DEF Pending, Linked
  <2> QED BY <1>1, <1>3, <2>2, ShowsFits DEF FormSteps
<1> QED BY <1>2, <1>3 DEF CreateOrJoin

LEMMA ToInstallResultFits ==
  ASSUME AddInv, NEW d \in Dialogs, ToInstallResult(d)
  PROVE  StepFits(d)
<1>1. AddTyped /\ Linked' /\ form.step # "confirm"
  BY SameIsLinked DEF AddInv, ToInstallResult, OnForm
<1>2. CASE Shows(d, "ended")
  BY <1>1, <1>2, ShowsFits DEF FormSteps
<1>3. CASE Awaits(d, "receipt")
  BY <1>1, <1>3, AwaitsFits DEF Pressed, AtAddress
<1> QED BY <1>2, <1>3 DEF ToInstallResult

LEMMA ReadReceiptFits ==
  ASSUME AddInv, NEW d \in Dialogs, ReadReceipt(d)
  PROVE  StepFits(d)
<1>1. AddTyped /\ Linked' /\ form.step # "confirm" /\ pending' = pending
  BY SameIsLinked, Unasked DEF AddInv, ReadReceipt, InStep, Pressed
<1>2. CASE Shows(d, "ended") \/ Shows(d, "progress")
  BY <1>1, <1>2, ShowsFits DEF FormSteps
<1>3. CASE /\ pending.job # Blank
           /\ run' = [run EXCEPT ![d].pc = "verify", ![d].host = pending.job,
                                 ![d].seen = EntryHolder(pending.job)]
           /\ UNCHANGED form
  <2>1. run'[d].pc = "verify" /\ run'[d].host = pending.job
    BY <1>1, <1>3 DEF AddTyped, AddSteps
  <2>2. pending.job = pending.address
    BY <1>3 DEF AddInv, Linked
  <2>3. \A e \in Dialogs \ {d} : run'[e] = run[e]
    BY <1>1, <1>3 DEF AddTyped
  <2> QED BY <1>1, <1>3, <2>1, <2>2, <2>3, WaitsFits DEF Pressed
<1>4. pending.job # Blank => install[pending.job] \in InstallsOf
  BY <1>1 DEF AddTyped, FlowOK
<1> QED BY <1>2, <1>3, <1>4 DEF ReadReceipt, InstallsOf

LEMMA FinalizeFits ==
  ASSUME AddInv, NEW d \in Dialogs, Finalize(d)
  PROVE  StepFits(d)
<1>1. AddTyped /\ Linked /\ run[d].host = pending.address /\ form.step # "confirm"
  BY Unasked DEF AddInv, Fits, Finalize, InStep, AtAddress, Pressed
<1>2. Linked'
  <2>1. CASE UNCHANGED pending
    BY <1>1, <2>1, SameIsLinked
  <2>2. ASSUME NEW u, \/ pending' = [pending EXCEPT !.address = run[d].host, !.health = u]
                      \/ pending' = [pending EXCEPT !.reinstall = u, !.address = run[d].host,
                                                    !.health = u]
        PROVE  Linked'
    BY <1>1, <2>2, Remembered, SameIsLinked DEF Pending
  <2> QED BY <2>1, <2>2 DEF Finalize
<1>3. CASE \E s \in {"result", "ended", "panel_setup"} : Shows(d, s)
  BY <1>1, <1>2, <1>3, ShowsFits DEF FormSteps
<1>4. CASE Awaits(d, "owner_setup")
  BY <1>1, <1>2, <1>4, AwaitsFits DEF Pressed, AtAddress
<1> QED BY <1>3, <1>4 DEF Finalize

LEMMA FinishInstallFits ==
  ASSUME AddInv, NEW d \in Dialogs, FinishInstall(d)
  PROVE  StepFits(d)
<1>1. AddTyped /\ Linked'
  BY SameIsLinked DEF AddInv, FinishInstall
<1> QED BY <1>1, ShowsFits DEF FinishInstall, FormSteps

\* A step that is none of the dialog's.
LEMMA OthersFit ==
  ASSUME AddInv, UNCHANGED <<pending, form, run>>
  PROVE  Linked' /\ \A e \in Dialogs : Fits(e)'
BY DEF AddInv, Linked, Fits, Question, Warns

LEMMA AddInitHolds == AddInit => AddInv
<1> SUFFICES ASSUME AddInit PROVE AddInv
  OBVIOUS
<1>1. AddTyped
  BY AddInitTyped
<1>2. Linked /\ \A d \in Dialogs : Fits(d)
  BY DEF AddInit, NothingPending, NoStep, Linked, Fits, Pressed, AtAddress
<1> QED BY <1>1, <1>2 DEF AddInv

LEMMA AddStepKeeps ==
  ASSUME AddInv, [AddNext]_addVars, [Undisturbed]_addVars
  PROVE  AddInv'
<1> DEFINE Fit == Linked' /\ \A e \in Dialogs : Fits(e)'
<1>0. SUFFICES Fit
  BY AddStepTyped DEF AddInv
<1>7. CASE UNCHANGED addVars
  <2>1. UNCHANGED <<pending, form, run>>
    BY <1>7 DEF addVars
  <2> QED BY <2>1, OthersFit
<1>8. ASSUME NEW d \in Dialogs, StepFits(d), Undisturbed
      PROVE  Fit
  BY <1>8, FitTogether
<1>1. ASSUME NEW d \in Dialogs, NEW x \in Hosts, NEW custom \in BOOLEAN,
             SubmitAddress(d, x, custom)
      PROVE  StepFits(d)
  BY <1>1, SubmitAddressFits
<1>2. ASSUME NEW d \in Dialogs, NEW tag \in Optional(Releases), SubmitVersion(d, tag)
      PROVE  StepFits(d)
  BY <1>2, SubmitVersionFits
<1>3. ASSUME NEW d \in Dialogs,
             \/ ShowAddressForm(d) \/ Pin(d) \/ FindActive(d) \/ ReadHealth(d)
             \/ ReadSetupState(d) \/ ShowFoundAgain(d) \/ ConnectFound(d) \/ RereadHealth(d)
             \/ CreatePanelEntry(d) \/ OpenSetup(d) \/ SubmitSetup(d) \/ ReadSetupDone(d)
      PROVE  StepFits(d)
  BY <1>3, ShowAddressFormFits, PinFits, FindActiveFits, ReadHealthFits, ReadSetupStateFits,
     ShowFoundAgainFits, ConnectFoundFits, RereadHealthFits, CreatePanelEntryFits,
     OpenSetupFits, SubmitSetupFits, ReadSetupDoneFits
<1>4. ASSUME NEW d \in Dialogs,
             \/ FirstProbe(d) \/ ResolveRelease(d) \/ SubmitPreviewOnly(d)
             \/ SubmitAuthorize(d) \/ AuthorizeAdb(d) \/ EndWait(d) \/ PressInstall(d)
             \/ Reprove(d) \/ Inspect(d) \/ CreateOrJoin(d) \/ ToInstallResult(d)
             \/ ReadReceipt(d) \/ Finalize(d) \/ FinishInstall(d)
      PROVE  StepFits(d)
  BY <1>4, FirstProbeFits, ResolveReleaseFits, SubmitPreviewOnlyFits, SubmitAuthorizeFits,
     AuthorizeAdbFits, EndWaitFits, PressInstallFits, ReproveFits, InspectFits,
     CreateOrJoinFits, ToInstallResultFits, ReadReceiptFits, FinalizeFits, FinishInstallFits
<1>5. CASE WaitForAllow \/ WorldChanges \/ \E x \in Hosts : InstallGoesOn(x)
  <2>1. UNCHANGED <<pending, form, run>>
    BY <1>5 DEF WaitForAllow, WorldChanges, InstallGoesOn
  <2> QED BY <2>1, OthersFit
<1> HIDE DEF Fit
<1> QED BY <1>1, <1>2, <1>3, <1>4, <1>5, <1>7, <1>8 DEF AddNext

\* async_step_confirm_install_candidate to async_create_or_join: the job a flow asks
\* for is the one its question showed when it was pressed, whatever panels, names,
\* entries and releases have done since, for any number of dialogs; unless another
\* step of the same flow changed its memory or its form while a step of it awaited.
THEOREM WhatIsShownIsApproved == AddSpec /\ [][Undisturbed]_addVars => []ApprovedIsShown
<1>1. AddInv => ApprovedIsShown
  BY DEF AddInv, Fits, ApprovedIsShown
<1>2. AddInv /\ [AddNext]_addVars /\ [Undisturbed]_addVars => AddInv'
  BY AddStepKeeps
<1> QED BY <1>1, <1>2, AddInitHolds, PTL DEF AddSpec

=============================================================================
