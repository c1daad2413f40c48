------------------------- MODULE PanelIdentity_proofs -------------------------
(***************************************************************************)
(* Proofs about PanelIdentity and PanelAddress, for any entries, panels,   *)
(* legacy identities, addresses and polls.                                 *)
(*                                                                         *)
(* First, an identity has one entry and a loaded entry one set of          *)
(* entities, whatever panel is read where and whichever store is lost.     *)
(* Both are kept of any value of ha, and of what a restart takes from      *)
(* disk; the functions of identity.py are then shown to keep them.         *)
(*                                                                         *)
(* Then, for a panel whose legacy identity is its own, that an entry stays *)
(* with it, and that a loaded entry with a link accepts it again.          *)
(*                                                                         *)
(* Last, about PanelAddress: where the entry is polled.  A poll never puts *)
(* its own finding in the place of a newer one.                            *)
(***************************************************************************)
EXTENDS PanelIdentity, PanelAddress, TLAPS

EntryStores == [Entries -> EntryRecords \cup {None}]
EntityStores == [Entries -> SUBSET Ids]
HaStates == [entry : EntryStores, ents : EntityStores,
             loaded : [Entries -> BOOLEAN], answers : [Entries -> BOOLEAN]]

\* Every saved entry has an identity, and no other entry has it.
Owned(entry) ==
  /\ \A e \in Entries : entry[e] # None => entry[e].uid # None
  /\ \A e, o \in Entries :
       e # o /\ entry[e] # None /\ entry[o] # None
         => entry[e].uid # entry[o].uid

\* A loaded entry is saved, and its entities carry its identity.
OneSet(m, e) ==
  m.loaded[e] => m.entry[e] # None /\ m.ents[e] \subseteq {m.entry[e].uid}

Sane(m) ==
  /\ m \in HaStates
  /\ Owned(m.entry)
  /\ \A e \in Entries : OneSet(m, e)

\* The inductive invariant.
IInv ==
  /\ panel \in [Panels -> 0..MaxInstalls]
  /\ legacy \in [Panels -> Legacies]
  /\ Sane(ha)
  /\ disk \in [entry : EntryStores, ents : EntityStores]
  /\ Owned(disk.entry)

\* What a panel may report.
HealthLines ==
  [did : Ids, inst : BOOLEAN, link : Legacies \cup {None}]

LEMMA HealthFacts ==
  ASSUME IInv, NEW p \in Panels
  PROVE  Health(p) \in HealthLines
<1>1. CASE panel[p] = 0
  BY <1>1 DEF IInv, Health, HealthLines, Ids
<1>2. CASE panel[p] # 0
  <2>1. panel[p] \in 1..MaxInstalls
    BY <1>2, IdentityAssumption DEF IInv
  <2>2. Installation(p, panel[p]) \in Ids
    BY <2>1 DEF Installation, Ids, Installations
  <2> QED BY <1>2, <2>2 DEF IInv, Health, HealthLines
<1> QED BY <1>1, <1>2

-----------------------------------------------------------------------------
(***************************************************************************)
(* The functions of identity.py.                                           *)
(***************************************************************************)

\* Nothing is lost while no entry or identity is new and no entity is.
LEMMA SameIdentities ==
  ASSUME NEW m, Sane(m), NEW n \in HaStates,
         \A o \in Entries :
           /\ n.entry[o] # None => m.entry[o] # None
           /\ m.entry[o] # None =>
                n.entry[o] # None /\ n.entry[o].uid = m.entry[o].uid
           /\ n.loaded[o] => m.loaded[o]
           /\ n.ents[o] \subseteq m.ents[o]
  PROVE  Sane(n)
<1>1. Owned(n.entry)
  BY DEF Sane, Owned
<1>2. ASSUME NEW o \in Entries PROVE OneSet(n, o)
  BY DEF Sane, OneSet
<1> QED BY <1>1, <1>2 DEF Sane

\* What the three changes of a rekey leave.
Rewritten(m, e, r, ids) ==
  [m EXCEPT !.entry[e] = r, !.ents[e] = ids, !.answers[e] = FALSE]

LEMMA RewrittenFacts ==
  ASSUME NEW m \in HaStates, NEW e \in Entries,
         NEW r \in EntryRecords, NEW ids \in SUBSET Ids, NEW c,
         c = Rewritten(m, e, r, ids)
  PROVE  /\ c \in HaStates
         /\ c.entry = [m.entry EXCEPT ![e] = r]
         /\ c.ents = [m.ents EXCEPT ![e] = ids]
         /\ c.loaded = m.loaded
<1>1. c \in HaStates
  BY DEF Rewritten, HaStates, EntryStores, EntityStores
<1>2. /\ c.entry = [m.entry EXCEPT ![e] = r]
      /\ c.ents = [m.ents EXCEPT ![e] = ids]
      /\ c.loaded = m.loaded
  BY DEF Rewritten, HaStates, EntryStores, EntityStores
<1> QED BY <1>1, <1>2

\* A rekey to a free identity keeps everything but the entities' identity,
\* which follows if they are the entry's own.
LEMMA CommittedSane ==
  ASSUME NEW m \in HaStates, Owned(m.entry),
         NEW e \in Entries, m.entry[e] # None,
         \A o \in Entries \ {e} : OneSet(m, o),
         NEW did \in Ids, IdentityAvailable(m, e, did),
         m.ents[e] \subseteq {m.entry[e].uid, did}
  PROVE  /\ Sane(Committed(m, e, did))
         /\ Committed(m, e, did).entry[e] # None
         /\ Committed(m, e, did).entry[e].uid = did
         /\ Committed(m, e, did).ents[e] \subseteq {did}
<1> DEFINE r == [m.entry[e] EXCEPT !.uid = did, !.inst = TRUE,
                                   !.prev = m.entry[e].uid]
           ids == Rekeyed(m.ents[e], m.entry[e].uid, did)
           c == Committed(m, e, did)
<1>1. m.entry[e] \in EntryRecords
  BY DEF HaStates, EntryStores
<1>2. r \in EntryRecords /\ r.uid = did
  BY <1>1 DEF EntryRecords
<1>3. ids \in SUBSET Ids /\ ids \subseteq {did}
  BY DEF Rekeyed
<1>4. c = Rewritten(m, e, r, ids)
  BY DEF Committed, Rewritten, HaStates, Rekeyed
<1> HIDE DEF r, ids, c
<1>5. /\ c \in HaStates
      /\ c.entry = [m.entry EXCEPT ![e] = r]
      /\ c.ents = [m.ents EXCEPT ![e] = ids]
      /\ c.loaded = m.loaded
  BY <1>2, <1>3, <1>4, RewrittenFacts
<1>6. did # None /\ r # None
  BY <1>2, IdentityAssumption
<1>7. /\ c.entry[e] = r /\ c.ents[e] = ids
      /\ \A o \in Entries \ {e} :
           c.entry[o] = m.entry[o] /\ c.ents[o] = m.ents[o]
  BY <1>5 DEF HaStates, EntryStores, EntityStores
<1>8. Owned(c.entry)
  <2>1. \A o \in Entries \ {e} : m.entry[o] # None => m.entry[o].uid # did
    BY DEF IdentityAvailable, Others, Saved
  <2> QED BY <1>2, <1>6, <1>7, <2>1 DEF Owned
<1>9. ASSUME NEW o \in Entries PROVE OneSet(c, o)
  <2>1. CASE o = e
    BY <2>1, <1>2, <1>3, <1>6, <1>7 DEF OneSet
  <2>2. CASE o # e
    BY <2>2, <1>5, <1>7 DEF OneSet
  <2> QED BY <2>1, <2>2
<1> QED BY <1>2, <1>3, <1>5, <1>6, <1>7, <1>8, <1>9 DEF Sane, c

\* An entry that takes a link from others changes nothing but links.
LEMMA LinkClaimedSane ==
  ASSUME NEW m, Sane(m), NEW e \in Entries
  PROVE  Sane(LinkClaimed(m, e))
<1> DEFINE claimed == m.entry[e].link
           left == {o \in LinkHolders(m, e, claimed) : ~AnswersAsItself(m, o)}
           links == [o \in Entries |-> IF o \in left
                                       THEN [m.entry[o] EXCEPT !.link = None]
                                       ELSE m.entry[o]]
           n == [m EXCEPT !.entry = links]
<1>1. m \in HaStates
  BY DEF Sane
<1>2. ASSUME NEW o \in Entries, m.entry[o] # None
      PROVE  /\ [m.entry[o] EXCEPT !.link = None] \in EntryRecords
             /\ [m.entry[o] EXCEPT !.link = None].uid = m.entry[o].uid
  <2>1. m.entry[o] \in EntryRecords
    BY <1>1, <1>2 DEF HaStates, EntryStores
  <2> QED BY <2>1 DEF EntryRecords
<1>3. \A o \in left : m.entry[o] # None
  BY DEF LinkHolders, Others, Saved
<1>4. links \in EntryStores
  BY <1>1, <1>2, <1>3 DEF HaStates, EntryStores
<1>5. \A o \in Entries :
        /\ links[o] = None <=> m.entry[o] = None
        /\ m.entry[o] # None => links[o].uid = m.entry[o].uid
  BY <1>2, <1>3, IdentityAssumption
<1>6. LinkClaimed(m, e) = IF claimed = None THEN m ELSE n
  BY DEF LinkClaimed
<1> HIDE DEF links, left
<1>7. /\ n \in HaStates /\ n.entry = links
      /\ n.ents = m.ents /\ n.loaded = m.loaded
  BY <1>1, <1>4 DEF HaStates
<1> HIDE DEF n, claimed
<1>8. Sane(n)
  BY <1>5, <1>7, SameIdentities
<1> QED BY <1>6, <1>8

\* Accepting the identity an entry already has changes only its link.
LEMMA AcceptedSane ==
  ASSUME NEW m, Sane(m), NEW e \in Entries, m.entry[e] # None,
         NEW h \in HealthLines, h.did = m.entry[e].uid
  PROVE  Sane(Accepted(m, e, h))
<1> DEFINE r == [m.entry[e] EXCEPT !.uid = h.did, !.inst = @ \/ h.inst,
                                   !.link = IF h.link = None THEN @ ELSE h.link]
           n == [m EXCEPT !.entry[e] = r]
<1>1. m \in HaStates /\ m.entry[e] \in EntryRecords
  BY DEF Sane, HaStates, EntryStores
<1>2. r \in EntryRecords /\ r.uid = m.entry[e].uid
  BY <1>1 DEF EntryRecords, HealthLines
<1>3. Accepted(m, e, h) = LinkClaimed(n, e)
  BY DEF Accepted
<1> HIDE DEF r
<1>4. /\ n \in HaStates /\ n.entry = [m.entry EXCEPT ![e] = r]
      /\ n.ents = m.ents /\ n.loaded = m.loaded
  BY <1>1, <1>2 DEF HaStates, EntryStores
<1>5. r # None
  BY <1>2, IdentityAssumption
<1> HIDE DEF n
<1>6. Sane(n)
  <2>1. \A o \in Entries : n.entry[o] = IF o = e THEN r ELSE m.entry[o]
    BY <1>1, <1>4 DEF HaStates, EntryStores
  <2> QED BY <1>2, <1>4, <1>5, <2>1, SameIdentities
<1> QED BY <1>3, <1>6, LinkClaimedSane

\* Other values of answers, which nothing here depends on.
LEMMA AnswersFree ==
  ASSUME NEW m, Sane(m), NEW e \in Entries, NEW b \in BOOLEAN
  PROVE  Sane([m EXCEPT !.answers[e] = b])
<1> DEFINE n == [m EXCEPT !.answers[e] = b]
<1>1. /\ n \in HaStates /\ n.entry = m.entry
      /\ n.ents = m.ents /\ n.loaded = m.loaded
  BY DEF Sane, HaStates
<1> HIDE DEF n
<1>2. Sane(n)
  BY <1>1, SameIdentities
<1> QED BY <1>2 DEF n

\* Reading a health line, for an entry that has an identity: accepted as it is,
\* followed to the identity it reports, or refused.
LEMMA AcceptHealthSane ==
  ASSUME NEW m, Sane(m), NEW e \in Entries, m.entry[e] # None,
         NEW h \in HealthLines, NEW free \in BOOLEAN
  PROVE  /\ AcceptHealth(m, e, h, free).ok \in BOOLEAN
         /\ Sane(AcceptHealth(m, e, h, free).ha)
<1> DEFINE r == m.entry[e]
           first == r.uid = None /\ m.ents[e] = {} /\ IdentityAvailable(m, e, h.did)
           follows == free /\ (MigrationCandidate(r, h) \/ Reinstalled(m, e, h))
           out == CASE first \/ h.did = r.uid -> [ok |-> TRUE, ha |-> Accepted(m, e, h)]
                    [] follows /\ CanRekey(m, e, h.did) ->
                         [ok |-> TRUE, ha |-> Committed(m, e, h.did)]
                    [] OTHER -> [ok |-> FALSE, ha |-> [m EXCEPT !.answers[e] = FALSE]]
<1>1. r.uid # None
  BY DEF Sane, Owned
<1>2. Restored(m, e) = m
  BY <1>1 DEF Restored
<1>3. AcceptHealth(m, e, h, free) = out
  BY <1>2 DEF AcceptHealth
<1>4. ~first /\ (follows => h.did # r.uid)
  BY <1>1 DEF MigrationCandidate, Reinstalled, LinkedReinstall
<1> HIDE DEF first, follows
<1>5. CASE h.did = r.uid
  <2>1. Sane(Accepted(m, e, h))
    BY <1>5, AcceptedSane
  <2>2. out = [ok |-> TRUE, ha |-> Accepted(m, e, h)]
    BY <1>4, <1>5
  <2> QED BY <1>3, <2>1, <2>2
<1>6. CASE h.did # r.uid /\ follows /\ CanRekey(m, e, h.did)
  <2>1. /\ m \in HaStates /\ Owned(m.entry) /\ \A o \in Entries : OneSet(m, o)
        /\ h.did \in Ids
    BY DEF Sane, HealthLines
  <2>2. IdentityAvailable(m, e, h.did) /\ m.ents[e] \subseteq {m.entry[e].uid, h.did}
    BY <1>6 DEF CanRekey
  <2>3. Sane(Committed(m, e, h.did))
    BY <2>1, <2>2, CommittedSane
  <2>4. out = [ok |-> TRUE, ha |-> Committed(m, e, h.did)]
    BY <1>4, <1>6
  <2> QED BY <1>3, <2>3, <2>4
<1>7. CASE h.did # r.uid /\ ~(follows /\ CanRekey(m, e, h.did))
  <2>1. Sane([m EXCEPT !.answers[e] = FALSE])
    BY AnswersFree
  <2>2. out = [ok |-> FALSE, ha |-> [m EXCEPT !.answers[e] = FALSE]]
    BY <1>4, <1>7
  <2> QED BY <1>3, <2>1, <2>2
<1> QED BY <1>5, <1>6, <1>7

\* What reconcile_identity leaves before an entry is loaded.
LEMMA ReconciledSane ==
  ASSUME NEW m, Sane(m), NEW e \in Entries, m.entry[e] # None,
         ~m.loaded[e], Reconciled(m, e).ok
  PROVE  /\ Sane(Reconciled(m, e).ha)
         /\ Reconciled(m, e).ha.entry[e] # None
         /\ Reconciled(m, e).ha.ents[e] \subseteq {Reconciled(m, e).ha.entry[e].uid}
<1> DEFINE r == m.entry[e]
           out == Reconciled(m, e)
           did == CHOOSE d \in m.ents[e] : TRUE
           n == [m EXCEPT !.ents[e] = Rekeyed(m.ents[e], r.prev, r.uid)]
<1>1. /\ m \in HaStates /\ Owned(m.entry) /\ \A o \in Entries : OneSet(m, o)
      /\ r \in EntryRecords /\ r.uid \in Ids
  <2>1. r \in EntryRecords
    BY DEF Sane, HaStates, EntryStores
  <2> QED BY <2>1 DEF Sane, Owned, EntryRecords
<1>2. CASE RekeyAhead(m, e)
  <2>1. PICK d \in m.ents[e] : m.ents[e] = {d} /\ IdentityAvailable(m, e, d)
    BY <1>2 DEF RekeyAhead
  <2>2. did = d
    BY <2>1
  <2>3. d \in Ids
    BY <1>1, <2>1 DEF HaStates, EntityStores
  <2>4. out.ha = Committed(m, e, d)
    BY <1>2, <2>2 DEF Reconciled
  <2> QED BY <1>1, <2>1, <2>3, <2>4, CommittedSane
<1>3. CASE ~RekeyAhead(m, e) /\ (r.prev = None \/ ~r.inst)
  <2> DEFINE own == m.ents[e] \subseteq {r.uid}
  <2>1. out = [ok |-> own, ha |-> m]
    BY <1>3 DEF Reconciled
  <2> HIDE DEF own
  <2>2. out.ha = m /\ own
    BY <2>1
  <2> USE DEF own
  <2> QED BY <2>2
<1>4. CASE ~RekeyAhead(m, e) /\ ~(r.prev = None \/ ~r.inst)
  <2>1. CanFinish(m, e, r.prev, r.uid) /\ out.ha = n
    BY <1>4 DEF Reconciled
  <2>2. m.ents[e] \subseteq {r.prev, r.uid}
    BY <2>1 DEF CanFinish
  <2> DEFINE ids == Rekeyed(m.ents[e], r.prev, r.uid)
  <2>3. ids \subseteq {r.uid} /\ ids \in SUBSET Ids
    BY <1>1, <2>2 DEF Rekeyed
  <2> HIDE DEF ids
  <2>4. /\ n \in HaStates /\ n.entry = m.entry /\ n.loaded = m.loaded
        /\ n.ents = [m.ents EXCEPT ![e] = ids]
    BY <1>1, <2>3 DEF HaStates, EntityStores, ids
  <2> HIDE DEF n
  <2>5. /\ n.ents[e] = ids
        /\ \A o \in Entries \ {e} : n.ents[o] = m.ents[o]
    BY <1>1, <2>4 DEF HaStates, EntityStores
  <2>6. \A o \in Entries : OneSet(n, o)
    BY <1>1, <2>4, <2>5 DEF OneSet
  <2> QED BY <1>1, <2>1, <2>3, <2>4, <2>5, <2>6 DEF Sane
<1> QED BY <1>2, <1>3, <1>4

-----------------------------------------------------------------------------
(***************************************************************************)
(* The inductive invariant.                                                *)
(***************************************************************************)
LEMMA InitIInv == Init => IInv
<1> SUFFICES ASSUME Init PROVE IInv
  OBVIOUS
<1>1. legacy \in [Panels -> Legacies]
  BY DEF Init
<1>2. PICK e \in Entries, p \in Panels :
        \E ids \in {{}, {legacy[p]}} : StartsWith(e, legacy[p], ids)
  BY DEF Init
<1> PICK ids \in {{}, {legacy[p]}} : StartsWith(e, legacy[p], ids)
  BY <1>2
<1> DEFINE r == [uid |-> legacy[p], inst |-> FALSE, prev |-> None, link |-> None]
           entry == [o \in Entries |-> IF o = e THEN r ELSE None]
           ents == [o \in Entries |-> IF o = e THEN ids ELSE {}]
<1>3. /\ panel = [q \in Panels |-> 0]
      /\ disk = [entry |-> entry, ents |-> ents]
      /\ ha = Started(disk)
  BY DEF StartsWith
<1>4. legacy[p] \in Ids /\ r \in EntryRecords /\ r.uid # None
  BY <1>1, IdentityAssumption DEF Ids, EntryRecords
<1>5. entry \in EntryStores /\ Owned(entry)
  BY <1>4 DEF EntryStores, Owned
<1>6. ents \in EntityStores
  BY <1>4 DEF EntityStores
<1> HIDE DEF entry, ents
<1>7. /\ ha.entry = entry /\ ha.ents = ents /\ ha.loaded = NotYet
      /\ ha \in HaStates
  BY <1>3, <1>5, <1>6 DEF Started, HaStates, NotYet
<1>8. \A o \in Entries : OneSet(ha, o)
  BY <1>7 DEF OneSet, NotYet
<1>9. panel \in [Panels -> 0..MaxInstalls]
  BY <1>3, IdentityAssumption
<1> QED BY <1>1, <1>3, <1>5, <1>6, <1>7, <1>8, <1>9 DEF IInv, Sane

\* Most steps only give Home Assistant a new value.
LEMMA RunningKeeps ==
  ASSUME IInv, NEW new, Sane(new), Running(new)
  PROVE  IInv'
BY DEF IInv, Running

LEMMA PollKeeps ==
  ASSUME IInv, NEW e \in Entries, NEW p \in Panels, NEW free \in BOOLEAN,
         Poll(e, p, free)
  PROVE  IInv'
<1> DEFINE out == AcceptHealth(ha, e, Health(p), free)
<1>1. ha.entry[e] # None
  BY DEF Poll, IInv, Sane, OneSet
<1>2. out.ok \in BOOLEAN /\ Sane(out.ha)
  BY <1>1, HealthFacts, AcceptHealthSane DEF IInv
<1>3. Running([out.ha EXCEPT !.answers[e] = out.ok])
  BY DEF Poll
<1> HIDE DEF out
<1>4. Sane([out.ha EXCEPT !.answers[e] = out.ok])
  BY <1>2, AnswersFree
<1> QED BY <1>3, <1>4, RunningKeeps

LEMMA MeetKeeps ==
  ASSUME IInv, NEW e \in Entries, NEW p \in Panels, NEW free \in BOOLEAN,
         Meet(e, p, free)
  PROVE  IInv'
<1>1. ha.entry[e] # None
  BY DEF Meet, Saved
<1>2. Sane(AcceptHealth(ha, e, Health(p), free).ha)
  BY <1>1, HealthFacts, AcceptHealthSane DEF IInv
<1> QED BY <1>2, RunningKeeps DEF Meet

LEMMA PanelSilentKeeps ==
  ASSUME IInv, NEW e \in Entries, PanelSilent(e)
  PROVE  IInv'
BY AnswersFree, RunningKeeps DEF IInv, PanelSilent

LEMMA UnloadKeeps ==
  ASSUME IInv, NEW e \in Entries, Unload(e)
  PROVE  IInv'
<1> DEFINE n == [ha EXCEPT !.loaded[e] = FALSE, !.answers[e] = FALSE]
<1>1. /\ n \in HaStates /\ n.entry = ha.entry /\ n.ents = ha.ents
      /\ n.loaded = [ha.loaded EXCEPT ![e] = FALSE]
  BY DEF IInv, Sane, HaStates
<1>2. Running(n)
  BY DEF Unload
<1> HIDE DEF n
<1>3. \A o \in Entries : n.loaded[o] => ha.loaded[o]
  BY <1>1 DEF IInv, Sane, HaStates
<1>4. Sane(n)
  BY <1>1, <1>3, SameIdentities DEF IInv
<1> QED BY <1>2, <1>4, RunningKeeps

\* Loading relies on reconcile_identity: the entities are the entry's own.
LEMMA LoadKeeps ==
  ASSUME IInv, NEW e \in Entries, NEW answered \in BOOLEAN, Load(e, answered)
  PROVE  IInv'
<1> DEFINE m == Reconciled(ha, e).ha
           n == [m EXCEPT !.loaded[e] = TRUE, !.answers[e] = answered]
<1>1. /\ Sane(m) /\ m.entry[e] # None
      /\ m.ents[e] \subseteq {m.entry[e].uid}
  <2>1. ha.entry[e] # None /\ ~ha.loaded[e] /\ Reconciled(ha, e).ok
    BY DEF Load, Saved
  <2> QED BY <2>1, ReconciledSane DEF IInv
<1>2. Running(n)
  BY DEF Load
<1> HIDE DEF m
<1>3. /\ n \in HaStates /\ n.entry = m.entry /\ n.ents = m.ents
      /\ n.loaded = [m.loaded EXCEPT ![e] = TRUE]
  BY <1>1 DEF Sane, HaStates
<1> HIDE DEF n
<1>4. ASSUME NEW o \in Entries PROVE OneSet(n, o)
  <2>1. o # e => n.loaded[o] = m.loaded[o]
    BY <1>1, <1>3 DEF Sane, HaStates
  <2> QED BY <1>1, <1>3, <2>1 DEF Sane, OneSet
<1>5. Sane(n)
  BY <1>1, <1>3, <1>4 DEF Sane
<1> QED BY <1>2, <1>5, RunningKeeps

\* The registry moves the described entities to the entry whose identity it is.
LEMMA DescribeKeeps ==
  ASSUME IInv, NEW e \in Entries, NEW p \in Panels, Describe(e, p)
  PROVE  IInv'
<1> DEFINE did == Health(p).did
           ents == [o \in Entries |-> IF o = e THEN ha.ents[o] \cup {did}
                                      ELSE ha.ents[o] \ {did}]
           n == [ha EXCEPT !.answers[e] = TRUE, !.ents = ents]
<1>1. did \in Ids
  BY HealthFacts DEF HealthLines
<1>2. ha.loaded[e] /\ ha.entry[e].uid = did
  BY DEF Describe
<1>3. Running(n)
  BY DEF Describe, IInv, Sane, HaStates
<1> HIDE DEF did
<1>4. ents \in EntityStores
  BY <1>1 DEF IInv, Sane, HaStates, EntityStores
<1>5. /\ ents[e] = ha.ents[e] \cup {did}
      /\ \A o \in Entries : o # e => ents[o] \subseteq ha.ents[o]
  OBVIOUS
<1> HIDE DEF ents
<1>6. /\ n \in HaStates /\ n.entry = ha.entry /\ n.ents = ents
      /\ n.loaded = ha.loaded
  BY <1>4 DEF IInv, Sane, HaStates
<1> HIDE DEF n
<1>7. ASSUME NEW o \in Entries PROVE OneSet(n, o)
  BY <1>2, <1>5, <1>6 DEF IInv, Sane, OneSet
<1>8. Sane(n)
  BY <1>6, <1>7 DEF IInv, Sane
<1> QED BY <1>3, <1>8, RunningKeeps

LEMMA ConfirmIdentityKeeps ==
  ASSUME IInv, NEW e \in Entries, NEW p \in Panels, ConfirmIdentity(e, p)
  PROVE  IInv'
<1> DEFINE did == Health(p).did
<1>1. did \in Ids
  BY HealthFacts DEF HealthLines
<1>2. /\ ha \in HaStates /\ Owned(ha.entry) /\ \A o \in Entries : OneSet(ha, o)
  BY DEF IInv, Sane
<1>3. /\ ha.entry[e] # None
      /\ IdentityAvailable(ha, e, did)
      /\ ha.ents[e] \subseteq {ha.entry[e].uid, did}
      /\ Running(Committed(ha, e, did))
  BY DEF ConfirmIdentity, CanRekey, Saved
<1> HIDE DEF did
<1>4. Sane(Committed(ha, e, did))
  BY <1>1, <1>2, <1>3, CommittedSane
<1> QED BY <1>3, <1>4, RunningKeeps

\* A new entry takes an identity no saved entry has, and its record is saved.
LEMMA AddPanelKeeps ==
  ASSUME IInv, NEW e \in Entries, NEW p \in Panels, AddPanel(e, p)
  PROVE  IInv'
<1> DEFINE h == Health(p)
           r == [uid |-> h.did, inst |-> h.inst, prev |-> None, link |-> None]
<1>1. h \in HealthLines
  BY HealthFacts
<1>2. /\ ha.entry[e] = None
      /\ \A o \in Saved(ha) : ha.entry[o].uid # h.did
      /\ ha' = [ha EXCEPT !.entry[e] = r]
      /\ disk' = [disk EXCEPT !.entry = ha'.entry]
      /\ UNCHANGED <<panel, legacy>>
  BY DEF AddPanel
<1> HIDE DEF h
<1>3. r \in EntryRecords /\ r.uid = h.did /\ h.did # None /\ r # None
  BY <1>1, IdentityAssumption DEF HealthLines, EntryRecords
<1> HIDE DEF r
<1>4. /\ ha' \in HaStates /\ ha'.entry = [ha.entry EXCEPT ![e] = r]
      /\ ha'.ents = ha.ents /\ ha'.loaded = ha.loaded
  BY <1>2, <1>3 DEF IInv, Sane, HaStates, EntryStores
<1>5. \A o \in Entries : ha'.entry[o] = IF o = e THEN r ELSE ha.entry[o]
  BY <1>4 DEF IInv, Sane, HaStates, EntryStores
<1>6. Owned(ha'.entry)
  BY <1>2, <1>3, <1>5 DEF IInv, Sane, Owned, Saved
<1>7. ASSUME NEW o \in Entries PROVE OneSet(ha', o)
  BY <1>2, <1>4, <1>5 DEF IInv, Sane, OneSet
<1>8. Sane(ha')
  BY <1>4, <1>6, <1>7 DEF Sane
<1>9. /\ disk' \in [entry : EntryStores, ents : EntityStores]
      /\ disk'.entry = ha'.entry
  BY <1>2, <1>4 DEF IInv, HaStates
<1> QED BY <1>2, <1>6, <1>8, <1>9 DEF IInv

LEMMA SaveKeeps ==
  ASSUME IInv, SaveEntries \/ SaveEntities
  PROVE  IInv'
<1>1. CASE SaveEntries
  <2>1. /\ disk' \in [entry : EntryStores, ents : EntityStores]
        /\ disk'.entry = ha.entry
    BY <1>1 DEF SaveEntries, IInv, Sane, HaStates
  <2> QED BY <1>1, <2>1 DEF SaveEntries, IInv, Sane
<1>2. CASE SaveEntities
  <2>1. /\ disk' \in [entry : EntryStores, ents : EntityStores]
        /\ disk'.entry = disk.entry
    BY <1>2 DEF SaveEntities, IInv, Sane, HaStates
  <2> QED BY <1>2, <2>1 DEF SaveEntities, IInv, Sane
<1> QED BY <1>1, <1>2

\* No entry is loaded after a restart, so the entities need not be its own.
LEMMA RestartKeeps ==
  ASSUME IInv, Restart
  PROVE  IInv'
<1> DEFINE n == Started(disk)
<1>1. n.entry = disk.entry /\ n.loaded = NotYet /\ n \in HaStates
  BY DEF IInv, Started, HaStates, NotYet
<1>2. Running(n)
  BY DEF Restart
<1> HIDE DEF n
<1>3. \A o \in Entries : OneSet(n, o)
  BY <1>1 DEF OneSet, NotYet
<1>4. Sane(n)
  BY <1>1, <1>3 DEF IInv, Sane
<1> QED BY <1>2, <1>4, RunningKeeps

LEMMA ReinstallKeeps ==
  ASSUME IInv, NEW p \in Panels, Reinstall(p)
  PROVE  IInv'
<1>1. panel' \in [Panels -> 0..MaxInstalls]
  BY IdentityAssumption DEF IInv, Reinstall
<1> QED BY <1>1 DEF IInv, Reinstall

LEMMA StepKeeps == IInv /\ [Next]_idVars => IInv'
<1> SUFFICES ASSUME IInv, [Next]_idVars PROVE IInv'
  OBVIOUS
<1>1. ASSUME NEW e \in Entries, PanelSilent(e) \/ Unload(e) PROVE IInv'
  BY <1>1, PanelSilentKeeps, UnloadKeeps
<1>2. ASSUME NEW e \in Entries, NEW answered \in BOOLEAN, Load(e, answered)
      PROVE IInv'
  BY <1>2, LoadKeeps
<1>3. ASSUME NEW e \in Entries, NEW p \in Panels,
             Describe(e, p) \/ ConfirmIdentity(e, p) \/ AddPanel(e, p)
      PROVE IInv'
  BY <1>3, DescribeKeeps, ConfirmIdentityKeeps, AddPanelKeeps
<1>4. ASSUME NEW e \in Entries, NEW p \in Panels, NEW free \in BOOLEAN,
             Poll(e, p, free) \/ Meet(e, p, free)
      PROVE IInv'
  BY <1>4, PollKeeps, MeetKeeps
<1>5. ASSUME NEW p \in Panels, Reinstall(p) PROVE IInv'
  BY <1>5, ReinstallKeeps
<1>6. CASE SaveEntries \/ SaveEntities \/ Restart
  BY <1>6, SaveKeeps, RestartKeeps
<1>7. CASE UNCHANGED idVars
  BY <1>7 DEF idVars, IInv, Sane, OneSet
<1> QED BY <1>1, <1>2, <1>3, <1>4, <1>5, <1>6, <1>7 DEF Next

LEMMA AlwaysIInv == IdSpec => []IInv
BY InitIInv, StepKeeps, PTL DEF IdSpec

-----------------------------------------------------------------------------
\* The shape of the state: health lines, rekeys and restarts only ever store
\* identities a panel may have.
THEOREM TypeCorrect == IdSpec => []IdTypeOK
<1>1. IInv => IdTypeOK
  BY DEF IInv, Sane, HaStates, EntryStores, EntityStores, IdTypeOK
<1> QED BY <1>1, AlwaysIInv, PTL

\* identity_available: no two entries are ever the same panel, over polls of any
\* panel, reinstalls, rekeys and restarts that lose either store.
THEOREM IdentityHasOneOwner == IdSpec => []IdentityIsOwned
<1>1. IInv => IdentityIsOwned
  BY DEF IInv, Sane, Owned, IdentityIsOwned, Saved
<1> QED BY <1>1, AlwaysIInv, PTL

\* reconcile_identity: a loaded entry's entities carry its own identity.
THEOREM LoadedEntryHasOneSet == IdSpec => []OneEntitySet
<1>1. IInv => OneEntitySet
  BY DEF IInv, Sane, OneSet, OneEntitySet
<1> QED BY <1>1, AlwaysIInv, PTL
-----------------------------------------------------------------------------
(***************************************************************************)
(* An entry and its panel.  p is a panel whose legacy identity is its own: *)
(* every identity is then p's or not, and so is every entry, for good.     *)
(* An entry of p is kin; it is alone when no other entry is.               *)
(***************************************************************************)
Kin(r, p) == r # None /\ r.uid \in Of(p)
Alone(o, p) == \A q \in Entries \ {o} : ~Kin(disk.entry[q], p)

\* Until p reports an installation its legacy identity is its only one.
Reported(id, p) == panel[p] = 0 /\ id \in Of(p) => id = legacy[p]

\* A link is to the entry's own panel.  An entry that was rekeyed back to the
\* legacy identity, after a restart that lost the registry's file, is linked.
RecordFits(r, o, p) ==
  r # None =>
    /\ Reported(r.uid, p)
    /\ r.link = legacy[p] => r.uid \in Of(p)
    /\ r.uid \in Of(p) => r.link \in {None, legacy[p]}
    /\ Alone(o, p) /\ r.inst /\ r.uid = legacy[p] => r.link = legacy[p]

\* A record and entities, each as it is or as it was last saved: the entities
\* are of the same panel.  Entities of before the migration go with a record
\* that remembers it, or with a linked one.
PairFits(r, ids, o, p) ==
  /\ \A id \in ids :
       r # None /\ Reported(id, p) /\ (id \in Of(p) <=> r.uid \in Of(p))
  /\ /\ Alone(o, p) /\ Kin(r, p) /\ r.inst /\ r.uid # legacy[p]
     /\ r.link = None /\ legacy[p] \in ids
     => r.prev = legacy[p]

\* Entities that carry an identity their record never had are those of the
\* registry's file.
AheadFits(r, ids, o, p) ==
  /\ Alone(o, p) /\ Kin(r, p)
  /\ ids # {} /\ r.uid \notin ids /\ r.prev \notin ids
  => disk.ents[o] = ids

\* Entry o as it is saved, and as a value m of ha has it.
DiskFits(o, p) ==
  /\ RecordFits(disk.entry[o], o, p)
  /\ PairFits(disk.entry[o], disk.ents[o], o, p)

HaFits(m, o, p) ==
  /\ m.entry[o] = None <=> disk.entry[o] = None
  /\ Kin(m.entry[o], p) <=> Kin(disk.entry[o], p)
  /\ RecordFits(m.entry[o], o, p)
  /\ PairFits(m.entry[o], m.ents[o], o, p)
  /\ PairFits(m.entry[o], disk.ents[o], o, p)
  /\ PairFits(disk.entry[o], m.ents[o], o, p)
  /\ m.entry[o] # None => PairFits(disk.entry[o], {m.entry[o].uid}, o, p)
  /\ AheadFits(m.entry[o], m.ents[o], o, p)

AllFit ==
  \A p \in Panels : Unshared(p) =>
    \A o \in Entries : DiskFits(o, p) /\ HaFits(ha, o, p)

\* The inductive invariant for what follows.
KinInv == IInv /\ AllFit

\* What a health line says of whether its panel is p.
LEMMA OfFacts ==
  ASSUME IInv, NEW p \in Panels, Unshared(p), NEW q \in Panels
  PROVE  /\ legacy[p] \in Legacies /\ legacy[p] # None /\ legacy[p] \in Of(p)
         /\ legacy[q] = legacy[p] => q = p
         /\ Health(q).did \in Of(p) <=> q = p
         /\ Reported(Health(q).did, p)
         /\ Health(q).inst =>
              Health(q).link = legacy[q] /\ Health(q).did \notin Legacies
         /\ ~Health(q).inst => Health(q).link = None /\ Health(q).did = legacy[q]
<1>1. /\ legacy[p] \in Legacies /\ legacy[q] \in Legacies /\ legacy[p] # None
      /\ legacy[p] \in Of(p)
  BY IdentityAssumption DEF IInv, Ids, Of
<1>2. legacy[q] = legacy[p] => q = p
  BY DEF Unshared
<1>3. CASE panel[q] = 0
  <2>1. Health(q) = [did |-> legacy[q], inst |-> FALSE, link |-> None]
    BY <1>3 DEF Health
  <2>2. legacy[q] \in Of(p) => legacy[q] = legacy[p]
    <3>1. \A n \in 1..MaxInstalls : Installation(p, n) \in Installations
      BY DEF Installation, Installations
    <3> QED BY <1>1, <3>1, IdentityAssumption DEF Of
  <2>3. legacy[q] \in Of(p) <=> q = p
    BY <1>1, <1>2, <2>2
  <2>4. Reported(legacy[q], p)
    BY <2>2 DEF Reported
  <2>5. Health(q).did = legacy[q] /\ Health(q).inst = FALSE /\ Health(q).link = None
    BY <2>1
  <2> QED BY <1>1, <1>2, <2>3, <2>4, <2>5
<1>4. CASE panel[q] # 0
  <2> DEFINE id == Installation(q, panel[q])
  <2>1. Health(q) = [did |-> id, inst |-> TRUE, link |-> legacy[q]]
    BY <1>4 DEF Health
  <2>2. panel[q] \in 1..MaxInstalls
    BY <1>4, IdentityAssumption DEF IInv
  <2>3. id \in Installations
    BY <2>2 DEF Installation, Installations
  <2>4. id \notin Legacies
    BY <2>3, IdentityAssumption
  <2>5. id \in Of(p) <=> q = p
    BY <1>1, <2>2, <2>4 DEF Of, Installation
  <2>6. Reported(id, p)
    BY <1>4, <2>5 DEF Reported
  <2> HIDE DEF id
  <2>7. Health(q).did = id /\ Health(q).inst = TRUE /\ Health(q).link = legacy[q]
    BY <2>1
  <2> QED BY <1>1, <1>2, <2>4, <2>5, <2>6, <2>7
<1> QED BY <1>3, <1>4

\* Every saved or running entry stays with its panel.
KinStay ==
  \A p \in Panels : Unshared(p) =>
    \A o \in Entries : Kin(ha.entry[o], p) => Kin(ha'.entry[o], p)

\* A step that only gives Home Assistant a new value is judged by that value.
LEMMA RunningFits ==
  ASSUME AllFit, NEW new, Running(new),
         \A p \in Panels : Unshared(p) => \A o \in Entries : HaFits(new, o, p)
  PROVE  AllFit' /\ KinStay
<1>1. panel' = panel /\ legacy' = legacy /\ disk' = disk /\ ha' = new
  BY DEF Running
<1>2. ASSUME NEW p \in Panels, NEW o \in Entries, Unshared(p)'
      PROVE  /\ DiskFits(o, p)' /\ HaFits(ha, o, p)'
  <2>1. Unshared(p)
    BY <1>1, <1>2 DEF Unshared
  <2>2. DiskFits(o, p) /\ HaFits(new, o, p)
    BY <2>1 DEF AllFit
  <2>3. DiskFits(o, p)'
    BY <1>1, <2>2 DEF DiskFits, RecordFits, PairFits, Reported, Kin, Alone, Of
  <2>4. HaFits(ha, o, p)'
    <3>1. /\ (ha.entry[o] = None <=> disk.entry[o] = None)'
          /\ (Kin(ha.entry[o], p) <=> Kin(disk.entry[o], p))'
      BY <1>1, <2>2 DEF HaFits, Kin, Of
    <3>2. RecordFits(ha.entry[o], o, p)'
      BY <1>1, <2>2 DEF HaFits, RecordFits, Reported, Kin, Alone, Of
    <3>3. PairFits(ha.entry[o], ha.ents[o], o, p)'
      BY <1>1, <2>2 DEF HaFits, PairFits, Reported, Kin, Alone, Of
    <3>4. PairFits(ha.entry[o], disk.ents[o], o, p)' /\ PairFits(disk.entry[o], ha.ents[o], o, p)'
      BY <1>1, <2>2 DEF HaFits, PairFits, Reported, Kin, Alone, Of
    <3>5. AheadFits(ha.entry[o], ha.ents[o], o, p)'
      BY <1>1, <2>2 DEF HaFits, AheadFits, Kin, Alone, Of
    <3>6. (ha.entry[o] # None => PairFits(disk.entry[o], {ha.entry[o].uid}, o, p))'
      BY <1>1, <2>2 DEF HaFits, PairFits, Reported, Kin, Alone, Of
    <3> QED BY <3>1, <3>2, <3>3, <3>4, <3>5, <3>6 DEF HaFits
  <2> QED BY <2>3, <2>4
<1>3. KinStay
  <2>1. ASSUME NEW p \in Panels, NEW o \in Entries, Unshared(p)
        PROVE  Kin(ha.entry[o], p) => Kin(new.entry[o], p)
    BY <2>1 DEF AllFit, HaFits
  <2> QED BY <1>1, <2>1 DEF KinStay
<1> QED BY <1>2, <1>3 DEF AllFit

\* An entry nothing happened to.
LEMMA SameFits ==
  ASSUME NEW p, NEW o, HaFits(ha, o, p),
         NEW n, n.entry[o] = ha.entry[o], n.ents[o] = ha.ents[o]
  PROVE  HaFits(n, o, p)
BY DEF HaFits

\* A rekey, for the entry that is rekeyed: from a legacy identity with or
\* without a link, or to the identity of the registry's file.
LEMMA RekeyFits ==
  ASSUME NEW m \in HaStates, NEW e \in Entries, m.entry[e] # None,
         NEW did \in Ids, NEW p, HaFits(m, e, p),
         m.ents[e] \subseteq {m.entry[e].uid, did},
         did \in Of(p) <=> m.entry[e].uid \in Of(p),
         Reported(did, p),
         Alone(e, p) /\ did = legacy[p] => m.entry[e].link = legacy[p],
         did = legacy[p] => m.ents[e] = {did},
         Alone(e, p) /\ Kin(m.entry[e], p) /\ m.entry[e].link = None
           /\ legacy[p] \in disk.ents[e]
           => did = legacy[p] \/ m.entry[e].uid = legacy[p]
  PROVE  HaFits(Committed(m, e, did), e, p)
<1> DEFINE old == m.entry[e]
           r == [m.entry[e] EXCEPT !.uid = did, !.inst = TRUE, !.prev = m.entry[e].uid]
           ids == Rekeyed(m.ents[e], m.entry[e].uid, did)
           c == Committed(m, e, did)
<1>1. old \in EntryRecords
  BY DEF HaStates, EntryStores
<1>2. /\ r \in EntryRecords /\ r.uid = did /\ r.inst = TRUE
      /\ r.prev = old.uid /\ r.link = old.link
  BY <1>1 DEF EntryRecords
<1>3. ids \in SUBSET Ids /\ ids \subseteq {did} /\ (ids = {} => m.ents[e] = {})
  BY DEF Rekeyed
<1>4. c = Rewritten(m, e, r, ids)
  BY DEF Committed, Rewritten, HaStates, Rekeyed
<1> HIDE DEF r, ids, c
<1>5. c.entry[e] = r /\ c.ents[e] = ids
  <2>1. /\ c.entry = [m.entry EXCEPT ![e] = r]
        /\ c.ents = [m.ents EXCEPT ![e] = ids]
    BY <1>2, <1>3, <1>4, RewrittenFacts
  <2> QED BY <2>1 DEF HaStates, EntryStores, EntityStores
<1>6. r # None
  BY <1>2, IdentityAssumption
<1>7. Kin(r, p) <=> Kin(old, p)
  BY <1>2, <1>6 DEF Kin
<1>8. RecordFits(r, e, p)
  BY <1>2, <1>6 DEF HaFits, RecordFits
<1>9. PairFits(r, ids, e, p)
  BY <1>2, <1>3, <1>6 DEF PairFits
<1>10. PairFits(r, disk.ents[e], e, p)
  <2>1. PairFits(old, disk.ents[e], e, p)
    BY DEF HaFits
  <2> QED BY <1>2, <1>6, <1>7, <2>1 DEF PairFits
<1>11. PairFits(disk.entry[e], {did}, e, p)
  <2>1. disk.entry[e] # None /\ (did \in Of(p) <=> disk.entry[e].uid \in Of(p))
    BY DEF HaFits, Kin
  <2>2. CASE did # legacy[p]
    BY <2>1, <2>2 DEF PairFits
  <2>3. CASE did = legacy[p]
    <3>1. PairFits(disk.entry[e], m.ents[e], e, p) /\ m.ents[e] = {did}
      BY <2>3 DEF HaFits
    <3> QED BY <3>1
  <2> QED BY <2>2, <2>3
<1>12. PairFits(disk.entry[e], ids, e, p)
  BY <1>3, <1>11 DEF PairFits
<1>13. AheadFits(r, ids, e, p)
  BY <1>2, <1>3 DEF AheadFits
<1>14. /\ r = None <=> disk.entry[e] = None
       /\ Kin(r, p) <=> Kin(disk.entry[e], p)
  BY <1>6, <1>7 DEF HaFits
<1>15. HaFits(c, e, p)
  BY <1>2, <1>5, <1>8, <1>9, <1>10, <1>11, <1>12, <1>13, <1>14 DEF HaFits
<1> QED BY <1>15 DEF c

\* The other entries are as they were.
LEMMA OthersOfRekey ==
  ASSUME NEW m \in HaStates, NEW e \in Entries, m.entry[e] # None,
         NEW did \in Ids, NEW o \in Entries \ {e}
  PROVE  /\ Committed(m, e, did).entry[o] = m.entry[o]
         /\ Committed(m, e, did).ents[o] = m.ents[o]
<1> DEFINE r == [m.entry[e] EXCEPT !.uid = did, !.inst = TRUE, !.prev = m.entry[e].uid]
           ids == Rekeyed(m.ents[e], m.entry[e].uid, did)
           c == Committed(m, e, did)
<1>1. r \in EntryRecords
  <2>1. m.entry[e] \in EntryRecords
    BY DEF HaStates, EntryStores
  <2> QED BY <2>1 DEF EntryRecords
<1>2. ids \in SUBSET Ids
  BY DEF Rekeyed, HaStates, EntityStores
<1>3. c = Rewritten(m, e, r, ids)
  BY DEF Committed, Rewritten, HaStates, Rekeyed
<1> HIDE DEF r, ids, c
<1>4. /\ c.entry = [m.entry EXCEPT ![e] = r]
      /\ c.ents = [m.ents EXCEPT ![e] = ids]
  BY <1>1, <1>2, <1>3, RewrittenFacts
<1> QED BY <1>4 DEF HaStates, EntryStores, EntityStores, c

-----------------------------------------------------------------------------
(***************************************************************************)
(* The functions of identity.py keep every entry with its panel.           *)
(***************************************************************************)

\* A rekey to the installation a panel reports.  What is rekeyed is an entry
\* of that panel: its identity or its link is the panel's legacy identity.
LEMMA FollowFits ==
  ASSUME KinInv, NEW e \in Entries, ha.entry[e] # None, NEW q \in Panels,
         CanRekey(ha, e, Health(q).did),
         \/ MigrationCandidate(ha.entry[e], Health(q))
         \/ Reinstalled(ha, e, Health(q)),
         NEW p \in Panels, Unshared(p), NEW o \in Entries
  PROVE  HaFits(Committed(ha, e, Health(q).did), o, p)
<1> DEFINE r == ha.entry[e]
           h == Health(q)
<1>1. /\ IInv /\ ha \in HaStates /\ HaFits(ha, o, p) /\ HaFits(ha, e, p)
      /\ h.did \in Ids
  BY HealthFacts DEF KinInv, AllFit, IInv, Sane, HealthLines
<1>2. /\ legacy[p] \in Legacies /\ legacy[p] # None /\ legacy[p] \in Of(p)
      /\ legacy[q] = legacy[p] => q = p
      /\ h.did \in Of(p) <=> q = p
      /\ Reported(h.did, p)
  BY <1>1, OfFacts
<1>3. h.inst /\ h.link = legacy[q] /\ h.did \notin Legacies
  <2>1. h.inst
    BY DEF MigrationCandidate, Reinstalled, LinkedReinstall
  <2> QED BY <1>1, <2>1, OfFacts
<1> HIDE DEF h
<1>4. legacy[q] \in Of(p) => q = p
  <2>1. legacy[q] \in Legacies
    BY DEF KinInv, IInv
  <2>2. \A n \in 1..MaxInstalls : Installation(p, n) \in Installations
    BY DEF Installation, Installations
  <2> QED BY <1>2, <2>1, <2>2, IdentityAssumption DEF Of
<1>5. /\ h.did \in Of(p) <=> r.uid \in Of(p)
      /\ r.link = None => r.uid = legacy[q]
  <2>1. CASE MigrationCandidate(r, h)
    BY <1>2, <1>3, <1>4, <2>1 DEF MigrationCandidate
  <2>2. CASE Reinstalled(ha, e, h)
    <3>1. r.link = legacy[q] /\ legacy[q] \in Legacies
      BY <1>3, <2>2 DEF Reinstalled, LinkedReinstall, KinInv, IInv
    <3>2. /\ legacy[q] = legacy[p] => r.uid \in Of(p)
          /\ r.uid \in Of(p) => legacy[q] \in {None, legacy[p]}
      BY <1>1, <3>1 DEF HaFits, RecordFits
    <3>3. legacy[q] # None
      BY <3>1, IdentityAssumption DEF Ids
    <3> QED BY <1>2, <3>1, <3>2, <3>3
  <2> QED BY <2>1, <2>2 DEF h
<1>6. h.did # legacy[p]
  BY <1>2, <1>3
<1>7. Kin(r, p) /\ r.link = None => r.uid = legacy[p]
  BY <1>2, <1>5 DEF Kin
<1>8. CASE o = e
  <2>1. ha.ents[e] \subseteq {r.uid, h.did}
    BY DEF CanRekey, h
  <2>2. HaFits(Committed(ha, e, h.did), e, p)
    BY <1>1, <1>2, <1>5, <1>6, <1>7, <2>1, RekeyFits
  <2> QED BY <1>8, <2>2 DEF h
<1>9. CASE o # e
  <2>1. /\ Committed(ha, e, h.did).entry[o] = ha.entry[o]
        /\ Committed(ha, e, h.did).ents[o] = ha.ents[o]
    BY <1>1, <1>9, OthersOfRekey
  <2>2. HaFits(Committed(ha, e, h.did), o, p)
    BY <1>1, <2>1, SameFits
  <2> QED BY <2>2 DEF h
<1> QED BY <1>8, <1>9

\* An entry that accepts its panel may take its link from others.
LinkDropped(n, m, e, o) ==
  /\ o # e /\ m.entry[o] # None
  /\ m.entry[e].link # None /\ m.entry[o].link = m.entry[e].link
  /\ n.entry[o] = [m.entry[o] EXCEPT !.link = None]

LEMMA LinkClaimedFacts ==
  ASSUME NEW m \in HaStates, NEW e \in Entries, NEW o \in Entries
  PROVE  /\ LinkClaimed(m, e).ents = m.ents
         /\ \/ LinkClaimed(m, e).entry[o] = m.entry[o]
            \/ LinkDropped(LinkClaimed(m, e), m, e, o)
<1> DEFINE claimed == m.entry[e].link
           left == {x \in LinkHolders(m, e, claimed) : ~AnswersAsItself(m, x)}
           links == [x \in Entries |-> IF x \in left
                                       THEN [m.entry[x] EXCEPT !.link = None]
                                       ELSE m.entry[x]]
           n == [m EXCEPT !.entry = links]
<1>1. LinkClaimed(m, e) = IF claimed = None THEN m ELSE n
  BY DEF LinkClaimed
<1>2. links[o] = IF o \in left THEN [m.entry[o] EXCEPT !.link = None] ELSE m.entry[o]
  OBVIOUS
<1>3. o \in left => o # e /\ m.entry[o] # None /\ m.entry[o].link = claimed
  BY DEF LinkHolders, Others, Saved
<1> HIDE DEF links, left
<1>4. n.entry = links /\ n.ents = m.ents
  BY DEF HaStates
<1> HIDE DEF n
<1> QED BY <1>1, <1>2, <1>3, <1>4 DEF LinkDropped

\* The entry that accepts its panel learns its link; the entries that lose
\* theirs to it have kin in it.
LEMMA AcceptedFits ==
  ASSUME KinInv, NEW e \in Entries, ha.entry[e] # None, NEW q \in Panels,
         Health(q).did = ha.entry[e].uid,
         NEW p \in Panels, Unshared(p), NEW o \in Entries
  PROVE  HaFits(Accepted(ha, e, Health(q)), o, p)
<1> DEFINE h == Health(q)
           old == ha.entry[e]
           r == [ha.entry[e] EXCEPT !.uid = h.did, !.inst = @ \/ h.inst,
                                    !.link = IF h.link = None THEN @ ELSE h.link]
           n == [ha EXCEPT !.entry[e] = r]
           c == Accepted(ha, e, h)
<1>1. /\ IInv /\ ha \in HaStates /\ old \in EntryRecords
      /\ HaFits(ha, o, p) /\ HaFits(ha, e, p) /\ h \in HealthLines
  BY HealthFacts DEF KinInv, AllFit, IInv, Sane, HaStates, EntryStores
<1>2. /\ legacy[p] \in Legacies /\ legacy[p] # None /\ legacy[p] \in Of(p)
      /\ legacy[q] = legacy[p] => q = p
      /\ h.did \in Of(p) <=> q = p
      /\ h.inst => h.link = legacy[q] /\ h.did \notin Legacies
      /\ ~h.inst => h.link = None
  BY <1>1, OfFacts
<1>3. legacy[q] # None
  BY IdentityAssumption DEF KinInv, IInv, Ids
<1>4. /\ r \in EntryRecords /\ r.uid = old.uid /\ r.prev = old.prev
      /\ h.inst => r.link = legacy[q]
      /\ ~h.inst => r.link = old.link /\ r.inst = old.inst
  BY <1>1, <1>2, <1>3 DEF EntryRecords, HealthLines
<1>5. c = LinkClaimed(n, e)
  BY DEF Accepted
<1>6. h.did = old.uid
  OBVIOUS
<1> HIDE DEF h, r, c
<1>7. /\ n \in HaStates /\ n.entry = [ha.entry EXCEPT ![e] = r] /\ n.ents = ha.ents
  BY <1>1, <1>4 DEF HaStates, EntryStores
<1>8. /\ n.entry[e] = r
      /\ o # e => n.entry[o] = ha.entry[o]
  BY <1>1, <1>7 DEF HaStates, EntryStores
<1> HIDE DEF n
<1>9. r # None
  BY <1>4, IdentityAssumption
<1>10. /\ RecordFits(r, e, p)
       /\ r.link = legacy[p] => r.uid \in Of(p)
  <2>1. RecordFits(old, e, p)
    BY <1>1 DEF HaFits
  <2>2. CASE h.inst
    <3>1. r.link = legacy[p] => r.uid \in Of(p)
      BY <1>2, <1>4, <1>6, <2>2
    <3>2. r.uid \in Of(p) => r.link = legacy[p]
      BY <1>2, <1>4, <1>6, <2>2
    <3>3. r.uid # legacy[p] /\ Reported(r.uid, p)
      BY <1>2, <1>4, <1>6, <2>1, <2>2 DEF RecordFits
    <3> QED BY <3>1, <3>2, <3>3 DEF RecordFits
  <2>3. CASE ~h.inst
    BY <1>4, <2>1, <2>3 DEF RecordFits
  <2> QED BY <2>2, <2>3
<1>11. CASE o = e
  <2>1. c.entry[e] = r /\ c.ents[e] = ha.ents[e]
    BY <1>5, <1>7, <1>8, LinkClaimedFacts DEF LinkDropped
  <2>2. Kin(r, p) <=> Kin(old, p)
    BY <1>4, <1>9 DEF Kin
  <2>3. ASSUME NEW ids, PairFits(old, ids, e, p) PROVE PairFits(r, ids, e, p)
    <3>1. CASE h.inst
      <4>1. Kin(r, p) => r.link # None
        BY <1>2, <1>3, <1>4, <3>1
      <4> QED BY <1>4, <1>9, <2>3, <4>1 DEF PairFits
    <3>2. CASE ~h.inst
      BY <1>4, <1>9, <2>2, <2>3, <3>2 DEF PairFits
    <3> QED BY <3>1, <3>2
  <2>4. AheadFits(r, ha.ents[e], e, p)
    BY <1>1, <1>4, <2>2 DEF HaFits, AheadFits
  <2>5. HaFits(c, e, p)
    BY <1>1, <1>4, <1>9, <1>10, <2>1, <2>2, <2>3, <2>4 DEF HaFits
  <2> QED BY <1>11, <2>5 DEF c, h
<1>12. CASE o # e
  <2>1. c.ents[o] = ha.ents[o]
    BY <1>5, <1>7, LinkClaimedFacts
  <2>2. CASE c.entry[o] = ha.entry[o]
    <3>1. HaFits(c, o, p)
      BY <1>1, <2>1, <2>2, SameFits
    <3> QED BY <3>1 DEF c, h
  <2>3. CASE c.entry[o] # ha.entry[o]
    <3> DEFINE s == ha.entry[o]
               t == [ha.entry[o] EXCEPT !.link = None]
    <3>1. /\ s # None /\ r.link # None /\ s.link = r.link /\ c.entry[o] = t
      <4>1. c.entry[o] = n.entry[o] \/ LinkDropped(c, n, e, o)
        BY <1>5, <1>7, LinkClaimedFacts
      <4>2. n.entry[o] = ha.entry[o]
        BY <1>8, <1>12
      <4> QED BY <1>8, <2>3, <4>1, <4>2 DEF LinkDropped
    <3>2. /\ t \in EntryRecords /\ t.uid = s.uid /\ t.prev = s.prev
          /\ t.inst = s.inst /\ t.link = None
      <4>1. s \in EntryRecords
        BY <1>1, <3>1 DEF HaStates, EntryStores
      <4> QED BY <4>1 DEF EntryRecords
    <3>3. t # None
      BY <3>2, IdentityAssumption
    <3>4. Kin(t, p) <=> Kin(s, p)
      BY <3>1, <3>2, <3>3 DEF Kin
    <3>5. Kin(s, p) => ~Alone(o, p)
      <4>1. s.uid \in Of(p) => s.link \in {None, legacy[p]}
        BY <1>1, <3>1 DEF HaFits, RecordFits
      <4>2. Kin(s, p) => Kin(r, p)
        BY <1>9, <1>10, <3>1, <4>1 DEF Kin
      <4>3. Kin(r, p) => Kin(disk.entry[e], p)
        BY <1>1, <1>4 DEF Kin, HaFits
      <4> QED BY <1>12, <4>2, <4>3 DEF Alone
    <3> HIDE DEF s, t
    <3>6. RecordFits(t, o, p)
      <4>1. RecordFits(s, o, p)
        BY <1>1 DEF HaFits, s
      <4>2. s.uid = legacy[p] => ~Alone(o, p)
        BY <1>2, <3>1, <3>5 DEF Kin
      <4> QED BY <1>2, <3>1, <3>2, <4>1, <4>2 DEF RecordFits
    <3>7. ASSUME NEW ids, PairFits(s, ids, o, p) PROVE PairFits(t, ids, o, p)
      BY <3>2, <3>3, <3>4, <3>5, <3>7 DEF PairFits
    <3>8. AheadFits(t, ha.ents[o], o, p)
      BY <3>4, <3>5 DEF AheadFits
    <3>9. HaFits(ha, o, p) /\ ha.entry[o] = s
      BY <1>1 DEF s
    <3>10. HaFits(c, o, p)
      BY <2>1, <3>1, <3>2, <3>3, <3>4, <3>6, <3>7, <3>8, <3>9 DEF HaFits
    <3> QED BY <3>10 DEF c, h
  <2> QED BY <2>2, <2>3
<1> QED BY <1>11, <1>12

\* Reading a health line, of whatever panel.
LEMMA AcceptHealthFits ==
  ASSUME KinInv, NEW e \in Entries, ha.entry[e] # None, NEW q \in Panels,
         NEW free \in BOOLEAN,
         NEW p \in Panels, Unshared(p), NEW o \in Entries
  PROVE  HaFits(AcceptHealth(ha, e, Health(q), free).ha, o, p)
<1> DEFINE h == Health(q)
           r == ha.entry[e]
           first == r.uid = None /\ ha.ents[e] = {} /\ IdentityAvailable(ha, e, h.did)
           rekeyed == MigrationCandidate(r, h) \/ Reinstalled(ha, e, h)
           follows == free /\ rekeyed
           a == Accepted(ha, e, h)
           c == Committed(ha, e, h.did)
           n == [ha EXCEPT !.answers[e] = FALSE]
           out == CASE first \/ h.did = r.uid -> [ok |-> TRUE, ha |-> a]
                    [] follows /\ CanRekey(ha, e, h.did) -> [ok |-> TRUE, ha |-> c]
                    [] OTHER -> [ok |-> FALSE, ha |-> n]
<1>1. /\ r.uid # None /\ ha \in HaStates /\ HaFits(ha, o, p)
  BY DEF KinInv, AllFit, IInv, Sane, Owned
<1>2. Restored(ha, e) = ha
  BY <1>1 DEF Restored
<1>3. AcceptHealth(ha, e, h, free) = out
  BY <1>2 DEF AcceptHealth
<1>4. ~first /\ (follows => h.did # r.uid)
  BY <1>1 DEF MigrationCandidate, Reinstalled, LinkedReinstall
<1>5. h.did = r.uid => HaFits(a, o, p)
  BY AcceptedFits
<1>6. follows /\ CanRekey(ha, e, h.did) => HaFits(c, o, p)
  BY FollowFits
<1>7. HaFits(n, o, p)
  <2>1. n.entry = ha.entry /\ n.ents = ha.ents
    BY <1>1 DEF HaStates
  <2> HIDE DEF n
  <2> QED BY <1>1, <2>1, SameFits
<1> HIDE DEF first, follows, a, c, n, h
<1>8. CASE h.did = r.uid
  <2>1. out = [ok |-> TRUE, ha |-> a]
    BY <1>4, <1>8
  <2> QED BY <1>3, <1>5, <1>8, <2>1 DEF h
<1>9. CASE h.did # r.uid /\ follows /\ CanRekey(ha, e, h.did)
  <2>1. out = [ok |-> TRUE, ha |-> c]
    BY <1>4, <1>9
  <2> QED BY <1>3, <1>6, <1>9, <2>1 DEF h
<1>10. CASE h.did # r.uid /\ ~(follows /\ CanRekey(ha, e, h.did))
  <2>1. out = [ok |-> FALSE, ha |-> n]
    BY <1>4, <1>10
  <2> QED BY <1>3, <1>7, <2>1 DEF h
<1> QED BY <1>8, <1>9, <1>10

\* Before an entry is loaded, its entities are brought to its own identity, or
\* it to that of its entities, which is one of the same panel.
LEMMA ReconciledFits ==
  ASSUME KinInv, NEW e \in Entries, ha.entry[e] # None,
         NEW p \in Panels, Unshared(p), NEW o \in Entries
  PROVE  HaFits(Reconciled(ha, e).ha, o, p)
<1> DEFINE r == ha.entry[e]
           c == Reconciled(ha, e).ha
           did == CHOOSE d \in ha.ents[e] : TRUE
           ids == Rekeyed(ha.ents[e], r.prev, r.uid)
           n == [ha EXCEPT !.ents[e] = ids]
<1>1. /\ ha \in HaStates /\ r \in EntryRecords /\ r.uid # None /\ r.uid \in Ids
      /\ HaFits(ha, o, p) /\ HaFits(ha, e, p)
      /\ legacy[p] # None
  <2>1. IInv /\ HaFits(ha, o, p) /\ HaFits(ha, e, p)
    BY DEF KinInv, AllFit
  <2>2. ha \in HaStates /\ r \in EntryRecords /\ r.uid # None
    BY <2>1 DEF IInv, Sane, Owned, HaStates, EntryStores
  <2> QED BY <2>1, <2>2, OfFacts DEF EntryRecords
<1>2. CASE RekeyAhead(ha, e)
  <2>1. PICK d \in ha.ents[e] : ha.ents[e] = {d} /\ IdentityAvailable(ha, e, d)
    BY <1>2 DEF RekeyAhead
  <2>2. c = Committed(ha, e, d)
    <3>1. did = d
      BY <2>1
    <3> QED BY <1>2, <3>1 DEF Reconciled
  <2>3. r.inst /\ r.uid # d /\ r.prev # d /\ d \in Ids
    BY <1>1, <1>2, <2>1 DEF RekeyAhead, HaStates, EntityStores
  <2> HIDE DEF c
  <2>4. CASE o = e
    <3>1. PairFits(r, {d}, e, p) /\ RecordFits(r, e, p) /\ AheadFits(r, {d}, e, p)
      BY <1>1, <2>1 DEF HaFits
    <3>2. (d \in Of(p) <=> r.uid \in Of(p)) /\ Reported(d, p)
      BY <3>1 DEF PairFits
    <3>3. Alone(e, p) /\ d = legacy[p] => r.link = legacy[p]
      <4> HAVE Alone(e, p) /\ d = legacy[p]
      <4>1. Kin(r, p)
        BY <1>1, <3>2 DEF Kin, Of
      <4>2. r.link # None
        BY <2>3, <3>1, <4>1 DEF PairFits
      <4> QED BY <3>1, <4>1, <4>2 DEF RecordFits, Kin
    <3>4. Alone(e, p) /\ Kin(r, p) /\ legacy[p] \in disk.ents[e]
            => d = legacy[p]
      <4>1. Alone(e, p) /\ Kin(r, p) => disk.ents[e] = {d}
        BY <2>3, <3>1 DEF AheadFits
      <4> QED BY <4>1
    <3>5. HaFits(Committed(ha, e, d), e, p)
      BY <1>1, <2>1, <2>3, <3>2, <3>3, <3>4, RekeyFits
    <3> QED BY <2>2, <2>4, <3>5 DEF c
  <2>5. CASE o # e
    <3>1. c.entry[o] = ha.entry[o] /\ c.ents[o] = ha.ents[o]
      BY <1>1, <2>2, <2>3, <2>5, OthersOfRekey
    <3>2. HaFits(c, o, p)
      BY <1>1, <3>1, SameFits
    <3> QED BY <3>2 DEF c
  <2> QED BY <2>4, <2>5
<1>3. CASE ~RekeyAhead(ha, e) /\ c = ha
  <2>1. HaFits(ha, o, p) /\ c = ha
    BY <1>1, <1>3
  <2> HIDE DEF c
  <2> QED BY <2>1 DEF c
<1>4. CASE ~RekeyAhead(ha, e) /\ c # ha
  <2>1. CanFinish(ha, e, r.prev, r.uid) /\ c = n
    BY <1>4 DEF Reconciled
  <2>2. ids \subseteq {r.uid} /\ ids \in SUBSET Ids
    BY <1>1, <2>1 DEF Rekeyed, CanFinish
  <2> HIDE DEF ids, c
  <2>3. n.entry = ha.entry /\ n.ents = [ha.ents EXCEPT ![e] = ids]
    BY <1>1, <2>2 DEF HaStates, EntityStores
  <2> HIDE DEF n
  <2>4. CASE o = e
    <3>1. n.entry[e] = r /\ n.ents[e] = ids
      BY <1>1, <2>3 DEF HaStates, EntityStores
    <3>2. PairFits(r, ids, e, p)
      <4>1. Reported(r.uid, p)
        BY <1>1 DEF HaFits, RecordFits
      <4> QED BY <2>2, <4>1 DEF PairFits
    <3>3. PairFits(disk.entry[e], ids, e, p)
      <4>1. PairFits(disk.entry[e], {r.uid}, e, p)
        BY <1>1 DEF HaFits
      <4> QED BY <2>2, <4>1 DEF PairFits
    <3>4. AheadFits(r, ids, e, p)
      BY <2>2 DEF AheadFits
    <3>5. HaFits(n, e, p)
      BY <1>1, <3>1, <3>2, <3>3, <3>4 DEF HaFits
    <3> QED BY <2>1, <2>4, <3>5 DEF c
  <2>5. CASE o # e
    <3>1. n.entry[o] = ha.entry[o] /\ n.ents[o] = ha.ents[o]
      BY <1>1, <2>3, <2>5 DEF HaStates, EntityStores
    <3>2. HaFits(n, o, p)
      BY <1>1, <3>1, SameFits
    <3> QED BY <2>1, <3>2 DEF c
  <2> QED BY <2>4, <2>5
<1> QED BY <1>2, <1>3, <1>4

-----------------------------------------------------------------------------
(***************************************************************************)
(* The steps keep every entry with its panel.                              *)
(***************************************************************************)

\* The value a poll, a loading or a lost answer leaves differs from that of the
\* function it called in nothing that is asked here.
LEMMA MarksFit ==
  ASSUME NEW m \in HaStates, NEW e \in Entries, NEW a \in BOOLEAN, NEW p, NEW o,
         HaFits(m, o, p)
  PROVE  /\ HaFits([m EXCEPT !.answers[e] = a], o, p)
         /\ \A b \in BOOLEAN :
              HaFits([m EXCEPT !.loaded[e] = b, !.answers[e] = a], o, p)
<1>1. ASSUME NEW b \in BOOLEAN
      PROVE  HaFits([m EXCEPT !.loaded[e] = b, !.answers[e] = a], o, p)
  <2> DEFINE n == [m EXCEPT !.loaded[e] = b, !.answers[e] = a]
  <2>1. n.entry = m.entry /\ n.ents = m.ents
    BY DEF HaStates
  <2> HIDE DEF n
  <2>2. HaFits(n, o, p)
    BY <2>1 DEF HaFits
  <2> QED BY <2>2 DEF n
<1>2. HaFits([m EXCEPT !.answers[e] = a], o, p)
  <2> DEFINE n == [m EXCEPT !.answers[e] = a]
  <2>1. n.entry = m.entry /\ n.ents = m.ents
    BY DEF HaStates
  <2> HIDE DEF n
  <2>2. HaFits(n, o, p)
    BY <2>1 DEF HaFits
  <2> QED BY <2>2 DEF n
<1> QED BY <1>1, <1>2

LEMMA HaFitsNow ==
  ASSUME KinInv, NEW p \in Panels, Unshared(p), NEW o \in Entries
  PROVE  HaFits(ha, o, p) /\ DiskFits(o, p) /\ ha \in HaStates
BY DEF KinInv, AllFit, IInv, Sane

LEMMA PollFits ==
  ASSUME KinInv, NEW e \in Entries, NEW q \in Panels, NEW free \in BOOLEAN,
         Poll(e, q, free)
  PROVE  AllFit' /\ KinStay
<1> DEFINE out == AcceptHealth(ha, e, Health(q), free)
<1>1. ha.entry[e] # None
  BY DEF Poll, KinInv, IInv, Sane, OneSet
<1>2. out.ok \in BOOLEAN /\ out.ha \in HaStates
  <2>1. out.ok \in BOOLEAN /\ Sane(out.ha)
    BY <1>1, HealthFacts, AcceptHealthSane DEF KinInv, IInv
  <2> QED BY <2>1 DEF Sane
<1>3. \A p \in Panels : Unshared(p) => \A o \in Entries : HaFits(out.ha, o, p)
  BY <1>1, AcceptHealthFits
<1>4. Running([out.ha EXCEPT !.answers[e] = out.ok])
  BY DEF Poll
<1> HIDE DEF out
<1>5. \A p \in Panels : Unshared(p) =>
        \A o \in Entries : HaFits([out.ha EXCEPT !.answers[e] = out.ok], o, p)
  BY <1>2, <1>3, MarksFit
<1> QED BY <1>4, <1>5, RunningFits DEF KinInv

LEMMA MeetFits ==
  ASSUME KinInv, NEW e \in Entries, NEW q \in Panels, NEW free \in BOOLEAN,
         Meet(e, q, free)
  PROVE  AllFit' /\ KinStay
<1> DEFINE new == AcceptHealth(ha, e, Health(q), free).ha
<1>1. ha.entry[e] # None /\ Running(new)
  BY DEF Meet, Saved
<1>2. \A p \in Panels : Unshared(p) => \A o \in Entries : HaFits(new, o, p)
  BY <1>1, AcceptHealthFits
<1> HIDE DEF new
<1> QED BY <1>1, <1>2, RunningFits DEF KinInv

LEMMA MarkStepsFit ==
  ASSUME KinInv, NEW e \in Entries, PanelSilent(e) \/ Unload(e)
  PROVE  AllFit' /\ KinStay
<1> DEFINE n == [ha EXCEPT !.answers[e] = FALSE]
           k == [ha EXCEPT !.loaded[e] = FALSE, !.answers[e] = FALSE]
<1>1. ASSUME NEW p \in Panels, Unshared(p), NEW o \in Entries
      PROVE  HaFits(n, o, p) /\ HaFits(k, o, p)
  BY <1>1, HaFitsNow, MarksFit
<1>2. Running(n) \/ Running(k)
  BY DEF PanelSilent, Unload
<1> HIDE DEF n, k
<1> QED BY <1>1, <1>2, RunningFits DEF KinInv

LEMMA LoadFits ==
  ASSUME KinInv, NEW e \in Entries, NEW answered \in BOOLEAN, Load(e, answered)
  PROVE  AllFit' /\ KinStay
<1> DEFINE m == Reconciled(ha, e).ha
           n == [m EXCEPT !.loaded[e] = TRUE, !.answers[e] = answered]
<1>1. ha.entry[e] # None /\ ~ha.loaded[e] /\ Reconciled(ha, e).ok
  BY DEF Load, Saved
<1>2. m \in HaStates
  BY <1>1, ReconciledSane DEF KinInv, IInv, Sane
<1>3. \A p \in Panels : Unshared(p) => \A o \in Entries : HaFits(m, o, p)
  BY <1>1, ReconciledFits
<1>4. Running(n)
  BY DEF Load
<1> HIDE DEF m
<1>5. \A p \in Panels : Unshared(p) => \A o \in Entries : HaFits(n, o, p)
  BY <1>2, <1>3, MarksFit
<1> HIDE DEF n
<1> QED BY <1>4, <1>5, RunningFits DEF KinInv

LEMMA ConfirmIdentityFits ==
  ASSUME KinInv, NEW e \in Entries, NEW q \in Panels, ConfirmIdentity(e, q)
  PROVE  AllFit' /\ KinStay
<1> DEFINE new == Committed(ha, e, Health(q).did)
<1>1. /\ ha.entry[e] # None /\ MigrationCandidate(ha.entry[e], Health(q))
      /\ CanRekey(ha, e, Health(q).did) /\ Running(new)
  BY DEF ConfirmIdentity, Saved
<1>2. \A p \in Panels : Unshared(p) => \A o \in Entries : HaFits(new, o, p)
  BY <1>1, FollowFits
<1> HIDE DEF new
<1> QED BY <1>1, <1>2, RunningFits DEF KinInv

\* The described identity is the entry's own; another entry can lose it only
\* while that one is of the same panel.
LEMMA DescribeFits ==
  ASSUME KinInv, NEW e \in Entries, NEW q \in Panels, Describe(e, q)
  PROVE  AllFit' /\ KinStay
<1> DEFINE did == Health(q).did
           r == ha.entry[e]
           ents == [o \in Entries |-> IF o = e THEN ha.ents[o] \cup {did}
                                      ELSE ha.ents[o] \ {did}]
           n == [ha EXCEPT !.answers[e] = TRUE, !.ents = ents]
<1>1. /\ r # None /\ r.uid = did /\ ha \in HaStates
  BY DEF Describe, KinInv, IInv, Sane, OneSet
<1>2. Running(n)
  BY <1>1 DEF Describe, HaStates
<1> HIDE DEF did
<1>3. n.entry = ha.entry /\ n.ents = ents
  BY <1>1 DEF HaStates
<1> HIDE DEF n
<1>4. ASSUME NEW p \in Panels, Unshared(p), NEW o \in Entries
      PROVE  HaFits(n, o, p)
  <2>1. HaFits(ha, o, p) /\ HaFits(ha, e, p)
    BY <1>4, HaFitsNow
  <2>2. CASE o = e
    <3>1. n.entry[e] = r /\ n.ents[e] = ha.ents[e] \cup {did}
      BY <1>3
    <3>2. PairFits(r, ha.ents[e] \cup {did}, e, p)
      <4>1. PairFits(r, ha.ents[e], e, p) /\ RecordFits(r, e, p)
        BY <2>1 DEF HaFits
      <4> QED BY <1>1, <4>1 DEF PairFits, RecordFits
    <3>3. PairFits(disk.entry[e], ha.ents[e] \cup {did}, e, p)
      <4>1. PairFits(disk.entry[e], ha.ents[e], e, p) /\ PairFits(disk.entry[e], {did}, e, p)
        BY <1>1, <2>1 DEF HaFits
      <4> QED BY <4>1 DEF PairFits
    <3>4. AheadFits(r, ha.ents[e] \cup {did}, e, p)
      BY <1>1 DEF AheadFits
    <3> QED BY <2>1, <2>2, <3>1, <3>2, <3>3, <3>4 DEF HaFits
  <2>3. CASE o # e
    <3> DEFINE ids == ha.ents[o] \ {did}
    <3>1. n.entry[o] = ha.entry[o] /\ n.ents[o] = ids
      BY <1>3, <2>3
    <3>2. PairFits(ha.entry[o], ids, o, p)
      BY <2>1 DEF HaFits, PairFits
    <3>3. PairFits(disk.entry[o], ids, o, p)
      BY <2>1 DEF HaFits, PairFits
    <3>4. AheadFits(ha.entry[o], ids, o, p)
      <4>1. CASE Alone(o, p) /\ Kin(ha.entry[o], p)
        <5>1. did \notin Of(p)
          BY <1>1, <2>1, <2>3, <4>1 DEF Alone, Kin, HaFits
        <5>2. \A id \in ha.ents[o] : id \in Of(p)
          BY <2>1, <4>1 DEF HaFits, PairFits, Kin
        <5>3. ids = ha.ents[o]
          BY <5>1, <5>2
        <5> QED BY <2>1, <5>3 DEF HaFits
      <4>2. CASE ~(Alone(o, p) /\ Kin(ha.entry[o], p))
        BY <4>2 DEF AheadFits
      <4> QED BY <4>1, <4>2
    <3> HIDE DEF ids
    <3> QED BY <2>1, <3>1, <3>2, <3>3, <3>4 DEF HaFits
  <2> QED BY <2>2, <2>3
<1> QED BY <1>2, <1>4, RunningFits DEF KinInv

LEMMA RestartFits ==
  ASSUME KinInv, Restart
  PROVE  AllFit' /\ KinStay
<1> DEFINE n == Started(disk)
<1>1. n.entry = disk.entry /\ n.ents = disk.ents /\ Running(n)
  BY DEF Started, Restart
<1> HIDE DEF n
<1>2. ASSUME NEW p \in Panels, Unshared(p), NEW o \in Entries
      PROVE  HaFits(n, o, p)
  <2>1. DiskFits(o, p)
    BY <1>2, HaFitsNow
  <2>2. disk.entry[o] # None => PairFits(disk.entry[o], {disk.entry[o].uid}, o, p)
    BY <2>1 DEF DiskFits, RecordFits, PairFits
  <2>3. AheadFits(disk.entry[o], disk.ents[o], o, p)
    BY DEF AheadFits
  <2> QED BY <1>1, <2>1, <2>2, <2>3 DEF DiskFits, HaFits
<1> QED BY <1>1, <1>2, RunningFits DEF KinInv

\* Saving makes the store what the running state is, for the same panels.
LEMMA SaveEntriesFits ==
  ASSUME KinInv, SaveEntries
  PROVE  AllFit' /\ KinStay
<1>1. /\ panel' = panel /\ legacy' = legacy /\ ha' = ha
      /\ disk'.entry = ha.entry /\ disk'.ents = disk.ents
  BY DEF SaveEntries, KinInv, IInv
<1>2. ASSUME NEW p \in Panels, Unshared(p)', NEW o \in Entries
      PROVE  DiskFits(o, p)' /\ HaFits(ha, o, p)'
  <2>1. Unshared(p)
    BY <1>1, <1>2 DEF Unshared
  <2>2. HaFits(ha, o, p)
    BY <2>1, HaFitsNow
  <2>3. Alone(o, p)' <=> Alone(o, p)
    <3>1. ASSUME NEW x \in Entries
          PROVE  Kin(disk.entry[x], p)' <=> Kin(disk.entry[x], p)
      <4>1. Kin(ha.entry[x], p) <=> Kin(disk.entry[x], p)
        BY <2>1, HaFitsNow DEF HaFits
      <4>2. Kin(disk.entry[x], p)' <=> Kin(ha.entry[x], p)
        BY <1>1 DEF Kin, Of
      <4> QED BY <4>1, <4>2
    <3> QED BY <3>1 DEF Alone
  <2>4. DiskFits(o, p)'
    <3>1. RecordFits(disk.entry[o], o, p)'
      BY <1>1, <2>2, <2>3 DEF HaFits, RecordFits, Reported, Of
    <3>2. PairFits(disk.entry[o], disk.ents[o], o, p)'
      BY <1>1, <2>2, <2>3 DEF HaFits, PairFits, Reported, Of, Kin
    <3> QED BY <3>1, <3>2 DEF DiskFits
  <2>5. HaFits(ha, o, p)'
    <3>1. RecordFits(ha.entry[o], o, p)'
      BY <1>1, <2>2, <2>3 DEF HaFits, RecordFits, Reported, Of
    <3>2. /\ PairFits(ha.entry[o], ha.ents[o], o, p)'
          /\ PairFits(ha.entry[o], disk.ents[o], o, p)'
          /\ PairFits(disk.entry[o], ha.ents[o], o, p)'
      BY <1>1, <2>2, <2>3 DEF HaFits, PairFits, Reported, Of, Kin
    <3>3. ha'.entry[o] # None => PairFits(disk.entry[o], {ha.entry[o].uid}, o, p)'
      BY <1>1, <2>2, <2>3 DEF HaFits, RecordFits, PairFits, Reported, Of, Kin
    <3>4. AheadFits(ha.entry[o], ha.ents[o], o, p)'
      BY <1>1, <2>2, <2>3 DEF HaFits, AheadFits, Of, Kin
    <3>5. /\ (ha.entry[o] = None <=> disk.entry[o] = None)'
          /\ (Kin(ha.entry[o], p) <=> Kin(disk.entry[o], p))'
      BY <1>1 DEF Kin
    <3>6. (ha.entry[o] # None => PairFits(disk.entry[o], {ha.entry[o].uid}, o, p))'
      BY <1>1, <2>2 DEF HaFits, PairFits, Reported, Kin, Alone, Of
    <3> QED BY <3>1, <3>2, <3>3, <3>4, <3>5, <3>6 DEF HaFits
  <2> QED BY <2>4, <2>5
<1>3. KinStay
  BY <1>1 DEF KinStay
<1> QED BY <1>2, <1>3 DEF AllFit

LEMMA SaveEntitiesFits ==
  ASSUME KinInv, SaveEntities
  PROVE  AllFit' /\ KinStay
<1>1. /\ panel' = panel /\ legacy' = legacy /\ ha' = ha
      /\ disk'.entry = disk.entry /\ disk'.ents = ha.ents
  BY DEF SaveEntities, KinInv, IInv
<1>2. ASSUME NEW p \in Panels, Unshared(p)', NEW o \in Entries
      PROVE  DiskFits(o, p)' /\ HaFits(ha, o, p)'
  <2>1. Unshared(p)
    BY <1>1, <1>2 DEF Unshared
  <2>2. HaFits(ha, o, p) /\ DiskFits(o, p)
    BY <2>1, HaFitsNow
  <2>3. Alone(o, p)' <=> Alone(o, p)
    BY <1>1 DEF Alone, Kin, Of
  <2>4. DiskFits(o, p)'
    <3>1. RecordFits(disk.entry[o], o, p)'
      BY <1>1, <2>2, <2>3 DEF DiskFits, RecordFits, Reported, Of
    <3>2. PairFits(disk.entry[o], disk.ents[o], o, p)'
      BY <1>1, <2>2, <2>3 DEF HaFits, PairFits, Reported, Of, Kin
    <3> QED BY <3>1, <3>2 DEF DiskFits
  <2>5. HaFits(ha, o, p)'
    <3>1. RecordFits(ha.entry[o], o, p)'
      BY <1>1, <2>2, <2>3 DEF HaFits, RecordFits, Reported, Of
    <3>2. /\ PairFits(ha.entry[o], ha.ents[o], o, p)'
          /\ PairFits(ha.entry[o], disk.ents[o], o, p)'
          /\ PairFits(disk.entry[o], ha.ents[o], o, p)'
      BY <1>1, <2>2, <2>3 DEF HaFits, PairFits, Reported, Of, Kin
    <3>3. ha'.entry[o] # None => PairFits(disk.entry[o], {ha.entry[o].uid}, o, p)'
      BY <1>1, <2>2, <2>3 DEF HaFits, PairFits, Reported, Of, Kin
    <3>4. AheadFits(ha.entry[o], ha.ents[o], o, p)'
      BY <1>1 DEF AheadFits
    <3>5. /\ (ha.entry[o] = None <=> disk.entry[o] = None)'
          /\ (Kin(ha.entry[o], p) <=> Kin(disk.entry[o], p))'
      BY <1>1, <2>2 DEF HaFits, Kin, Of
    <3>6. (ha.entry[o] # None => PairFits(disk.entry[o], {ha.entry[o].uid}, o, p))'
      BY <1>1, <2>2 DEF HaFits, PairFits, Reported, Kin, Alone, Of
    <3> QED BY <3>1, <3>2, <3>3, <3>4, <3>5, <3>6 DEF HaFits
  <2> QED BY <2>4, <2>5
<1>3. KinStay
  BY <1>1 DEF KinStay
<1> QED BY <1>2, <1>3 DEF AllFit

\* Installing an app says nothing new of what Home Assistant has.
LEMMA ReinstallFits ==
  ASSUME KinInv, NEW q \in Panels, Reinstall(q)
  PROVE  AllFit' /\ KinStay
<1>1. /\ legacy' = legacy /\ ha' = ha /\ disk' = disk
      /\ \A p \in Panels : panel'[p] = 0 => panel[p] = 0
  <2>1. panel' = [panel EXCEPT ![q] = @ + 1] /\ panel \in [Panels -> 0..MaxInstalls]
    BY DEF Reinstall, KinInv, IInv
  <2>2. panel[q] + 1 # 0
    BY <2>1
  <2> QED BY <2>1, <2>2 DEF Reinstall
<1>2. ASSUME NEW p \in Panels, Unshared(p)', NEW o \in Entries
      PROVE  DiskFits(o, p)' /\ HaFits(ha, o, p)'
  <2>1. Unshared(p)
    BY <1>1, <1>2 DEF Unshared
  <2>2. HaFits(ha, o, p) /\ DiskFits(o, p)
    BY <2>1, HaFitsNow
  <2>3. Alone(o, p)' <=> Alone(o, p)
    BY <1>1 DEF Alone, Kin, Of
  <2>4. DiskFits(o, p)'
    BY <1>1, <2>2, <2>3 DEF DiskFits, RecordFits, PairFits, Reported, Of, Kin
  <2>5. /\ RecordFits(ha.entry[o], o, p)'
        /\ PairFits(ha.entry[o], ha.ents[o], o, p)'
        /\ PairFits(ha.entry[o], disk.ents[o], o, p)'
    BY <1>1, <2>2, <2>3 DEF HaFits, RecordFits, PairFits, Reported, Of, Kin
  <2>6. /\ PairFits(disk.entry[o], ha.ents[o], o, p)'
        /\ ha'.entry[o] # None => PairFits(disk.entry[o], {ha.entry[o].uid}, o, p)'
    BY <1>1, <2>2, <2>3 DEF HaFits, PairFits, Reported, Of, Kin
  <2>7. /\ AheadFits(ha.entry[o], ha.ents[o], o, p)'
        /\ (ha.entry[o] = None <=> disk.entry[o] = None)'
        /\ (Kin(ha.entry[o], p) <=> Kin(disk.entry[o], p))'
    BY <1>1, <2>2, <2>3 DEF HaFits, AheadFits, Of, Kin
  <2> QED BY <2>4, <2>5, <2>6, <2>7 DEF HaFits
<1>3. KinStay
  BY <1>1 DEF KinStay
<1> QED BY <1>2, <1>3 DEF AllFit

\* A new entry has no entities; an entry of the same panel is alone no more.
LEMMA AddPanelFits ==
  ASSUME KinInv, NEW e \in Entries, NEW q \in Panels, AddPanel(e, q)
  PROVE  AllFit' /\ KinStay
<1> DEFINE h == Health(q)
           r == [uid |-> h.did, inst |-> h.inst, prev |-> None, link |-> None]
<1>1. ha.entry[e] = None /\ ha \in HaStates
  BY HaFitsNow DEF AddPanel, KinInv, IInv, Sane
<1>2. /\ panel' = panel /\ legacy' = legacy
      /\ ha' = [ha EXCEPT !.entry[e] = r]
      /\ disk'.ents = disk.ents /\ disk'.entry = ha'.entry
  BY DEF AddPanel, KinInv, IInv
<1>3. h \in HealthLines
  BY HealthFacts DEF KinInv
<1>4. /\ r.uid = h.did /\ r.inst = h.inst /\ r.prev = None /\ r.link = None
      /\ r \in EntryRecords
  BY <1>3 DEF HealthLines, EntryRecords
<1> HIDE DEF r
<1>5. ha'.entry = [ha.entry EXCEPT ![e] = r] /\ ha'.ents = ha.ents
  BY <1>1, <1>2 DEF HaStates
<1>6. /\ ha'.entry[e] = r /\ disk'.entry[e] = r /\ r # None
      /\ \A o \in Entries : o # e =>
           ha'.entry[o] = ha.entry[o] /\ disk'.entry[o] = ha.entry[o]
  BY <1>1, <1>2, <1>4, <1>5, IdentityAssumption DEF HaStates, EntryStores
<1>7. ASSUME NEW p \in Panels, Unshared(p)', NEW o \in Entries
      PROVE  DiskFits(o, p)' /\ HaFits(ha, o, p)'
  <2>1. Unshared(p)
    BY <1>2, <1>7 DEF Unshared
  <2>2. HaFits(ha, o, p) /\ DiskFits(o, p)
    BY <2>1, HaFitsNow
  <2>3. /\ Reported(h.did, p) /\ legacy[p] # None
        /\ h.inst => h.did # legacy[p]
    <3>1. /\ Reported(h.did, p) /\ legacy[p] # None /\ legacy[p] \in Legacies
          /\ h.inst => h.did \notin Legacies
      BY <2>1, OfFacts DEF KinInv
    <3> QED BY <3>1
  <2> HIDE DEF h
  <2>4. CASE o = e
    <3>1. ha.ents[e] = {} /\ disk.ents[e] = {}
      BY <1>1, <2>2, <2>4 DEF HaFits, PairFits
    <3>2. /\ ha'.entry[e].uid = h.did /\ ha'.entry[e].inst = h.inst
          /\ ha'.entry[e].link = None
      BY <1>4, <1>6
    <3>3. /\ PairFits(disk.entry[e], {}, e, p)' /\ PairFits(ha.entry[e], {}, e, p)'
          /\ PairFits(disk.entry[e], {ha.entry[e].uid}, e, p)'
      BY <1>2, <1>4, <1>6, <2>3 DEF PairFits, Reported, Of, Kin
    <3>4. AheadFits(ha.entry[e], {}, e, p)'
      BY DEF AheadFits
    <3>5. RecordFits(ha.entry[e], e, p)' /\ RecordFits(disk.entry[e], e, p)'
      BY <1>2, <1>6, <2>3, <3>2 DEF RecordFits, Reported, Of
    <3>6. /\ (ha.entry[e] = None <=> disk.entry[e] = None)'
          /\ (Kin(ha.entry[e], p) <=> Kin(disk.entry[e], p))'
      BY <1>6 DEF Kin
    <3>7. ha'.ents[e] = {} /\ disk'.ents[e] = {}
      BY <1>2, <1>5, <3>1
    <3>8. /\ PairFits(disk.entry[e], ha.ents[e], e, p)'
          /\ PairFits(disk.entry[e], disk.ents[e], e, p)'
          /\ PairFits(ha.entry[e], ha.ents[e], e, p)'
          /\ PairFits(ha.entry[e], disk.ents[e], e, p)'
          /\ AheadFits(ha.entry[e], ha.ents[e], e, p)'
      BY <3>3, <3>4, <3>7 DEF PairFits, AheadFits
    <3> QED BY <2>4, <3>3, <3>5, <3>6, <3>8 DEF HaFits, DiskFits
  <2>5. CASE o # e
    <3>1. ha'.entry[o] = ha.entry[o] /\ disk'.entry[o] = ha.entry[o]
      BY <1>6, <2>5
    <3>2. Alone(o, p)' => Alone(o, p)
      <4>1. ASSUME NEW x \in Entries, Kin(disk.entry[x], p)
            PROVE  Kin(disk.entry[x], p)'
        <5>1. Kin(ha.entry[x], p)
          BY <2>1, <4>1, HaFitsNow DEF HaFits
        <5>2. x # e
          BY <1>1, <5>1 DEF Kin
        <5> QED BY <1>2, <1>6, <5>1, <5>2 DEF Kin, Of
      <4> QED BY <4>1 DEF Alone
    <3>3. RecordFits(ha.entry[o], o, p)' /\ RecordFits(disk.entry[o], o, p)'
      BY <1>2, <2>2, <3>1, <3>2 DEF HaFits, RecordFits, Reported, Of
    <3>4. /\ PairFits(ha.entry[o], ha.ents[o], o, p)'
          /\ PairFits(ha.entry[o], disk.ents[o], o, p)'
          /\ PairFits(disk.entry[o], ha.ents[o], o, p)'
          /\ PairFits(disk.entry[o], disk.ents[o], o, p)'
      BY <1>2, <1>5, <2>2, <3>1, <3>2 DEF HaFits, PairFits, Reported, Of, Kin
    <3>5. ha'.entry[o] # None => PairFits(disk.entry[o], {ha.entry[o].uid}, o, p)'
      BY <1>2, <2>2, <3>1, <3>2 DEF HaFits, RecordFits, PairFits, Reported, Of, Kin
    <3>6. AheadFits(ha.entry[o], ha.ents[o], o, p)'
      BY <1>2, <1>5, <2>2, <3>1, <3>2 DEF HaFits, AheadFits, Of, Kin
    <3>7. /\ (ha.entry[o] = None <=> disk.entry[o] = None)'
          /\ (Kin(ha.entry[o], p) <=> Kin(disk.entry[o], p))'
      BY <3>1 DEF Kin
    <3> QED BY <3>3, <3>4, <3>5, <3>6, <3>7 DEF HaFits, DiskFits
  <2> QED BY <2>4, <2>5
<1>8. KinStay
  <2>1. ASSUME NEW o \in Entries, NEW p, Kin(ha.entry[o], p)
        PROVE  ha'.entry[o] = ha.entry[o]
    BY <1>1, <1>6, <2>1 DEF Kin
  <2>2. ASSUME NEW o \in Entries, NEW p, Kin(ha.entry[o], p)
        PROVE  Kin(ha'.entry[o], p)
    BY <2>1, <2>2
  <2> QED BY <2>2 DEF KinStay
<1> QED BY <1>7, <1>8 DEF AllFit

LEMMA InitFits == Init => AllFit
<1> SUFFICES ASSUME Init PROVE AllFit
  OBVIOUS
<1>1. PICK e \in Entries, q \in Panels :
        \E ids \in {{}, {legacy[q]}} : StartsWith(e, legacy[q], ids)
  BY DEF Init
<1> PICK ids \in {{}, {legacy[q]}} : StartsWith(e, legacy[q], ids)
  BY <1>1
<1> DEFINE r == [uid |-> legacy[q], inst |-> FALSE, prev |-> None, link |-> None]
           entry == [o \in Entries |-> IF o = e THEN r ELSE None]
           ents == [o \in Entries |-> IF o = e THEN ids ELSE {}]
<1>2. /\ panel = [x \in Panels |-> 0]
      /\ disk = [entry |-> entry, ents |-> ents] /\ ha = Started(disk)
  BY DEF StartsWith
<1>3. IInv
  BY InitIInv
<1>4. /\ r.uid = legacy[q] /\ r.inst = FALSE /\ r.prev = None /\ r.link = None
      /\ r \in EntryRecords
  BY <1>3, IdentityAssumption DEF IInv, EntryRecords, Ids
<1>5. r # None
  BY <1>4, IdentityAssumption
<1> HIDE DEF r
<1>6. /\ ha.entry = entry /\ ha.ents = ents
      /\ disk.entry = entry /\ disk.ents = ents
  BY <1>2 DEF Started
<1>7. ASSUME NEW p \in Panels, Unshared(p), NEW o \in Entries
      PROVE  DiskFits(o, p) /\ HaFits(ha, o, p)
  <2>1. /\ legacy[p] # None /\ legacy[p] \in Of(p)
        /\ Health(q).did = legacy[q] /\ Reported(Health(q).did, p)
    BY <1>2, <1>3, <1>7, OfFacts DEF Health
  <2>2. CASE o = e
    <3>1. /\ ha.entry[o] = r /\ disk.entry[o] = r
          /\ ha.ents[o] = ids /\ disk.ents[o] = ids
      BY <1>6, <2>2
    <3>2. RecordFits(r, o, p)
      BY <1>4, <2>1 DEF RecordFits
    <3>3. PairFits(r, ids, o, p) /\ PairFits(r, {r.uid}, o, p)
      BY <1>4, <1>5, <2>1 DEF PairFits
    <3>4. AheadFits(r, ids, o, p)
      BY <3>1 DEF AheadFits
    <3> QED BY <3>1, <3>2, <3>3, <3>4 DEF DiskFits, HaFits
  <2>3. CASE o # e
    <3>1. /\ ha.entry[o] = None /\ disk.entry[o] = None
          /\ ha.ents[o] = {} /\ disk.ents[o] = {}
      BY <1>6, <2>3
    <3> QED BY <3>1 DEF DiskFits, HaFits, RecordFits, PairFits, AheadFits, Kin
  <2> QED BY <2>2, <2>3
<1> QED BY <1>7 DEF AllFit

LEMMA StepFits == KinInv /\ [Next]_idVars => AllFit' /\ KinStay
<1> SUFFICES ASSUME KinInv, [Next]_idVars PROVE AllFit' /\ KinStay
  OBVIOUS
<1>1. ASSUME NEW e \in Entries, PanelSilent(e) \/ Unload(e)
      PROVE  AllFit' /\ KinStay
  BY <1>1, MarkStepsFit
<1>2. ASSUME NEW e \in Entries, NEW answered \in BOOLEAN, Load(e, answered)
      PROVE  AllFit' /\ KinStay
  BY <1>2, LoadFits
<1>3. ASSUME NEW e \in Entries, NEW p \in Panels,
             Describe(e, p) \/ ConfirmIdentity(e, p) \/ AddPanel(e, p)
      PROVE  AllFit' /\ KinStay
  BY <1>3, DescribeFits, ConfirmIdentityFits, AddPanelFits
<1>4. ASSUME NEW e \in Entries, NEW p \in Panels, NEW free \in BOOLEAN,
             Poll(e, p, free) \/ Meet(e, p, free)
      PROVE  AllFit' /\ KinStay
  BY <1>4, PollFits, MeetFits
<1>5. ASSUME NEW p \in Panels, Reinstall(p) PROVE AllFit' /\ KinStay
  BY <1>5, ReinstallFits
<1>6. CASE SaveEntries \/ SaveEntities \/ Restart
  BY <1>6, SaveEntriesFits, SaveEntitiesFits, RestartFits
<1>7. CASE UNCHANGED idVars
  <2>1. panel' = panel /\ legacy' = legacy /\ ha' = ha /\ disk' = disk
    BY <1>7 DEF idVars
  <2>2. AllFit'
    <3>1. ASSUME NEW p \in Panels, NEW o \in Entries, Unshared(p)'
          PROVE  DiskFits(o, p)' /\ HaFits(ha, o, p)'
      <4>1. DiskFits(o, p) /\ HaFits(ha, o, p)
        BY <2>1, <3>1 DEF KinInv, AllFit, Unshared
      <4>2. DiskFits(o, p)'
        BY <2>1, <4>1 DEF DiskFits, RecordFits, PairFits, Reported, Kin, Alone, Of
      <4>3. HaFits(ha, o, p)'
        BY <2>1, <4>1 DEF HaFits, RecordFits, PairFits, AheadFits, Reported, Kin, Alone, Of
      <4> QED BY <4>2, <4>3
    <3> QED BY <3>1 DEF AllFit
  <2>3. KinStay
    BY <2>1 DEF KinStay
  <2> QED BY <2>2, <2>3
<1> QED BY <1>1, <1>2, <1>3, <1>4, <1>5, <1>6, <1>7 DEF Next

LEMMA AlwaysKinInv == IdSpec => []KinInv
<1>1. Init => KinInv
  BY InitIInv, InitFits DEF KinInv
<1>2. KinInv /\ [Next]_idVars => KinInv'
  BY StepKeeps, StepFits DEF KinInv
<1> QED BY <1>1, <1>2, PTL DEF IdSpec

\* An entry that has lost its panel to a reinstall is linked to it, alone in
\* that, and its entities are its own: nothing stands against following it.
LEMMA OwnPanelIsAccepted ==
  ASSUME KinInv, NEW e \in Entries, NEW p \in Panels, Unshared(p),
         ha.loaded[e], ha.entry[e].inst, ha.entry[e].uid \in Of(p),
         ha.entry[e].link # None \/ ha.entry[e].uid \in Legacies,
         \A o \in Others(ha, e) : ha.entry[o].uid \notin Of(p)
  PROVE  AcceptHealth(ha, e, Health(p), TRUE).ok
<1> DEFINE r == ha.entry[e]
           h == Health(p)
           follows == TRUE /\ (MigrationCandidate(r, h) \/ Reinstalled(ha, e, h))
           first == r.uid = None /\ ha.ents[e] = {} /\ IdentityAvailable(ha, e, h.did)
           a == Accepted(ha, e, h)
           c == Committed(ha, e, h.did)
           n == [ha EXCEPT !.answers[e] = FALSE]
           out == CASE first \/ h.did = r.uid -> [ok |-> TRUE, ha |-> a]
                    [] follows /\ CanRekey(ha, e, h.did) -> [ok |-> TRUE, ha |-> c]
                    [] OTHER -> [ok |-> FALSE, ha |-> n]
<1>1. /\ IInv /\ ha \in HaStates /\ r # None /\ r.uid # None
      /\ ha.ents[e] \subseteq {r.uid}
      /\ HaFits(ha, e, p)
  BY HaFitsNow DEF KinInv, IInv, Sane, Owned, OneSet
<1>2. AcceptHealth(ha, e, h, TRUE) = out
  <2>1. Restored(ha, e) = ha
    BY <1>1 DEF Restored
  <2> QED BY <2>1 DEF AcceptHealth
<1>3. ~first /\ (follows => h.did # r.uid)
  BY <1>1 DEF MigrationCandidate, Reinstalled, LinkedReinstall
<1>4. CASE h.did = r.uid
  <2> HIDE DEF first, follows, a, c, n, h
  <2>1. out = [ok |-> TRUE, ha |-> a]
    BY <1>3, <1>4
  <2> HIDE DEF out
  <2>2. out.ok = TRUE
    BY <2>1
  <2> QED BY <1>2, <2>2 DEF h
<1>5. CASE h.did # r.uid
  <2>1. /\ legacy[p] \in Legacies /\ legacy[p] # None /\ legacy[p] \in Of(p)
        /\ h.did \in Of(p)
        /\ h.inst => h.link = legacy[p]
        /\ ~h.inst => panel[p] = 0 /\ h.did = legacy[p]
    BY <1>1, OfFacts DEF Health
  <2> HIDE DEF h
  <2>2. h.inst
    <3>1. ~h.inst => r.uid = legacy[p]
      BY <1>1, <2>1 DEF HaFits, RecordFits, Reported
    <3> QED BY <1>5, <2>1, <3>1
  <2>3. Alone(e, p)
    <3>1. ASSUME NEW o \in Entries, o # e PROVE ~Kin(disk.entry[o], p)
      <4>1. Kin(disk.entry[o], p) => Kin(ha.entry[o], p)
        BY HaFitsNow DEF HaFits
      <4>2. ~Kin(ha.entry[o], p)
        BY <3>1 DEF Kin, Others, Saved
      <4> QED BY <4>1, <4>2
    <3> QED BY <3>1 DEF Alone
  <2>4. r.link = legacy[p]
    <3>1. RecordFits(r, e, p)
      BY <1>1 DEF HaFits
    <3>2. CASE r.link # None
      BY <1>1, <3>1, <3>2 DEF RecordFits
    <3>3. CASE r.uid \in Legacies
      <4>1. \A i \in 1..MaxInstalls : Installation(p, i) \in Installations
        BY DEF Installation, Installations
      <4>2. r.uid = legacy[p]
        BY <3>3, <4>1, IdentityAssumption DEF Of
      <4> QED BY <1>1, <2>3, <3>1, <4>2 DEF RecordFits
    <3> QED BY <3>2, <3>3
  <2>5. \A o \in Others(ha, e) :
          ha.entry[o].uid # h.did /\ ha.entry[o].link # legacy[p]
    <3>1. ASSUME NEW o \in Others(ha, e)
          PROVE  ha.entry[o].uid # h.did /\ ha.entry[o].link # legacy[p]
      <4>1. o \in Entries /\ ha.entry[o] # None /\ ha.entry[o].uid \notin Of(p)
        BY <3>1 DEF Others, Saved
      <4>2. RecordFits(ha.entry[o], o, p)
        BY <4>1, HaFitsNow DEF HaFits
      <4> QED BY <2>1, <4>1, <4>2 DEF RecordFits
    <3> QED BY <3>1
  <2>6. Reinstalled(ha, e, h)
    <3>1. IdentityAvailable(ha, e, h.did) /\ LinkHolders(ha, e, h.link) = {}
      BY <2>1, <2>2, <2>5 DEF IdentityAvailable, LinkHolders
    <3>2. r.uid \notin {None, h.did}
      BY <1>1, <1>5
    <3> QED BY <2>1, <2>2, <2>4, <3>1, <3>2 DEF Reinstalled, LinkedReinstall
  <2>7. CanRekey(ha, e, h.did)
    <3>1. ASSUME NEW o \in Entries PROVE h.did \notin ha.ents[o]
      <4>1. CASE o = e
        BY <1>1, <1>5, <4>1
      <4>2. CASE o # e
        <5>1. PairFits(ha.entry[o], ha.ents[o], o, p)
          BY HaFitsNow DEF HaFits
        <5>2. h.did \in ha.ents[o] => Kin(ha.entry[o], p)
          BY <2>1, <5>1 DEF PairFits, Kin
        <5>3. ~Kin(ha.entry[o], p)
          BY <4>2 DEF Kin, Others, Saved
        <5> QED BY <5>2, <5>3
      <4> QED BY <4>1, <4>2
    <3>2. IdentityAvailable(ha, e, h.did)
      BY <2>5 DEF IdentityAvailable
    <3> QED BY <1>1, <3>1, <3>2 DEF CanRekey
  <2>8. follows
    BY <2>6
  <2> HIDE DEF first, follows, a, c, n
  <2>9. out = [ok |-> TRUE, ha |-> c]
    BY <1>3, <1>5, <2>7, <2>8
  <2> HIDE DEF out
  <2>10. out.ok = TRUE
    BY <2>9
  <2> QED BY <1>2, <2>10 DEF h
<1> QED BY <1>4, <1>5

\* accept_health and reconcile_identity: whichever panel answers at the address
\* and whichever store a restart finds, an entry stays with its panel, while no
\* other panel shares that panel's legacy identity.
THEOREM EntryStaysWithItsPanel == IdSpec => EntryKeepsItsPanel
<1> DEFINE Keeps ==
      \A e \in Entries, p \in Panels :
        /\ Unshared(p)
        /\ e \in Saved(ha) /\ ha.entry[e].uid \in Of(p)
        => ha'.entry[e].uid \in Of(p)
<1>1. KinInv /\ [Next]_idVars => [Keeps]_idVars
  <2> SUFFICES ASSUME KinInv, [Next]_idVars PROVE Keeps
    OBVIOUS
  <2>1. KinStay
    BY StepFits
  <2> QED BY <2>1 DEF KinStay, Kin, Saved
<1> QED BY <1>1, AlwaysKinInv, PTL DEF IdSpec, EntryKeepsItsPanel

\* _linked_reinstall: a loaded entry that a poll or a session has linked to its
\* panel accepts it again, after any order of reinstalls, saves and restarts.
THEOREM LinkedPanelIsAccepted == IdSpec => []NeverLockedOut
<1>1. KinInv => NeverLockedOut
  BY OwnPanelIsAccepted DEF NeverLockedOut
<1> QED BY <1>1, AlwaysKinInv, PTL

-----------------------------------------------------------------------------
(***************************************************************************)
(* The address an entry is polled at.  A poll that was overtaken by        *)
(* somebody else's move of the entry started from another address than the *)
(* one the entry has now: that is what the fence compares.                 *)
(***************************************************************************)
Fenced ==
  \A q \in Polls :
    moved[q] # Nil =>
      /\ poll[q].pc # "idle"
      /\ stored # Nil => stored = moved[q] /\ stored # poll[q].start

AddrInv == AddrTypeOK /\ Fenced

\* The shape of everything but the polls and what they note.
AroundOK ==
  /\ at \in [{"own", "other"} -> Addresses \cup {Nil}] /\ moves \in 0..MaxMoves
  /\ stored \in Addresses \cup {Nil} /\ link \in Links \cup {Nil}
  /\ told \in [last : SUBSET Addresses, refused : SUBSET Addresses]
  /\ reachable \in BOOLEAN /\ report \in BOOLEAN

LEMMA LinkFacts ==
  ASSUME AddrTypeOK
  PROVE  OpenLink \in 1..MaxLinks \cup {Nil} /\ Candidates \subseteq Addresses
         /\ Managing \in BOOLEAN
BY DEF AddrTypeOK, OpenLink, Candidates, Managing, Links

LEMMA RestingFacts == Resting \in PollRecords /\ Resting.pc = "idle"
BY DEF Resting, PollRecords

\* A poll goes on where it started, or starts again with nothing noted.
LEMMA PollGoes ==
  ASSUME AddrInv, AroundOK', UNCHANGED stored, NEW q \in Polls, NEW r \in PollRecords,
         PollIs(q, r),
         \/ moved' = [moved EXCEPT ![q] = Nil]
         \/ UNCHANGED moved /\ r.pc # "idle" /\ r.start = poll[q].start
         \/ UNCHANGED moved /\ poll[q].pc = "idle"
  PROVE  AddrInv'
<1>1. poll \in [Polls -> PollRecords] /\ moved \in [Polls -> Addresses \cup {Nil}]
  BY DEF AddrInv, AddrTypeOK
<1>2. poll' \in [Polls -> PollRecords] /\ moved' \in [Polls -> Addresses \cup {Nil}]
  BY <1>1 DEF PollIs
<1>3. ASSUME NEW o \in Polls, moved'[o] # Nil
      PROVE  /\ poll'[o].pc # "idle"
             /\ stored' # Nil => stored' = moved'[o] /\ stored' # poll'[o].start
  <2>1. moved'[o] = moved[o] /\ moved[o] # Nil
    BY <1>1, <1>3
  <2>2. /\ poll[o].pc # "idle"
        /\ stored # Nil => stored = moved[o] /\ stored # poll[o].start
    BY <2>1 DEF AddrInv, Fenced
  <2>3. poll'[o].pc # "idle" /\ poll'[o].start = poll[o].start
    BY <1>1, <1>3, <2>2 DEF PollIs
  <2> QED BY <2>1, <2>2, <2>3
<1> QED BY <1>2, <1>3 DEF AddrInv, AddrTypeOK, AroundOK, Fenced

\* Somebody moves the entry: a poll that nobody overtook, or a flow.
LEMMA EntryMoves ==
  ASSUME AddrInv, AroundOK', NEW x \in Addresses, NEW q \in Polls \cup {Nil}, Moves(q, x),
         q \in Polls => moved[q] = Nil,
         poll' \in [Polls -> PollRecords],
         \A o \in Polls : o # q => poll'[o] = poll[o]
  PROVE  AddrInv'
<1>1. moved \in [Polls -> Addresses \cup {Nil}] /\ x # Nil
  BY AddressAssumption DEF AddrInv, AddrTypeOK
<1>2. moved' \in [Polls -> Addresses \cup {Nil}]
  BY <1>1 DEF Moves
<1>3. ASSUME NEW o \in Polls, moved'[o] # Nil
      PROVE  /\ poll'[o].pc # "idle"
             /\ stored' # Nil => stored' = moved'[o] /\ stored' # poll'[o].start
  <2>1. o # q
    BY <1>1, <1>3 DEF Moves
  <2>2. poll[o].pc # "idle" /\ poll[o].start # x /\ moved'[o] = x
    BY <1>3, <2>1 DEF Moves
  <2> QED BY <2>1, <2>2 DEF Moves
<1> QED BY <1>2, <1>3 DEF AddrInv, AddrTypeOK, AroundOK, Fenced

\* A read, and a look elsewhere, by what they leave the poll with.
LEMMA ReadsFacts ==
  ASSUME AddrTypeOK, NEW q \in Polls, NEW x \in Addresses \cup {Nil},
         NEW n \in 1..MaxLinks \cup {Nil}, NEW managed \in BOOLEAN, Reads(q, x, n, managed)
  PROVE  /\ reachable' \in BOOLEAN
         /\ \E r \in PollRecords : PollIs(q, r)
<1> DEFINE r == [Resting EXCEPT !.pc = "health", !.link = n, !.start = x, !.managed = managed]
<1>1. r \in PollRecords
  BY DEF Resting, PollRecords, PollPcs
<1>2. PollIs(q, r) /\ reachable' = (reachable /\ managed)
  BY DEF Reads
<1> QED BY <1>1, <1>2 DEF AddrTypeOK

LEMMA LooksKeeps ==
  ASSUME AddrInv, NEW q \in Polls, NEW p \in PollRecords, NEW pc \in PollPcs,
         NEW reports \in BOOLEAN, Looks(q, p, pc, reports),
         p.start = poll[q].start \/ poll[q].pc = "idle",
         report' \in BOOLEAN => AroundOK'
  PROVE  AddrInv'
<1>1. OpenLink \in 1..MaxLinks \cup {Nil} /\ Candidates \subseteq Addresses
      /\ stored \in Addresses \cup {Nil}
  BY LinkFacts DEF AddrInv, AddrTypeOK
<1>2. report' \in BOOLEAN
  BY DEF Looks, AddrInv, AddrTypeOK
<1>3. CASE Candidates # {}
  <2> DEFINE r == [p EXCEPT !.pc = pc, !.link = OpenLink, !.start = stored,
                            !.left = Candidates, !.proved = {}]
  <2>1. r \in PollRecords
    BY <1>1 DEF PollRecords, PollPcs
  <2>2. PollIs(q, r) /\ moved' = [moved EXCEPT ![q] = Nil] /\ UNCHANGED stored
    BY <1>3 DEF Looks
  <2> HIDE DEF r
  <2> QED BY <1>2, <2>1, <2>2, PollGoes
<1>4. CASE Candidates = {} /\ p.managed
  <2> DEFINE r == [p EXCEPT !.pc = "read", !.withheld = reports /\ link # Nil]
  <2>1. r \in PollRecords /\ r.pc = "read" /\ r.start = p.start
    BY DEF PollRecords, PollPcs
  <2>2. PollIs(q, r) /\ UNCHANGED <<moved, stored>>
    BY <1>4 DEF Looks
  <2> HIDE DEF r
  <2> QED BY <1>2, <2>1, <2>2, PollGoes
<1>5. CASE Candidates = {} /\ ~p.managed
  BY <1>2, <1>5, RestingFacts, PollGoes DEF Looks, Ends
<1> QED BY <1>3, <1>4, <1>5

-----------------------------------------------------------------------------
(***************************************************************************)
(* The steps of a poll.                                                    *)
(***************************************************************************)
LEMMA BeginPollKept ==
  ASSUME AddrInv, NEW q \in Polls, BeginPoll(q)
  PROVE  AddrInv'
<1>1. stored \in Addresses \cup {Nil} /\ OpenLink \in 1..MaxLinks \cup {Nil}
      /\ Managing \in BOOLEAN
  BY LinkFacts DEF AddrInv, AddrTypeOK
<1>2. reachable' \in BOOLEAN /\ \E r \in PollRecords : PollIs(q, r)
  BY <1>1, ReadsFacts DEF BeginPoll, AddrInv
<1>3. AroundOK' /\ UNCHANGED <<stored, moved>> /\ poll[q].pc = "idle"
  BY <1>2 DEF BeginPoll, AddrInv, AddrTypeOK, AroundOK, world
<1> QED BY <1>2, <1>3, PollGoes

LEMMA BeginAtPortKept ==
  ASSUME AddrInv, NEW q \in Polls, BeginAtPort(q)
  PROVE  AddrInv'
<1> DEFINE p == [Resting EXCEPT !.managed = Managing]
<1>1. p \in PollRecords
  BY LinkFacts, RestingFacts DEF AddrInv, PollRecords
<1>2. Looks(q, p, "port", FALSE) /\ poll[q].pc = "idle" /\ "port" \in PollPcs
  BY DEF BeginAtPort, PollPcs
<1>3. UNCHANGED stored
  BY <1>2 DEF Looks
<1>4. report' \in BOOLEAN => AroundOK'
  BY <1>3 DEF BeginAtPort, AddrInv, AddrTypeOK, AroundOK, world
<1> HIDE DEF p
<1> QED BY <1>1, <1>2, <1>4, LooksKeeps

\* What a proof of the stored address leaves.
LEMMA ProvesFacts ==
  ASSUME AddrTypeOK, Proves
  PROVE  report' \in BOOLEAN
         /\ told' \in [last : SUBSET Addresses, refused : SUBSET Addresses]
BY DEF AddrTypeOK, Proves

\* The poll q itself, and where its look may go on.
LEMMA PollFacts ==
  ASSUME AddrInv, NEW q \in Polls
  PROVE  poll[q] \in PollRecords
BY DEF AddrInv, AddrTypeOK

LEMMA HealthBesideSessionKept ==
  ASSUME AddrInv, NEW q \in Polls, HealthBesideSession(q)
  PROVE  AddrInv'
<1>1. poll[q] \in PollRecords
  BY PollFacts
<1>2. CASE ~Current(q)
  <2> DEFINE r == [poll[q] EXCEPT !.pc = "read"]
  <2>1. r \in PollRecords /\ r.pc = "read" /\ r.start = poll[q].start
    BY <1>1 DEF PollRecords, PollPcs
  <2>2. PollIs(q, r) /\ UNCHANGED <<stored, told, report, moved, world, link, reachable>>
    BY <1>2 DEF HealthBesideSession
  <2>3. AroundOK'
    BY <2>2 DEF AroundOK, AddrInv, AddrTypeOK, world
  <2> HIDE DEF r
  <2> QED BY <2>1, <2>2, <2>3, PollGoes
<1>3. CASE Current(q) /\ LooksFrom(poll[q].start)
  <2>1. Looks(q, poll[q], "probe", TRUE) /\ UNCHANGED <<told, world, link, reachable>>
    BY <1>3 DEF HealthBesideSession
  <2>2. UNCHANGED stored
    BY <2>1 DEF Looks
  <2>3. report' \in BOOLEAN => AroundOK'
    BY <2>1, <2>2 DEF AroundOK, AddrInv, AddrTypeOK, world
  <2>4. "probe" \in PollPcs
    BY DEF PollPcs
  <2> QED BY <1>1, <2>1, <2>3, <2>4, LooksKeeps
<1>4. CASE Current(q) /\ ~LooksFrom(poll[q].start)
  <2> DEFINE r == [poll[q] EXCEPT !.pc = "read", !.found = TRUE]
  <2>1. r \in PollRecords /\ r.pc = "read" /\ r.start = poll[q].start
    BY <1>1 DEF PollRecords, PollPcs
  <2>2. PollIs(q, r) /\ Proves /\ UNCHANGED <<stored, moved, world, link, reachable>>
    BY <1>4 DEF HealthBesideSession
  <2>3. AroundOK'
    BY <2>2, ProvesFacts DEF AroundOK, AddrInv, AddrTypeOK, world
  <2> HIDE DEF r
  <2> QED BY <2>1, <2>2, <2>3, PollGoes
<1> QED BY <1>2, <1>3, <1>4

LEMMA HealthOverHttpKept ==
  ASSUME AddrInv, NEW q \in Polls, HealthOverHttp(q)
  PROVE  AddrInv'
<1> DEFINE x == poll[q].start
           looks == Nobody(x) /\ stored # Nil
           proves == IsOwn(x) /\ stored = x
<1>1. poll[q] \in PollRecords
  BY PollFacts
<1>2. UNCHANGED <<world, link, reachable>>
  BY DEF HealthOverHttp
<1>3. CASE looks /\ Looks(q, poll[q], "probe", TRUE) /\ UNCHANGED told
  <2>1. UNCHANGED stored
    BY <1>3 DEF Looks
  <2>2. report' \in BOOLEAN => AroundOK'
    BY <1>2, <1>3, <2>1 DEF AroundOK, AddrInv, AddrTypeOK, world
  <2>3. "probe" \in PollPcs
    BY DEF PollPcs
  <2> QED BY <1>1, <1>3, <2>2, <2>3, LooksKeeps
<1>4. CASE proves /\ PollIs(q, [poll[q] EXCEPT !.pc = "status"])
           /\ Proves /\ UNCHANGED <<stored, moved>>
  <2> DEFINE r == [poll[q] EXCEPT !.pc = "status"]
  <2>1. r \in PollRecords /\ r.pc = "status" /\ r.start = poll[q].start
    BY <1>1 DEF PollRecords, PollPcs
  <2>2. AroundOK' /\ PollIs(q, r)
    BY <1>2, <1>4, ProvesFacts DEF AroundOK, AddrInv, AddrTypeOK, world
  <2> HIDE DEF r
  <2> QED BY <1>4, <2>1, <2>2, PollGoes
<1>5. CASE Ends(q) /\ UNCHANGED <<stored, told, report>>
  <2>1. AroundOK'
    BY <1>2, <1>5 DEF AroundOK, AddrInv, AddrTypeOK, world
  <2> QED BY <1>5, <2>1, RestingFacts, PollGoes DEF Ends
<1> QED BY <1>3, <1>4, <1>5 DEF HealthOverHttp

LEMMA ProbeAnswersKept ==
  ASSUME AddrInv, NEW q \in Polls, NEW x \in Addresses, ProbeAnswers(q, x)
  PROVE  AddrInv'
<1> DEFINE r == [poll[q] EXCEPT !.left = @ \ {x},
                   !.proved = IF AnswersAsPanel(x) THEN @ \cup {x} ELSE @]
<1>1. /\ r \in PollRecords
      /\ r.pc = poll[q].pc /\ r.start = poll[q].start /\ poll[q].pc # "idle"
  BY PollFacts DEF PollRecords, ProbeAnswers
<1>2. PollIs(q, r) /\ UNCHANGED <<stored, moved>> /\ AroundOK'
  BY DEF ProbeAnswers, AroundOK, AddrInv, AddrTypeOK, world, outcome
<1> HIDE DEF r
<1> QED BY <1>1, <1>2, PollGoes

\* The fence: a poll that adopts an address was not overtaken.
LEMMA AdoptsKept ==
  ASSUME AddrInv, NEW q \in Polls, Adopts(q)
  PROVE  AddrInv'
<1>1. poll[q] \in PollRecords /\ UNCHANGED <<world, link>>
  BY PollFacts DEF Adopts
<1>2. moved[q] = Nil
  BY DEF Adopts, Current, AddrInv, Fenced
<1>3. PICK x \in poll[q].proved :
        /\ Moves(q, x)
        /\ CASE poll[q].pc = "port" ->
                  /\ Reads(q, x, poll[q].link, poll[q].managed)
                  /\ UNCHANGED <<told, report>>
             [] poll[q].pc = "probe" /\ poll[q].managed ->
                  /\ PollIs(q, [poll[q] EXCEPT !.pc = "read", !.found = TRUE])
                  /\ Proves /\ UNCHANGED reachable
             [] OTHER ->
                  /\ PollIs(q, [poll[q] EXCEPT !.pc = "status", !.start = x])
                  /\ Proves /\ UNCHANGED reachable
  BY DEF Adopts
<1>4. x \in Addresses /\ stored' = x
  BY <1>1, <1>3 DEF PollRecords, Moves
<1>5. ASSUME NEW r \in PollRecords, PollIs(q, r)
      PROVE  /\ poll' \in [Polls -> PollRecords]
             /\ \A o \in Polls : o # q => poll'[o] = poll[o]
  BY <1>5 DEF PollIs, AddrInv, AddrTypeOK
<1>6. \E r \in PollRecords : PollIs(q, r)
  <2>1. poll[q].link \in 1..MaxLinks \cup {Nil} /\ poll[q].managed \in BOOLEAN
    BY <1>1 DEF PollRecords
  <2>2. CASE Reads(q, x, poll[q].link, poll[q].managed)
    BY <1>4, <2>1, <2>2, ReadsFacts DEF AddrInv
  <2>3. CASE PollIs(q, [poll[q] EXCEPT !.pc = "read", !.found = TRUE])
    <3>1. [poll[q] EXCEPT !.pc = "read", !.found = TRUE] \in PollRecords
      BY <1>1 DEF PollRecords, PollPcs
    <3> QED BY <2>3, <3>1
  <2>4. CASE PollIs(q, [poll[q] EXCEPT !.pc = "status", !.start = x])
    <3>1. [poll[q] EXCEPT !.pc = "status", !.start = x] \in PollRecords
      BY <1>1, <1>4 DEF PollRecords, PollPcs
    <3> QED BY <2>4, <3>1
  <2> QED BY <1>3, <2>2, <2>3, <2>4
<1>7. /\ reachable' \in BOOLEAN /\ report' \in BOOLEAN
      /\ told' \in [last : SUBSET Addresses, refused : SUBSET Addresses]
  <2>1. poll[q].link \in 1..MaxLinks \cup {Nil} /\ poll[q].managed \in BOOLEAN
    BY <1>1 DEF PollRecords
  <2>2. CASE Reads(q, x, poll[q].link, poll[q].managed) /\ UNCHANGED <<told, report>>
    <3>1. reachable' \in BOOLEAN
      BY <1>4, <2>1, <2>2, ReadsFacts DEF AddrInv
    <3> QED BY <2>2, <3>1 DEF AddrInv, AddrTypeOK
  <2>3. CASE Proves /\ UNCHANGED reachable
    BY <2>3, ProvesFacts DEF AddrInv, AddrTypeOK
  <2> QED BY <1>3, <2>2, <2>3
<1>8. AroundOK'
  BY <1>1, <1>4, <1>7 DEF AroundOK, AddrInv, AddrTypeOK, world
<1> QED BY <1>2, <1>3, <1>4, <1>5, <1>6, <1>8, EntryMoves

LEMMA GivesUpKept ==
  ASSUME AddrInv, NEW q \in Polls, GivesUp(q)
  PROVE  AddrInv'
<1> DEFINE silent == poll[q].proved = {} /\ link # Nil /\ OpenLink = poll[q].link
           w == [poll[q] EXCEPT !.pc = "read", !.withheld = silent]
<1>1. poll[q] \in PollRecords /\ UNCHANGED <<world, stored, link, told>>
  BY PollFacts DEF GivesUp
<1>2. ASSUME Ends(q), UNCHANGED reachable, report' \in BOOLEAN PROVE AddrInv'
  <2>1. AroundOK'
    BY <1>1, <1>2 DEF AroundOK, AddrInv, AddrTypeOK, world
  <2> QED BY <1>1, <1>2, <2>1, RestingFacts, PollGoes DEF Ends
<1>3. ASSUME Reads(q, stored, poll[q].link, poll[q].managed), UNCHANGED report,
             moved' = [moved EXCEPT ![q] = Nil]
      PROVE  AddrInv'
  <2>1. /\ poll[q].link \in 1..MaxLinks \cup {Nil} /\ poll[q].managed \in BOOLEAN
        /\ stored \in Addresses \cup {Nil}
    BY <1>1 DEF PollRecords, AddrInv, AddrTypeOK
  <2>2. reachable' \in BOOLEAN /\ \E r \in PollRecords : PollIs(q, r)
    BY <1>3, <2>1, ReadsFacts DEF AddrInv
  <2>3. AroundOK'
    BY <1>1, <1>3, <2>2 DEF AroundOK, AddrInv, AddrTypeOK, world
  <2> QED BY <1>1, <1>3, <2>2, <2>3, PollGoes
<1>4. ASSUME PollIs(q, w), UNCHANGED <<report, reachable, moved>> PROVE AddrInv'
  <2>1. w \in PollRecords /\ w.pc = "read" /\ w.start = poll[q].start
    BY <1>1 DEF PollRecords, PollPcs
  <2>2. AroundOK'
    BY <1>1, <1>4 DEF AroundOK, AddrInv, AddrTypeOK, world
  <2> HIDE DEF w
  <2> QED BY <1>1, <1>4, <2>1, <2>2, PollGoes
<1>5. report \in BOOLEAN
  BY DEF AddrInv, AddrTypeOK
<1>6. CASE poll[q].pc = "port"
  <2>1. UNCHANGED report
    BY <1>6 DEF GivesUp
  <2>2. CASE stored = Nil
    <3>1. Ends(q) /\ UNCHANGED reachable
      BY <1>6, <2>2 DEF GivesUp
    <3>2. report' \in BOOLEAN
      BY <1>5, <2>1
    <3> QED BY <1>2, <3>1, <3>2
  <2>3. CASE stored # Nil
    <3>1. /\ Reads(q, stored, poll[q].link, poll[q].managed)
          /\ moved' = [moved EXCEPT ![q] = Nil]
      BY <1>6, <2>3 DEF GivesUp
    <3> QED BY <1>3, <2>1, <3>1
  <2> QED BY <2>2, <2>3
<1>7. CASE poll[q].pc # "port" /\ poll[q].managed
  BY <1>4, <1>7 DEF GivesUp, Probed
<1>8. CASE poll[q].pc # "port" /\ ~poll[q].managed
  <2>1. report' = (report \/ silent) /\ Ends(q) /\ UNCHANGED reachable
    BY <1>8 DEF GivesUp
  <2> QED BY <1>2, <1>5, <2>1
<1> QED BY <1>6, <1>7, <1>8

LEMMA SessionReadKept ==
  ASSUME AddrInv, NEW q \in Polls, SessionRead(q)
  PROVE  AddrInv'
<1>1. poll[q].found \in BOOLEAN
  BY PollFacts DEF PollRecords
<1>2. reachable' \in BOOLEAN /\ report' \in BOOLEAN
  BY <1>1 DEF SessionRead, AddrInv, AddrTypeOK
<1>3. AroundOK' /\ Ends(q) /\ UNCHANGED stored
  BY <1>2 DEF SessionRead, AroundOK, AddrInv, AddrTypeOK, world
<1> QED BY <1>3, RestingFacts, PollGoes DEF Ends

LEMMA StatusReadKept ==
  ASSUME AddrInv, NEW q \in Polls, StatusRead(q)
  PROVE  AddrInv'
<1>1. AroundOK' /\ Ends(q) /\ UNCHANGED stored
  BY DEF StatusRead, AroundOK, AddrInv, AddrTypeOK, world
<1> QED BY <1>1, RestingFacts, PollGoes DEF Ends

-----------------------------------------------------------------------------
(***************************************************************************)
(* The rest of Home Assistant, and the panels.                             *)
(***************************************************************************)
\* A step that leaves the entry and the polls alone.
LEMMA ElsewhereKept ==
  ASSUME AddrInv, AroundOK', UNCHANGED <<poll, moved>>, stored' \in {stored, Nil}
  PROVE  AddrInv'
BY DEF AddrInv, AddrTypeOK, AroundOK, Fenced

LEMMA ConnectsKept ==
  ASSUME AddrInv, Connects
  PROVE  AddrInv'
<1>1. PICK n \in 1..MaxLinks, extra \in Addresses, manages \in BOOLEAN :
        /\ link' = [n |-> n, said |-> {at.own, extra}, manages |-> manages]
        /\ told' = [last |-> {at.own, extra}, refused |-> {}]
  BY DEF Connects
<1>2. at.own \in Addresses
  BY DEF Connects, AddrInv, AddrTypeOK
<1>3. link' \in Links
      /\ told' \in [last : SUBSET Addresses, refused : SUBSET Addresses]
  BY <1>1, <1>2 DEF Links
<1>4. AroundOK'
  BY <1>3 DEF Connects, AroundOK, AddrInv, AddrTypeOK, world, outcome
<1> QED BY <1>4, ElsewhereKept DEF Connects

LEMMA DisconnectsKept ==
  ASSUME AddrInv, Disconnects
  PROVE  AddrInv'
<1>1. AroundOK'
  BY DEF Disconnects, AroundOK, AddrInv, AddrTypeOK, world
<1> QED BY <1>1, ElsewhereKept DEF Disconnects

LEMMA HelloRefusedKept ==
  ASSUME AddrInv, NEW x \in Addresses, HelloRefused(x)
  PROVE  AddrInv'
<1>1. AroundOK'
  BY DEF HelloRefused, AroundOK, AddrInv, AddrTypeOK, world, outcome
<1> QED BY <1>1, ElsewhereKept DEF HelloRefused

LEMMA FlowMovesKept ==
  ASSUME AddrInv, NEW x \in Addresses, NEW byHand \in BOOLEAN, FlowMoves(x, byHand)
  PROVE  AddrInv'
<1>1. AroundOK'
  BY DEF FlowMoves, Moves, AroundOK, AddrInv, AddrTypeOK, world, outcome
<1>2. Moves(Nil, x) /\ poll' = poll /\ poll \in [Polls -> PollRecords]
  BY DEF FlowMoves, AddrInv, AddrTypeOK
<1>3. Nil \notin Polls
  BY AddressAssumption
<1> QED BY <1>1, <1>2, <1>3, EntryMoves

LEMMA RemovesKept ==
  ASSUME AddrInv, Removes
  PROVE  AddrInv'
<1>1. AroundOK'
  BY DEF Removes, AroundOK, AddrInv, AddrTypeOK, world
<1> QED BY <1>1, ElsewhereKept DEF Removes

LEMMA PanelMovesKept ==
  ASSUME AddrInv, NEW p \in {"own", "other"}, NEW x \in Addresses \cup {Nil},
         PanelMoves(p, x)
  PROVE  AddrInv'
<1>1. moves' \in 0..MaxMoves
  BY AddressAssumption DEF PanelMoves, AddrInv, AddrTypeOK
<1>2. at' \in [{"own", "other"} -> Addresses \cup {Nil}]
  BY DEF PanelMoves, AddrInv, AddrTypeOK
<1>3. AroundOK'
  BY <1>1, <1>2 DEF PanelMoves, AroundOK, AddrInv, AddrTypeOK, outcome
<1> QED BY <1>3, ElsewhereKept DEF PanelMoves

-----------------------------------------------------------------------------
LEMMA AddrInvInit ==
  ASSUME AddrInit
  PROVE  AddrInv
<1>1. AddrTypeOK
  <2>1. at \in [{"own", "other"} -> Addresses \cup {Nil}]
    BY AddressAssumption DEF AddrInit
  <2>2. /\ poll \in [Polls -> PollRecords]
        /\ moved \in [Polls -> Addresses \cup {Nil}]
    BY RestingFacts DEF AddrInit
  <2>3. moves \in 0..MaxMoves
    BY AddressAssumption DEF AddrInit
  <2>4. stored \in Addresses \cup {Nil} /\ link \in Links \cup {Nil}
    BY AddressAssumption DEF AddrInit
  <2>5. told \in [last : SUBSET Addresses, refused : SUBSET Addresses]
    BY DEF AddrInit
  <2>6. reachable \in BOOLEAN /\ report \in BOOLEAN
    BY DEF AddrInit
  <2> QED BY <2>1, <2>2, <2>3, <2>4, <2>5, <2>6 DEF AddrTypeOK
<1>2. Fenced
  BY DEF AddrInit, Fenced
<1> QED BY <1>1, <1>2 DEF AddrInv

LEMMA AddrInvKept ==
  ASSUME AddrInv, [AddrNext]_addrVars
  PROVE  AddrInv'
<1>1. ASSUME NEW q \in Polls, PollStep(q) PROVE AddrInv'
  BY <1>1, HealthBesideSessionKept, HealthOverHttpKept, ProbeAnswersKept, AdoptsKept,
     GivesUpKept, SessionReadKept, StatusReadKept DEF PollStep
<1>2. CASE UNCHANGED addrVars
  <2>1. AroundOK'
    BY <1>2 DEF AroundOK, AddrInv, AddrTypeOK, addrVars, world, outcome
  <2> QED BY <1>2, <2>1, ElsewhereKept DEF addrVars
<1>3. CASE AddrNext
  BY <1>1, <1>3, BeginPollKept, BeginAtPortKept, ConnectsKept, DisconnectsKept,
     HelloRefusedKept, FlowMovesKept, RemovesKept, PanelMovesKept DEF AddrNext
<1> QED BY <1>2, <1>3

\* A poll never replaces an address the entry was given while the poll was under
\* way: _async_recover_address adopts only where the entry still has the address
\* the poll set out from, and an entry somebody moved has not.
THEOREM NewerAddressStays == AddrSpec => []NewerAddressStands
<1>1. AddrInit => AddrInv
  BY AddrInvInit
<1>2. AddrInv /\ [AddrNext]_addrVars => AddrInv'
  BY AddrInvKept
<1>3. AddrInv => NewerAddressStands
  BY DEF AddrInv, Fenced, NewerAddressStands
<1> QED BY <1>1, <1>2, <1>3, PTL DEF AddrSpec
=============================================================================
