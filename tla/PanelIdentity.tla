---------------------------- MODULE PanelIdentity ----------------------------
(***************************************************************************)
(* Which panel a config entry stands for (identity.py): the identity the   *)
(* entry saved, the identity inside the unique ids of its entities, and    *)
(* how both follow a panel whose app is upgraded or reinstalled.           *)
(*                                                                         *)
(*   panel    the installation each panel runs: 0 is an app from before    *)
(*            installation identities, which reports only the legacy       *)
(*            identity of the device; a reinstall makes a new identity     *)
(*   legacy   the legacy identity of each panel, shared by two panels of   *)
(*            one factory image; it never changes                          *)
(*   ha       the running Home Assistant: the entries, the identities that *)
(*            their native entities carry (ents), and, not saved, whether  *)
(*            an entry is loaded and whether its panel answers as itself,  *)
(*            by a session or at the last poll                             *)
(*   disk     the entry store and the entity registry, saved apart         *)
(*                                                                         *)
(* Every function of identity.py runs without yielding, so reading one     *)
(* health line is one step.  Which panel answers where an entry looks is   *)
(* left open: addresses are handed out anew.  So is whether an update or a *)
(* removal holds the panel when it is read.                                *)
(***************************************************************************)
EXTENDS Naturals, FiniteSets, Functions

CONSTANTS
  Entries, Panels, Legacies, None,
  MaxInstalls,    \* bounds the installations of one panel
  MaxReinstalls   \* bounds those of all panels

VARIABLES panel, legacy, ha, disk

idVars == <<panel, legacy, ha, disk>>

Installation(p, n) == [panel |-> p, install |-> n]
Installations == [panel : Panels, install : 1..MaxInstalls]
Ids == Installations \cup Legacies

EntryRecords ==
  [uid : Ids \cup {None}, inst : BOOLEAN, prev : Ids \cup {None},
   link : Legacies \cup {None}]

ASSUME IdentityAssumption ==
  /\ MaxInstalls \in Nat
  /\ MaxReinstalls \in Nat
  /\ None \notin Ids
  /\ None \notin EntryRecords
  /\ Legacies \cap Installations = {}

\* PanelHealth.
Health(p) ==
  IF panel[p] = 0
  THEN [did |-> legacy[p], inst |-> FALSE, link |-> None]
  ELSE [did |-> Installation(p, panel[p]), inst |-> TRUE, link |-> legacy[p]]

-----------------------------------------------------------------------------
(***************************************************************************)
(* Conditions.  m is a value of ha, h a health line, r an entry.           *)
(***************************************************************************)
Saved(m) == {e \in Entries : m.entry[e] # None}
Others(m, e) == Saved(m) \ {e}

\* Faulty variant: only an entry that is loaded holds its identity.
IdentityAvailableOfLoaded(m, e, did) ==
  \A o \in Others(m, e) : m.loaded[o] => m.entry[o].uid # did

IdentityAvailable(m, e, did) == \A o \in Others(m, e) : m.entry[o].uid # did

MigrationCandidate(r, h) ==
  ~r.inst /\ r.uid # None /\ h.inst /\ h.did # r.uid /\ h.link = r.uid

LinkHolders(m, e, link) == {o \in Others(m, e) : m.entry[o].link = link}

\* Faulty variant: any free new identity is taken for a reinstall.
LinkedAnywhere(m, e, h) ==
  /\ m.entry[e].inst /\ m.entry[e].uid \notin {None, h.did} /\ h.inst
  /\ IdentityAvailable(m, e, h.did)

LinkedReinstall(m, e, h) ==
  /\ m.entry[e].inst /\ m.entry[e].uid \notin {None, h.did} /\ h.inst
  /\ m.entry[e].link = h.link
  /\ IdentityAvailable(m, e, h.did)

Reinstalled(m, e, h) ==
  LinkedReinstall(m, e, h) /\ LinkHolders(m, e, h.link) = {}

AnswersAsItself(m, e) == m.loaded[e] /\ m.answers[e]

\* The checks before a rekey (can_confirm_identity, adopt_moved_identity): the
\* entities are the entry's own and none holds a name they would take.
CanRekey(m, e, did) ==
  /\ IdentityAvailable(m, e, did)
  /\ m.ents[e] \subseteq {m.entry[e].uid, did}
  /\ m.entry[e].uid \in m.ents[e] => \A o \in Entries : did \notin m.ents[o]

-----------------------------------------------------------------------------
(***************************************************************************)
(* What the functions make of Home Assistant's state.                      *)
(***************************************************************************)
Rekeyed(ids, old, new) == IF old \in ids THEN (ids \ {old}) \cup {new} ELSE ids

\* Faulty variant: the identity given up is not remembered.
CommittedForgetful(m, e, did) ==
  LET r == m.entry[e]
  IN  [m EXCEPT !.entry[e] = [r EXCEPT !.uid = did, !.inst = TRUE],
                !.ents[e] = Rekeyed(@, r.uid, did),
                !.answers[e] = FALSE]

\* _commit_identity.  The reload it asks for is a later Unload and Load.
Committed(m, e, did) ==
  LET r == m.entry[e]
  IN  [m EXCEPT !.entry[e] = [r EXCEPT !.uid = did, !.inst = TRUE, !.prev = r.uid],
                !.ents[e] = Rekeyed(@, r.uid, did),
                !.answers[e] = FALSE]

\* _claim_link, for an entry that has just accepted its panel.
LinkClaimed(m, e) ==
  LET link == m.entry[e].link
      left == {o \in LinkHolders(m, e, link) : ~AnswersAsItself(m, o)}
  IN  IF link = None THEN m
      ELSE [m EXCEPT !.entry =
              [o \in Entries |-> IF o \in left THEN [@[o] EXCEPT !.link = None]
                                 ELSE @[o]]]

\* The panel's own identity is accepted: _accepted, then _claim_link.
Accepted(m, e, h) ==
  LET r == m.entry[e]
  IN  LinkClaimed([m EXCEPT !.entry[e] =
                     [r EXCEPT !.uid = h.did, !.inst = @ \/ h.inst,
                               !.link = IF h.link = None THEN @ ELSE h.link]], e)

\* An entry without an identity takes the one its entities kept.
Restored(m, e) ==
  IF m.entry[e].uid = None /\ Cardinality(m.ents[e]) = 1
  THEN [m EXCEPT !.entry[e].uid = CHOOSE d \in m.ents[e] : TRUE]
  ELSE m

\* accept_health.  free: nothing outside identities stands against a rekey; the
\* entry's MQTT records prove a migration, no other operation holds a panel
\* that was reinstalled.  A refused panel loses its authority
\* (_withdraw_authority).
AcceptHealth(m0, e, h, free) ==
  LET m == Restored(m0, e)
      r == m.entry[e]
      first == r.uid = None /\ m.ents[e] = {} /\ IdentityAvailable(m, e, h.did)
      follows == free /\ (MigrationCandidate(r, h) \/ Reinstalled(m, e, h))
  IN  CASE first \/ h.did = r.uid -> [ok |-> TRUE, ha |-> Accepted(m, e, h)]
        [] follows /\ CanRekey(m, e, h.did) ->
             [ok |-> TRUE, ha |-> Committed(m, e, h.did)]
        [] OTHER -> [ok |-> FALSE, ha |-> [m EXCEPT !.answers[e] = FALSE]]

\* All entities carry one identity the entry never had: of a rekey only the
\* registry was saved.
RekeyAhead(m, e) ==
  /\ m.entry[e].inst
  /\ m.entry[e].uid # None
  /\ \E d \in m.ents[e] : m.ents[e] = {d} /\ IdentityAvailable(m, e, d)
  /\ m.ents[e] \cap {m.entry[e].uid, m.entry[e].prev} = {}

\* The checks before the entities follow the entry.
CanFinish(m, e, old, did) ==
  /\ IdentityAvailable(m, e, did)
  /\ m.ents[e] \subseteq {old, did}
  /\ old \in m.ents[e] => \A o \in Entries : did \notin m.ents[o]

\* Faulty variant: a rekey saved in one store only is left as it is.
ReconciledLazily(m, e) == [ok |-> TRUE, ha |-> m]

\* reconcile_identity: before an entry's entities exist, a rekey of which only
\* one store was saved is finished.
Reconciled(m, e) ==
  LET r == m.entry[e]
  IN  IF RekeyAhead(m, e)
      THEN [ok |-> TRUE,
            ha |-> Committed(m, e, CHOOSE d \in m.ents[e] : TRUE)]
      ELSE IF r.prev = None \/ ~r.inst
      THEN [ok |-> m.ents[e] \subseteq {r.uid}, ha |-> m]
      ELSE [ok |-> CanFinish(m, e, r.prev, r.uid),
            ha |-> IF CanFinish(m, e, r.prev, r.uid)
                   THEN [m EXCEPT !.ents[e] = Rekeyed(@, r.prev, r.uid)]
                   ELSE m]

-----------------------------------------------------------------------------
(***************************************************************************)
(* The steps of Home Assistant.                                            *)
(***************************************************************************)
Running(new) == ha' = new /\ UNCHANGED <<panel, legacy, disk>>

\* The coordinator of a loaded entry reads the health of panel p where it looks
\* for the entry's.
Poll(e, p, free) ==
  /\ ha.loaded[e]
  /\ LET out == AcceptHealth(ha, e, Health(p), free)
     IN  Running([out.ha EXCEPT !.answers[e] = out.ok])

\* An entry reads it while being set up, or a setup flow does for the entry
\* that holds the panel's address or link.
Meet(e, p, free) ==
  /\ e \in Saved(ha)
  /\ Running(AcceptHealth(ha, e, Health(p), free).ha)

\* Nothing answers and no session is left.
PanelSilent(e) ==
  /\ ha.answers[e]
  /\ Running([ha EXCEPT !.answers[e] = FALSE])

\* async_setup_entry, after its first refresh (Meet), which answered or not.
Load(e, answered) ==
  /\ e \in Saved(ha)
  /\ ~ha.loaded[e]
  /\ Reconciled(ha, e).ok
  /\ Running([Reconciled(ha, e).ha EXCEPT !.loaded[e] = TRUE,
                                          !.answers[e] = answered])

Unload(e) ==
  /\ ha.loaded[e]
  /\ Running([ha EXCEPT !.loaded[e] = FALSE, !.answers[e] = FALSE])

\* A session under the entry's identity describes entities; the registry moves
\* one it already has.
Describe(e, p) ==
  /\ ha.loaded[e]
  /\ ha.entry[e].uid = Health(p).did
  /\ Running([ha EXCEPT !.answers[e] = TRUE,
       !.ents = [o \in Entries |-> IF o = e THEN @[o] \cup {Health(p).did}
                                   ELSE @[o] \ {Health(p).did}]])

\* An administrator confirms the repair of a migration candidate.
ConfirmIdentity(e, p) ==
  /\ e \in Saved(ha)
  /\ MigrationCandidate(ha.entry[e], Health(p))
  /\ CanRekey(ha, e, Health(p).did)
  /\ Running(Committed(ha, e, Health(p).did))

\* A setup flow adds a panel whose identity no entry has, unless an entry that
\* lost its panel can be followed to it.  Core saves the new entry before any
\* of its entities exist.
AddPanel(e, p) ==
  /\ ha.entry[e] = None
  /\ \A o \in Saved(ha) :
       /\ ha.entry[o].uid # Health(p).did
       /\ Reinstalled(ha, o, Health(p)) => AnswersAsItself(ha, o)
  /\ ha' = [ha EXCEPT !.entry[e] =
             [uid |-> Health(p).did, inst |-> Health(p).inst, prev |-> None,
              link |-> None]]
  /\ disk' = [disk EXCEPT !.entry = ha'.entry]
  /\ UNCHANGED <<panel, legacy>>

SaveEntries ==
  /\ disk' = [disk EXCEPT !.entry = ha.entry]
  /\ UNCHANGED <<panel, legacy, ha>>

SaveEntities ==
  /\ disk' = [disk EXCEPT !.ents = ha.ents]
  /\ UNCHANGED <<panel, legacy, ha>>

NotYet == [e \in Entries |-> FALSE]
Started(store) ==
  [entry |-> store.entry, ents |-> store.ents, loaded |-> NotYet,
   answers |-> NotYet]

Restart == Running(Started(disk))

\* The panel's app is upgraded, or cleanly reinstalled.
Reinstall(p) ==
  /\ panel[p] < MaxInstalls
  /\ SumFunction(panel) < MaxReinstalls
  /\ panel' = [panel EXCEPT ![p] = @ + 1]
  /\ UNCHANGED <<legacy, ha, disk>>

\* There is one entry from before installation identities, which may have
\* entities already, under the legacy identity l.  Its own record of that
\* identity is missing in the oldest ones.
StartsWith(e, uid, ids) ==
  LET r == [uid |-> uid, inst |-> FALSE, prev |-> None, link |-> None]
  IN  /\ panel = [p \in Panels |-> 0]
      /\ disk = [entry |-> [o \in Entries |-> IF o = e THEN r ELSE None],
                 ents |-> [o \in Entries |-> IF o = e THEN ids ELSE {}]]
      /\ ha = Started(disk)

Init ==
  /\ legacy \in [Panels -> Legacies]
  /\ \E e \in Entries, p \in Panels : \E ids \in {{}, {legacy[p]}} :
       StartsWith(e, legacy[p], ids)
InitUnnamed ==
  /\ legacy \in [Panels -> Legacies]
  /\ \E e \in Entries, p \in Panels : \E ids \in {{}, {legacy[p]}} :
       StartsWith(e, None, ids)

Next ==
  \/ \E e \in Entries :
       \/ PanelSilent(e) \/ Unload(e)
       \/ \E answered \in BOOLEAN : Load(e, answered)
       \/ \E p \in Panels :
            \/ Describe(e, p) \/ ConfirmIdentity(e, p) \/ AddPanel(e, p)
            \/ \E free \in BOOLEAN :
                 Poll(e, p, free) \/ Meet(e, p, free)
  \/ \E p \in Panels : Reinstall(p)
  \/ SaveEntries \/ SaveEntities \/ Restart

IdSpec == Init /\ [][Next]_idVars
UnnamedSpec == InitUnnamed /\ [][Next]_idVars

-----------------------------------------------------------------------------
\* The shape of the state.
IdTypeOK ==
  /\ panel \in [Panels -> 0..MaxInstalls]
  /\ legacy \in [Panels -> Legacies]
  /\ ha \in [entry : [Entries -> EntryRecords \cup {None}],
             ents : [Entries -> SUBSET Ids],
             loaded : [Entries -> BOOLEAN], answers : [Entries -> BOOLEAN]]
  /\ disk \in [entry : [Entries -> EntryRecords \cup {None}],
               ents : [Entries -> SUBSET Ids]]

\* The panel an identity belongs to, when its legacy identity is its own.
Unshared(p) == \A q \in Panels \ {p} : legacy[q] # legacy[p]
Of(p) == {legacy[p]} \cup {Installation(p, n) : n \in 1..MaxInstalls}

\* identity_available, over restarts that lose either store: no two entries
\* are ever the same panel, loaded or not.
IdentityIsOwned ==
  \A e, o \in Saved(ha) :
    e # o /\ ha.entry[e].uid # None => ha.entry[e].uid # ha.entry[o].uid

\* reconcile_identity's promise: once an entry is loaded its entities carry its
\* own identity, whichever store was lost, so a panel never gets a second set
\* of entities.
OneEntitySet == \A e \in Entries : ha.loaded[e] => ha.ents[e] \subseteq {ha.entry[e].uid}

\* Whichever panel answers at the address, an entry stays with the panel it has
\* been, while no other panel shares that panel's legacy identity.
EntryKeepsItsPanel ==
  [][\A e \in Entries, p \in Panels :
       /\ Unshared(p)
       /\ e \in Saved(ha) /\ ha.entry[e].uid \in Of(p)
       => ha'.entry[e].uid \in Of(p)]_idVars

\* A panel with one entry, which a poll or a session has linked to it, can
\* always be read again: no order of reinstalls, saves and restarts leaves a
\* loaded entry that refuses its own panel for good.
NeverLockedOut ==
  \A e \in Entries, p \in Panels :
    LET r == ha.entry[e]
    IN  /\ Unshared(p)
        /\ ha.loaded[e] /\ r.inst /\ r.uid \in Of(p)
        /\ r.link # None \/ r.uid \in Legacies
        /\ \A o \in Others(ha, e) : ha.entry[o].uid \notin Of(p)
        => AcceptHealth(ha, e, Health(p), TRUE).ok
=============================================================================
