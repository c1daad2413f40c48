------------------------ MODULE PanelSessions_proofs ------------------------
(***************************************************************************)
(* Theorems about PanelSessions, for any entries, identities, accounts,    *)
(* sockets and number of hellos: a live session is always the one its      *)
(* entry would admit now, and it ends with its socket.                     *)
(*                                                                         *)
(* Neither is inductive alone.  A hello that waits for the install         *)
(* receipts opens a session later, so its socket must still be open and    *)
(* its place among the subscriptions still its own (Pending); and ending   *)
(* the sessions of one entry must leave those of the others alone, so a    *)
(* session belongs to one entry only (Seated).                             *)
(***************************************************************************)
EXTENDS PanelSessions, TLAPS

\* The session of an entry: opened by a hello for this entry, on an open socket
\* whose subscription table holds its teardown.
Seated(e) ==
  LET h == byEntry[e]
  IN  /\ hello[h] \in HelloRecords
      /\ hello[h].at = "live" /\ hello[h].entry = e
      /\ hello[h].socket \in sockets
      /\ subs[h] = "teardown"

\* A hello whose admission is still reading the install receipts.
Pending(h) ==
  /\ hello[h] \in HelloRecords
  /\ hello[h].entry \in Entries
  /\ hello[h].socket \in sockets
  /\ subs[h] = "cancel"

IsReading(h) == hello[h] # None /\ hello[h].at = "reading"

\* The session table, the subscription tables and the hellos agree.
TablesAgree ==
  /\ \A e \in Entries : byEntry[e] # None => Seated(e)
  /\ \A h \in Hellos : IsReading(h) => Pending(h)
  /\ \A h \in Hellos : subs[h] = "teardown" => h \in LiveOf(Entries)
  /\ byToken = LiveOf(Entries)

\* The entry would admit the panel and account of hello h.
Fits(e, h) ==
  /\ entry[e].state \in {"loaded", "unloading"}
  /\ entry[e].confirmed
  /\ entry[e].bound = UserOn(h)
  /\ entry[e].did = hello[h].did

SessInv == SessTypeOK /\ TablesAgree /\ SessionIsAdmitted

-----------------------------------------------------------------------------
(***************************************************************************)
(* The operators.                                                          *)
(***************************************************************************)

LEMMA EntryForDidFacts ==
  ASSUME NEW did, NEW e \in Entries, EntryForDid(did) = e
  PROVE  entry[e].state = "loaded" /\ entry[e].did = did
<1> DEFINE matches == {x \in Entries : entry[x].state = "loaded" /\ entry[x].did = did}
           answering == {x \in matches : entry[x].answers}
<1>1. e # "unknown" /\ e # "shared"
  BY SessionsAssumption
<1>2. SUFFICES e \in matches
  OBVIOUS
<1>3. EntryForDid(did) =
        CASE matches = {} -> "unknown"
          [] \E x \in matches : matches = {x} -> CHOOSE x \in matches : TRUE
          [] \E x \in Entries : answering = {x} -> CHOOSE x \in answering : TRUE
          [] OTHER -> "shared"
  BY DEF EntryForDid
<1> HIDE DEF matches
<1>4. (CHOOSE x \in matches : TRUE) \in matches \/ matches = {}
  OBVIOUS
<1>5. (CHOOSE x \in answering : TRUE) \in answering \/ answering = {}
  OBVIOUS
<1>6. (\E x \in Entries : answering = {x}) => answering # {}
  OBVIOUS
<1>7. answering \subseteq matches
  OBVIOUS
<1> HIDE DEF answering
<1>8. QED BY <1>1, <1>3, <1>4, <1>5, <1>6, <1>7

LEMMA LiveFacts ==
  ASSUME NEW E, E \subseteq Entries, NEW h
  PROVE  h \in LiveOf(E) <=> h # None /\ \E e \in E : byEntry[e] = h
BY DEF LiveOf

\* A session belongs to one entry.
LEMMA OneSeat ==
  ASSUME SessInv, NEW e \in Entries, NEW f \in Entries, byEntry[e] = byEntry[f],
         byEntry[e] # None
  PROVE  e = f
BY DEF SessInv, TablesAgree, Seated

-----------------------------------------------------------------------------
(***************************************************************************)
(* What the three operations on the tables keep.  Each says which sessions *)
(* there are afterwards, and that those that stay are as they were.        *)
(***************************************************************************)

TableTypes ==
  /\ hello \in [Hellos -> HelloRecords \cup {None}]
  /\ subs \in [Hellos -> {None, "cancel", "teardown"}]
  /\ byEntry \in [Entries -> Hellos \cup {None}]
  /\ byToken \subseteq Hellos

\* The hellos of set H end: what becomes of them and of the others.
LEMMA HellosWithoutFacts ==
  ASSUME TableTypes, NEW H, \A h \in H : hello[h] \in HelloRecords
  PROVE  /\ HellosWithout(H) \in [Hellos -> HelloRecords \cup {None}]
         /\ \A h \in Hellos \ H : HellosWithout(H)[h] = hello[h]
         /\ \A h \in Hellos \cap H : /\ HellosWithout(H)[h] \in HelloRecords
                                     /\ HellosWithout(H)[h].at = "over"
<1>1. \A r \in HelloRecords : /\ [r EXCEPT !.at = "over"] \in HelloRecords
                              /\ [r EXCEPT !.at = "over"].at = "over"
  BY DEF HelloRecords
<1>2. QED BY <1>1 DEF HellosWithout, TableTypes

\* Sessions in H end; the tables of other sessions stay.
LEMMA CloseKeeps ==
  ASSUME SessInv, NEW H, H \subseteq LiveOf(Entries), Close(H), sockets' = sockets
  PROVE  /\ TableTypes' /\ TablesAgree'
         /\ \A e \in Entries : byEntry'[e] # None =>
              /\ byEntry'[e] = byEntry[e] /\ byEntry[e] \notin H
              /\ hello'[byEntry[e]] = hello[byEntry[e]]
<1>1. TableTypes
  BY DEF SessInv, SessTypeOK, TableTypes
<1>2. /\ \A h \in H : hello[h] \in HelloRecords
      /\ H \subseteq Hellos
      /\ \A h \in H : hello[h].at = "live"
      /\ None \notin H
  BY <1>1 DEF SessInv, TablesAgree, Seated, LiveOf, TableTypes
<1>3. /\ hello' \in [Hellos -> HelloRecords \cup {None}]
      /\ \A h \in Hellos \ H : hello'[h] = hello[h]
      /\ \A h \in H : hello'[h] \in HelloRecords /\ hello'[h].at = "over"
  BY <1>1, <1>2, HellosWithoutFacts DEF Close
<1>4. /\ byEntry' \in [Entries -> Hellos \cup {None}]
      /\ \A e \in Entries : byEntry'[e] = IF byEntry[e] \in H THEN None ELSE byEntry[e]
  BY <1>1 DEF Close, EntriesWithout, TableTypes
<1>5. /\ subs' \in [Hellos -> {None, "cancel", "teardown"}]
      /\ \A h \in Hellos : subs'[h] = IF h \in H THEN None ELSE subs[h]
  BY <1>1 DEF Close, TableTypes
<1>6. byToken' = byToken \ H
  BY DEF Close, TokensWithout
<1>7. \A e \in Entries : byEntry'[e] # None =>
        /\ byEntry'[e] = byEntry[e] /\ byEntry[e] \notin H
        /\ byEntry[e] \in Hellos
        /\ hello'[byEntry[e]] = hello[byEntry[e]]
        /\ subs'[byEntry[e]] = subs[byEntry[e]]
  BY <1>1, <1>3, <1>4, <1>5 DEF TableTypes
<1>8. \A e \in Entries : byEntry'[e] # None => Seated(e)'
  BY <1>7 DEF SessInv, TablesAgree, Seated
<1>9. ASSUME NEW h \in Hellos, IsReading(h)'
      PROVE  Pending(h)'
  <2>1. h \notin H
    BY <1>3, <1>9 DEF IsReading
  <2>2. hello'[h] = hello[h] /\ subs'[h] = subs[h]
    BY <1>3, <1>5, <2>1
  <2>3. QED BY <1>9, <2>2 DEF SessInv, TablesAgree, IsReading, Pending
<1>10. LiveOf(Entries)' = LiveOf(Entries) \ H
  BY <1>4, <1>2 DEF LiveOf
<1>11. \A h \in Hellos : subs'[h] = "teardown" => h \in LiveOf(Entries)'
  BY <1>5, <1>10, SessionsAssumption DEF SessInv, TablesAgree
<1>12. byToken' = LiveOf(Entries)'
  BY <1>6, <1>10 DEF SessInv, TablesAgree
<1>13. TablesAgree'
  BY <1>8, <1>9, <1>11, <1>12 DEF TablesAgree
<1>14. QED BY <1>1, <1>3, <1>4, <1>5, <1>6, <1>7, <1>13 DEF TableTypes

\* A session opens for entry e, and ends the entry's own and those in H.
OpensSession(h, r, e, H) ==
  /\ H \subseteq LiveOf(Entries) /\ e \in Entries /\ r \in HelloRecords
  /\ r.socket \in sockets /\ Open(h, r, e, H)
  => /\ TableTypes' /\ TablesAgree'
     /\ byEntry'[e] = h
     /\ hello'[h].did = r.did /\ hello'[h].socket = r.socket
     /\ \A f \in Entries \ {e} : byEntry'[f] # None =>
          /\ byEntry'[f] = byEntry[f]
          /\ hello'[byEntry[f]] = hello[byEntry[f]]

LEMMA OpenKeeps ==
  ASSUME SessInv, NEW h \in Hellos, h \notin LiveOf(Entries), sockets' = sockets,
         NEW H, NEW r, NEW e
  PROVE  OpensSession(h, r, e, H)
<1> SUFFICES ASSUME H \subseteq LiveOf(Entries), e \in Entries, r \in HelloRecords,
                    r.socket \in sockets, Open(h, r, e, H)
             PROVE  /\ TableTypes' /\ TablesAgree'
                    /\ byEntry'[e] = h
                    /\ hello'[h].did = r.did /\ hello'[h].socket = r.socket
                    /\ \A f \in Entries \ {e} : byEntry'[f] # None =>
                         /\ byEntry'[f] = byEntry[f]
                         /\ hello'[byEntry[f]] = hello[byEntry[f]]
  BY DEF OpensSession
<1> DEFINE ended == H \cup LiveOf({e})
           w == [r EXCEPT !.at = "live", !.entry = e]
<1>1. TableTypes
  BY DEF SessInv, SessTypeOK, TableTypes
<1>2. ended \subseteq LiveOf(Entries)
  BY DEF LiveOf
<1>3. /\ \A i \in ended : hello[i] \in HelloRecords
      /\ ended \subseteq Hellos
      /\ None \notin ended
      /\ h \notin ended
  BY <1>1, <1>2 DEF SessInv, TablesAgree, Seated, LiveOf, TableTypes
<1>4. /\ w \in HelloRecords
      /\ w.at = "live" /\ w.entry = e
      /\ w.did = r.did /\ w.socket = r.socket
  BY DEF HelloRecords
<1>5. /\ HellosWithout(ended) \in [Hellos -> HelloRecords \cup {None}]
      /\ \A i \in Hellos \ ended : HellosWithout(ended)[i] = hello[i]
      /\ \A i \in ended : /\ HellosWithout(ended)[i] \in HelloRecords
                          /\ HellosWithout(ended)[i].at = "over"
  BY <1>1, <1>3, HellosWithoutFacts
<1>6. /\ byEntry' = [EntriesWithout(ended) EXCEPT ![e] = h]
      /\ byToken' = TokensWithout(ended) \cup {h}
      /\ subs' = [i \in Hellos |-> IF i = h THEN "teardown"
                                   ELSE IF i \in ended THEN None ELSE subs[i]]
      /\ hello' = [HellosWithout(ended) EXCEPT ![h] = w]
  BY DEF Open
<1> HIDE DEF w
<1>7. ended = H \cup LiveOf({e})
  OBVIOUS
<1> HIDE DEF ended
<1>8. /\ hello' \in [Hellos -> HelloRecords \cup {None}]
      /\ hello'[h] = w
      /\ \A i \in Hellos \ (ended \cup {h}) : hello'[i] = hello[i]
      /\ \A i \in ended : hello'[i] \in HelloRecords /\ hello'[i].at = "over"
  BY <1>3, <1>4, <1>5, <1>6
<1>9. /\ byEntry' \in [Entries -> Hellos \cup {None}]
      /\ byEntry'[e] = h
      /\ \A f \in Entries \ {e} :
           byEntry'[f] = IF byEntry[f] \in ended THEN None ELSE byEntry[f]
  BY <1>1, <1>6 DEF EntriesWithout, TableTypes
<1>10. /\ subs' \in [Hellos -> {None, "cancel", "teardown"}]
       /\ subs'[h] = "teardown"
       /\ \A i \in Hellos \ {h} : subs'[i] = IF i \in ended THEN None ELSE subs[i]
  BY <1>1, <1>6 DEF TableTypes
<1>11. byToken' = (byToken \ ended) \cup {h}
  BY <1>6 DEF TokensWithout
<1>12. \A f \in Entries \ {e} : byEntry'[f] # None =>
         /\ byEntry'[f] = byEntry[f] /\ byEntry[f] \notin ended
         /\ byEntry[f] \in Hellos \ {h}
         /\ hello'[byEntry[f]] = hello[byEntry[f]]
         /\ subs'[byEntry[f]] = subs[byEntry[f]]
  BY <1>1, <1>8, <1>9, <1>10 DEF TableTypes, LiveOf
<1>13. \A f \in Entries : byEntry'[f] # None => Seated(f)'
  <2>1. Seated(e)'
    BY <1>4, <1>8, <1>9, <1>10 DEF Seated
  <2>2. \A f \in Entries \ {e} : byEntry'[f] # None => Seated(f)'
    BY <1>12 DEF SessInv, TablesAgree, Seated
  <2>3. QED BY <2>1, <2>2
<1>14. ASSUME NEW i \in Hellos, IsReading(i)'
       PROVE  Pending(i)'
  <2>1. i \notin ended /\ i # h
    BY <1>4, <1>8, <1>14 DEF IsReading
  <2>2. hello'[i] = hello[i] /\ subs'[i] = subs[i]
    BY <1>8, <1>10, <2>1
  <2>3. QED BY <1>14, <2>2 DEF SessInv, TablesAgree, IsReading, Pending
<1>15. LiveOf(Entries)' = (LiveOf(Entries) \ ended) \cup {h}
  <2>1. \A i \in LiveOf(Entries)' : i \in (LiveOf(Entries) \ ended) \cup {h}
    BY <1>9, <1>12 DEF LiveOf
  <2>2. h \in LiveOf(Entries)'
    <3>1. h \in Nat
      BY SessionsAssumption DEF Hellos
    <3>2. h # None
      BY <3>1, SessionsAssumption
    <3>3. QED BY <1>9, <3>2 DEF LiveOf
  <2>3. \A i \in LiveOf(Entries) \ ended : i \in LiveOf(Entries)'
    <3>1. TAKE i \in LiveOf(Entries) \ ended
    <3>2. PICK f \in Entries : byEntry[f] = i /\ i # None
      BY DEF LiveOf
    <3>3. f # e
      BY <1>7, <3>2 DEF LiveOf
    <3>4. byEntry'[f] = i
      BY <1>9, <3>2, <3>3
    <3>5. QED BY <3>2, <3>4 DEF LiveOf
  <2>4. QED BY <2>1, <2>2, <2>3
<1>16. \A i \in Hellos : subs'[i] = "teardown" => i \in LiveOf(Entries)'
  BY <1>10, <1>15, SessionsAssumption DEF SessInv, TablesAgree
<1>17. byToken' = LiveOf(Entries)'
  BY <1>11, <1>15 DEF SessInv, TablesAgree
<1>18. TablesAgree'
  BY <1>13, <1>14, <1>16, <1>17 DEF TablesAgree
<1>19. byToken' \subseteq Hellos
  BY <1>1, <1>11 DEF TableTypes
<1>20. TableTypes'
  BY <1>8, <1>9, <1>10, <1>19 DEF TableTypes
<1>21. QED BY <1>4, <1>7, <1>8, <1>9, <1>12, <1>18, <1>20

\* The subscriptions of the hellos in H go: their sessions and their pending
\* admissions end.  Only hellos in H may have lost their socket.
LEMMA TearDownKeeps ==
  ASSUME SessInv, NEW H, H \subseteq Arrived, TearDown(H),
         \A h \in Hellos : subs[h] # None /\ hello[h] # None
                            /\ hello[h].socket \in sockets \ sockets' => h \in H
  PROVE  /\ TableTypes' /\ TablesAgree'
         /\ \A e \in Entries : byEntry'[e] # None =>
              /\ byEntry'[e] = byEntry[e]
              /\ hello'[byEntry[e]] = hello[byEntry[e]]
<1> DEFINE ended == {h \in H : subs[h] = "teardown"} \cap LiveOf(Entries)
           over == {h \in H : subs[h] = "cancel" /\ hello[h].at = "reading"}
<1>1. TableTypes
  BY DEF SessInv, SessTypeOK, TableTypes
<1>2. /\ H \subseteq Hellos
      /\ \A h \in H : hello[h] \in HelloRecords
      /\ ended \subseteq H /\ over \subseteq H
      /\ None \notin ended
  BY <1>1 DEF Arrived, TableTypes, LiveOf
<1>3. /\ hello' = HellosWithout(ended \cup over)
      /\ byEntry' = EntriesWithout(ended)
      /\ byToken' = byToken \ ended
      /\ subs' = [h \in Hellos |-> IF h \in H THEN None ELSE subs[h]]
  BY DEF TearDown, TokensWithout
<1>4. /\ \A h \in H : h \in LiveOf(Entries) => h \in ended
      /\ \A h \in H : IsReading(h) => h \in over
      /\ \A h \in ended \cup over : hello[h] \in HelloRecords
      /\ \A h \in over : h \notin LiveOf(Entries)
      /\ ended \subseteq LiveOf(Entries)
  <2>1. \A h \in LiveOf(Entries) : subs[h] = "teardown" /\ hello[h].at = "live"
    BY DEF SessInv, TablesAgree, Seated, LiveOf
  <2>2. \A h \in H : IsReading(h) => subs[h] = "cancel" /\ hello[h].at = "reading"
    BY <1>2 DEF SessInv, TablesAgree, Pending, IsReading
  <2>3. QED BY <1>2, <2>1, <2>2
<1> HIDE DEF ended, over
<1>5. /\ hello' \in [Hellos -> HelloRecords \cup {None}]
      /\ \A h \in Hellos \ (ended \cup over) : hello'[h] = hello[h]
      /\ \A h \in ended \cup over : hello'[h].at = "over"
  BY <1>1, <1>2, <1>3, <1>4, HellosWithoutFacts
<1>6. /\ byEntry' \in [Entries -> Hellos \cup {None}]
      /\ \A e \in Entries : byEntry'[e] = IF byEntry[e] \in ended THEN None ELSE byEntry[e]
  BY <1>1, <1>3 DEF EntriesWithout, TableTypes
<1>7. /\ subs' \in [Hellos -> {None, "cancel", "teardown"}]
      /\ \A h \in Hellos : subs'[h] = IF h \in H THEN None ELSE subs[h]
  BY <1>1, <1>3 DEF TableTypes
<1>8. \A e \in Entries : byEntry'[e] # None =>
        /\ byEntry'[e] = byEntry[e] /\ byEntry[e] \notin H
        /\ byEntry[e] \in LiveOf(Entries)
        /\ byEntry[e] \in Hellos
        /\ hello'[byEntry[e]] = hello[byEntry[e]]
        /\ subs'[byEntry[e]] = subs[byEntry[e]]
  BY <1>1, <1>2, <1>4, <1>5, <1>6, <1>7 DEF TableTypes, LiveOf
<1>9. \A e \in Entries : byEntry'[e] # None => Seated(e)'
  <2>1. TAKE e \in Entries
  <2>2. HAVE byEntry'[e] # None
  <2>3. Seated(e)
    BY <1>8, <2>2 DEF SessInv, TablesAgree
  <2>4. hello[byEntry[e]] # None /\ subs[byEntry[e]] # None
    BY <2>3, SessionsAssumption DEF Seated
  <2>5. hello[byEntry[e]].socket \in sockets'
    BY <1>8, <2>2, <2>3, <2>4 DEF Seated
  <2>6. QED BY <1>8, <2>2, <2>3, <2>5 DEF Seated
<1>10. ASSUME NEW h \in Hellos, IsReading(h)'
       PROVE  Pending(h)'
  <2>1. h \notin ended /\ h \notin over
    BY <1>5, <1>10 DEF IsReading
  <2>2. hello'[h] = hello[h] /\ IsReading(h)
    BY <1>5, <1>10, <2>1 DEF IsReading
  <2>3. h \notin H
    BY <1>4, <2>1, <2>2
  <2>4. Pending(h)
    BY <2>2 DEF SessInv, TablesAgree
  <2>5. hello[h].socket \in sockets'
    BY <2>2, <2>3, <2>4, SessionsAssumption DEF Pending, IsReading
  <2>6. QED BY <1>7, <2>2, <2>3, <2>4, <2>5 DEF Pending
<1>11. LiveOf(Entries)' = LiveOf(Entries) \ ended
  BY <1>2, <1>6 DEF LiveOf
<1>12. \A h \in Hellos : subs'[h] = "teardown" => h \in LiveOf(Entries)'
  <2>1. TAKE h \in Hellos
  <2>2. HAVE subs'[h] = "teardown"
  <2>3. h \notin H /\ subs[h] = "teardown"
    BY <1>7, <2>2, SessionsAssumption
  <2>4. QED BY <1>2, <1>11, <2>3 DEF SessInv, TablesAgree
<1>13. byToken' = LiveOf(Entries)'
  BY <1>3, <1>11 DEF SessInv, TablesAgree
<1>14. TablesAgree'
  BY <1>9, <1>10, <1>12, <1>13 DEF TablesAgree
<1>15. byToken' \subseteq Hellos
  BY <1>1, <1>3 DEF TableTypes
<1>16. QED BY <1>5, <1>6, <1>7, <1>8, <1>14, <1>15 DEF TableTypes

-----------------------------------------------------------------------------
(***************************************************************************)
(* The steps.                                                              *)
(***************************************************************************)

\* What the tables do not hold.
OtherTypes ==
  /\ present \subseteq Users
  /\ sockets \subseteq Connections
  /\ entry \in [Entries -> EntryRecords]
  /\ asked \in [Dids -> Users \cup {None}]

LEMMA InvParts ==
  SessInv <=> /\ TableTypes /\ OtherTypes /\ TablesAgree
              /\ \A e \in Entries : byEntry[e] # None => Fits(e, byEntry[e])
BY DEF SessInv, SessTypeOK, TableTypes, OtherTypes, SessionIsAdmitted, Fits

\* A step that leaves the tables alone and takes nothing from an entry that has
\* a session.
LEMMA EntryStepKeeps ==
  ASSUME SessInv, OtherTypes', sockets' = sockets, hello' = hello,
         UNCHANGED tableVars,
         \A e \in Entries : byEntry[e] # None => Fits(e, byEntry[e])'
  PROVE  SessInv'
<1>1. /\ byEntry' = byEntry /\ byToken' = byToken /\ subs' = subs
  BY DEF tableVars
<1>2. TableTypes' /\ TablesAgree'
  BY <1>1, InvParts DEF TableTypes, TablesAgree, Seated, Pending, IsReading, LiveOf
<1>3. (SessInv <=> /\ TableTypes /\ OtherTypes /\ TablesAgree
                   /\ \A e \in Entries : byEntry[e] # None => Fits(e, byEntry[e]))'
  BY InvParts, PTL
<1>4. QED BY <1>1, <1>2, <1>3

\* A hello that has no session ends without one.
LEMMA RefusedKeeps ==
  ASSUME SessInv, NEW h \in Hellos, NEW r \in HelloRecords, Refused(h, r),
         h \notin LiveOf(Entries), sockets' = sockets, entry' = entry, OtherTypes'
  PROVE  SessInv'
<1> DEFINE w == [r EXCEPT !.at = "over"]
<1>1. TableTypes /\ TablesAgree /\ SessionIsAdmitted
  BY InvParts DEF SessInv
<1>2. w \in HelloRecords /\ w.at = "over"
  BY DEF HelloRecords
<1>3. hello' = [hello EXCEPT ![h] = w] /\ byEntry' = byEntry /\ byToken' = byToken
      /\ subs' = subs
  BY DEF Refused, tableVars
<1> HIDE DEF w
<1>4. /\ hello' \in [Hellos -> HelloRecords \cup {None}]
      /\ hello'[h].at = "over"
      /\ \A i \in Hellos \ {h} : hello'[i] = hello[i]
  BY <1>1, <1>2, <1>3 DEF TableTypes
<1>5. \A e \in Entries : byEntry[e] # None => hello'[byEntry[e]] = hello[byEntry[e]]
  BY <1>1, <1>4 DEF TableTypes, LiveOf
<1>6. TableTypes'
  BY <1>1, <1>3, <1>4 DEF TableTypes
<1>7. \A e \in Entries : byEntry'[e] # None => Seated(e)'
  BY <1>1, <1>3, <1>5 DEF TablesAgree, Seated
<1>8. \A i \in Hellos : IsReading(i)' => Pending(i)'
  BY <1>1, <1>3, <1>4 DEF TablesAgree, IsReading, Pending
<1>9. TablesAgree'
  BY <1>1, <1>3, <1>7, <1>8 DEF TablesAgree, LiveOf
<1>10. SessTypeOK'
  BY <1>6 DEF TableTypes, OtherTypes, SessTypeOK
<1>11. SessionIsAdmitted'
  BY <1>1, <1>3, <1>5 DEF SessionIsAdmitted, UserOn
<1>12. QED BY <1>9, <1>10, <1>11 DEF SessInv

\* The sessions in H end; what is left of an entry with a session is still
\* what that session needs.
LEMMA CloseStepKeeps ==
  ASSUME SessInv, NEW H, H \subseteq LiveOf(Entries), Close(H), sockets' = sockets,
         OtherTypes',
         \A e \in Entries : byEntry[e] # None /\ byEntry[e] \notin H =>
            /\ entry'[e].state \in {"loaded", "unloading"}
            /\ entry'[e].confirmed
            /\ entry'[e].bound = UserOn(byEntry[e])
            /\ entry'[e].did = hello[byEntry[e]].did
  PROVE  SessInv'
<1>1. /\ TableTypes' /\ TablesAgree'
      /\ \A e \in Entries : byEntry'[e] # None =>
           /\ byEntry'[e] = byEntry[e] /\ byEntry[e] \notin H
           /\ hello'[byEntry[e]] = hello[byEntry[e]]
  BY CloseKeeps
<1>2. SessionIsAdmitted'
  BY <1>1 DEF SessionIsAdmitted, UserOn
<1>3. QED BY <1>1, <1>2 DEF SessInv, SessTypeOK, TableTypes, OtherTypes

\* A hello that offers local commands is admitted for entry e and begins its
\* read; the sessions in H, of other accounts, end.
LEMMA WaitKeeps ==
  ASSUME SessInv, NEW H, H \subseteq LiveOf(Entries), sockets' = sockets,
         NEW h \in Hellos \ Arrived, NEW w \in HelloRecords,
         w.at = "reading", w.entry \in Entries, w.socket \in sockets,
         byEntry' = EntriesWithout(H), byToken' = TokensWithout(H),
         subs' = [i \in Hellos |-> IF i = h THEN "cancel"
                                   ELSE IF i \in H THEN None ELSE subs[i]],
         hello' = [HellosWithout(H) EXCEPT ![h] = w]
  PROVE  /\ TableTypes' /\ TablesAgree'
         /\ \A e \in Entries : byEntry'[e] # None =>
              /\ byEntry'[e] = byEntry[e] /\ byEntry[e] \notin H
              /\ hello'[byEntry[e]] = hello[byEntry[e]]
<1>1. TableTypes
  BY InvParts
<1>2. /\ \A i \in H : hello[i] \in HelloRecords
      /\ H \subseteq Hellos
      /\ \A i \in LiveOf(Entries) : hello[i] \in HelloRecords
      /\ None \notin H
  BY <1>1 DEF SessInv, TablesAgree, Seated, LiveOf, TableTypes
<1>3. h \notin LiveOf(Entries)
  BY <1>2, SessionsAssumption DEF Arrived
<1>4. /\ HellosWithout(H) \in [Hellos -> HelloRecords \cup {None}]
      /\ \A i \in Hellos \ H : HellosWithout(H)[i] = hello[i]
      /\ \A i \in H : HellosWithout(H)[i] \in HelloRecords /\ HellosWithout(H)[i].at = "over"
  BY <1>1, <1>2, HellosWithoutFacts
<1>5. /\ hello' \in [Hellos -> HelloRecords \cup {None}]
      /\ hello'[h] = w
      /\ \A i \in Hellos \ (H \cup {h}) : hello'[i] = hello[i]
      /\ \A i \in H : hello'[i] \in HelloRecords /\ hello'[i].at = "over"
  BY <1>3, <1>4
<1>6. /\ byEntry' \in [Entries -> Hellos \cup {None}]
      /\ \A e \in Entries : byEntry'[e] = IF byEntry[e] \in H THEN None ELSE byEntry[e]
  BY <1>1 DEF EntriesWithout, TableTypes
<1>7. /\ subs' \in [Hellos -> {None, "cancel", "teardown"}]
      /\ subs'[h] = "cancel"
      /\ \A i \in Hellos \ {h} : subs'[i] = IF i \in H THEN None ELSE subs[i]
  BY <1>1 DEF TableTypes
<1>8. \A e \in Entries : byEntry'[e] # None =>
        /\ byEntry'[e] = byEntry[e] /\ byEntry[e] \notin H
        /\ byEntry[e] \in Hellos \ {h}
        /\ hello'[byEntry[e]] = hello[byEntry[e]]
        /\ subs'[byEntry[e]] = subs[byEntry[e]]
  BY <1>1, <1>3, <1>5, <1>6, <1>7 DEF TableTypes, LiveOf
<1>9. \A e \in Entries : byEntry'[e] # None => Seated(e)'
  BY <1>8 DEF SessInv, TablesAgree, Seated
<1>10. ASSUME NEW i \in Hellos, IsReading(i)'
       PROVE  Pending(i)'
  <2>1. CASE i = h
    BY <1>5, <1>7, <2>1 DEF Pending
  <2>2. CASE i # h
    <3>1. i \notin H
      BY <1>5, <1>10 DEF IsReading
    <3>2. hello'[i] = hello[i] /\ subs'[i] = subs[i]
      BY <1>5, <1>7, <2>2, <3>1
    <3>3. QED BY <1>10, <3>2 DEF SessInv, TablesAgree, IsReading, Pending
  <2>3. QED BY <2>1, <2>2
<1>11. LiveOf(Entries)' = LiveOf(Entries) \ H
  BY <1>2, <1>6 DEF LiveOf
<1>12. \A i \in Hellos : subs'[i] = "teardown" => i \in LiveOf(Entries)'
  BY <1>7, <1>11, SessionsAssumption DEF SessInv, TablesAgree
<1>13. byToken' = LiveOf(Entries)'
  BY <1>11 DEF SessInv, TablesAgree, TokensWithout
<1>14. TablesAgree'
  BY <1>9, <1>10, <1>12, <1>13 DEF TablesAgree
<1>15. byToken' \subseteq Hellos
  BY <1>1 DEF TableTypes, TokensWithout
<1>16. QED BY <1>5, <1>6, <1>7, <1>8, <1>14, <1>15 DEF TableTypes

LEMMA EndedByBindingFacts ==
  ASSUME NEW e \in Entries, NEW u
  PROVE  /\ EndedByBinding(e, u) \subseteq LiveOf(Entries)
         /\ byEntry[e] # None /\ byEntry[e] \notin EndedByBinding(e, u)
              => UserOn(byEntry[e]) = u
BY DEF EndedByBinding, LiveOf

\* The account of a connection on which a record of a hello came.
LEMMA EntryUpdate ==
  ASSUME OtherTypes, NEW e \in Entries, NEW u \in Users \cup {None}
  PROVE  /\ [entry EXCEPT ![e].bound = u] \in [Entries -> EntryRecords]
         /\ [entry EXCEPT ![e].bound = u][e].bound = u
         /\ [entry EXCEPT ![e].bound = u][e].state = entry[e].state
         /\ [entry EXCEPT ![e].bound = u][e].did = entry[e].did
         /\ [entry EXCEPT ![e].bound = u][e].confirmed = entry[e].confirmed
         /\ \A f \in Entries \ {e} : [entry EXCEPT ![e].bound = u][f] = entry[f]
<1> DEFINE w == [entry[e] EXCEPT !.bound = u]
<1>1. entry[e] \in EntryRecords
  BY DEF OtherTypes
<1>2. /\ w \in EntryRecords
      /\ w.bound = u /\ w.state = entry[e].state /\ w.did = entry[e].did
      /\ w.confirmed = entry[e].confirmed
  BY <1>1 DEF EntryRecords
<1>3. [entry EXCEPT ![e].bound = u] = [entry EXCEPT ![e] = w]
  OBVIOUS
<1> HIDE DEF w
<1>4. QED BY <1>2, <1>3 DEF OtherTypes

LEMMA HelloKeeps ==
  ASSUME SessInv, NEW c \in Connections, NEW did \in Dids, NEW local \in BOOLEAN,
         Hello(c, did, local)
  PROVE  SessInv'
<1> DEFINE e == EntryForDid(did)
           r == [at |-> "over", socket |-> c, did |-> did, entry |-> None]
<1>1. PICK h \in Hellos \ Arrived :
        /\ c \in sockets /\ UNCHANGED <<present, sockets>>
        /\ \/ /\ e = "shared"
              /\ Refused(h, r) /\ UNCHANGED <<entry, asked>>
           \/ /\ e = "unknown"
              /\ Refused(h, r)
              /\ asked' = IF MayAsk(c) THEN [asked EXCEPT ![did] = UserOf[c]] ELSE asked
              /\ UNCHANGED entry
           \/ /\ e \in Entries
              /\ ~(entry[e].confirmed /\ Admits(e, c))
              /\ Refused(h, r) /\ UNCHANGED <<entry, asked>>
           \/ /\ e \in Entries
              /\ entry[e].confirmed /\ Admits(e, c)
              /\ entry' = [entry EXCEPT ![e].bound = UserOf[c]]
              /\ UNCHANGED asked
              /\ LET H == EndedByBinding(e, UserOf[c])
                 IN  IF local
                     THEN /\ byEntry' = EntriesWithout(H)
                          /\ byToken' = TokensWithout(H)
                          /\ subs' = [i \in Hellos |-> IF i = h THEN "cancel"
                                                       ELSE IF i \in H THEN None
                                                       ELSE subs[i]]
                          /\ hello' = [HellosWithout(H) EXCEPT
                                         ![h] = [r EXCEPT !.at = "reading", !.entry = e]]
                     ELSE Open(h, r, e, H)
  BY DEF Hello
<1>2. TableTypes /\ OtherTypes /\ TablesAgree /\ SessionIsAdmitted
  BY InvParts DEF SessInv
<1>3. r \in HelloRecords /\ r.socket = c /\ r.did = did
  BY DEF HelloRecords
<1>4. UserOf[c] \in Users
  BY SessionsAssumption
<1>5. h \notin LiveOf(Entries)
  <2>1. \A i \in LiveOf(Entries) : hello[i] \in HelloRecords
    BY <1>2 DEF TablesAgree, Seated, LiveOf
  <2>2. QED BY <2>1, SessionsAssumption DEF Arrived
<1>6. CASE Refused(h, r) /\ entry' = entry
  <2>1. asked' \in [Dids -> Users \cup {None}]
    BY <1>1, <1>2, <1>4 DEF OtherTypes
  <2>2. OtherTypes' /\ sockets' = sockets
    BY <1>1, <1>2, <1>6, <2>1 DEF OtherTypes
  <2>3. QED BY <1>3, <1>5, <1>6, <2>2, RefusedKeeps
<1>7. ASSUME e \in Entries, entry[e].confirmed, Admits(e, c),
             entry' = [entry EXCEPT ![e].bound = UserOf[c]], UNCHANGED asked
      PROVE  /\ OtherTypes' /\ sockets' = sockets
             /\ entry'[e].state = "loaded" /\ entry'[e].did = did
             /\ entry'[e].confirmed /\ entry'[e].bound = UserOf[c]
             /\ \A f \in Entries \ {e} : entry'[f] = entry[f]
  <2>1. entry[e].state = "loaded" /\ entry[e].did = did
    BY <1>7, EntryForDidFacts
  <2> HIDE DEF e
  <2>2. /\ entry' \in [Entries -> EntryRecords]
        /\ entry'[e].state = "loaded" /\ entry'[e].did = did
        /\ entry'[e].bound = UserOf[c] /\ entry'[e].confirmed = entry[e].confirmed
        /\ \A f \in Entries \ {e} : entry'[f] = entry[f]
    BY <1>2, <1>4, <1>7, <2>1, EntryUpdate
  <2>3. QED BY <1>1, <1>2, <1>7, <2>2 DEF OtherTypes
<1>8. CASE /\ e \in Entries
           /\ entry[e].confirmed /\ Admits(e, c)
           /\ entry' = [entry EXCEPT ![e].bound = UserOf[c]]
           /\ UNCHANGED asked
           /\ Open(h, r, e, EndedByBinding(e, UserOf[c]))
  <2>1. EndedByBinding(e, UserOf[c]) \subseteq LiveOf(Entries)
    BY <1>8, EndedByBindingFacts
  <2> HIDE DEF e, r
  <2>2. /\ OtherTypes' /\ sockets' = sockets
        /\ entry'[e].state = "loaded" /\ entry'[e].did = did
        /\ entry'[e].confirmed /\ entry'[e].bound = UserOf[c]
        /\ \A f \in Entries \ {e} : entry'[f] = entry[f]
    BY <1>7, <1>8
  <2>3. /\ TableTypes' /\ TablesAgree'
        /\ byEntry'[e] = h
        /\ hello'[h].did = did /\ hello'[h].socket = c
        /\ \A f \in Entries \ {e} : byEntry'[f] # None =>
             /\ byEntry'[f] = byEntry[f]
             /\ hello'[byEntry[f]] = hello[byEntry[f]]
    <3>1. OpensSession(h, r, e, EndedByBinding(e, UserOf[c]))
      BY <1>5, <2>2, OpenKeeps
    <3>2. QED BY <1>1, <1>3, <1>8, <2>1, <3>1 DEF OpensSession
  <2>4. \A f \in Entries : byEntry'[f] # None => Fits(f, byEntry[f])'
    BY <1>2, <2>2, <2>3 DEF SessionIsAdmitted, Fits, UserOn
  <2>5. SessionIsAdmitted'
    BY <2>4 DEF SessionIsAdmitted, Fits
  <2>6. SessTypeOK'
    BY <2>2, <2>3 DEF SessTypeOK, TableTypes, OtherTypes
  <2>7. QED BY <2>3, <2>5, <2>6 DEF SessInv
<1>9. ASSUME NEW H, H = EndedByBinding(e, UserOf[c]),
             e \in Entries, entry[e].confirmed, Admits(e, c),
             entry' = [entry EXCEPT ![e].bound = UserOf[c]], UNCHANGED asked,
             byEntry' = EntriesWithout(H), byToken' = TokensWithout(H),
             subs' = [i \in Hellos |-> IF i = h THEN "cancel"
                                       ELSE IF i \in H THEN None ELSE subs[i]],
             hello' = [HellosWithout(H) EXCEPT
                         ![h] = [r EXCEPT !.at = "reading", !.entry = e]]
      PROVE  SessInv'
  <2> DEFINE w == [r EXCEPT !.at = "reading", !.entry = e]
  <2>1. /\ w \in HelloRecords
        /\ w.at = "reading" /\ w.entry \in Entries /\ w.socket \in sockets
    BY <1>1, <1>3, <1>9 DEF HelloRecords
  <2>2. /\ H \subseteq LiveOf(Entries)
        /\ byEntry[e] # None /\ byEntry[e] \notin H => UserOn(byEntry[e]) = UserOf[c]
    BY <1>9, EndedByBindingFacts
  <2>3. hello' = [HellosWithout(H) EXCEPT ![h] = w]
    BY <1>9
  <2> HIDE DEF w, e, r
  <2>4. /\ OtherTypes' /\ sockets' = sockets
        /\ entry'[e].state = "loaded" /\ entry'[e].did = did
        /\ entry'[e].confirmed /\ entry'[e].bound = UserOf[c]
        /\ \A f \in Entries \ {e} : entry'[f] = entry[f]
    BY <1>7, <1>9
  <2>5. /\ TableTypes' /\ TablesAgree'
        /\ \A f \in Entries : byEntry'[f] # None =>
             /\ byEntry'[f] = byEntry[f] /\ byEntry[f] \notin H
             /\ hello'[byEntry[f]] = hello[byEntry[f]]
    BY <1>9, <2>1, <2>2, <2>3, <2>4, WaitKeeps
  <2>6. entry[e].did = did
    BY <1>9, EntryForDidFacts DEF e
  <2>7. SessionIsAdmitted'
    BY <1>2, <2>2, <2>4, <2>5, <2>6 DEF SessionIsAdmitted, UserOn
  <2>8. SessTypeOK'
    BY <2>4, <2>5 DEF SessTypeOK, TableTypes, OtherTypes
  <2>9. QED BY <2>5, <2>7, <2>8 DEF SessInv
<1> HIDE DEF e, r
<1>10. QED BY <1>1, <1>6, <1>8, <1>9

\* The end of an admission's read.
LEMMA AdmitLocalKeeps ==
  ASSUME SessInv, NEW h \in Hellos, AdmitLocal(h)
  PROVE  SessInv'
<1> DEFINE e == hello[h].entry
<1>1. TableTypes /\ OtherTypes /\ TablesAgree /\ SessionIsAdmitted
  BY InvParts DEF SessInv
<1>2. /\ hello[h] \in HelloRecords /\ e \in Entries
      /\ hello[h].socket \in sockets
      /\ hello[h].at = "reading"
  BY <1>1 DEF AdmitLocal, TablesAgree, IsReading, Pending
<1>3. h \notin LiveOf(Entries)
  BY <1>1, <1>2 DEF TablesAgree, Seated, LiveOf
<1>4. sockets' = sockets /\ entry' = entry /\ OtherTypes'
  BY <1>1 DEF AdmitLocal, OtherTypes
<1>5. CASE AdmissionHolds(h)
  <2>1. Open(h, hello[h], e, {})
    BY <1>5 DEF AdmitLocal
  <2>2. /\ entry[e].state = "loaded" /\ entry[e].did = hello[h].did
        /\ entry[e].confirmed /\ entry[e].bound = UserOn(h)
    BY <1>2, <1>5, EntryForDidFacts DEF AdmissionHolds
  <2> HIDE DEF e
  <2>3. /\ TableTypes' /\ TablesAgree'
        /\ byEntry'[e] = h
        /\ hello'[h].did = hello[h].did /\ hello'[h].socket = hello[h].socket
        /\ \A f \in Entries \ {e} : byEntry'[f] # None =>
             /\ byEntry'[f] = byEntry[f]
             /\ hello'[byEntry[f]] = hello[byEntry[f]]
    <3>1. {} \subseteq LiveOf(Entries)
      OBVIOUS
    <3>2. OpensSession(h, hello[h], e, {})
      BY <1>3, <1>4, OpenKeeps
    <3>3. QED BY <1>2, <2>1, <3>1, <3>2 DEF OpensSession
  <2>4. SessionIsAdmitted'
    BY <1>1, <1>4, <2>2, <2>3 DEF SessionIsAdmitted, UserOn
  <2>5. QED BY <1>4, <2>3, <2>4 DEF SessInv, SessTypeOK, TableTypes, OtherTypes
<1>6. CASE ~AdmissionHolds(h)
  BY <1>2, <1>3, <1>4, <1>6, RefusedKeeps DEF AdmitLocal
<1>7. QED BY <1>5, <1>6

LEMMA FinishedKeeps ==
  ASSUME SessInv, NEW h \in Hellos, Finished(h)
  PROVE  SessInv'
<1>1. TableTypes /\ OtherTypes /\ TablesAgree /\ SessionIsAdmitted
  BY InvParts DEF SessInv
<1>2. /\ subs[h] = "cancel" /\ ~IsReading(h)
      /\ subs' = [subs EXCEPT ![h] = None]
      /\ UNCHANGED <<present, sockets, entry, hello, byEntry, byToken, asked>>
  BY DEF Finished, Cleared, IsReading
<1>3. h \notin LiveOf(Entries)
  BY <1>1, <1>2 DEF TablesAgree, Seated, LiveOf
<1>4. /\ subs' \in [Hellos -> {None, "cancel", "teardown"}]
      /\ subs'[h] = None
      /\ \A i \in Hellos \ {h} : subs'[i] = subs[i]
  BY <1>1, <1>2 DEF TableTypes
<1>5. \A e \in Entries : byEntry'[e] # None => Seated(e)'
  BY <1>1, <1>2, <1>3, <1>4 DEF TablesAgree, Seated, LiveOf, TableTypes
<1>6. \A i \in Hellos : IsReading(i)' => Pending(i)'
  BY <1>1, <1>2, <1>4 DEF TablesAgree, IsReading, Pending
<1>7. \A i \in Hellos : subs'[i] = "teardown" => i \in LiveOf(Entries)'
  BY <1>1, <1>2, <1>4, SessionsAssumption DEF TablesAgree, LiveOf
<1>8. TablesAgree'
  BY <1>1, <1>2, <1>5, <1>6, <1>7 DEF TablesAgree, LiveOf
<1>9. SessTypeOK'
  BY <1>1, <1>2, <1>4 DEF TableTypes, OtherTypes, SessTypeOK
<1>10. SessionIsAdmitted'
  BY <1>1, <1>2 DEF SessionIsAdmitted, UserOn
<1>11. QED BY <1>8, <1>9, <1>10 DEF SessInv

\* A socket closes, or a panel unsubscribes.
LEMMA TearDownStepKeeps ==
  ASSUME SessInv, NEW H, H \subseteq Arrived, TearDown(H),
         \A h \in Hellos : subs[h] # None /\ hello[h] # None
                            /\ hello[h].socket \in sockets \ sockets' => h \in H,
         sockets' \subseteq sockets, UNCHANGED <<present, entry, asked>>
  PROVE  SessInv'
<1>1. TableTypes /\ OtherTypes /\ TablesAgree /\ SessionIsAdmitted
  BY InvParts DEF SessInv
<1>2. /\ TableTypes' /\ TablesAgree'
      /\ \A e \in Entries : byEntry'[e] # None =>
           /\ byEntry'[e] = byEntry[e]
           /\ hello'[byEntry[e]] = hello[byEntry[e]]
  BY TearDownKeeps
<1>3. SessionIsAdmitted'
  BY <1>1, <1>2 DEF SessionIsAdmitted, UserOn
<1>4. QED BY <1>1, <1>2, <1>3 DEF SessInv, SessTypeOK, TableTypes, OtherTypes

LEMMA CloseSocketKeeps ==
  ASSUME SessInv, NEW c \in Connections, CloseSocket(c)
  PROVE  SessInv'
<1> DEFINE H == {h \in Arrived : hello[h].socket = c /\ subs[h] # None}
<1>1. /\ H \subseteq Arrived /\ TearDown(H)
      /\ sockets' = sockets \ {c} /\ UNCHANGED <<present, entry, asked>>
  BY DEF CloseSocket
<1>2. \A h \in Hellos : subs[h] # None /\ hello[h] # None
                         /\ hello[h].socket \in sockets \ sockets' => h \in H
  BY <1>1 DEF Arrived
<1> HIDE DEF H
<1>3. QED BY <1>1, <1>2, TearDownStepKeeps

LEMMA UnsubscribeKeeps ==
  ASSUME SessInv, NEW h \in Hellos, Unsubscribe(h)
  PROVE  SessInv'
<1>1. /\ {h} \subseteq Arrived /\ TearDown({h})
      /\ sockets' = sockets /\ UNCHANGED <<present, entry, asked>>
  BY DEF Unsubscribe, Arrived
<1>2. QED BY <1>1, TearDownStepKeeps

\* The account is gone: its sessions end and its entries are released.
LEMMA UserRemovedKeeps ==
  ASSUME SessInv, NEW u \in Users, UserRemoved(u)
  PROVE  SessInv'
<1> DEFINE H == {h \in LiveOf(Entries) : UserOn(h) = u}
<1>1. OtherTypes /\ SessionIsAdmitted
  BY InvParts DEF SessInv
<1>2. /\ H \subseteq LiveOf(Entries) /\ Close(H)
      /\ present' = present \ {u} /\ sockets' = sockets /\ asked' = asked
      /\ entry' = [e \in Entries |-> IF Released(e, u) THEN [entry[e] EXCEPT !.bound = None]
                                     ELSE entry[e]]
  BY DEF UserRemoved
<1>3. \A e \in Entries : /\ entry'[e] \in EntryRecords
                         /\ entry[e].bound # u => entry'[e] = entry[e]
  <2>1. TAKE e \in Entries
  <2>2. entry[e] \in EntryRecords
    BY <1>1 DEF OtherTypes
  <2>3. [entry[e] EXCEPT !.bound = None] \in EntryRecords
    BY <2>2 DEF EntryRecords
  <2>4. QED BY <1>2, <2>2, <2>3 DEF Released
<1>4. OtherTypes'
  <2>1. entry' \in [Entries -> EntryRecords]
    BY <1>2, <1>3
  <2>2. QED BY <1>1, <1>2, <2>1 DEF OtherTypes
<1>5. ASSUME NEW e \in Entries, byEntry[e] # None, byEntry[e] \notin H
      PROVE  /\ entry'[e].state \in {"loaded", "unloading"}
             /\ entry'[e].confirmed
             /\ entry'[e].bound = UserOn(byEntry[e])
             /\ entry'[e].did = hello[byEntry[e]].did
  <2>1. byEntry[e] \in LiveOf(Entries)
    BY <1>5 DEF LiveOf
  <2>2. entry[e].bound # u
    BY <1>1, <1>5, <2>1 DEF SessionIsAdmitted
  <2>3. entry'[e] = entry[e]
    BY <1>3, <2>2
  <2>4. QED BY <1>1, <1>5, <2>3 DEF SessionIsAdmitted
<1> HIDE DEF H
<1>6. QED BY <1>2, <1>4, <1>5, CloseStepKeeps

LEMMA ConfirmBindingKeeps ==
  ASSUME SessInv, NEW e \in Entries, NEW u \in Users, ConfirmBinding(e, u)
  PROVE  SessInv'
<1>1. OtherTypes /\ SessionIsAdmitted
  BY InvParts DEF SessInv
<1>2. /\ Close(EndedByBinding(e, u))
      /\ entry' = [entry EXCEPT ![e].bound = u]
      /\ UNCHANGED <<present, sockets, asked>>
  BY DEF ConfirmBinding
<1>3. /\ entry' \in [Entries -> EntryRecords]
      /\ entry'[e].bound = u /\ entry'[e].state = entry[e].state
      /\ entry'[e].did = entry[e].did /\ entry'[e].confirmed = entry[e].confirmed
      /\ \A f \in Entries \ {e} : entry'[f] = entry[f]
  BY <1>1, <1>2, EntryUpdate
<1>4. OtherTypes'
  BY <1>1, <1>2, <1>3 DEF OtherTypes
<1>5. /\ EndedByBinding(e, u) \subseteq LiveOf(Entries)
      /\ byEntry[e] # None /\ byEntry[e] \notin EndedByBinding(e, u)
           => UserOn(byEntry[e]) = u
  BY EndedByBindingFacts
<1>6. \A f \in Entries : byEntry[f] # None /\ byEntry[f] \notin EndedByBinding(e, u) =>
        /\ entry'[f].state \in {"loaded", "unloading"}
        /\ entry'[f].confirmed
        /\ entry'[f].bound = UserOn(byEntry[f])
        /\ entry'[f].did = hello[byEntry[f]].did
  BY <1>1, <1>3, <1>5 DEF SessionIsAdmitted
<1>7. QED BY <1>2, <1>4, <1>5, <1>6, CloseStepKeeps

\* The record of entry e is replaced by r; the tables stay.
LEMMA EntryOnlyKeeps ==
  ASSUME SessInv, NEW e \in Entries, NEW r \in EntryRecords,
         entry' = [entry EXCEPT ![e] = r],
         byEntry[e] # None => /\ r.state \in {"loaded", "unloading"}
                              /\ r.confirmed
                              /\ r.bound = entry[e].bound /\ r.did = entry[e].did,
         UNCHANGED <<present, sockets, hello, tableVars>>,
         asked' \in [Dids -> Users \cup {None}]
  PROVE  SessInv'
<1>1. OtherTypes /\ SessionIsAdmitted
  BY InvParts DEF SessInv
<1>2. /\ entry' \in [Entries -> EntryRecords]
      /\ entry'[e] = r /\ \A f \in Entries \ {e} : entry'[f] = entry[f]
  BY <1>1 DEF OtherTypes
<1>3. OtherTypes'
  BY <1>1, <1>2 DEF OtherTypes
<1>4. UNCHANGED tableVars /\ hello' = hello /\ sockets' = sockets /\ byEntry' = byEntry
  BY DEF tableVars
<1>5. \A f \in Entries : byEntry[f] # None => Fits(f, byEntry[f])'
  BY <1>1, <1>2, <1>4 DEF SessionIsAdmitted, Fits, UserOn
<1>6. QED BY <1>3, <1>4, <1>5, EntryStepKeeps

\* The record of entry e is replaced by r, and its session ends.
LEMMA EntryEndsKeeps ==
  ASSUME SessInv, NEW e \in Entries, NEW r \in EntryRecords,
         entry' = [entry EXCEPT ![e] = r], Close(LiveOf({e})),
         UNCHANGED <<present, sockets, asked>>
  PROVE  SessInv'
<1>1. OtherTypes /\ SessionIsAdmitted
  BY InvParts DEF SessInv
<1>2. /\ entry' \in [Entries -> EntryRecords]
      /\ \A f \in Entries \ {e} : entry'[f] = entry[f]
  BY <1>1 DEF OtherTypes
<1>3. OtherTypes' /\ sockets' = sockets
  BY <1>1, <1>2 DEF OtherTypes
<1>4. /\ LiveOf({e}) \subseteq LiveOf(Entries)
      /\ byEntry[e] # None => byEntry[e] \in LiveOf({e})
  BY DEF LiveOf
<1>5. \A f \in Entries : byEntry[f] # None /\ byEntry[f] \notin LiveOf({e}) =>
        /\ entry'[f].state \in {"loaded", "unloading"}
        /\ entry'[f].confirmed
        /\ entry'[f].bound = UserOn(byEntry[f])
        /\ entry'[f].did = hello[byEntry[f]].did
  BY <1>1, <1>2, <1>4 DEF SessionIsAdmitted
<1>6. QED BY <1>3, <1>4, <1>5, CloseStepKeeps

\* The steps that only write the entry.
LEMMA EntryStepsKeep ==
  ASSUME SessInv, NEW e \in Entries,
         Load(e) \/ StartUnload(e) \/ RemoveEntry(e) \/ Confirm(e)
  PROVE  SessInv'
<1>1. OtherTypes /\ SessionIsAdmitted
  BY InvParts DEF SessInv
<1>2. /\ entry[e] \in EntryRecords /\ entry \in [Entries -> EntryRecords]
      /\ asked \in [Dids -> Users \cup {None}]
      /\ \A s \in {"unloaded", "loaded", "unloading", "absent"} : s \in States
  BY <1>1 DEF OtherTypes, States
<1>3. byEntry[e] # None => entry[e].state \in {"loaded", "unloading"} /\ entry[e].confirmed
  BY <1>1 DEF SessionIsAdmitted
<1>4. CASE Load(e)
  <2>1. PICK answers \in BOOLEAN, confirmed \in BOOLEAN :
          entry' = [entry EXCEPT ![e].state = "loaded", ![e].answers = answers,
                                 ![e].confirmed = confirmed]
    BY <1>4 DEF Load
  <2> DEFINE r == [entry[e] EXCEPT !.state = "loaded", !.answers = answers,
                                   !.confirmed = confirmed]
  <2>2. r \in EntryRecords
    BY <1>2 DEF EntryRecords
  <2>3. entry' = [entry EXCEPT ![e] = r]
    BY <1>2, <2>1
  <2>4. byEntry[e] = None /\ UNCHANGED <<present, sockets, hello, tableVars, asked>>
    BY <1>3, <1>4 DEF Load
  <2> HIDE DEF r
  <2>5. QED BY <1>2, <2>2, <2>3, <2>4, EntryOnlyKeeps
<1>5. CASE StartUnload(e)
  <2> DEFINE r == [entry[e] EXCEPT !.state = "unloading"]
  <2>1. /\ r \in EntryRecords /\ r.state = "unloading" /\ r.confirmed = entry[e].confirmed
        /\ r.bound = entry[e].bound /\ r.did = entry[e].did
    BY <1>2 DEF EntryRecords
  <2>2. entry' = [entry EXCEPT ![e] = r]
    BY <1>2, <1>5 DEF StartUnload
  <2>3. UNCHANGED <<present, sockets, hello, tableVars, asked>>
    BY <1>5 DEF StartUnload
  <2> HIDE DEF r
  <2>4. QED BY <1>2, <1>3, <2>1, <2>2, <2>3, EntryOnlyKeeps
<1>6. CASE RemoveEntry(e)
  <2> DEFINE r == [entry[e] EXCEPT !.state = "absent", !.bound = None]
  <2>1. r \in EntryRecords
    BY <1>2 DEF EntryRecords
  <2>2. entry' = [entry EXCEPT ![e] = r]
    BY <1>2, <1>6 DEF RemoveEntry
  <2>3. byEntry[e] = None /\ UNCHANGED <<present, sockets, hello, tableVars, asked>>
    BY <1>3, <1>6 DEF RemoveEntry
  <2> HIDE DEF r
  <2>4. QED BY <1>2, <2>1, <2>2, <2>3, EntryOnlyKeeps
<1>7. CASE Confirm(e)
  <2> DEFINE r == [entry[e] EXCEPT !.answers = TRUE, !.confirmed = TRUE]
  <2>1. /\ r \in EntryRecords /\ r.state = entry[e].state /\ r.confirmed = TRUE
        /\ r.bound = entry[e].bound /\ r.did = entry[e].did
    BY <1>2 DEF EntryRecords
  <2>2. entry' = [entry EXCEPT ![e] = r]
    BY <1>2, <1>7 DEF Confirm
  <2>3. UNCHANGED <<present, sockets, hello, tableVars, asked>>
    BY <1>7 DEF Confirm
  <2> HIDE DEF r
  <2>4. QED BY <1>2, <1>3, <2>1, <2>2, <2>3, EntryOnlyKeeps
<1>8. QED BY <1>4, <1>5, <1>6, <1>7

\* The steps that end the entry's session.
LEMMA EndingStepsKeep ==
  ASSUME SessInv, NEW e \in Entries, NEW did \in Dids,
         FinishUnload(e) \/ Withdraw(e) \/ AdoptReinstalled(e, did)
  PROVE  SessInv'
<1>1. OtherTypes
  BY InvParts
<1>2. /\ entry[e] \in EntryRecords /\ entry \in [Entries -> EntryRecords]
      /\ "unloaded" \in States
  BY <1>1 DEF OtherTypes, States
<1>3. CASE FinishUnload(e)
  <2> DEFINE r == [entry[e] EXCEPT !.state = "unloaded", !.answers = FALSE]
  <2>1. r \in EntryRecords
    BY <1>2 DEF EntryRecords
  <2>2. /\ entry' = [entry EXCEPT ![e] = r] /\ Close(LiveOf({e}))
        /\ UNCHANGED <<present, sockets, asked>>
    BY <1>2, <1>3 DEF FinishUnload
  <2> HIDE DEF r
  <2>3. QED BY <2>1, <2>2, EntryEndsKeeps
<1>4. CASE Withdraw(e)
  <2> DEFINE r == [entry[e] EXCEPT !.confirmed = FALSE]
  <2>1. r \in EntryRecords
    BY <1>2 DEF EntryRecords
  <2>2. /\ entry' = [entry EXCEPT ![e] = r] /\ Close(LiveOf({e}))
        /\ UNCHANGED <<present, sockets, asked>>
    BY <1>2, <1>4 DEF Withdraw
  <2> HIDE DEF r
  <2>3. QED BY <2>1, <2>2, EntryEndsKeeps
<1>5. CASE AdoptReinstalled(e, did)
  <2> DEFINE r == [entry[e] EXCEPT !.did = did, !.bound = None, !.answers = TRUE,
                                   !.confirmed = TRUE]
  <2>1. r \in EntryRecords
    BY <1>2 DEF EntryRecords
  <2>2. /\ entry' = [entry EXCEPT ![e] = r] /\ Close(LiveOf({e}))
        /\ UNCHANGED <<present, sockets, asked>>
    BY <1>2, <1>5 DEF AdoptReinstalled
  <2> HIDE DEF r
  <2>3. QED BY <2>1, <2>2, EntryEndsKeeps
<1>6. QED BY <1>3, <1>4, <1>5

LEMMA AddEntryKeeps ==
  ASSUME SessInv, NEW e \in Entries, NEW did \in Dids, AddEntry(e, did)
  PROVE  SessInv'
<1> DEFINE r == [state |-> "unloaded", did |-> did, answers |-> FALSE,
                 bound |-> IF asked[did] \in present THEN asked[did] ELSE None,
                 confirmed |-> FALSE]
<1>1. OtherTypes /\ SessionIsAdmitted
  BY InvParts DEF SessInv
<1>2. r \in EntryRecords
  BY <1>1 DEF OtherTypes, EntryRecords, States
<1>3. byEntry[e] = None
  BY <1>1 DEF AddEntry, SessionIsAdmitted
<1>4. asked' \in [Dids -> Users \cup {None}]
  BY <1>1 DEF AddEntry, OtherTypes
<1>5. entry' = [entry EXCEPT ![e] = r] /\ UNCHANGED <<present, sockets, hello, tableVars>>
  BY DEF AddEntry
<1> HIDE DEF r
<1>6. QED BY <1>2, <1>3, <1>4, <1>5, EntryOnlyKeeps

LEMMA ForgetRequestKeeps ==
  ASSUME SessInv, NEW did \in Dids, ForgetRequest(did)
  PROVE  SessInv'
<1>1. OtherTypes /\ SessionIsAdmitted
  BY InvParts DEF SessInv
<1>2. /\ sockets' = sockets /\ hello' = hello /\ entry' = entry /\ present' = present
      /\ UNCHANGED tableVars /\ byEntry' = byEntry
      /\ asked' = [asked EXCEPT ![did] = None]
  BY DEF ForgetRequest, tableVars
<1>3. OtherTypes'
  BY <1>1, <1>2 DEF OtherTypes
<1>4. \A e \in Entries : byEntry[e] # None => Fits(e, byEntry[e])'
  BY <1>1, <1>2 DEF SessionIsAdmitted, Fits, UserOn
<1>5. QED BY <1>2, <1>3, <1>4, EntryStepKeeps

LEMMA RegrantKeeps ==
  ASSUME SessInv, NEW e \in Entries, Regrant(e)
  PROVE  SessInv'
<1>1. OtherTypes /\ SessionIsAdmitted
  BY InvParts DEF SessInv
<1>2. /\ {byEntry[e]} \subseteq LiveOf(Entries) /\ Close({byEntry[e]})
      /\ UNCHANGED <<present, sockets, entry, asked>>
  BY DEF Regrant, LiveOf
<1>3. OtherTypes' /\ sockets' = sockets
  BY <1>1, <1>2 DEF OtherTypes
<1>4. \A f \in Entries : byEntry[f] # None /\ byEntry[f] \notin {byEntry[e]} =>
        /\ entry'[f].state \in {"loaded", "unloading"}
        /\ entry'[f].confirmed
        /\ entry'[f].bound = UserOn(byEntry[f])
        /\ entry'[f].did = hello[byEntry[f]].did
  BY <1>1, <1>2 DEF SessionIsAdmitted
<1>5. QED BY <1>2, <1>3, <1>4, CloseStepKeeps

-----------------------------------------------------------------------------
(***************************************************************************)
(* The invariant, and the theorems.                                        *)
(***************************************************************************)

LEMMA InitKeeps == Init => SessInv
<1>1. SUFFICES ASSUME Init PROVE SessInv
  OBVIOUS
<1>2. SessTypeOK
  BY <1>1 DEF Init, SessTypeOK
<1>3. LiveOf(Entries) = {}
  BY <1>1 DEF Init, LiveOf
<1>4. \A h \in Hellos : subs[h] # "teardown"
  BY <1>1, SessionsAssumption DEF Init
<1>5. TablesAgree
  BY <1>1, <1>3, <1>4 DEF Init, TablesAgree, IsReading
<1>6. SessionIsAdmitted
  BY <1>1 DEF Init, SessionIsAdmitted
<1>7. QED BY <1>2, <1>5, <1>6 DEF SessInv

LEMMA NextKeeps == SessInv /\ Next => SessInv'
<1>1. SUFFICES ASSUME SessInv, Next PROVE SessInv'
  OBVIOUS
<1>2. CASE \E c \in Connections, did \in Dids, local \in BOOLEAN : Hello(c, did, local)
  BY <1>1, <1>2, HelloKeeps
<1>3. CASE \E h \in Hellos : AdmitLocal(h) \/ Finished(h) \/ Unsubscribe(h)
  BY <1>1, <1>3, AdmitLocalKeeps, FinishedKeeps, UnsubscribeKeeps
<1>4. CASE \E c \in Connections : CloseSocket(c)
  BY <1>1, <1>4, CloseSocketKeeps
<1>5. CASE \E u \in Users : UserRemoved(u)
  BY <1>1, <1>5, UserRemovedKeeps
<1>6. CASE \E e \in Entries, u \in Users : ConfirmBinding(e, u)
  BY <1>1, <1>6, ConfirmBindingKeeps
<1>7. CASE \E e \in Entries, did \in Dids : AddEntry(e, did) \/ AdoptReinstalled(e, did)
  BY <1>1, <1>7, AddEntryKeeps, EndingStepsKeep
<1>8. CASE \E did \in Dids : ForgetRequest(did)
  BY <1>1, <1>8, ForgetRequestKeeps
<1>9. CASE \E e \in Entries : Load(e) \/ StartUnload(e) \/ RemoveEntry(e) \/ Confirm(e)
  BY <1>1, <1>9, EntryStepsKeep
<1>10. CASE \E e \in Entries : FinishUnload(e) \/ Withdraw(e)
  <2>1. PICK e \in Entries : FinishUnload(e) \/ Withdraw(e)
    BY <1>10
  <2>2. PICK did : did = entry[e].did
    OBVIOUS
  <2>3. did \in Dids
    BY <1>1, <2>2 DEF SessInv, SessTypeOK, EntryRecords
  <2>4. QED BY <1>1, <2>1, <2>3, EndingStepsKeep
<1>11. CASE \E e \in Entries : Regrant(e)
  BY <1>1, <1>11, RegrantKeeps
<1>12. QED
  BY <1>1, <1>2, <1>3, <1>4, <1>5, <1>6, <1>7, <1>8, <1>9, <1>10, <1>11 DEF Next

LEMMA StepKeeps == SessInv /\ [Next]_vars => SessInv'
<1>1. CASE Next
  BY <1>1, NextKeeps
<1>2. CASE UNCHANGED vars
  BY <1>2 DEF vars, tableVars, SessInv, SessTypeOK, TablesAgree, SessionIsAdmitted,
     Seated, Pending, IsReading, LiveOf, UserOn
<1>3. QED BY <1>1, <1>2

LEMMA InvHolds == Spec => []SessInv
BY InitKeeps, StepKeeps, PTL DEF Spec

\* The state of the handshake and the session table keeps its shape: a session
\* is one of the hellos that arrived, an account is one of Home Assistant's.
THEOREM SessionsTyped == Spec => []SessTypeOK
<1>1. SessInv => SessTypeOK
  BY DEF SessInv
<1>2. QED BY <1>1, InvHolds, PTL

\* Whatever handlers run during a hello's read of the install receipts (another
\* hello, a binding, a removed account, a reinstalled or withdrawn panel), a live
\* session is the one its entry would admit now (ws_hello, _accept_local_hello).
THEOREM AdmittedStaysAdmitted == Spec => []SessionIsAdmitted
<1>1. SessInv => SessionIsAdmitted
  BY DEF SessInv
<1>2. QED BY <1>1, InvHolds, PTL

\* The socket of a live session is open and its subscription table holds the
\* session's teardown, and nothing else holds one (_accept_hello, finished).
THEOREM SessionEndsWithSocket == Spec => []SessionDiesWithSocket
<1>1. SessInv => SessionDiesWithSocket
  BY DEF SessInv, TablesAgree, Seated, LiveOf, SessionDiesWithSocket
<1>2. QED BY <1>1, InvHolds, PTL

\* The two tables of TransportSessions hold the same sessions, and no session is
\* that of two entries.
THEOREM TablesHoldTheSame ==
  Spec => [](/\ byToken = LiveOf(Entries)
             /\ \A e, f \in Entries :
                  byEntry[e] # None /\ byEntry[e] = byEntry[f] => e = f)
<1>1. SessInv => /\ byToken = LiveOf(Entries)
                 /\ \A e, f \in Entries :
                      byEntry[e] # None /\ byEntry[e] = byEntry[f] => e = f
  BY OneSeat DEF SessInv, TablesAgree
<1>2. QED BY <1>1, InvHolds, PTL
=============================================================================
