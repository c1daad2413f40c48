---------------------------- MODULE PanelSessions ----------------------------
(***************************************************************************)
(* Which panel holds which session: the hello handshake (transport.py),    *)
(* the account each config entry is bound to (transport_binding.py) and    *)
(* the table of live sessions, at most one per entry                       *)
(* (transport_sessions.py).                                                *)
(*                                                                         *)
(*   present   the Home Assistant accounts that exist                      *)
(*   sockets   the open WebSocket connections                              *)
(*   entry     the config entries: whether one is loaded, its saved panel  *)
(*             identity (did), whether its panel last answered a health    *)
(*             read under that identity, its bound account, and whether    *)
(*             its endpoint is confirmed to be that panel                  *)
(*   hello     the hellos received, numbered in order of arrival           *)
(*   subs      what the connection's subscription table holds for a hello: *)
(*             nothing, the cancellation of its pending admission, or the  *)
(*             teardown of the session it opened                           *)
(*   byEntry, byToken  the session table; a session is named by its hello  *)
(*   asked     the account an unknown panel asked to connect as            *)
(*                                                                         *)
(* A handler runs to its end without yielding.  The exception is a hello   *)
(* that offers local commands: its admission first reads the install       *)
(* receipts, and everything else may happen during that read.  Home        *)
(* Assistant's own part (accounts, sockets, loading and unloading entries) *)
(* is modelled by what this integration sees of it.  What a session        *)
(* carries is SessionCommands.                                             *)
(***************************************************************************)
EXTENDS Naturals

CONSTANTS
  Entries,      \* config entry ids
  Dids,         \* panel identities
  Users,        \* Home Assistant accounts
  Connections,  \* WebSocket connections
  UserOf,       \* the account each connection authenticated as
  MaxHellos,    \* bound: hellos in one behaviour
  None

Hellos == 1..MaxHellos
States == {"absent", "unloaded", "loaded", "unloading"}
EntryRecords ==
  [state : States, did : Dids, answers : BOOLEAN, bound : Users \cup {None},
   confirmed : BOOLEAN]
HelloRecords ==
  [at : {"reading", "live", "over"}, socket : Connections, did : Dids,
   entry : Entries \cup {None}]

\* "Nothing" is not something, and the answers of _entry_for_did that are no
\* entry are none of the entries.
ASSUME SessionsAssumption ==
  /\ UserOf \in [Connections -> Users]
  /\ MaxHellos \in Nat
  /\ None \notin Users \cup Nat \cup HelloRecords \cup {"cancel", "teardown"}
  /\ \A e \in Entries : e \notin {None, "unknown", "shared"}

VARIABLES present, sockets, entry, hello, subs, byEntry, byToken, asked

tableVars == <<byEntry, byToken, subs>>
vars == <<present, sockets, entry, hello, tableVars, asked>>

Arrived == {h \in Hellos : hello[h] # None}
UserOn(h) == UserOf[hello[h].socket]

\* _entry_for_did: the one loaded entry of an identity, where one whose panel
\* answers outranks those that only remember it.
EntryForDid(did) ==
  LET matches == {e \in Entries : entry[e].state = "loaded" /\ entry[e].did = did}
      answering == {e \in matches : entry[e].answers}
  IN  CASE matches = {} -> "unknown"
        [] \E e \in matches : matches = {e} -> CHOOSE e \in matches : TRUE
        [] \E e \in Entries : answering = {e} -> CHOOSE e \in answering : TRUE
        [] OTHER -> "shared"

\* _may_ask_to_bind: the connection's account still exists.
MayAsk(c) == UserOf[c] \in present

-----------------------------------------------------------------------------
(***************************************************************************)
(* The table.  A handler may end several sessions and open one, so these   *)
(* give the tables after the sessions in a set H have ended.               *)
(***************************************************************************)

LiveOf(E) == {byEntry[e] : e \in E} \ {None}

EntriesWithout(H) == [e \in Entries |-> IF byEntry[e] \in H THEN None ELSE byEntry[e]]

\* _forget: the token goes with the session.
TokensWithout(H) == byToken \ H

HellosWithout(H) == [h \in Hellos |-> IF h \in H THEN [hello[h] EXCEPT !.at = "over"]
                                      ELSE hello[h]]

\* close, close_entry, close_user: end sessions from this side.
Close(H) ==
  /\ byEntry' = EntriesWithout(H)
  /\ byToken' = TokensWithout(H)
  /\ subs' = [h \in Hellos |-> IF h \in H THEN None ELSE subs[h]]
  /\ hello' = HellosWithout(H)

\* open, through _accept_hello: install the session of hello h (in record
\* form r) for entry e, superseding the entry's session and ending those in H.
Open(h, r, e, H) ==
  LET ended == H \cup LiveOf({e})
  IN  /\ byEntry' = [EntriesWithout(ended) EXCEPT ![e] = h]
      /\ byToken' = TokensWithout(ended) \cup {h}
      /\ subs' = [i \in Hellos |-> IF i = h THEN "teardown"
                                   ELSE IF i \in ended THEN None ELSE subs[i]]
      /\ hello' = [HellosWithout(ended) EXCEPT
                     ![h] = [r EXCEPT !.at = "live", !.entry = e]]

\* The sessions and pending admissions whose subscriptions are in H are torn
\* down.  Only the session the table still holds is forgotten (_forget).
TearDown(H) ==
  LET ended == {h \in H : subs[h] = "teardown"} \cap LiveOf(Entries)
      over == {h \in H : subs[h] = "cancel" /\ hello[h].at = "reading"}
  IN  /\ byEntry' = EntriesWithout(ended)
      /\ byToken' = TokensWithout(ended)
      /\ subs' = [h \in Hellos |-> IF h \in H THEN None ELSE subs[h]]
      /\ hello' = HellosWithout(ended \cup over)

-----------------------------------------------------------------------------
(***************************************************************************)
(* Hello.                                                                  *)
(***************************************************************************)

\* async_bind_user: another account's session on the entry ends.
EndedByBinding(e, u) == {h \in LiveOf({e}) : UserOn(h) # u}

\* The hello is answered with an error.
Refused(h, r) ==
  /\ hello' = [hello EXCEPT ![h] = [r EXCEPT !.at = "over"]]
  /\ UNCHANGED tableVars

\* Whether this account is, or becomes, the entry's: the first one to ask is
\* bound, another one needs an administrator.
Admits(e, c) ==
  \/ entry[e].bound = UserOf[c]
  \/ entry[e].bound = None /\ MayAsk(c)

\* ws_hello.  local: it offers local commands and management.
Hello(c, did, local) ==
  \E h \in Hellos \ Arrived :
    LET e == EntryForDid(did)
        r == [at |-> "over", socket |-> c, did |-> did, entry |-> None]
    IN
    /\ \A i \in 1..(h - 1) : i \in Arrived
    /\ c \in sockets
    /\ UNCHANGED <<present, sockets>>
    /\ \/ /\ e = "shared"
          /\ Refused(h, r) /\ UNCHANGED <<entry, asked>>
       \/ /\ e = "unknown"
          /\ Refused(h, r)
          /\ asked' = IF MayAsk(c) THEN [asked EXCEPT ![did] = UserOf[c]] ELSE asked
          /\ UNCHANGED entry
       \/ /\ e \in Entries
          /\ ~(entry[e].confirmed /\ Admits(e, c))
          /\ Refused(h, r) /\ UNCHANGED <<entry, asked>>
       \/ /\ e \in Entries
          /\ entry[e].confirmed /\ Admits(e, c)
          /\ entry' = [entry EXCEPT ![e].bound = UserOf[c]]
          /\ UNCHANGED asked
          /\ LET H == EndedByBinding(e, UserOf[c])
             IN  IF local
                 THEN /\ byEntry' = EntriesWithout(H)
                      /\ byToken' = TokensWithout(H)
                      /\ subs' = [i \in Hellos |-> IF i = h THEN "cancel"
                                                   ELSE IF i \in H THEN None
                                                   ELSE subs[i]]
                      /\ hello' = [HellosWithout(H) EXCEPT
                                     ![h] = [r EXCEPT !.at = "reading", !.entry = e]]
                 ELSE Open(h, r, e, H)

\* Faulty variant: the admission decided before the read is not checked again.
AdmissionHoldsAsRead(h) == TRUE

\* The rechecks of _accept_local_hello after its read.
AdmissionHolds(h) ==
  LET e == hello[h].entry
  IN  /\ EntryForDid(hello[h].did) = e
      /\ entry[e].confirmed
      /\ entry[e].bound = UserOn(h)

\* _accept_local_hello, from the end of its read.  What the read found only
\* decides whether local commands are granted.
AdmitLocal(h) ==
  /\ hello[h] # None /\ hello[h].at = "reading"
  /\ IF AdmissionHolds(h) THEN Open(h, hello[h], hello[h].entry, {})
     ELSE Refused(h, hello[h])
  /\ UNCHANGED <<present, sockets, entry, asked>>

\* Faulty variant: the finished task clears whatever the slot now holds.
ClearedBlindly(h) == TRUE

\* finished, the admission task's callback, runs on a later turn: it clears
\* the slot only while that still holds the task's own cancellation.
Cleared(h) == subs[h] = "cancel"

Finished(h) ==
  /\ hello[h] # None /\ hello[h].at # "reading" /\ subs[h] # None
  /\ Cleared(h)
  /\ subs' = [subs EXCEPT ![h] = None]
  /\ UNCHANGED <<present, sockets, entry, hello, byEntry, byToken, asked>>

-----------------------------------------------------------------------------
(***************************************************************************)
(* The connection.                                                         *)
(***************************************************************************)

\* The panel, or the network, closes the socket: every subscription on it is
\* torn down.
CloseSocket(c) ==
  /\ c \in sockets
  /\ sockets' = sockets \ {c}
  /\ TearDown({h \in Arrived : hello[h].socket = c /\ subs[h] # None})
  /\ UNCHANGED <<present, entry, asked>>

\* The panel unsubscribes.
Unsubscribe(h) ==
  /\ hello[h] # None /\ subs[h] # None
  /\ TearDown({h})
  /\ UNCHANGED <<present, sockets, entry, asked>>

-----------------------------------------------------------------------------
(***************************************************************************)
(* The account.                                                            *)
(***************************************************************************)

\* _user_removed releases every panel bound to the account.
Released(e, u) == entry[e].bound = u

\* _user_removed; the account's sockets stay open.
UserRemoved(u) ==
  /\ u \in present
  /\ present' = present \ {u}
  /\ Close({h \in LiveOf(Entries) : UserOn(h) = u})
  /\ entry' = [e \in Entries |-> IF Released(e, u) THEN [entry[e] EXCEPT !.bound = None]
                                 ELSE entry[e]]
  /\ UNCHANGED <<sockets, asked>>

\* An administrator confirms an account for a panel (the Repairs flow, which
\* checks that the account still exists).
ConfirmBinding(e, u) ==
  /\ entry[e].state # "absent"
  /\ u \in present
  /\ Close(EndedByBinding(e, u))
  /\ entry' = [entry EXCEPT ![e].bound = u]
  /\ UNCHANGED <<present, sockets, asked>>

-----------------------------------------------------------------------------
(***************************************************************************)
(* The config entry.                                                       *)
(***************************************************************************)

\* _async_finish_panel_entry: added under a free identity, bound to the
\* account the panel asked as if that account still exists.
AddEntry(e, did) ==
  /\ entry[e].state = "absent"
  /\ \A o \in Entries : entry[o].state # "absent" => entry[o].did # did
  /\ entry' = [entry EXCEPT ![e] =
                 [state |-> "unloaded", did |-> did, answers |-> FALSE,
                  bound |-> IF asked[did] \in present THEN asked[did] ELSE None,
                  confirmed |-> FALSE]]
  /\ asked' = [asked EXCEPT ![did] = None]
  /\ UNCHANGED <<present, sockets, hello, tableVars>>

\* A remembered request grows old or is pushed out by newer ones.
ForgetRequest(did) ==
  /\ asked[did] # None
  /\ asked' = [asked EXCEPT ![did] = None]
  /\ UNCHANGED <<present, sockets, entry, hello, tableVars>>

\* Setting up an entry, whose first health read is answered or not.
Load(e) ==
  /\ entry[e].state = "unloaded"
  /\ \E answers, confirmed \in BOOLEAN :
       entry' = [entry EXCEPT ![e].state = "loaded", ![e].answers = answers,
                              ![e].confirmed = confirmed]
  /\ UNCHANGED <<present, sockets, hello, tableVars, asked>>

\* Home Assistant starts to unload an entry, and runs the entry's on-unload
\* callbacks, of which one ends its session, once its platforms are gone.
StartUnload(e) ==
  /\ entry[e].state = "loaded"
  /\ entry' = [entry EXCEPT ![e].state = "unloading"]
  /\ UNCHANGED <<present, sockets, hello, tableVars, asked>>

FinishUnload(e) ==
  /\ entry[e].state = "unloading"
  /\ entry' = [entry EXCEPT ![e].state = "unloaded", ![e].answers = FALSE]
  /\ Close(LiveOf({e}))
  /\ UNCHANGED <<present, sockets, asked>>

RemoveEntry(e) ==
  /\ entry[e].state = "unloaded"
  /\ entry' = [entry EXCEPT ![e].state = "absent", ![e].bound = None]
  /\ UNCHANGED <<present, sockets, hello, tableVars, asked>>

\* A health read answers under the entry's identity.
Confirm(e) ==
  /\ entry[e].state = "loaded"
  /\ entry' = [entry EXCEPT ![e].answers = TRUE, ![e].confirmed = TRUE]
  /\ UNCHANGED <<present, sockets, hello, tableVars, asked>>

\* _withdraw_authority: it answers as another panel.
Withdraw(e) ==
  /\ entry[e].state = "loaded"
  /\ entry' = [entry EXCEPT ![e].confirmed = FALSE]
  /\ Close(LiveOf({e}))
  /\ UNCHANGED <<present, sockets, asked>>

\* _adopt_reinstalled: the panel's app was reinstalled under a new identity,
\* which the entry takes over; its account is bound anew by the next hello.
AdoptReinstalled(e, did) ==
  /\ entry[e].state = "loaded"
  /\ \A o \in Entries : entry[o].state # "absent" => entry[o].did # did
  /\ entry' = [entry EXCEPT ![e].did = did, ![e].bound = None,
                            ![e].answers = TRUE, ![e].confirmed = TRUE]
  /\ Close(LiveOf({e}))
  /\ UNCHANGED <<present, sockets, asked>>

\* async_apply_update_policy: the session's update grant is out of date.
Regrant(e) ==
  /\ byEntry[e] # None
  /\ Close({byEntry[e]})
  /\ UNCHANGED <<present, sockets, entry, asked>>

Init ==
  /\ present = Users
  /\ sockets = Connections
  /\ entry \in [Entries -> {r \in EntryRecords :
                              /\ r.state \in {"absent", "unloaded"}
                              /\ r.bound = None /\ ~r.answers /\ ~r.confirmed}]
  /\ hello = [h \in Hellos |-> None]
  /\ subs = [h \in Hellos |-> None]
  /\ byEntry = [e \in Entries |-> None]
  /\ byToken = {}
  /\ asked = [d \in Dids |-> None]

Next ==
  \/ \E c \in Connections, did \in Dids, local \in BOOLEAN : Hello(c, did, local)
  \/ \E h \in Hellos : AdmitLocal(h) \/ Finished(h) \/ Unsubscribe(h)
  \/ \E c \in Connections : CloseSocket(c)
  \/ \E u \in Users : UserRemoved(u)
  \/ \E e \in Entries, u \in Users : ConfirmBinding(e, u)
  \/ \E e \in Entries, did \in Dids : AddEntry(e, did) \/ AdoptReinstalled(e, did)
  \/ \E did \in Dids : ForgetRequest(did)
  \/ \E e \in Entries :
       \/ Load(e) \/ StartUnload(e) \/ FinishUnload(e) \/ RemoveEntry(e)
       \/ Confirm(e) \/ Withdraw(e) \/ Regrant(e)

Spec == Init /\ [][Next]_vars
-----------------------------------------------------------------------------
\* The shape of the state.
SessTypeOK ==
  /\ present \subseteq Users
  /\ sockets \subseteq Connections
  /\ entry \in [Entries -> EntryRecords]
  /\ hello \in [Hellos -> HelloRecords \cup {None}]
  /\ subs \in [Hellos -> {None, "cancel", "teardown"}]
  /\ byEntry \in [Entries -> Hellos \cup {None}]
  /\ byToken \subseteq Hellos
  /\ asked \in [Dids -> Users \cup {None}]

\* Whatever has happened since its hello, a live session is the one its entry
\* would admit now: on the account the entry is bound to and as the panel the
\* entry is confirmed to be.
SessionIsAdmitted ==
  \A e \in Entries : byEntry[e] # None =>
    /\ entry[e].state \in {"loaded", "unloading"}
    /\ entry[e].confirmed
    /\ entry[e].bound = UserOn(byEntry[e])
    /\ entry[e].did = hello[byEntry[e]].did

\* A live session ends with its socket: the socket is open and its subscription
\* table holds the session's own teardown, whatever its admission left there.
SessionDiesWithSocket ==
  /\ \A h \in LiveOf(Entries) : hello[h].socket \in sockets /\ subs[h] = "teardown"
  /\ \A h \in Hellos : subs[h] = "teardown" => h \in LiveOf(Entries)

\* "Command handlers. All synchronous, so they run in arrival order."
\* (transport.py:170): the session that supersedes another is of a later hello.
SupersedesEarlier ==
  [][\A e \in Entries :
       byEntry[e] # None /\ byEntry'[e] \notin {None, byEntry[e]}
         => byEntry'[e] > byEntry[e]]_vars
=============================================================================
