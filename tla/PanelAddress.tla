---------------------------- MODULE PanelAddress ----------------------------
(***************************************************************************)
(* Where Home Assistant polls one panel (coordinator.py, address.py): the  *)
(* address its entry stores, the polls that read it and look elsewhere     *)
(* when it fails, and the flows that move it at the same time              *)
(* (discovery.py, config_flow.py).                                         *)
(*                                                                         *)
(*   at         where this entry's panel ("own") and another ("other") are *)
(*   moves      how often the two have moved                               *)
(*   stored     the entry's address, which the running client polls; Nil  *)
(*              once the entry is removed                                  *)
(*   link       the panel's session: what its hello said of where it is,   *)
(*              and whether the session reads the panel                    *)
(*   told       addresses of hellos: the last session's, and the refused   *)
(*   poll       the polls; a refresh a Repair asks for does not wait for   *)
(*              the scheduled one                                          *)
(*   reachable  the last poll proved the stored address                    *)
(*   report     the Repair "connected, but the address does not answer"    *)
(*   moved      the address somebody else gave the entry while a poll was  *)
(*              under way, when it is not the one the poll found: history, *)
(*              for the properties only                                    *)
(*                                                                         *)
(* An address is a host with its port.  A request is answered by whoever   *)
(* is there when the answer arrives, or by nobody.  The entry's identity   *)
(* does not change here: PanelIdentity has that.                           *)
(***************************************************************************)
EXTENDS Naturals, FiniteSets

CONSTANTS
  Addresses, Home,   \* Home: where the entry found its panel
  Polls, Nil,
  MaxMoves,    \* bounds the moves of the two panels
  MaxLinks     \* sessions told apart: the open one, and those a poll still holds

VARIABLES at, moves, stored, link, told, poll, reachable, report, moved

world    == <<at, moves>>
outcome  == <<reachable, report>>
addrVars == <<world, stored, link, told, poll, outcome, moved>>

Links == [n : 1..MaxLinks, said : SUBSET Addresses, manages : BOOLEAN]

ASSUME AddressAssumption ==
  /\ Home \in Addresses
  /\ MaxMoves \in Nat
  /\ Nil \notin Polls \cup Addresses \cup Links

\* Where a poll waits: for the candidates' answers in a look before it reads,
\* for the stored address's health, for the candidates', for the session's
\* read, for the status.
PollPcs == {"port", "health", "probe", "read", "status"}

Resting == [pc |-> "idle", link |-> Nil, start |-> Nil, managed |-> FALSE,
            left |-> {}, proved |-> {}, found |-> FALSE, withheld |-> FALSE]

PollRecords ==
  [pc : PollPcs \cup {"idle"}, link : 1..MaxLinks \cup {Nil},
   start : Addresses \cup {Nil}, managed : BOOLEAN,
   left : SUBSET Addresses, proved : SUBSET Addresses,
   found : BOOLEAN, withheld : BOOLEAN]

AddrTypeOK ==
  /\ at \in [{"own", "other"} -> Addresses \cup {Nil}] /\ moves \in 0..MaxMoves
  /\ stored \in Addresses \cup {Nil} /\ link \in Links \cup {Nil}
  /\ told \in [last : SUBSET Addresses, refused : SUBSET Addresses]
  /\ poll \in [Polls -> PollRecords]
  /\ reachable \in BOOLEAN /\ report \in BOOLEAN
  /\ moved \in [Polls -> Addresses \cup {Nil}]

\* The client starts as reachable, its panel known at the stored address.
AddrInit ==
  /\ at = [own |-> Home, other |-> Nil] /\ stored = Home
  /\ moves = 0 /\ link = Nil /\ told = [last |-> {}, refused |-> {}]
  /\ poll = [q \in Polls |-> Resting]
  /\ reachable = TRUE /\ report = FALSE
  /\ moved = [q \in Polls |-> Nil]

-----------------------------------------------------------------------------
(***************************************************************************)
(* The poll's conditions.                                                  *)
(***************************************************************************)
IsOwn(x) == at.own = x
Nobody(x) == x \notin {at.own, at.other}

\* session_candidates over the hellos there are: a session's own, else the last
\* session's and those refused.
Candidates ==
  (IF link # Nil THEN link.said ELSE told.last \cup told.refused) \ {stored}

OpenLink == IF link = Nil THEN Nil ELSE link.n

\* Faulty variant: only a newer session retires an answer.
CurrentForLink(q) == OpenLink = poll[q].link

\* The fence of _async_recover_address, and retired and probe_current, after I/O:
\* no other session, and the address that was read is still the entry's.
Current(q) == OpenLink = poll[q].link /\ stored = poll[q].start

PollIs(q, changes) == poll' = [poll EXCEPT ![q] = changes]

\* A poll that ends forgets what it read.
Ends(q) == PollIs(q, Resting) /\ moved' = [moved EXCEPT ![q] = Nil]

\* async_update_entry: the address changes for everybody.  The other polls note it.
Moves(q, x) ==
  /\ stored' = x
  /\ moved' = [o \in Polls |-> IF o = q THEN moved[o]
                               ELSE IF poll[o].pc = "idle" \/ poll[o].start = x
                               THEN Nil ELSE x]

-----------------------------------------------------------------------------
(***************************************************************************)
(* One poll (_async_update_data).                                          *)
(***************************************************************************)
\* _async_recover_address up to its probes, by a poll that becomes p: it looks
\* at every candidate, or there is none and only a session's panel is reported,
\* at once (p.managed: to the caller).
Looks(q, p, pc, reports) ==
  IF Candidates # {}
  THEN /\ PollIs(q, [p EXCEPT !.pc = pc, !.link = OpenLink, !.start = stored,
                            !.left = Candidates, !.proved = {}])
       /\ moved' = [moved EXCEPT ![q] = Nil]
       /\ UNCHANGED <<stored, report>>
  ELSE /\ report' = (report \/ (reports /\ link # Nil /\ ~p.managed))
       /\ IF p.managed
          THEN PollIs(q, [p EXCEPT !.pc = "read", !.withheld = reports /\ link # Nil])
               /\ UNCHANGED moved
          ELSE Ends(q)
       /\ UNCHANGED stored

Managing == link # Nil /\ link.manages

\* The read of the address x begins, beside the session n if it manages, else
\* over HTTP alone.
Reads(q, x, n, managed) ==
  /\ PollIs(q, [Resting EXCEPT !.pc = "health", !.link = n, !.start = x,
                             !.managed = managed])
  /\ reachable' = (reachable /\ managed)

BeginPoll(q) ==
  /\ poll[q].pc = "idle" /\ stored # Nil
  /\ Reads(q, stored, OpenLink, Managing)
  /\ UNCHANGED <<world, stored, link, told, report, moved>>

\* The session names another listener: it is looked for before the read, and
\* nothing is reported.
BeginAtPort(q) ==
  /\ poll[q].pc = "idle" /\ stored # Nil /\ link # Nil /\ Candidates # {}
  /\ Looks(q, [Resting EXCEPT !.managed = Managing], "port", FALSE)
  /\ UNCHANGED <<world, link, told, reachable>>

\* The stored address answered as this panel.
Proves ==
  /\ report' = FALSE
  /\ told' = [told EXCEPT !.refused = {}]

\* Faulty variant: only silence sends a poll to look elsewhere.
LooksFromHere(x) == Nobody(x)

\* Who at the stored address sends a managed poll to look elsewhere: nobody, or
\* another panel.
LooksFrom(x) == ~IsOwn(x)

\* _async_probe_address: the health of the stored address, beside a session.
HealthBesideSession(q) ==
  /\ poll[q].pc = "health" /\ poll[q].managed
  /\ CASE ~Current(q) ->
            PollIs(q, [poll[q] EXCEPT !.pc = "read"]) /\ UNCHANGED <<stored, told, report, moved>>
       [] Current(q) /\ LooksFrom(poll[q].start) ->
            Looks(q, poll[q], "probe", TRUE) /\ UNCHANGED told
       [] OTHER ->
            /\ PollIs(q, [poll[q] EXCEPT !.pc = "read", !.found = TRUE])
            /\ Proves /\ UNCHANGED <<stored, moved>>
  /\ UNCHANGED <<world, link, reachable>>

\* _async_poll_address: the health of the stored address, read by HTTP alone.
\* Only silence makes it look elsewhere; another panel's health is refused.
HealthOverHttp(q) ==
  LET x == poll[q].start
  IN  /\ poll[q].pc = "health" /\ ~poll[q].managed
      /\ CASE Nobody(x) /\ stored # Nil ->
                Looks(q, poll[q], "probe", TRUE) /\ UNCHANGED told
           [] IsOwn(x) /\ stored = x ->
                /\ PollIs(q, [poll[q] EXCEPT !.pc = "status"])
                /\ Proves /\ UNCHANGED <<stored, moved>>
           [] OTHER -> Ends(q) /\ UNCHANGED <<stored, told, report>>
      /\ UNCHANGED <<world, link, reachable>>

\* A candidate counts that answers with this panel's identity.
AnswersAsPanel(x) == IsOwn(x)

\* async_probe_addresses: one candidate answers, or its request fails.
ProbeAnswers(q, x) ==
  /\ poll[q].pc \in {"port", "probe"} /\ x \in poll[q].left
  /\ PollIs(q, [poll[q] EXCEPT !.left = @ \ {x},
                             !.proved = IF AnswersAsPanel(x) THEN @ \cup {x} ELSE @])
  /\ UNCHANGED <<world, stored, link, told, outcome, moved>>

Probed(q) == poll[q].pc \in {"port", "probe"} /\ poll[q].left = {}

\* A candidate answered as this panel: the entry moves there.
Adopts(q) ==
  /\ Probed(q) /\ poll[q].proved # {} /\ Current(q) /\ stored # Nil
  /\ \E x \in poll[q].proved :
       /\ Moves(q, x)
       /\ CASE poll[q].pc = "port" ->
                 /\ Reads(q, x, poll[q].link, poll[q].managed)
                 /\ UNCHANGED <<told, report>>
            [] poll[q].pc = "probe" /\ poll[q].managed ->
                 /\ PollIs(q, [poll[q] EXCEPT !.pc = "read", !.found = TRUE])
                 /\ Proves /\ UNCHANGED reachable
            [] OTHER ->
                 /\ PollIs(q, [poll[q] EXCEPT !.pc = "status", !.start = x])
                 /\ Proves /\ UNCHANGED reachable
  /\ UNCHANGED <<world, link>>

\* Nobody answered as this panel, or the answers came too late to be used.  Only
\* the first is reported, while the session that was looked for is there.
GivesUp(q) ==
  /\ Probed(q) /\ (poll[q].proved = {} \/ ~Current(q))
  /\ LET silent == poll[q].proved = {} /\ link # Nil /\ OpenLink = poll[q].link
     IN  CASE poll[q].pc = "port" ->
                /\ \/ stored = Nil /\ Ends(q) /\ UNCHANGED reachable
                   \/ /\ stored # Nil
                      /\ Reads(q, stored, poll[q].link, poll[q].managed)
                      /\ moved' = [moved EXCEPT ![q] = Nil]
                /\ UNCHANGED report
           [] poll[q].pc = "probe" /\ poll[q].managed ->
                /\ PollIs(q, [poll[q] EXCEPT !.pc = "read", !.withheld = silent])
                /\ UNCHANGED <<report, reachable, moved>>
           [] OTHER ->
                /\ report' = (report \/ silent)
                /\ Ends(q) /\ UNCHANGED reachable
  /\ UNCHANGED <<world, stored, link, told>>

\* What was withheld is reported once the session has answered, if it is still
\* the session and the address is still the one that failed.
Reports(q) == poll[q].withheld /\ Current(q)

\* Both halves of a managed poll are done.
SessionRead(q) ==
  /\ poll[q].pc = "read"
  /\ reachable' = poll[q].found
  /\ \E answered \in BOOLEAN :
       report' = (report \/ (answered /\ stored # Nil /\ Reports(q)))
  /\ Ends(q)
  /\ UNCHANGED <<world, stored, link, told>>

\* The status over HTTP: the panel is reachable, unless a status is read at an
\* address that is not the entry's any more.
StatusRead(q) ==
  /\ poll[q].pc = "status"
  /\ \/ reachable' = TRUE
     \/ stored # poll[q].start /\ UNCHANGED reachable
  /\ Ends(q)
  /\ UNCHANGED <<world, stored, link, told, report>>

-----------------------------------------------------------------------------
(***************************************************************************)
(* The rest of Home Assistant, and the panels.                             *)
(***************************************************************************)
\* async_follow_session: a session opens, or takes another's place.  Its hello
\* says where the panel is, and may name an address that is not the panel's.
Connects ==
  /\ stored # Nil /\ at.own # Nil
  /\ \E n \in 1..MaxLinks, extra \in Addresses, manages \in BOOLEAN :
       /\ n \notin {OpenLink} \cup {poll[q].link : q \in Polls}
       /\ link' = [n |-> n, said |-> {at.own, extra}, manages |-> manages]
       /\ told' = [last |-> {at.own, extra}, refused |-> {}]
  /\ UNCHANGED <<world, stored, poll, outcome, moved>>

\* A session that ends takes the report with it.
Disconnects ==
  /\ link # Nil
  /\ link' = Nil /\ report' = FALSE
  /\ UNCHANGED <<world, stored, told, poll, reachable, moved>>

\* async_follow_refused_hello, of an app too old for a session or another panel.
HelloRefused(x) ==
  /\ stored # Nil /\ link = Nil
  /\ told' = [told EXCEPT !.refused = {x}]
  /\ UNCHANGED <<world, stored, link, poll, outcome, moved>>

\* _entry_holds_its_address.
HoldsItsAddress == reachable \/ link # Nil

\* A flow has read this panel's health at x.  A discovery moves an entry whose
\* stored address is dead; a person who adds the panel again always does.
FlowMoves(x, byHand) ==
  /\ stored # Nil /\ IsOwn(x) /\ x # stored
  /\ byHand \/ ~HoldsItsAddress
  /\ Moves(Nil, x)
  /\ UNCHANGED <<world, link, told, poll, outcome>>

\* async_remove_entry.  A poll under way goes on.
Removes ==
  /\ stored # Nil
  /\ stored' = Nil /\ link' = Nil /\ report' = FALSE
  /\ UNCHANGED <<world, told, poll, reachable, moved>>

\* A panel goes to another address, is switched off, or comes back.
PanelMoves(p, x) ==
  /\ moves < MaxMoves /\ x # at[p]
  /\ x # Nil => Nobody(x)
  /\ at' = [at EXCEPT ![p] = x] /\ moves' = moves + 1
  /\ UNCHANGED <<stored, link, told, poll, outcome, moved>>

-----------------------------------------------------------------------------
PollStep(q) ==
  \/ HealthBesideSession(q) \/ HealthOverHttp(q)
  \/ \E x \in Addresses : ProbeAnswers(q, x)
  \/ Adopts(q) \/ GivesUp(q) \/ SessionRead(q) \/ StatusRead(q)

AddrNext ==
  \/ \E q \in Polls : BeginPoll(q) \/ BeginAtPort(q) \/ PollStep(q)
  \/ Connects \/ Disconnects \/ Removes
  \/ \E x \in Addresses : HelloRefused(x) \/ \E b \in BOOLEAN : FlowMoves(x, b)
  \/ \E p \in {"own", "other"}, x \in Addresses \cup {Nil} : PanelMoves(p, x)

\* Home Assistant polls on a schedule, and every wait of a poll is bounded.
AddrSpec ==
  /\ AddrInit /\ [][AddrNext]_addrVars
  /\ \A q \in Polls : WF_addrVars(BeginPoll(q)) /\ WF_addrVars(PollStep(q))

-----------------------------------------------------------------------------
(***************************************************************************)
(* Properties.                                                             *)
(***************************************************************************)
\* While a poll was under way somebody else moved the entry to an address where
\* its panel had answered: the poll never puts its own older finding in its
\* place (the fence of _async_recover_address).
NewerAddressStands ==
  \A q \in Polls : moved[q] # Nil /\ stored # Nil => stored = moved[q]

\* A panel whose session reads it and says where it is, and which stays there,
\* is polled there in the end, also when another panel has taken the address
\* its entry stored.
Told == link # Nil /\ link.manages /\ at.own \in link.said

ConnectedPanelIsFound ==
  <>[]Told /\ <>[][FALSE]_link => <>[](stored \in {at.own, Nil})
=============================================================================
