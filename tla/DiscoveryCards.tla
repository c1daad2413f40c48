--------------------------- MODULE DiscoveryCards ---------------------------
(***************************************************************************)
(* The cards that offer a panel to Home Assistant's owner (discovery.py)   *)
(* and the flows behind them (config_flow.py).  One device is announced on *)
(* several channels, by the app itself, by Android's network ADB, by its   *)
(* vendor and by other integrations; each channel has a flow of its own.   *)
(*                                                                         *)
(*   card      the flow of each offer, while it is in progress: whether it *)
(*             still probes, is listed as a card, or has created an entry; *)
(*             the address in its title; whether a person pressed it       *)
(*             (CONFIRMED); how many of its steps run and what its title   *)
(*             says of them (RUNNING, CLOSING); whether a running step has *)
(*             found the panel free and waits for its wizard; the panel,   *)
(*             by its address, whose identity is the flow's unique id      *)
(*   ignored   the address saved with an Ignore of an offer                *)
(*   configured  the addresses with an entry                               *)
(*   byHand    the address of an entry a person added without a card,      *)
(*             until its flow has closed the cards                         *)
(*   over      cards of an address that has got an entry: history, for the *)
(*             properties only                                             *)
(*                                                                         *)
(* Steps are atomic between awaits.  Home Assistant's own part is          *)
(* external: one flow in progress for an identity, the adding of an entry  *)
(* between the step that asks for it and async_on_create_entry, and the    *)
(* end of every other flow with that entry's identity.  A panel announced  *)
(* again under a card that has taken its identity is turned away by it.    *)
(***************************************************************************)
EXTENDS Naturals, FiniteSets

CONSTANTS
  Offers,     \* records [channel, at]: one device on one channel
  MaxRuns,    \* bounds the steps of one flow that run at a time
  Nil

VARIABLES card, ignored, configured, byHand, over

cardVars == <<card, ignored, configured, byHand, over>>

Places == {o.at : o \in Offers}
IsApp(o) == o.channel = "app"

Cards == [stage : {"probing", "listed", "created"}, at : Places, kept : BOOLEAN,
          pressed : BOOLEAN, runs : 0..MaxRuns, mark : {"none", "running", "closing"},
          accepted : BOOLEAN, identity : Places \cup {Nil}]

ASSUME CardAssumption == MaxRuns \in Nat \ {0} /\ Nil \notin Cards \cup Places \cup Offers

CardTypeOK ==
  /\ card \in [Offers -> Cards \cup {Nil}]
  /\ ignored \in [Offers -> Places \cup {Nil}]
  /\ configured \subseteq Places /\ byHand \in Places \cup {Nil}
  /\ over \subseteq Offers

CardInit ==
  /\ card = [o \in Offers |-> Nil]
  /\ ignored = [o \in Offers |-> Nil]
  /\ configured = {} /\ byHand = Nil /\ over = {}

-----------------------------------------------------------------------------
Open(o) == card[o] # Nil
Listed(o) == Open(o) /\ card[o].stage # "probing"
Knows(o, x, cards) == cards[o] # Nil /\ cards[o].identity = x
ListedAt(x) == {o \in Offers : Listed(o) /\ card[o].at = x}

\* offer_blocked: another card offers the address, or it was ignored.
OfferBlocked(x, o, cards) ==
  \/ \E i \in Offers : ignored[i] = x
  \/ \E i \in Offers \ {o} : cards[i] # Nil /\ cards[i].stage # "probing" /\ cards[i].at = x

\* A card with a running step is only asked to close.
AskedOrClosed(c) ==
  IF c.mark = "none" THEN Nil ELSE [c EXCEPT !.mark = "closing"]

\* close_offers: every other card of the address, and those a person has
\* confirmed only when they were pressed in vain.
Closed(x, by, pressed) ==
  [o \in Offers |->
     IF Listed(o) /\ o # by /\ card[o].at = x /\ (pressed \/ ~card[o].pressed)
     THEN AskedOrClosed(card[o]) ELSE card[o]]

Gone(o) == card' = [card EXCEPT ![o] = Nil] /\ over' = over \ {o}

\* Flows that are gone are not remembered.
Remembers(cards, more) == over' = {o \in over \cup more : cards[o] # Nil}

-----------------------------------------------------------------------------
(***************************************************************************)
(* A flow before it has a card.                                            *)
(***************************************************************************)
\* A channel announces the device.  A card or an Ignore of the address turns
\* the weaker channels away before they probe.  The app's flow has the panel's
\* identity from its announcement, unless another flow in progress has it; the
\* unique ids of the other channels are their own.
Announced(o) ==
  /\ ~Open(o) /\ ignored[o] = Nil
  /\ IF IsApp(o) THEN o.at \notin configured /\ \A q \in Offers : ~Knows(q, o.at, card)
     ELSE ~OfferBlocked(o.at, o, card)
  /\ card' = [card EXCEPT ![o] =
       [stage |-> "probing", at |-> o.at, kept |-> o.at \in configured, pressed |-> FALSE,
        runs |-> 0, mark |-> "none", accepted |-> FALSE,
        identity |-> IF IsApp(o) THEN o.at ELSE Nil]]
  /\ UNCHANGED <<ignored, configured, byHand, over>>

Shown(o, cards) == [cards EXCEPT ![o].stage = "listed"]

\* async_check_migration_target and the second offer_blocked: no entry came
\* during the probe; an entry that was there is kept for a clean reinstall.
Offerable(o) ==
  /\ card[o].kept \/ o.at \notin configured
  /\ ~OfferBlocked(o.at, o, card)

\* async_integration_discovery after its probe.
ProbedWeakly(o) ==
  /\ Open(o) /\ card[o].stage = "probing" /\ ~IsApp(o)
  /\ IF Offerable(o) THEN card' = Shown(o, card) /\ UNCHANGED over ELSE Gone(o)
  /\ UNCHANGED <<ignored, configured, byHand>>

\* _async_discovered_app: the app has answered as the announced panel.
ProbedApp(o) ==
  /\ Open(o) /\ card[o].stage = "probing" /\ IsApp(o)
  /\ LET cards == Closed(o.at, o, FALSE)
         left == IF o.at \in configured \/ OfferBlocked(o.at, o, cards)
                 THEN [cards EXCEPT ![o] = Nil] ELSE Shown(o, cards)
     IN  card' = left /\ Remembers(left, {})
  /\ UNCHANGED <<ignored, configured, byHand>>

\* The probe fails.
NotFound(o) ==
  /\ Open(o) /\ card[o].stage = "probing"
  /\ Gone(o)
  /\ UNCHANGED <<ignored, configured, byHand>>

-----------------------------------------------------------------------------
(***************************************************************************)
(* A card's steps (closes_when_done).                                      *)
(***************************************************************************)
\* A person presses the card, or opens its dialog again while a step runs.  A
\* form of the weaker channels may name another panel, whose card it then is; the
\* flow keeps the identity it has until a step accepts that panel.
Press(o, x) ==
  /\ Open(o) /\ card[o].stage = "listed" /\ card[o].runs < MaxRuns
  /\ x # card[o].at => card[o].pressed /\ ~IsApp(o)
  /\ card' = [card EXCEPT ![o].pressed = TRUE, ![o].runs = @ + 1, ![o].at = x,
                          ![o].mark = IF @ = "none" THEN "running" ELSE @,
                          ![o].accepted = @ /\ x = card[o].at]
  /\ UNCHANGED <<ignored, configured, byHand, over>>

\* _async_create_panel_entry finds no entry, gives the flow the panel's identity,
\* and waits for the panel's wizard.
Accepts(o) ==
  /\ Open(o) /\ card[o].runs > 0 /\ card[o].at \notin configured
  /\ card' = [card EXCEPT ![o].accepted = TRUE, ![o].identity = card[o].at]
  /\ UNCHANGED <<ignored, configured, byHand, over>>

\* Faulty variant: any step that ends takes the mark away.
MarkAfterAny(c) == "none"

\* The mark stays while another step of the flow runs.
MarkAfter(c) == IF c.runs = 1 THEN "none" ELSE c.mark

Ended(c) == [c EXCEPT !.runs = @ - 1, !.mark = MarkAfter(c), !.accepted = @ /\ c.runs > 1]

\* Faulty variant: a flow heeds only what it was asked before the step began.
MustCloseEarly(c) == FALSE

\* A flow that was asked to close ends with its step, whatever the step wanted.
MustClose(c) == c.mark = "closing"

StepEnds(o) ==
  /\ Open(o) /\ card[o].runs > 0 /\ card[o].stage = "listed"
  /\ IF MustClose(card[o]) THEN Gone(o)
     ELSE \/ Gone(o)
          \/ card' = [card EXCEPT ![o] = Ended(card[o])] /\ UNCHANGED over
  /\ UNCHANGED <<ignored, configured, byHand>>

\* Home Assistant ends the other flows it lists that have the panel's identity,
\* a running step or not; a flow that still probes is not listed.
OthersEnd(x, by, cards) ==
  [o \in Offers |-> IF o # by /\ Knows(o, x, cards) /\ cards[o].stage # "probing"
                    THEN Nil ELSE cards[o]]

\* The wizard is done and the step asks for an entry, which is added.
Creates(o) ==
  /\ Open(o) /\ card[o].stage = "listed" /\ card[o].runs > 0 /\ card[o].accepted
  /\ ~MustClose(card[o])
  /\ configured' = configured \cup {card[o].at}
  /\ LET cards == OthersEnd(card[o].at, o,
                    [card EXCEPT ![o] = [Ended(card[o]) EXCEPT !.stage = "created"]])
     IN  card' = cards /\ Remembers(cards, {})
  /\ UNCHANGED <<ignored, byHand>>

\* async_on_create_entry, for the flow that created an entry for the address x.
ClosesOthers(x, by, cards) ==
  /\ card' = cards
  /\ Remembers(cards, ListedAt(x) \ {by})

OnCreate(o) ==
  /\ Open(o) /\ card[o].stage = "created"
  /\ ClosesOthers(card[o].at, o, [Closed(card[o].at, o, TRUE) EXCEPT ![o] = Nil])
  /\ UNCHANGED <<ignored, configured, byHand>>

\* The same of a panel a person adds by its address or over USB.
AddByHand(x) ==
  /\ byHand = Nil /\ x \notin configured
  /\ configured' = configured \cup {x} /\ byHand' = x
  /\ LET cards == OthersEnd(x, Nil, card) IN card' = cards /\ Remembers(cards, {})
  /\ UNCHANGED ignored

OnCreateByHand ==
  /\ byHand # Nil
  /\ ClosesOthers(byHand, Nil, Closed(byHand, Nil, TRUE))
  /\ byHand' = Nil
  /\ UNCHANGED <<ignored, configured>>

\* An entry added by hand in the place of the app's own Ignore: Home Assistant
\* skips async_on_create_entry, so _async_finish_panel_entry closes the cards.
ReplaceIgnore(o) ==
  /\ IsApp(o) /\ ignored[o] # Nil /\ o.at \notin configured
  /\ ignored' = [ignored EXCEPT ![o] = Nil]
  /\ configured' = configured \cup {o.at}
  /\ ClosesOthers(o.at, Nil, OthersEnd(o.at, Nil, Closed(o.at, Nil, TRUE)))
  /\ UNCHANGED byHand

\* The owner ignores a card (async_ignore); its flow ends.
Ignore(o) ==
  /\ Listed(o) /\ card[o].stage = "listed" /\ card[o].runs = 0
  /\ ignored' = [ignored EXCEPT ![o] = card[o].at]
  /\ Gone(o)
  /\ UNCHANGED <<configured, byHand>>

\* The owner removes an entry, or an Ignore.
ForgetCard(x) ==
  /\ \/ x \in configured \ {byHand} /\ configured' = configured \ {x} /\ UNCHANGED ignored
     \/ \E o \in Offers : /\ ignored[o] = x /\ UNCHANGED configured
                          /\ ignored' = [ignored EXCEPT ![o] = Nil]
  /\ UNCHANGED <<card, byHand, over>>

CardNext ==
  \/ \E o \in Offers : \/ Announced(o) \/ ProbedWeakly(o) \/ ProbedApp(o) \/ NotFound(o)
                       \/ Accepts(o) \/ StepEnds(o) \/ Creates(o) \/ OnCreate(o)
                       \/ ReplaceIgnore(o) \/ Ignore(o)
                       \/ \E x \in Places : Press(o, x)
  \/ \E x \in Places : AddByHand(x) \/ ForgetCard(x)
  \/ OnCreateByHand

CardSpec == CardInit /\ [][CardNext]_cardVars

-----------------------------------------------------------------------------
\* A card that was listed when its address got an entry does not stay: whatever
\* its steps wanted, one of them still runs and ends the flow.
EntryEndsItsCards ==
  \A o \in over : card[o].runs > 0 /\ card[o].mark = "closing"

\* A person who pressed a card does not meet a flow that is gone: while a step
\* of it runs that has created no entry, though its dialog was opened twice, no
\* other channel, no Ignore and no closing of an address takes the card away.  The
\* one exception is Home Assistant itself, which ends a flow without asking at the
\* moment the panel whose identity it has gets an entry.
RunningCardIsLeft ==
  [][\A o \in Offers :
       Listed(o) /\ card[o].stage = "listed" /\ card[o].runs > 0 /\ card'[o] = Nil
       => StepEnds(o) \/ card[o].identity \in configured' \ configured]_cardVars
=============================================================================
