------------------------------- MODULE UiRelay -------------------------------
(***************************************************************************)
(* Subscriptions relayed over one panel session (ui_relay.py): a sidebar's *)
(* page subscribes to one of the panel's own feeds, and a failure's repair *)
(* takes one snapshot of the panel's log the same way (repairs_failure.py).*)
(*                                                                         *)
(*   sessionUp   the session is the entry's live one                       *)
(*   relay       each subscription: where its request stands (st), the     *)
(*               answer its future holds, whether the browser stopped      *)
(*               listening or was told the end (ended), whether it applied,*)
(*               the panel's subscription it is on (panelId), the updates  *)
(*               held until its answer is forwarded, and the last thing    *)
(*               its browser was told                                      *)
(*   uiRelays    session.ui_relays: who listens to each panel subscription *)
(*   toPanel     requests on their way to the panel, in order              *)
(*   open        the panel's own subscriptions, one for each feed          *)
(*   answered    what the panel has still to answer to each subscribe      *)
(*                                                                         *)
(* A panel subscription is named by the command that opened it, so by the  *)
(* relay that asked.  The panel takes requests in the order they were      *)
(* sent, lets a second subscribe of a feed share the first one's           *)
(* subscription, and answers any time later, or never.                     *)
(***************************************************************************)
EXTENDS Naturals, Sequences

CONSTANTS
  Subscriptions,   \* the browsers' subscriptions
  Snapshots,       \* the log snapshots, each an origin of its own
  Feed,            \* what each relay asks for: an origin and a family
  MaxUpdates,      \* updates the panel sends
  NoAnswer         \* no subscription, no answer

Relays == Subscriptions \cup Snapshots
Feeds == {Feed[r] : r \in Relays}

ASSUME RelayAssumption ==
  /\ MaxUpdates \in Nat
  /\ Subscriptions \cap Snapshots = {}
  /\ NoAnswer \notin Relays \cup {"refused"}
  /\ \A s \in Snapshots, r \in Relays : Feed[s] = Feed[r] => s = r

VARIABLES sessionUp, relay, uiRelays, toPanel, open, answered, updates

relayVars == <<sessionUp, relay, uiRelays, toPanel, open, answered, updates>>

\* An answer is the panel subscription it names, or a refusal.
AskedAnswers == Relays \cup {"refused", NoAnswer}

Ask(op, id) == [op |-> op, id |-> id]

-----------------------------------------------------------------------------
(***************************************************************************)
(* Leaving a panel subscription.                                           *)
(***************************************************************************)

\* _Subscription._leave
LeaveRelay(table, r, id) == [table EXCEPT ![id] = @ \ {r}]

\* Faulty variant: cleanup waits for the answer.
UnsubscribesApplied(table, applied, pending, on) ==
  IF table[on] = {} /\ applied /\ sessionUp
  THEN Append(toPanel, Ask("unsubscribe", on)) ELSE toPanel

\* _unsubscribe, once r has left: the last relay to leave a panel subscription
\* that is open, or may still be opened (pending), ends it, if the session
\* still lives.  The request is on its way before the task first waits.
Unsubscribes(table, applied, pending, on) ==
  IF table[on] = {} /\ (applied \/ pending) /\ sessionUp
  THEN Append(toPanel, Ask("unsubscribe", on)) ELSE toPanel

\* The first event is the answer; then come the updates that were held.
Forwarded(r, answer) ==
  [r EXCEPT !.st = "over", !.told = IF r.held > 0 THEN "update" ELSE answer,
            !.held = 0]

-----------------------------------------------------------------------------
(***************************************************************************)
(* The browser's side.                                                     *)
(***************************************************************************)

\* ws_ui: a loaded entry whose live session can serve its pages.
CanSubscribe(r) == relay[r].st = "new" /\ sessionUp

\* _async_subscribe up to its wait; _async_panel_logs up to its own.
Subscribe(r) ==
  /\ CanSubscribe(r)
  /\ relay' = [relay EXCEPT ![r].st = "asked"]
  /\ uiRelays' = [uiRelays EXCEPT ![r] = {r}]
  /\ toPanel' = Append(toPanel, Ask("subscribe", r))
  /\ UNCHANGED <<sessionUp, open, answered, updates>>

\* _async_subscribe with an answer that applied: _Subscription.answered.  The
\* panel may have named a subscription it already had open for the feed.
Applies(r) ==
  LET id == relay[r].answer
      joined == IF id = relay[r].panelId THEN uiRelays
                ELSE [LeaveRelay(uiRelays, r, relay[r].panelId) EXCEPT ![id] = @ \cup {r}]
      now == [relay[r] EXCEPT !.applied = TRUE, !.panelId = id]
      left == LeaveRelay(joined, r, id)
  IN  /\ relay[r].st = "asked" /\ r \in Subscriptions
      /\ id \in Relays
      /\ IF relay[r].ended
         THEN /\ relay' = [relay EXCEPT ![r] = [now EXCEPT !.st = "over"]]
              /\ uiRelays' = left
              /\ toPanel' = Unsubscribes(left, TRUE, FALSE, id)
         ELSE /\ relay' = [relay EXCEPT ![r] = Forwarded(now, "answer")]
              /\ uiRelays' = joined
              /\ UNCHANGED toPanel
      /\ UNCHANGED <<sessionUp, open, answered, updates>>

\* _async_subscribe without one: the panel refused, the wait timed out, or the
\* session ended.  A wait that ended abandons what the panel may still open.
FailsToSubscribe(r) ==
  LET left == LeaveRelay(uiRelays, r, relay[r].panelId)
      refused == relay[r].answer = "refused"
  IN  /\ relay[r].st = "asked" /\ r \in Subscriptions
      /\ relay[r].answer \notin Relays
      /\ toPanel' = IF refused THEN toPanel
                    ELSE Unsubscribes(left, FALSE, TRUE, relay[r].panelId)
      /\ uiRelays' = left
      /\ relay' = [relay EXCEPT ![r] =
                     IF @.ended THEN [@ EXCEPT !.st = "over"]
                     ELSE [Forwarded(@, "failed") EXCEPT !.ended = TRUE]]
      /\ UNCHANGED <<sessionUp, open, answered, updates>>

\* _async_subscribe, cancelled as Home Assistant stops: even with its answer
\* in hand it ends its own command, by which it was asked.
CancelSubscribe(r) ==
  LET left == LeaveRelay(uiRelays, r, relay[r].panelId)
  IN  /\ relay[r].st = "asked" /\ r \in Subscriptions
      /\ toPanel' = Unsubscribes(left, FALSE, TRUE, relay[r].panelId)
      /\ uiRelays' = left
      /\ relay' = [relay EXCEPT ![r].st = "over", ![r].ended = TRUE]
      /\ UNCHANGED <<sessionUp, open, answered, updates>>

\* browser_ended: the page unsubscribes, or its connection closes.  Before the
\* answer was forwarded it only leaves a mark for it.
BrowserEnds(r) ==
  LET left == LeaveRelay(uiRelays, r, relay[r].panelId)
  IN  /\ r \in Subscriptions
      /\ relay[r].st # "new" /\ ~relay[r].ended
      /\ relay' = [relay EXCEPT ![r].ended = TRUE]
      /\ IF relay[r].st = "asked" THEN UNCHANGED <<uiRelays, toPanel>>
         ELSE /\ uiRelays' = left
              /\ toPanel' = Unsubscribes(left, relay[r].applied, FALSE,
                                         relay[r].panelId)
      /\ UNCHANGED <<sessionUp, open, answered, updates>>

\* _async_panel_logs ends, with its lines, without, or out of time: the
\* command is the handle, whatever became of its answer.
SnapshotEnds(s) ==
  /\ relay[s].st = "asked" /\ s \in Snapshots
  /\ relay' = [relay EXCEPT ![s].st = "over"]
  /\ uiRelays' = [uiRelays EXCEPT ![s] = {}]
  /\ toPanel' = IF sessionUp THEN Append(toPanel, Ask("unsubscribe", s)) ELSE toPanel
  /\ UNCHANGED <<sessionUp, open, answered, updates>>

-----------------------------------------------------------------------------
(***************************************************************************)
(* The panel's side, and the session's.                                    *)
(***************************************************************************)

\* The panel takes a subscribe: it refuses, shares what it has open, or opens.
PanelSubscribes(refuses) ==
  LET r == Head(toPanel).id
      f == Feed[r]
      shared == IF open[f] = NoAnswer THEN r ELSE open[f]
  IN  /\ toPanel # <<>> /\ Head(toPanel).op = "subscribe"
      /\ toPanel' = Tail(toPanel)
      /\ open' = IF refuses THEN open ELSE [open EXCEPT ![f] = shared]
      /\ answered' = [answered EXCEPT ![r] = IF refuses THEN "refused" ELSE shared]
      /\ UNCHANGED <<sessionUp, relay, uiRelays, updates>>

\* The panel takes an unsubscribe; one that names nothing changes nothing.
PanelUnsubscribes ==
  LET id == Head(toPanel).id
      f == Feed[id]
  IN  /\ toPanel # <<>> /\ Head(toPanel).op = "unsubscribe"
      /\ toPanel' = Tail(toPanel)
      /\ open' = IF open[f] = id THEN [open EXCEPT ![f] = NoAnswer] ELSE open
      /\ UNCHANGED <<sessionUp, relay, uiRelays, answered, updates>>

\* Its answer arrives.  One that comes after the wait is only recorded.
AnswerArrives(r) ==
  /\ answered[r] # NoAnswer
  /\ answered' = [answered EXCEPT ![r] = NoAnswer]
  /\ relay' = IF relay[r].st = "asked" THEN [relay EXCEPT ![r].answer = answered[r]]
              ELSE relay
  /\ UNCHANGED <<sessionUp, uiRelays, toPanel, open, updates>>

\* ws_ui_update: everyone on the panel subscription hears it, or holds it.
HearsUpdate(r) ==
  IF r.ended THEN r
  ELSE IF r.st = "asked" THEN [r EXCEPT !.held = @ + 1]
  ELSE [r EXCEPT !.told = "update"]

UiUpdate(f) ==
  /\ open[f] # NoAnswer
  /\ updates < MaxUpdates
  /\ updates' = updates + 1
  /\ relay' = [r \in Relays |-> IF r \in uiRelays[open[f]] \cap Subscriptions
                                THEN HearsUpdate(relay[r]) ELSE relay[r]]
  /\ UNCHANGED <<sessionUp, uiRelays, toPanel, open, answered>>

\* session_ended
Closed(r) == [r EXCEPT !.ended = TRUE, !.told = "closed"]

\* TransportSessions._forget: the table is cleared, every relay told, and every
\* wait ends.  The panel drops what it had open for the session.
EndSession ==
  LET listening == {r \in Subscriptions : r \in uiRelays[relay[r].panelId]
                                          /\ ~relay[r].ended}
  IN  /\ sessionUp
      /\ sessionUp' = FALSE
      /\ relay' = [r \in Relays |-> IF r \in listening
                     THEN Closed(relay[r]) ELSE relay[r]]
      /\ uiRelays' = [r \in Relays |-> {}]
      /\ toPanel' = <<>>
      /\ open' = [f \in Feeds |-> NoAnswer]
      /\ answered' = [r \in Relays |-> NoAnswer]
      /\ UNCHANGED updates

RelayInit ==
  /\ sessionUp = TRUE
  /\ relay = [r \in Relays |->
                [st |-> "new", answer |-> NoAnswer, ended |-> FALSE,
                 applied |-> FALSE, panelId |-> r, held |-> 0, told |-> "nothing"]]
  /\ uiRelays = [r \in Relays |-> {}]
  /\ toPanel = <<>>
  /\ open = [f \in Feeds |-> NoAnswer]
  /\ answered = [r \in Relays |-> NoAnswer]
  /\ updates = 0

RelayNext ==
  \/ \E r \in Relays :
       \/ Subscribe(r) \/ Applies(r) \/ FailsToSubscribe(r) \/ CancelSubscribe(r)
       \/ BrowserEnds(r) \/ SnapshotEnds(r) \/ AnswerArrives(r)
  \/ \E refuses \in BOOLEAN : PanelSubscribes(refuses)
  \/ PanelUnsubscribes
  \/ \E f \in Feeds : UiUpdate(f)
  \/ EndSession

RelaySpec == RelayInit /\ [][RelayNext]_relayVars

-----------------------------------------------------------------------------
\* The shape of the state.
RelayTypeOK ==
  /\ sessionUp \in BOOLEAN
  /\ relay \in [Relays ->
       [st : {"new", "asked", "over"}, answer : AskedAnswers, ended : BOOLEAN,
        applied : BOOLEAN, panelId : Relays, held : 0..MaxUpdates,
        told : {"nothing", "answer", "failed", "update", "closed"}]]
  /\ uiRelays \in [Relays -> SUBSET Relays]
  /\ toPanel \in Seq([op : {"subscribe", "unsubscribe"}, id : Relays])
  /\ open \in [Feeds -> Relays \cup {NoAnswer}]
  /\ answered \in [Relays -> AskedAnswers]
  /\ updates \in 0..MaxUpdates

\* What a panel has open for Home Assistant someone still listens to, or waits
\* for, or is about to end: no wait that timed out, no page that left before
\* its answer and no answer that came late leaves the panel sending for nobody
\* (_async_subscribe, _Subscription._unsubscribe, _async_panel_logs).
OpenIsWanted ==
  \A f \in Feeds :
    open[f] # NoAnswer =>
      \/ \E r \in uiRelays[open[f]] : relay[r].st = "asked" \/ ~relay[r].ended
      \/ \E i \in DOMAIN toPanel : toPanel[i] = Ask("unsubscribe", open[f])
=============================================================================
