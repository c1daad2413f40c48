--------------------------- MODULE SessionCommands ---------------------------
(***************************************************************************)
(* What one panel session carries: the panel's reports (transport.py) and  *)
(* the commands Home Assistant sends on it, each sent once and waited for  *)
(* until its outcome (async_deliver and its callers,                       *)
(* transport_sessions.py; the byte transfers a relayed request lends the   *)
(* panel, ui_relay.py).                                                    *)
(*                                                                         *)
(*   live       the session is in the table (closed_at is None)            *)
(*   begun, complete   the full sync of observations                       *)
(*   lastEvent  one more than the highest event id that reached an entity  *)
(*   command    each command: its caller, its future, its timeout scope,   *)
(*              whether transfers were lent for it (lends) and still are   *)
(*              (lent), with the callback that returns them (onSettled)    *)
(*   pending, late   the session's tables of commands: those waited for,   *)
(*              and those whose wait ended first, oldest first             *)
(*   raised     a handler ran into an exception (a history variable)       *)
(*                                                                         *)
(* The panel may report any outcome of any command, any number of times    *)
(* and in any order.  A timer that expires and a future that resolves only *)
(* schedule the waiting caller: it resumes on a later turn of the event    *)
(* loop, and handlers may run in between.  asyncio's own part (a timeout   *)
(* scope is entered, then expiring, and cannot be rescheduled while it     *)
(* expires) is external.                                                   *)
(***************************************************************************)
EXTENDS Naturals, Sequences, FiniteSets

CONSTANTS
  Commands,         \* commands sent in one session
  EventIds,         \* ids of transient events, a set of naturals
  MaxLateCommands   \* MAX_LATE_COMMANDS

ASSUME CommandsAssumption ==
  /\ EventIds \subseteq Nat
  /\ MaxLateCommands \in Nat \ {0}

VARIABLES live, begun, complete, lastEvent, command, pending, late, raised

syncVars == <<begun, complete>>
commandVars == <<command, pending, late>>
vars == <<live, syncVars, lastEvent, commandVars, raised>>

Callers == {"idle", "waiting", "answered", "session_ended", "timed_out",
            "approval_pending", "cancelled"}
Final == {"applied", "refused"}

CommandRecords ==
  [on_interim : BOOLEAN, caller : Callers, cancelling : BOOLEAN,
   future : {"unset", "none"} \cup Final,
   scope : {"off", "entered", "expiring"},
   approval_pending : BOOLEAN,
   lends : BOOLEAN, lent : BOOLEAN, onSettled : BOOLEAN]

InLate(c) == \E i \in DOMAIN late : late[i] = c
Waiting(c) == command[c].caller = "waiting"

\* settle: run on_settled once, which returns what was lent.
Settled(r) == [r EXCEPT !.onSettled = FALSE, !.lent = @ /\ ~r.onSettled]

-----------------------------------------------------------------------------
(***************************************************************************)
(* Reports.                                                                *)
(***************************************************************************)

\* ws_report_state: a batch marked as the begin or the end of a full sync.
ReportState(sync) ==
  /\ live
  /\ \/ /\ sync = "full_begin"
        /\ begun' = TRUE /\ UNCHANGED complete
     \/ /\ sync = "full_end" /\ (begun \/ complete)
        /\ begun' = FALSE /\ complete' = TRUE
  /\ UNCHANGED <<live, lastEvent, commandVars, raised>>

\* Only an id above every one counted so far is new.  lastEvent is one more
\* than last_event_id, which starts at -1.
Counts(id) == id + 1 > lastEvent

\* ws_report_event; before the full sync it is refused, for the panel to retry.
ReportEvent(id) ==
  /\ live /\ complete
  /\ Counts(id)
  /\ lastEvent' = id + 1
  /\ UNCHANGED <<live, syncVars, commandVars, raised>>

-----------------------------------------------------------------------------
(***************************************************************************)
(* Commands.                                                               *)
(***************************************************************************)

\* async_send_command, which needs the full sync, and async_manage_outcome and
\* the relay's requests, which do not.  The relay lends the panel transfers.
\* interim: the deadline moves when approval is pending (to the end of the
\* approval window, or to now), so on_interim is set.
Send(c, interim, synced, lends) ==
  /\ command[c].caller = "idle"
  /\ live
  /\ synced => complete
  /\ command' = [command EXCEPT ![c] =
                   [@ EXCEPT !.on_interim = interim, !.caller = "waiting",
                             !.scope = "entered", !.lends = lends,
                             !.lent = lends, !.onSettled = lends]]
  /\ pending' = pending \cup {c}
  /\ UNCHANGED <<live, syncVars, lastEvent, late, raised>>

\* A late final answer: recorded, and settled.
AnsweredLate(r) == Settled(r)

\* A final answer resolves the future unless that is done.
FutureSet(r, outcome) == IF r.future = "unset" THEN outcome ELSE r.future

\* ws_command_result, a final outcome.  A command in neither table is
\* acknowledged and changes nothing.
FinalResult(c, outcome) ==
  /\ live
  /\ \/ /\ c \in pending
        /\ command' = [command EXCEPT ![c].future = FutureSet(command[c], outcome)]
        /\ pending' = pending \ {c}
        /\ UNCHANGED late
     \/ /\ c \notin pending /\ InLate(c)
        /\ command' = [command EXCEPT ![c] = AnsweredLate(@)]
        /\ late' = SelectSeq(late, LAMBDA d : d # c)
        /\ UNCHANGED pending
  /\ UNCHANGED <<live, syncVars, lastEvent, raised>>

\* ws_command_result, pending_approval; a second one is ignored.  on_interim
\* moves the deadline, which an expiring scope refuses with an exception.
InterimResult(c) ==
  /\ live
  /\ c \in pending \/ InLate(c)
  /\ ~command[c].approval_pending
  /\ command' = [command EXCEPT ![c].approval_pending = TRUE]
  /\ raised' = (raised \/ (command[c].on_interim /\ command[c].scope = "expiring"))
  /\ UNCHANGED <<live, syncVars, lastEvent, pending, late>>

\* Faulty variant: pending approval suspends the deadline.
TimerFiresUnlessPending(c) ==
  /\ Waiting(c)
  /\ command[c].scope = "entered"
  /\ ~command[c].approval_pending
  /\ command' = [command EXCEPT ![c].scope = "expiring"]
  /\ UNCHANGED <<live, syncVars, lastEvent, pending, late, raised>>

\* The deadline passes: asyncio cancels the caller's wait.
TimerFires(c) ==
  /\ Waiting(c)
  /\ command[c].scope = "entered"
  /\ command' = [command EXCEPT ![c].scope = "expiring"]
  /\ UNCHANGED <<live, syncVars, lastEvent, pending, late, raised>>

\* The task that waits is cancelled.
CancelCaller(c) ==
  /\ Waiting(c)
  /\ command' = [command EXCEPT ![c].cancelling = TRUE]
  /\ UNCHANGED <<live, syncVars, lastEvent, pending, late, raised>>

\* The while loop of _stop_waiting.  Entered with at most one command too many.
KeptLate(q, cmds) ==
  IF Len(q) > MaxLateCommands
  THEN <<Tail(q), [cmds EXCEPT ![Head(q)] = Settled(@)]>>
  ELSE <<q, cmds>>

\* _stop_waiting keeps a command only of a session that has not ended.
Keeps(c) == c \in pending /\ live

\* How a caller that resumes finds its wait ended.
Verdict(r) ==
  CASE r.cancelling -> "cancelled"
    [] ~r.cancelling /\ r.future = "none" -> "session_ended"
    [] ~r.cancelling /\ r.future \in Final -> "answered"
    [] OTHER -> IF r.approval_pending THEN "approval_pending" ELSE "timed_out"

\* ui_relay.async_manage: what was lent is kept with a command kept for its
\* late answer, and returned otherwise.
LentAfter(r, kept) == r.lent /\ kept

\* async_deliver, from the end of its wait to its caller: a future that is
\* done wins over an expired timer; otherwise the command stops being waited
\* for, and is kept for a late answer.
Resume(c) ==
  LET r == command[c]
      unanswered == r.future = "unset"
      kept == unanswered /\ Keeps(c)
      after == [r EXCEPT !.caller = Verdict(r), !.on_interim = FALSE,
                         !.scope = "off", !.cancelling = FALSE,
                         !.lent = LentAfter(r, kept)]
      queued == KeptLate(IF kept THEN Append(late, c) ELSE late,
                         [command EXCEPT ![c] = after])
  IN  /\ Waiting(c)
      /\ r.future # "unset" \/ r.scope = "expiring" \/ r.cancelling
      /\ pending' = IF unanswered THEN pending \ {c} ELSE pending
      /\ late' = queued[1]
      /\ command' = queued[2]
      /\ UNCHANGED <<live, syncVars, lastEvent, raised>>

\* Faulty variant: the waits are cleared before they are resolved.
EndUnresolved ==
  /\ live
  /\ live' = FALSE
  /\ command' = [c \in Commands |-> IF InLate(c) THEN Settled(command[c]) ELSE command[c]]
  /\ pending' = {}
  /\ late' = <<>>
  /\ UNCHANGED <<syncVars, lastEvent, raised>>

\* _forget: the session ends, and with it every command waited for or kept.
End ==
  /\ live
  /\ live' = FALSE
  /\ command' = [c \in Commands |->
                   IF c \in pending
                   THEN [command[c] EXCEPT !.future = FutureSet(command[c], "none")]
                   ELSE IF InLate(c) THEN Settled(command[c])
                   ELSE command[c]]
  /\ pending' = {}
  /\ late' = <<>>
  /\ UNCHANGED <<syncVars, lastEvent, raised>>

Init ==
  /\ live = TRUE
  /\ begun = FALSE /\ complete = FALSE
  /\ lastEvent = 0
  /\ command = [c \in Commands |->
                  [on_interim |-> FALSE, caller |-> "idle", cancelling |-> FALSE,
                   future |-> "unset", scope |-> "off", approval_pending |-> FALSE,
                   lends |-> FALSE, lent |-> FALSE, onSettled |-> FALSE]]
  /\ pending = {}
  /\ late = <<>>
  /\ raised = FALSE

Next ==
  \/ \E sync \in {"full_begin", "full_end"} : ReportState(sync)
  \/ \E id \in EventIds : ReportEvent(id)
  \/ \E c \in Commands :
       \/ \E interim, synced, lends \in BOOLEAN : Send(c, interim, synced, lends)
       \/ \E outcome \in Final : FinalResult(c, outcome)
       \/ InterimResult(c) \/ TimerFires(c) \/ CancelCaller(c) \/ Resume(c)
  \/ End

Spec == Init /\ [][Next]_vars

\* asyncio runs a timer that is due and a task that is ready.
Fairness == \A c \in Commands : WF_vars(TimerFires(c)) /\ WF_vars(Resume(c))

FairSpec == Spec /\ Fairness

-----------------------------------------------------------------------------
\* The shape of the state.
CmdTypeOK ==
  /\ {live, begun, complete, raised} \subseteq BOOLEAN
  /\ lastEvent \in Nat
  /\ command \in [Commands -> CommandRecords]
  /\ pending \subseteq Commands
  /\ late \in Seq(Commands)

\* A caller still without an answer can get one: its command is in the table
\* of a live session, where the panel's outcome or the session's end finds it.
WaiterIsReachable ==
  \A c \in Commands :
    Waiting(c) /\ command[c].future = "unset" => live /\ c \in pending

\* Every call ends, whatever the panel answers or leaves unanswered.
EveryCallReturns == \A c \in Commands : Waiting(c) ~> ~Waiting(c)

\* "Both late answers were acknowledged; neither raised in Home Assistant."
\* (tests/test_embed.py, an interim and a final answer after the wait ended).
LateAnswerNeverRaises == ~raised
=============================================================================
