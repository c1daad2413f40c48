------------------------------ MODULE VoiceStream ------------------------------
(***************************************************************************)
(* Speech played in step on several panels (voice_stream.py) and the calls  *)
(* that ask for it: the announcements and the replies of a panel's Assist   *)
(* satellite (assist_satellite.py).                                         *)
(*                                                                          *)
(* A panel's session carries one link to the speech server.  Announcements  *)
(* of one key that arrive while its window is open become one batch, which  *)
(* is fetched once and started as one stream; a reply is a stream of its    *)
(* own.  A start takes the lock, takes its panels off what they play, tells *)
(* each to play and waits until the audio flows; withdrawals, resets and    *)
(* stops take the same lock.  Each step below is what the code does from    *)
(* one await to the next.  A stream is named by the call that opened it.    *)
(***************************************************************************)
EXTENDS Naturals, FiniteSets, Sequences, SequencesExt

CONSTANTS
  Panels,         \* panels with a voice stream; a panel has one client id
  Announcements,  \* calls that announce on one panel
  Replies,        \* replies of a conversation turn on one panel
  Target,         \* [Announcements \cup Replies -> Panels]
  Key,            \* [Announcements -> keys]: what is spoken, for which service call
  Roaming,        \* bound: the panels whose sessions and links change
  MaxTroubles,    \* bound: sessions and links that begin or end, resets and stops
                  \* a panel asks for, and cancelled calls, together
  None

ASSUME VoiceAssumption ==
  /\ MaxTroubles \in Nat
  /\ Roaming \subseteq Panels
  /\ Announcements \cap Replies = {} /\ None \notin Announcements \cup Replies
  /\ Target \in [Announcements \cup Replies -> Panels]

VARIABLES
  link,      \* [Panels -> a panel's latest link and its session]
  spoken,    \* [calls -> where a call stands]
  turn,      \* [Panels -> the reply the panel's latest turn waits for] (_reply_run)
  batch,     \* [Announcements -> the batch that call opened]
  stream,    \* [calls -> the stream opened for that batch or reply]
  playing,   \* [Panels -> the stream the panel plays] (_playing)
  turns,     \* who holds, then who waits for, the start lock
  doing,     \* what the holder of the lock is at
  troubles   \* of what MaxTroubles bounds, so far

voiceVars ==
  <<link, spoken, turn, batch, stream, playing, turns, doing, troubles>>

Spoken == Announcements \cup Replies
Nothing == [at |-> "free", todo |-> {}, visited |-> {}, of |-> None, panel |-> None]

-----------------------------------------------------------------------------
(* Links and readiness. *)

\* The panel has a session, and its link is the one the server would use.
Connected(p) == link[p].here

\* ready: the server has a paired player behind the panel's link.  The server
\* may notice the end of a link later than the link's own end.
Ready(p) == link[p].here /\ link[p].paired # 0

On(s, p) == {m \in stream[s].members : Target[m.call] = p}

-----------------------------------------------------------------------------
(* What a call hears. *)

\* _ended, async_played, _fail_announcements: the first answer stands.  Which
\* outcome it is only tells the caller what to report.
Heard(state) == [state EXCEPT !.pending = FALSE]

\* _session_changed: the announcements still under way, which are of the session
\* before, fail.  One that has not begun has nothing to fail: pending is set by
\* Announce.
SessionChanged(p) ==
  [c \in Spoken |->
    IF c \in Announcements /\ Target[c] = p THEN Heard(spoken[c]) ELSE spoken[c]]

\* _play: whether the call may still be spoken on the panel's session.
MayPlay(c) ==
  LET p == Target[c] IN
  /\ Connected(p)
  /\ spoken[c].session = link[p].session
  /\ IF c \in Replies THEN turn[p] = c ELSE spoken[c].pending

\* The calls a start still speaks for (batch.members, or the reply itself).
Listeners(c) == IF c \in Replies THEN {c} ELSE batch[c].members

\* _async_end, once the stream's end has drained: the first to claim a member
\* tells the panel, on the link it played on, and then its call.
Claim(s, p) ==
  /\ playing' = [playing EXCEPT ![p] = IF @ = s /\ On(s, p) # {} THEN None ELSE @]
  /\ link' = [link EXCEPT ![p].told =
       IF @ = s /\ \E m \in On(s, p) : m.link = link[p].n THEN None ELSE @]
  /\ spoken' = [c \in Spoken |->
       IF c \in Announcements /\ \E m \in On(s, p) : m.call = c
       THEN Heard(spoken[c]) ELSE spoken[c]]
  /\ turn' = [turn EXCEPT ![p] = IF \E m \in On(s, p) : m.call = @ THEN None ELSE @]

-----------------------------------------------------------------------------
(* The panel's session and link. *)

Trouble == troubles < MaxTroubles /\ troubles' = troubles + 1

\* attach: a link that nothing has been told on yet.
Attached(l) == [l EXCEPT !.n = l.n + 1, !.open = TRUE, !.told = None]

\* A hello opens a session, ending the one before it, and its link.
Connect(p) ==
  /\ Trouble
  /\ link' = [link EXCEPT ![p] = [Attached(@) EXCEPT !.here = TRUE,
                                                     !.session = link[p].session + 1]]
  /\ spoken' = SessionChanged(p)
  /\ turn' = [turn EXCEPT ![p] = None]
  /\ UNCHANGED <<batch, stream, playing, turns, doing>>

\* detach, as the session ends.
Disconnect(p) ==
  /\ Connected(p) /\ Trouble
  /\ link' = [link EXCEPT ![p] = [@ EXCEPT !.here = FALSE, !.open = FALSE, !.told = None]]
  /\ spoken' = SessionChanged(p)
  /\ turn' = [turn EXCEPT ![p] = None]
  /\ UNCHANGED <<batch, stream, playing, turns, doing>>

\* The panel's player finishes its handshake on the link, or the server notices
\* that the link of the player it holds has closed.
PlayerComesAndGoes(p) ==
  /\ \/ /\ Connected(p) /\ link[p].open /\ link[p].paired # link[p].n
        /\ link' = [link EXCEPT ![p].paired = link[p].n]
     \/ /\ link[p].paired # 0
        /\ link[p].paired # link[p].n \/ ~link[p].open
        /\ link' = [link EXCEPT ![p].paired = 0]
  /\ UNCHANGED <<spoken, turn, batch, stream, playing, turns, doing, troubles>>

\* close_now on a live session: a full inbox, or a player the server refuses.
LinkCloses(p) ==
  /\ Connected(p) /\ link[p].open /\ Trouble
  /\ link' = [link EXCEPT ![p].open = FALSE]
  /\ UNCHANGED <<spoken, turn, batch, stream, playing, turns, doing>>

\* ws_voice_stream_reset and ws_voice_stream_stop queue for the lock.
PanelAsks(p) ==
  /\ Connected(p) /\ Trouble
  /\ \/ turns' = Append(turns, [kind |-> "reset", panel |-> p, link |-> link[p].n])
     \/ /\ link[p].told # None
        /\ turns' = Append(turns, [kind |-> "stop", panel |-> p, of |-> link[p].told])
  /\ UNCHANGED <<link, spoken, turn, batch, stream, playing, doing>>

-----------------------------------------------------------------------------
(* Announcements. *)

OpenBatches(c) == {b \in Announcements : batch[b].st = "open" /\ Key[b] = Key[c]}

\* _announce up to its first await, with a future of its own.  Home Assistant
\* runs one announcement of a satellite at a time.
Announce(c) ==
  LET p == Target[c] IN
  /\ spoken[c].st = "idle" /\ Connected(p)
  /\ \A d \in Announcements \ {c} : Target[d] = p => spoken[d].st \in {"idle", "over"}
  /\ spoken' = [spoken EXCEPT ![c] =
       [@ EXCEPT !.st = IF Ready(p) THEN "gathering" ELSE "waiting",
                 !.pending = TRUE, !.session = link[p].session]]
  /\ IF ~Ready(p) THEN UNCHANGED batch
     ELSE LET b == IF OpenBatches(c) = {} THEN c ELSE CHOOSE b \in OpenBatches(c) : TRUE
          IN batch' = [batch EXCEPT ![b].st = "open", ![b].members = @ \cup {c}]
  /\ UNCHANGED <<link, turn, stream, playing, turns, doing, troubles>>

\* _async_run_batch: the window closes; a later call of the key opens another.
WindowCloses(b) ==
  /\ batch[b].st = "open"
  /\ batch' = [batch EXCEPT ![b].st = "fetching"]
  /\ UNCHANGED <<link, spoken, turn, stream, playing, turns, doing, troubles>>

\* _async_prepare ends; without audio, or without listeners, nothing starts.
Fetched(b) ==
  /\ batch[b].st = "fetching"
  /\ \/ batch' = [batch EXCEPT ![b].st = "done"] /\ UNCHANGED turns
     \/ /\ batch[b].members # {}
        /\ batch' = [batch EXCEPT ![b].st = "starting"]
        /\ turns' = Append(turns, [kind |-> "start", of |-> b])
  /\ UNCHANGED <<link, spoken, turn, stream, playing, doing, troubles>>

\* The caller hears what became of its batch; a panel that does not stream it
\* gets it by URL.  Either way its end is waited for.
BatchAnswers(c) ==
  /\ spoken[c].st = "gathering"
  /\ \E b \in Announcements : c \in batch[b].members /\ batch[b].st = "done"
  /\ spoken' = [spoken EXCEPT ![c].st = "waiting"]
  /\ batch' = [b \in Announcements |-> [batch[b] EXCEPT !.members = @ \ {c}]]
  /\ UNCHANGED <<link, turn, stream, playing, turns, doing, troubles>>

\* voice_played, which a panel may report of whatever it was told to play.
PanelReportsPlayed(c) ==
  /\ spoken[c].st = "waiting" /\ spoken[c].pending /\ Connected(Target[c])
  /\ Trouble
  /\ spoken' = [spoken EXCEPT ![c] = Heard(@)]
  /\ UNCHANGED <<link, turn, batch, stream, playing, turns, doing>>

\* Faulty: a call that has heard its end returns at once, without withdrawing.
SettlesIfPending(c) ==
  IF spoken[c].pending
  THEN /\ spoken' = [spoken EXCEPT ![c] = [Heard(@) EXCEPT !.st = "withdrawing"]]
       /\ turns' = Append(turns, [kind |-> "withdraw", of |-> c])
  ELSE spoken' = [spoken EXCEPT ![c].st = "over"] /\ UNCHANGED turns

\* The finally of _announce: the future is closed and the listener withdrawn.
Settles(c) ==
  /\ spoken' = [spoken EXCEPT ![c] = [Heard(@) EXCEPT !.st = "withdrawing"]]
  /\ turns' = Append(turns, [kind |-> "withdraw", of |-> c])

\* The end was heard, or ANNOUNCE_TIMEOUT has passed.
AnnouncementEnds(c) ==
  /\ spoken[c].st = "waiting"
  /\ Settles(c)
  /\ UNCHANGED <<link, turn, batch, stream, playing, doing, troubles>>

\* The caller is cancelled while it gathers or waits.
Cancel(c) ==
  /\ spoken[c].st \in {"gathering", "waiting"} /\ Trouble
  /\ batch' = [b \in Announcements |->
       IF spoken[c].st = "gathering" THEN [batch[b] EXCEPT !.members = @ \ {c}] ELSE batch[b]]
  /\ Settles(c)
  /\ UNCHANGED <<link, turn, stream, playing, doing>>

-----------------------------------------------------------------------------
(* Replies. *)

\* TTS_END of the panel's latest turn, on a panel that is ready; _async_stream_reply
\* then fetches it.
Reply(c) ==
  LET p == Target[c] IN
  /\ spoken[c].st = "idle" /\ Ready(p)
  /\ turn' = [turn EXCEPT ![p] = c]
  /\ spoken' = [spoken EXCEPT ![c] = [@ EXCEPT !.st = "fetching", !.session = link[p].session]]
  /\ UNCHANGED <<link, batch, stream, playing, turns, doing, troubles>>

\* async_play_reply: it starts, or is sent by URL.
ReplyFetched(c) ==
  /\ spoken[c].st = "fetching"
  /\ \/ spoken' = [spoken EXCEPT ![c].st = "over"] /\ UNCHANGED turns
     \/ /\ spoken' = [spoken EXCEPT ![c].st = "starting"]
        /\ turns' = Append(turns, [kind |-> "start", of |-> c])
  /\ UNCHANGED <<link, turn, batch, stream, playing, doing, troubles>>

-----------------------------------------------------------------------------
(* The lock: its holder's steps. *)

Holds(t) == turns # <<>> /\ Head(turns) = t
Holding(kind) == turns # <<>> /\ Head(turns).kind = kind

GivesBack == turns' = Tail(turns) /\ doing' = Nothing

\* _async_leave up to its first await.  The last member's stream is cancelled
\* and waited for; otherwise this panel alone is taken out of the group.
Leaves(s, p, todo) ==
  LET last == Cardinality(stream[s].members) = 1 /\ stream[s].st # "over" IN
  /\ doing' = [at |-> IF last THEN "waits" ELSE "removes", todo |-> todo,
               visited |-> doing.visited \cup {p}, of |-> s, panel |-> p]
  /\ stream' = [stream EXCEPT ![s].cut = last]

\* The stream the panel plays, if it is this call's or this link's or this name.
LeftFor(t) ==
  LET p == IF t.kind = "withdraw" THEN Target[t.of] ELSE t.panel
      s == playing[p] IN
  IF s = None THEN {}
  ELSE {m \in On(s, p) : CASE t.kind = "withdraw" -> m.call = t.of
                           [] t.kind = "reset" -> m.link = t.link
                           [] OTHER -> s = t.of}

PanelOf(t) == IF t.kind = "withdraw" THEN Target[t.of] ELSE t.panel

\* async_withdraw, async_reset and async_stop_stream take their turn; a reset
\* closes its link first.
TakeTurn(t) ==
  LET p == PanelOf(t) IN
  /\ Holds(t) /\ t.kind # "start" /\ doing.at = "free"
  /\ LeftFor(t) # {}
  /\ Leaves(playing[p], p, {})
  /\ link' = [link EXCEPT ![p].open = @ /\ ~(t.kind = "reset" /\ t.link = link[p].n)]
  /\ UNCHANGED <<spoken, turn, batch, playing, turns, troubles>>

\* The last steps of those three, after the panel has left or with nothing to
\* leave: a call is over; a reset opens a new link in the same session.
EndTurn(t) ==
  /\ Holds(t) /\ t.kind # "start"
  /\ doing.at \in {"free", "left"}
  /\ doing.at = "free" => LeftFor(t) = {}
  /\ GivesBack
  /\ spoken' = IF t.kind = "withdraw" THEN [spoken EXCEPT ![t.of].st = "over"] ELSE spoken
  /\ link' = IF t.kind = "reset" /\ Connected(t.panel) /\ t.link = link[t.panel].n
             THEN [link EXCEPT ![t.panel] = Attached(@)]
             ELSE link
  /\ UNCHANGED <<turn, batch, stream, playing, troubles>>

\* _async_start, once it has the lock or is between two panels: the listeners
\* that were ready when it took the lock and have not withdrawn.
Eligible(s) ==
  Listeners(s) \cap
    IF doing.at = "free" THEN {c \in Spoken : Ready(Target[c])} ELSE doing.todo

Starting(s) ==
  /\ Holds([kind |-> "start", of |-> s])
  /\ doing.at \in {"free", "left"}

\* Those still to be taken off what they play.
Occupied(s) ==
  {c \in Eligible(s) : playing[Target[c]] # None /\ Target[c] \notin doing.visited}

ClearPanel(s) ==
  /\ Starting(s)
  /\ \E c \in Occupied(s) : Leaves(playing[Target[c]], Target[c], Eligible(s))
  /\ UNCHANGED <<link, spoken, turn, batch, playing, turns, troubles>>

\* _async_leave after its await: the task has ended, or the group let go.
LeaveResumes ==
  /\ doing.at = "waits" => stream[doing.of].st = "over"
  /\ doing.at \in {"waits", "removes"}
  /\ doing' = [doing EXCEPT !.at = "drains"]
  /\ UNCHANGED <<link, spoken, turn, batch, stream, playing, turns, troubles>>

\* Faulty: the end is left to a task that has already ended.
LeaveEndsUnlessOver ==
  /\ doing.at = "drains"
  /\ IF stream[doing.of].st = "over"
     THEN UNCHANGED <<link, spoken, turn, stream, playing>>
     ELSE /\ stream' = [stream EXCEPT ![doing.of].members = @ \ On(doing.of, doing.panel)]
          /\ Claim(doing.of, doing.panel)
  /\ doing' = [doing EXCEPT !.at = "left"]
  /\ UNCHANGED <<batch, turns, troubles>>

\* It completes the end of the panel's part, whoever began it.
LeaveEnds ==
  /\ doing.at = "drains"
  /\ stream' = [stream EXCEPT ![doing.of].members = @ \ On(doing.of, doing.panel)]
  /\ Claim(doing.of, doing.panel)
  /\ doing' = [doing EXCEPT !.at = "left"]
  /\ UNCHANGED <<batch, turns, troubles>>

\* The panels that are told to play.
Members(s) ==
  {c \in Eligible(s) : Ready(Target[c]) /\ MayPlay(c)}

\* What a start reports to whoever waits for it.
Started(s) ==
  /\ batch' = IF s \in Replies THEN batch ELSE [batch EXCEPT ![s].st = "done"]
  /\ spoken' = IF s \in Replies THEN [spoken EXCEPT ![s].st = "over"] ELSE spoken

\* Every panel is free: each is told to play, and the stream's task begins.
Form(s) ==
  LET told == {Target[c] : c \in Members(s)} IN
  /\ Starting(s)
  /\ Occupied(s) = {}
  /\ IF told = {}
     THEN GivesBack /\ Started(s) /\ UNCHANGED <<link, stream, playing>>
     ELSE /\ link' = [p \in Panels |->
                       IF p \in told THEN [link[p] EXCEPT !.told = s] ELSE link[p]]
          /\ playing' = [p \in Panels |-> IF p \in told THEN s ELSE playing[p]]
          /\ stream' = [stream EXCEPT ![s] =
               [@ EXCEPT !.st = "forming",
                         !.members = {[call |-> c, link |-> link[Target[c]].n] : c \in Members(s)}]]
          /\ doing' = [Nothing EXCEPT !.at = "starts"]
          /\ UNCHANGED <<batch, spoken, turns>>
  /\ UNCHANGED <<turn, troubles>>

\* Faulty: only the first audio is waited for.
UnderWayOnceStarted(s) == stream[s].started

\* The lock is held until the first audio is out, or the task has ended.
UnderWay(s) == stream[s].started \/ stream[s].st = "over"

StartEnds(s) ==
  /\ Holds([kind |-> "start", of |-> s]) /\ doing.at = "starts"
  /\ UnderWay(s)
  /\ GivesBack /\ Started(s)
  /\ UNCHANGED <<link, turn, stream, playing, troubles>>

TurnOf(c) == [kind |-> IF c \in Replies THEN "start" ELSE "withdraw", of |-> c]

InTurn(c) == \E i \in DOMAIN turns : turns[i] = TurnOf(c)

\* A reply's turn, or a call that withdraws, is cancelled in the queue or with
\* the lock.  What it began goes on without it.
CancelInTurn(c) ==
  /\ spoken[c].st \in {"withdrawing", "fetching", "starting"} /\ Trouble
  /\ spoken' = [spoken EXCEPT ![c] = [@ EXCEPT !.st = "over", !.aborted = TRUE]]
  /\ IF InTurn(c) THEN \E i \in DOMAIN turns : turns[i] = TurnOf(c) /\ turns' = RemoveAt(turns, i)
     ELSE UNCHANGED turns
  /\ doing' = IF Holds(TurnOf(c)) THEN Nothing ELSE doing
  /\ UNCHANGED <<link, turn, batch, stream, playing>>

-----------------------------------------------------------------------------
(* The task of a stream. *)

\* The group is formed and the first audio is committed.
Flows(s) ==
  /\ stream[s].st = "forming" /\ ~stream[s].cut
  /\ stream' = [stream EXCEPT ![s] = [@ EXCEPT !.st = "flowing", !.started = TRUE]]
  /\ UNCHANGED <<link, spoken, turn, batch, playing, turns, doing, troubles>>

\* The last sample has played, or something failed: the group is stopped.
PlaysOut(s) ==
  /\ stream[s].st \in {"forming", "flowing"} /\ ~stream[s].cut
  /\ stream' = [stream EXCEPT ![s].st = "ending"]
  /\ UNCHANGED <<link, spoken, turn, batch, playing, turns, doing, troubles>>

\* The leaver's cancellation arrives: at an await of the audio it stops the
\* stream, at one of its last drains it ends the task there.
CutOff(s) ==
  /\ stream[s].cut
  /\ stream' = [stream EXCEPT ![s].cut = FALSE,
                              ![s].st = IF @ = "ending" THEN "over" ELSE "ending"]
  /\ UNCHANGED <<link, spoken, turn, batch, playing, turns, doing, troubles>>

\* The task ends each panel still in the stream, one drain after another.
TaskEnds(s) ==
  /\ stream[s].st = "ending" /\ ~stream[s].cut
  /\ LET left == {Target[m.call] : m \in stream[s].members} IN
     IF left = {}
     THEN /\ stream' = [stream EXCEPT ![s].st = "over"]
          /\ UNCHANGED <<link, spoken, turn, playing>>
     ELSE \E p \in left :
          /\ stream' = [stream EXCEPT ![s].members = @ \ On(s, p),
                                      ![s].st = IF left = {p} THEN "over" ELSE @]
          /\ Claim(s, p)
  /\ UNCHANGED <<batch, turns, doing, troubles>>

-----------------------------------------------------------------------------

\* Every player is connected; some calls, and some of the troubles, never come.
VoiceInit ==
  /\ link = [p \in Panels |-> [n |-> 1, session |-> 1, here |-> TRUE, open |-> TRUE,
                               paired |-> 1, told |-> None]]
  /\ spoken \in [Spoken -> {[st |-> st, pending |-> FALSE, session |-> 0, aborted |-> FALSE] :
                            st \in {"idle", "over"}}]
  /\ turn = [p \in Panels |-> None]
  /\ batch = [b \in Announcements |-> [st |-> "idle", members |-> {}]]
  /\ stream = [s \in Spoken |-> [st |-> "idle", members |-> {}, started |-> FALSE,
                                 cut |-> FALSE]]
  /\ playing = [p \in Panels |-> None]
  /\ turns = <<>> /\ doing = Nothing /\ troubles \in 0 .. MaxTroubles

CallStep(c) ==
  IF c \in Replies THEN ReplyFetched(c)
  ELSE WindowCloses(c) \/ Fetched(c) \/ BatchAnswers(c) \/ AnnouncementEnds(c)

TurnStep ==
  \/ LeaveResumes \/ LeaveEnds
  \/ /\ turns # <<>>
     /\ LET t == Head(turns) IN
        IF t.kind = "start"
        THEN ClearPanel(t.of) \/ Form(t.of) \/ StartEnds(t.of)
        ELSE TakeTurn(t) \/ EndTurn(t)

TaskStep(s) == Flows(s) \/ PlaysOut(s) \/ CutOff(s) \/ TaskEnds(s)

VoiceNext ==
  \/ \E p \in Roaming :
       Connect(p) \/ Disconnect(p) \/ PlayerComesAndGoes(p) \/ LinkCloses(p) \/ PanelAsks(p)
  \/ \E c \in Announcements : Announce(c) \/ PanelReportsPlayed(c) \/ Cancel(c)
  \/ \E c \in Replies : Reply(c)
  \/ \E c \in Spoken : CallStep(c) \/ CancelInTurn(c) \/ TaskStep(c)
  \/ TurnStep

\* The event loop gives every task its turn; a fetch, a drain, an announcement
\* and a clip are all of bounded length.
VoiceFairness ==
  /\ \A c \in Spoken : WF_voiceVars(CallStep(c)) /\ WF_voiceVars(TaskStep(c))
  /\ WF_voiceVars(TurnStep)

VoiceSpec == VoiceInit /\ [][VoiceNext]_voiceVars /\ VoiceFairness

-----------------------------------------------------------------------------
(* Properties. *)

\* A panel is told the end of what it plays before it is told to play anything
\* else on the same link, whoever ends the first and however it is cut off.
EndPrecedesNext ==
  [][\A p \in Panels :
       /\ link'[p].told \notin {link[p].told, None}
       /\ link'[p].n = link[p].n
       => link[p].told = None]_voiceVars

\* An announcement whose call has returned plays on no panel, unless the call
\* was cancelled in the middle of its own withdrawal.
ReturnedIsSilent ==
  \A c \in Announcements :
    spoken[c].st = "over" /\ ~spoken[c].aborted =>
      \A s \in Spoken : \A m \in stream[s].members : m.call # c

\* Every announcement's call returns: no start, withdrawal, reset or stop waits
\* for ever with the lock, and none for the other.
AnnouncementReturns ==
  \A c \in Announcements : spoken[c].st # "idle" ~> spoken[c].st = "over"
=============================================================================
