---------------------------- MODULE Traffic_proofs ----------------------------
(***************************************************************************)
(* What travels on a panel's session, and what its conversations turn      *)
(* down, for any numbers of commands, calls, panels, relays and players:   *)
(*                                                                         *)
(*   commands   SessionCommands: a caller that still waits can be reached. *)
(*   speech     VoiceStream: an announcement whose call has returned plays *)
(*              nowhere, and a panel hears the end of what it plays before *)
(*              it is told to play anything else.                          *)
(*   relays     UiRelay: types, and what the panel has open is wanted.     *)
(*   rooms      RoomDuck: a player turned down is remembered.              *)
(*                                                                         *)
(* Each part states its inductive invariant, one lemma for every step or   *)
(* kind of step, and then its theorems.                                    *)
(***************************************************************************)
EXTENDS SessionCommands, VoiceStream, UiRelay, RoomDuck, Integers,
        SequenceTheorems, TLAPS

-----------------------------------------------------------------------------
(***************************************************************************)
(* Commands of a session.                                                  *)
(***************************************************************************)
Reachable(c) == Waiting(c) /\ command[c].future = "unset" => live /\ c \in pending

\* late is left out: what it holds is never needed, only that an entry of the
\* table of commands is settled or not.
CommandInv ==
  /\ {live, begun, complete, raised} \subseteq BOOLEAN
  /\ lastEvent \in Nat
  /\ command \in [Commands -> CommandRecords]
  /\ pending \subseteq Commands
  /\ \A c \in Commands : Reachable(c)

LEMMA CommandInitial == Init => CommandInv
<1> DEFINE r == [on_interim |-> FALSE, caller |-> "idle", cancelling |-> FALSE,
                 future |-> "unset", scope |-> "off", approval_pending |-> FALSE,
                 lends |-> FALSE, lent |-> FALSE, onSettled |-> FALSE]
<1>1. r \in CommandRecords /\ r.caller # "waiting"
  BY DEF CommandRecords, Callers
<1> SUFFICES ASSUME Init PROVE CommandInv
  OBVIOUS
<1>2. command = [c \in Commands |-> r]
  BY DEF Init
<1> HIDE DEF r
<1>3. \A c \in Commands : command[c] = r
  BY <1>2
<1>4. command \in [Commands -> CommandRecords]
  BY <1>1, <1>2
<1>5. \A c \in Commands : Reachable(c)
  BY <1>1, <1>3 DEF Reachable, Waiting
<1> QED BY <1>4, <1>5 DEF Init, CommandInv

\* What a record is once it has been settled.
LEMMA SettledKeeps ==
  ASSUME NEW r \in CommandRecords
  PROVE  /\ Settled(r) \in CommandRecords
         /\ Settled(r).caller = r.caller /\ Settled(r).future = r.future
BY DEF Settled, CommandRecords

\* Where a command is settled or not, its caller and its future stay.
SameWaits(cmds, cmds2) ==
  /\ cmds2 \in [Commands -> CommandRecords]
  /\ \A c \in Commands :
       cmds2[c].caller = cmds[c].caller /\ cmds2[c].future = cmds[c].future

LEMMA SettledOneKeeps ==
  ASSUME NEW cmds \in [Commands -> CommandRecords], NEW c, NEW cmds2,
         cmds2 = [cmds EXCEPT ![c] = Settled(@)]
  PROVE  SameWaits(cmds, cmds2)
<1>1. \A d \in Commands : cmds[d] \in CommandRecords
  OBVIOUS
<1>2. \A d \in Commands : cmds2[d] = IF d = c THEN Settled(cmds[d]) ELSE cmds[d]
  OBVIOUS
<1>3. \A d \in Commands : cmds2[d] \in CommandRecords
                          /\ cmds2[d].caller = cmds[d].caller
                          /\ cmds2[d].future = cmds[d].future
  BY <1>1, <1>2, SettledKeeps
<1>4. cmds2 = [d \in Commands |-> cmds2[d]]
  OBVIOUS
<1>5. cmds2 \in [Commands -> CommandRecords]
  BY <1>3, <1>4
<1> QED BY <1>3, <1>5 DEF SameWaits

LEMMA KeptLateKeeps ==
  ASSUME NEW q, NEW cmds \in [Commands -> CommandRecords]
  PROVE  SameWaits(cmds, KeptLate(q, cmds)[2])
<1>1. CASE Len(q) > MaxLateCommands
  <2>1. KeptLate(q, cmds)[2] = [cmds EXCEPT ![Head(q)] = Settled(@)]
    BY <1>1 DEF KeptLate
  <2> QED BY <2>1, SettledOneKeeps
<1>2. CASE ~(Len(q) > MaxLateCommands)
  BY <1>2 DEF KeptLate, SameWaits
<1> QED BY <1>1, <1>2

\* A session that stays, and whose waits stay, keeps its waiters reachable.
LEMMA SameWaitsReach ==
  ASSUME CommandInv, SameWaits(command, command'), live' = live, pending' = pending
  PROVE  /\ command' \in [Commands -> CommandRecords]
         /\ \A c \in Commands : Reachable(c)'
BY DEF CommandInv, SameWaits, Reachable, Waiting

-----------------------------------------------------------------------------
(* One lemma for each thing that happens to a command. *)

LEMMA SendReaches ==
  ASSUME CommandInv, NEW c \in Commands,
         NEW interim \in BOOLEAN, NEW synced \in BOOLEAN, NEW lends \in BOOLEAN,
         Send(c, interim, synced, lends)
  PROVE  CommandInv'
<1> DEFINE r == [command[c] EXCEPT !.on_interim = interim, !.caller = "waiting",
                                   !.scope = "entered", !.lends = lends,
                                   !.lent = lends, !.onSettled = lends]
<1>1. command[c] \in CommandRecords
  BY DEF CommandInv
<1>2. r \in CommandRecords
  BY <1>1 DEF CommandRecords, Callers
<1>3. command' = [command EXCEPT ![c] = r]
  BY DEF Send
<1> HIDE DEF r
<1>4. /\ command' \in [Commands -> CommandRecords]
      /\ \A d \in Commands \ {c} : command'[d] = command[d]
  BY <1>2, <1>3 DEF CommandInv
<1>5. live /\ pending' = pending \cup {c} /\ UNCHANGED <<live, syncVars, lastEvent, raised>>
  BY DEF Send
<1>6. \A d \in Commands : Reachable(d)'
  BY <1>4, <1>5 DEF CommandInv, Reachable, Waiting
<1> QED BY <1>4, <1>5, <1>6 DEF CommandInv, syncVars

LEMMA FinalReaches ==
  ASSUME CommandInv, NEW c \in Commands, NEW outcome \in Final,
         FinalResult(c, outcome)
  PROVE  CommandInv'
<1>1. command[c] \in CommandRecords
  BY DEF CommandInv
<1>2. UNCHANGED <<live, syncVars, lastEvent, raised>>
  BY DEF FinalResult
<1>3. CASE c \in pending
  <2> DEFINE r == [command[c] EXCEPT !.future = FutureSet(command[c], outcome)]
  <2>1. r \in CommandRecords /\ r.future # "unset"
    BY <1>1 DEF CommandRecords, FutureSet, Final
  <2>2. command' = [command EXCEPT ![c] = r] /\ pending' = pending \ {c}
    BY <1>3 DEF FinalResult
  <2> HIDE DEF r
  <2>3. /\ command' \in [Commands -> CommandRecords]
        /\ command'[c] = r
        /\ \A d \in Commands \ {c} : command'[d] = command[d]
    BY <2>1, <2>2 DEF CommandInv
  <2>4. \A d \in Commands : Reachable(d)'
    BY <1>2, <2>1, <2>2, <2>3 DEF CommandInv, Reachable, Waiting
  <2> QED BY <1>2, <2>2, <2>3, <2>4 DEF CommandInv, syncVars
<1>4. CASE c \notin pending
  <2>1. command' = [command EXCEPT ![c] = Settled(@)] /\ pending' = pending
    BY <1>4 DEF FinalResult, AnsweredLate
  <2>2. SameWaits(command, command')
    BY <2>1, SettledOneKeeps DEF CommandInv
  <2>3. live' = live
    BY <1>2
  <2> QED BY <1>2, <2>1, <2>2, <2>3, SameWaitsReach DEF CommandInv, syncVars
<1> QED BY <1>3, <1>4

LEMMA InterimReaches ==
  ASSUME CommandInv, NEW c \in Commands, InterimResult(c)
  PROVE  CommandInv'
<1>1. command[c] \in CommandRecords
  BY DEF CommandInv
<1>2. /\ UNCHANGED <<live, syncVars, lastEvent, pending, late>>
      /\ raised' \in BOOLEAN
      /\ command' = [command EXCEPT ![c].approval_pending = TRUE]
  BY DEF InterimResult, CommandInv
<1>3. SameWaits(command, command')
  BY <1>1, <1>2 DEF CommandInv, SameWaits, CommandRecords
<1>4. live' = live /\ pending' = pending
  BY <1>2
<1> QED BY <1>2, <1>3, <1>4, SameWaitsReach DEF CommandInv, syncVars

LEMMA TimerReaches ==
  ASSUME CommandInv, NEW c \in Commands, TimerFires(c) \/ CancelCaller(c)
  PROVE  CommandInv'
<1>1. command[c] \in CommandRecords
  BY DEF CommandInv
<1>2. /\ UNCHANGED <<live, syncVars, lastEvent, pending, late, raised>>
      /\ \/ command' = [command EXCEPT ![c].scope = "expiring"]
         \/ command' = [command EXCEPT ![c].cancelling = TRUE]
  BY DEF TimerFires, CancelCaller
<1>3. CASE command' = [command EXCEPT ![c].scope = "expiring"]
  <2>1. SameWaits(command, command')
    BY <1>1, <1>3 DEF CommandInv, SameWaits, CommandRecords
  <2> QED BY <1>2, <2>1, SameWaitsReach DEF CommandInv, syncVars
<1>4. CASE command' = [command EXCEPT ![c].cancelling = TRUE]
  <2>1. SameWaits(command, command')
    BY <1>1, <1>4 DEF CommandInv, SameWaits, CommandRecords
  <2> QED BY <1>2, <2>1, SameWaitsReach DEF CommandInv, syncVars
<1> QED BY <1>2, <1>3, <1>4

\* How a wait ended is never that it goes on.
LEMMA VerdictEnds ==
  ASSUME NEW r \in CommandRecords
  PROVE  Verdict(r) \in Callers \ {"waiting"}
<1>1. r.cancelling \in BOOLEAN /\ r.future \in {"unset", "none"} \cup Final
  BY DEF CommandRecords
<1>2. CASE r.cancelling
  BY <1>2 DEF Verdict, Callers, Final
<1>3. CASE ~r.cancelling /\ r.future = "none"
  BY <1>3 DEF Verdict, Callers, Final
<1>4. CASE ~r.cancelling /\ r.future \in Final
  BY <1>4 DEF Verdict, Callers, Final
<1>5. CASE ~r.cancelling /\ r.future = "unset"
  BY <1>5 DEF Verdict, Callers, Final
<1> QED BY <1>1, <1>2, <1>3, <1>4, <1>5

LEMMA ResumeReaches ==
  ASSUME CommandInv, NEW c \in Commands, Resume(c)
  PROVE  CommandInv'
<1> DEFINE r == command[c]
           kept == r.future = "unset" /\ Keeps(c)
           after == [r EXCEPT !.caller = Verdict(r), !.on_interim = FALSE,
                              !.scope = "off", !.cancelling = FALSE,
                              !.lent = LentAfter(r, kept)]
           cmds == [command EXCEPT ![c] = after]
           q == IF kept THEN Append(late, c) ELSE late
<1>1. /\ command' = KeptLate(q, cmds)[2]
      /\ pending' = IF r.future = "unset" THEN pending \ {c} ELSE pending
      /\ UNCHANGED <<live, syncVars, lastEvent, raised>>
  BY DEF Resume
<1>2. r \in CommandRecords /\ kept \in BOOLEAN
  BY DEF CommandInv
<1> HIDE DEF kept, q
<1>3. LentAfter(r, kept) \in BOOLEAN /\ Verdict(r) \in Callers \ {"waiting"}
  BY <1>2, VerdictEnds DEF LentAfter, CommandRecords
<1>4. after \in CommandRecords /\ after.caller # "waiting"
  BY <1>2, <1>3 DEF CommandRecords
<1> HIDE DEF after
<1>5. /\ cmds \in [Commands -> CommandRecords]
      /\ cmds[c] = after
      /\ \A d \in Commands \ {c} : cmds[d] = command[d]
  BY <1>4 DEF CommandInv
<1> HIDE DEF cmds
<1>6. SameWaits(cmds, command')
  BY <1>1, <1>5, KeptLateKeeps
<1>7. live' = live /\ pending' \subseteq Commands /\ pending \ {c} \subseteq pending'
  BY <1>1 DEF CommandInv
<1>8. \A d \in Commands : Reachable(d)'
  BY <1>4, <1>5, <1>6, <1>7 DEF CommandInv, Reachable, Waiting, SameWaits
<1> QED BY <1>1, <1>6, <1>7, <1>8 DEF CommandInv, SameWaits, syncVars

LEMMA EndReaches ==
  ASSUME CommandInv, End
  PROVE  CommandInv'
<1> DEFINE ended(c) ==
      IF c \in pending
      THEN [command[c] EXCEPT !.future = FutureSet(command[c], "none")]
      ELSE IF InLate(c) THEN Settled(command[c]) ELSE command[c]
<1>1. ASSUME NEW c \in Commands
      PROVE  /\ ended(c) \in CommandRecords
             /\ ~(ended(c).caller = "waiting" /\ ended(c).future = "unset")
  <2>1. command[c] \in CommandRecords
    BY DEF CommandInv
  <2>2. CASE c \in pending
    BY <2>1, <2>2 DEF CommandRecords, FutureSet
  <2>3. CASE c \notin pending /\ InLate(c)
    BY <2>1, <2>3, SettledKeeps DEF CommandInv, Reachable, Waiting
  <2>4. CASE c \notin pending /\ ~InLate(c)
    BY <2>1, <2>4 DEF CommandInv, Reachable, Waiting
  <2> QED BY <2>2, <2>3, <2>4
<1>2. /\ command' = [c \in Commands |-> ended(c)]
      /\ pending' = {} /\ live' = FALSE
      /\ UNCHANGED <<syncVars, lastEvent, raised>>
  BY DEF End
<1> HIDE DEF ended
<1> QED BY <1>1, <1>2 DEF CommandInv, syncVars, Reachable, Waiting

LEMMA CommandStep == CommandInv /\ [Next]_vars => CommandInv'
<1> SUFFICES ASSUME CommandInv, [Next]_vars PROVE CommandInv'
  OBVIOUS
<1>1. ASSUME NEW sync \in {"full_begin", "full_end"}, ReportState(sync)
      PROVE  CommandInv'
  BY <1>1 DEF ReportState, CommandInv, commandVars, Reachable, Waiting
<1>2. ASSUME NEW id \in EventIds, ReportEvent(id)
      PROVE  CommandInv'
  <2>1. lastEvent' \in Nat
    BY <1>2, CommandsAssumption DEF ReportEvent
  <2> QED BY <1>2, <2>1 DEF ReportEvent, CommandInv, commandVars, syncVars, Reachable, Waiting
<1>3. CASE UNCHANGED vars
  BY <1>3 DEF vars, CommandInv, commandVars, syncVars, Reachable, Waiting
<1> QED
  BY <1>1, <1>2, <1>3, SendReaches, FinalReaches, InterimReaches, TimerReaches,
     ResumeReaches, EndReaches DEF Next

\* A caller that waits without an answer waits for a command in the table of a
\* live session, where an outcome or the session's end finds it: async_deliver,
\* ws_command_result, _stop_waiting and _forget leave no wait behind
\* (transport_sessions.py).
THEOREM WaitsAreReachable == Spec => []WaiterIsReachable
<1>1. Init => CommandInv
  BY CommandInitial
<1>2. CommandInv /\ [Next]_vars => CommandInv'
  BY CommandStep
<1>3. CommandInv => WaiterIsReachable
  BY DEF CommandInv, WaiterIsReachable, Reachable
<1> QED BY <1>1, <1>2, <1>3, PTL DEF Spec

-----------------------------------------------------------------------------
(***************************************************************************)
(* Speech.                                                                 *)
(***************************************************************************)
Links == [n : Nat, session : Nat, here : BOOLEAN, open : BOOLEAN, paired : Nat,
          told : Spoken \cup {None}]
MemberRecords == [call : Spoken, link : Nat]
Streams == [st : {"idle", "forming", "flowing", "ending", "over"},
            members : SUBSET MemberRecords, started : BOOLEAN, cut : BOOLEAN]
Stations == {"idle", "gathering", "waiting", "withdrawing", "fetching", "starting", "over"}
SpokenRecords == [st : Stations, pending : BOOLEAN, session : Nat, aborted : BOOLEAN]
Batches == [st : {"idle", "open", "fetching", "starting", "done"}, members : SUBSET Announcements]
Tickets ==
  [kind : {"start"}, of : Spoken]
  \cup [kind : {"withdraw"}, of : Announcements]
  \cup [kind : {"reset"}, panel : Panels, link : Nat]
  \cup [kind : {"stop"}, panel : Panels, of : Spoken]
Doings == [at : {"free", "waits", "removes", "drains", "left", "starts"},
           todo : SUBSET Spoken, visited : SUBSET Panels,
           of : Spoken \cup {None}, panel : Panels \cup {None}]

VoiceTypes ==
  /\ link \in [Panels -> Links]
  /\ spoken \in [Spoken -> SpokenRecords]
  /\ batch \in [Announcements -> Batches]
  /\ stream \in [Spoken -> Streams]
  /\ playing \in [Panels -> Spoken \cup {None}]
  /\ turns \in Seq(Tickets)
  /\ doing \in Doings

\* A member of a stream is on a panel that plays that stream.
MembersPlay ==
  \A s \in Spoken : \A m \in stream[s].members : playing[Target[m.call]] = s

\* Who is in a batch waits for what becomes of it.
MembersGather ==
  \A b \in Announcements : \A c \in batch[b].members : spoken[c].st = "gathering"

\* Who withdraws in the queue is withdrawing, or was cut off.
Withdrawn ==
  \A i \in DOMAIN turns :
    turns[i].kind = "withdraw" => spoken[turns[i].of].st \in {"withdrawing", "over"}

LeavingNow == doing.at \in {"waits", "removes", "drains"}

\* A panel the holder has been to is free, or is being freed.
VisitedAreFree ==
  /\ \A p \in doing.visited :
       (LeavingNow /\ p = doing.panel) \/ \A s \in Spoken : On(s, p) = {}
  /\ LeavingNow =>
       /\ doing.of \in Spoken /\ doing.panel \in doing.visited
       /\ playing[doing.panel] \in {doing.of, None}

\* Who is at something has the lock, and one that is no start has been to its panel.
HolderHolds ==
  doing.at # "free" =>
    /\ turns # <<>>
    /\ Head(turns).kind # "start" => PanelOf(Head(turns)) \in doing.visited
    /\ doing.at = "starts" => Head(turns).kind = "start"

\* What a link was told to play has the panel as a member, on that link.
ToldAreMembers ==
  \A p \in Panels :
    link[p].told # None => \E m \in On(link[p].told, p) : m.link = link[p].n

\* A stream has members only once its start has begun it.
Due(s) == IF s \in Replies THEN spoken[s].st = "starting" ELSE batch[s].st = "starting"
Done(s) == IF s \in Replies THEN spoken[s].st = "over" ELSE batch[s].st = "done"
StartOf(s) == [kind |-> "start", of |-> s]
BegunNow(s) == turns # <<>> /\ Head(turns) = StartOf(s) /\ doing.at = "starts"

StartsOnce ==
  /\ \A i \in DOMAIN turns, s \in Spoken : turns[i] = StartOf(s) => Due(s)
  /\ \A i, j \in DOMAIN turns : turns[i].kind = "start" /\ turns[j] = turns[i] => i = j
  /\ \A s \in Spoken : stream[s].members # {} => BegunNow(s) \/ Done(s)
  /\ \A c \in Announcements : spoken[c].st = "idle" => batch[c].st = "idle"

VoiceInv ==
  /\ VoiceTypes /\ MembersPlay /\ MembersGather /\ Withdrawn /\ VisitedAreFree
  /\ HolderHolds /\ ToldAreMembers /\ StartsOnce /\ ReturnedIsSilent

LEMMA TicketFacts ==
  /\ \A s \in Spoken : StartOf(s) \in Tickets /\ StartOf(s).kind = "start" /\ StartOf(s).of = s
  /\ \A c \in Announcements : [kind |-> "withdraw", of |-> c] \in Tickets
  /\ \A t \in Tickets :
       /\ t.kind \in {"start", "withdraw", "reset", "stop"}
       /\ t.kind = "start" => t = StartOf(t.of) /\ t.of \in Spoken
       /\ t.kind = "withdraw" => t.of \in Announcements
       /\ t.kind = "reset" => t.panel \in Panels /\ t.link \in Nat
       /\ t.kind = "stop" => t.panel \in Panels /\ t.of \in Spoken
<1>1. \A s \in Spoken : StartOf(s) \in Tickets /\ StartOf(s).kind = "start" /\ StartOf(s).of = s
  BY DEF StartOf, Tickets
<1>2. \A c \in Announcements : [kind |-> "withdraw", of |-> c] \in Tickets
  BY DEF Tickets
<1>3. ASSUME NEW t \in Tickets
      PROVE  /\ t.kind \in {"start", "withdraw", "reset", "stop"}
             /\ t.kind = "start" => t = StartOf(t.of) /\ t.of \in Spoken
             /\ t.kind = "withdraw" => t.of \in Announcements
             /\ t.kind = "reset" => t.panel \in Panels /\ t.link \in Nat
             /\ t.kind = "stop" => t.panel \in Panels /\ t.of \in Spoken
  <2>1. CASE t \in [kind : {"start"}, of : Spoken]
    BY <2>1 DEF StartOf
  <2>2. CASE t \in [kind : {"withdraw"}, of : Announcements]
    BY <2>2
  <2>3. CASE t \in [kind : {"reset"}, panel : Panels, link : Nat]
    BY <2>3
  <2>4. CASE t \in [kind : {"stop"}, panel : Panels, of : Spoken]
    BY <2>4
  <2> QED BY <2>1, <2>2, <2>3, <2>4 DEF Tickets
<1> QED BY <1>1, <1>2, <1>3

\* The queue with one more in it.
LEMMA OneMore ==
  ASSUME NEW q \in Seq(Tickets), NEW t \in Tickets, NEW q2, q2 = Append(q, t)
  PROVE  /\ q2 \in Seq(Tickets) /\ q2 # <<>>
         /\ q # <<>> => Head(q2) = Head(q)
         /\ \A i \in DOMAIN q : i \in DOMAIN q2 /\ q2[i] = q[i]
         /\ \A i \in DOMAIN q2 : i \in DOMAIN q \/ (i = Len(q) + 1 /\ q2[i] = t)
OBVIOUS

\* What is left of the queue is what was in it, each once.
LeftOf(q, r) ==
  /\ r \in Seq(Tickets)
  /\ \E f \in [DOMAIN r -> DOMAIN q] :
       /\ \A j \in DOMAIN r : r[j] = q[f[j]]
       /\ \A j, k \in DOMAIN r : f[j] = f[k] => j = k

LEMMA OneLess ==
  ASSUME NEW q \in Seq(Tickets), q # <<>>
  PROVE  /\ LeftOf(q, Tail(q))
         /\ Head(q) \in Tickets /\ 1 \in DOMAIN q /\ q[1] = Head(q)
         /\ \A i \in DOMAIN Tail(q) : i # 0 /\ i + 1 \in DOMAIN q /\ i + 1 # 1 /\ Tail(q)[i] = q[i + 1]
<1>1. /\ Tail(q) \in Seq(Tickets) /\ Len(q) \in Nat \ {0}
      /\ DOMAIN q = 1 .. Len(q) /\ DOMAIN Tail(q) = 1 .. Len(q) - 1
      /\ \A i \in 1 .. Len(q) - 1 : Tail(q)[i] = q[i + 1]
  OBVIOUS
<1> DEFINE f == [i \in DOMAIN Tail(q) |-> i + 1]
<1>2. /\ f \in [DOMAIN Tail(q) -> DOMAIN q]
      /\ \A j \in DOMAIN Tail(q) : Tail(q)[j] = q[f[j]]
      /\ \A j, k \in DOMAIN Tail(q) : f[j] = f[k] => j = k
  BY <1>1
<1>3. LeftOf(q, Tail(q))
  BY <1>1, <1>2 DEF LeftOf
<1>4. Head(q) \in Tickets /\ 1 \in DOMAIN q /\ q[1] = Head(q)
  BY <1>1
<1> QED BY <1>1, <1>3, <1>4

LEMMA Joined ==
  ASSUME NEW S, NEW a \in Seq(S), NEW b \in Seq(S)
  PROVE  /\ a \o b \in Seq(S) /\ Len(a \o b) = Len(a) + Len(b)
         /\ \A j \in 1 .. Len(a) + Len(b) :
              (a \o b)[j] = IF j <= Len(a) THEN a[j] ELSE b[j - Len(a)]
OBVIOUS

LEMMA OneTakenOut ==
  ASSUME NEW q \in Seq(Tickets), NEW i \in DOMAIN q
  PROVE  /\ LeftOf(q, RemoveAt(q, i))
         /\ i # 1 => RemoveAt(q, i) # <<>> /\ Head(RemoveAt(q, i)) = Head(q)
         /\ \A j \in DOMAIN RemoveAt(q, i) : \E k \in DOMAIN q : k # i /\ RemoveAt(q, i)[j] = q[k]
<1> DEFINE r == RemoveAt(q, i)
           a == SubSeq(q, 1, i - 1)
           b == SubSeq(q, i + 1, Len(q))
<1>1. i \in Nat /\ Len(q) \in Nat /\ 1 <= i /\ i <= Len(q) /\ DOMAIN q = 1 .. Len(q)
  OBVIOUS
<1>2. /\ a \in Seq(Tickets) /\ Len(a) = i - 1
      /\ \A j \in 1 .. i - 1 : a[j] = q[j]
  BY <1>1
<1>3. /\ b \in Seq(Tickets) /\ Len(b) = Len(q) - i
      /\ \A j \in 1 .. Len(q) - i : b[j] = q[i + j]
  BY <1>1
<1>4. r = a \o b
  BY DEF RemoveAt
<1> HIDE DEF a, b, r
<1>5. /\ r \in Seq(Tickets) /\ Len(r) = Len(q) - 1
      /\ \A j \in 1 .. Len(r) : r[j] = IF j <= i - 1 THEN a[j] ELSE b[j - (i - 1)]
  <2>1. /\ r \in Seq(Tickets) /\ Len(r) = Len(a) + Len(b)
        /\ \A j \in 1 .. Len(a) + Len(b) :
             r[j] = IF j <= Len(a) THEN a[j] ELSE b[j - Len(a)]
    BY <1>2, <1>3, <1>4, Joined
  <2> QED BY <1>1, <1>2, <1>3, <2>1
<1>6. \A j \in 1 .. Len(q) - 1 : r[j] = q[IF j < i THEN j ELSE j + 1]
  <2> SUFFICES ASSUME NEW j \in 1 .. Len(q) - 1 PROVE r[j] = q[IF j < i THEN j ELSE j + 1]
    OBVIOUS
  <2>1. CASE j < i
    BY <1>1, <1>2, <1>5, <2>1
  <2>2. CASE ~(j < i)
    <3> DEFINE k == j - (i - 1)
    <3>1. k \in 1 .. Len(q) - i /\ i + k = j + 1
      BY <1>1, <2>2
    <3>2. r[j] = b[k]
      BY <1>1, <1>5, <2>2
    <3> HIDE DEF k
    <3>3. b[k] = q[i + k]
      BY <1>3, <3>1
    <3> QED BY <2>2, <3>1, <3>2, <3>3
  <2> QED BY <2>1, <2>2
<1> DEFINE f == [j \in DOMAIN r |-> IF j < i THEN j ELSE j + 1]
<1>7. /\ f \in [DOMAIN r -> DOMAIN q]
      /\ \A j \in DOMAIN r : r[j] = q[f[j]] /\ f[j] # i /\ f[j] \in DOMAIN q
      /\ \A j, k \in DOMAIN r : f[j] = f[k] => j = k
  BY <1>1, <1>5, <1>6
<1>8. LeftOf(q, r)
  BY <1>5, <1>7 DEF LeftOf
<1>9. i # 1 => r # <<>> /\ Head(r) = Head(q)
  BY <1>1, <1>5, <1>6
<1> QED BY <1>7, <1>8, <1>9 DEF r

LEMMA HeardKeeps ==
  ASSUME NEW r \in SpokenRecords
  PROVE  Heard(r) \in SpokenRecords /\ Heard(r).st = r.st /\ Heard(r).aborted = r.aborted
BY DEF Heard, SpokenRecords

-----------------------------------------------------------------------------
(* What calls do. *)

\* Nothing that held of where the calls and the batches stand is undone.
CallsMove ==
  /\ spoken' \in [Spoken -> SpokenRecords]
  /\ batch' \in [Announcements -> Batches]
  /\ MembersGather'
  /\ \A c \in Announcements :
       /\ spoken[c].st \in {"withdrawing", "over"} => spoken'[c].st \in {"withdrawing", "over"}
       /\ spoken'[c].st = "over" /\ ~spoken'[c].aborted
            => spoken[c].st = "over" /\ ~spoken[c].aborted
       /\ spoken'[c].st = "idle" => batch'[c].st = "idle"
  /\ \A s \in Spoken : (Due(s) => Due(s)') /\ (Done(s) => Done(s)')

\* The queue as it was, or with one more that stands for what its call does.
TurnsGrow ==
  \/ turns' = turns
  \/ \E t \in Tickets :
       /\ turns' = Append(turns, t)
       /\ t.kind = "withdraw" => spoken'[t.of].st = "withdrawing"
       /\ t.kind = "start" => ~Due(t.of) /\ Due(t.of)'

\* What is told to panels is as it was, or told to no one any more.
LinksMove ==
  /\ link' \in [Panels -> Links]
  /\ \A p \in Panels :
       link'[p].told = None \/ (link'[p].told = link[p].told /\ link'[p].n = link[p].n)

LEMMA CallsKeep ==
  ASSUME VoiceInv, CallsMove, TurnsGrow, LinksMove, UNCHANGED <<stream, playing, doing>>
  PROVE  VoiceInv'
<1> USE DEF VoiceInv
<1>1. turns' \in Seq(Tickets)
  BY OneMore DEF TurnsGrow, VoiceTypes
<1>2. VoiceTypes'
  BY <1>1 DEF VoiceTypes, CallsMove, LinksMove
<1>3. MembersPlay'
  BY DEF MembersPlay
<1>4. MembersGather'
  BY DEF CallsMove
<1>5. Withdrawn'
  <2>1. CASE turns' = turns
    BY <2>1, TicketFacts DEF Withdrawn, CallsMove, VoiceTypes
  <2>2. ASSUME NEW t \in Tickets, turns' = Append(turns, t),
               t.kind = "withdraw" => spoken'[t.of].st = "withdrawing"
        PROVE  Withdrawn'
    <3> SUFFICES ASSUME NEW i \in DOMAIN turns', turns'[i].kind = "withdraw"
                 PROVE  spoken'[turns'[i].of].st \in {"withdrawing", "over"}
      BY DEF Withdrawn
    <3>1. (i \in DOMAIN turns /\ turns'[i] = turns[i]) \/ turns'[i] = t
      BY <2>2, OneMore DEF VoiceTypes
    <3>2. CASE i \in DOMAIN turns /\ turns'[i] = turns[i]
      <4>1. turns[i].of \in Announcements
        BY <3>2, TicketFacts DEF VoiceTypes
      <4> QED BY <3>2, <4>1 DEF Withdrawn, CallsMove
    <3> QED BY <2>2, <3>1, <3>2
  <2> QED BY <2>1, <2>2 DEF TurnsGrow
<1>6. VisitedAreFree'
  BY DEF VisitedAreFree, LeavingNow, On
<1>7. turns # <<>> => turns' # <<>> /\ Head(turns') = Head(turns)
  BY OneMore DEF TurnsGrow, VoiceTypes
<1>8. HolderHolds'
  BY <1>7 DEF HolderHolds, PanelOf
<1>9. ToldAreMembers'
  BY DEF ToldAreMembers, LinksMove, On
<1>10. StartsOnce'
  <2>1. \A i \in DOMAIN turns', s \in Spoken : turns'[i] = StartOf(s) => Due(s)'
    <3>1. CASE turns' = turns
      BY <3>1 DEF StartsOnce, CallsMove
    <3>2. ASSUME NEW t \in Tickets, turns' = Append(turns, t),
                 t.kind = "start" => Due(t.of)',
                 NEW i \in DOMAIN turns', NEW s \in Spoken, turns'[i] = StartOf(s)
          PROVE  Due(s)'
      <4>1. (i \in DOMAIN turns /\ turns'[i] = turns[i]) \/ turns'[i] = t
        BY <3>2, OneMore DEF VoiceTypes
      <4>2. CASE i \in DOMAIN turns /\ turns'[i] = turns[i]
        BY <3>2, <4>2 DEF StartsOnce, CallsMove
      <4>3. CASE turns'[i] = t
        <5>1. t.kind = "start" /\ t.of = s
          BY <3>2, <4>3, TicketFacts
        <5> QED BY <3>2, <5>1
      <4> QED BY <4>1, <4>2, <4>3
    <3> QED BY <3>1, <3>2 DEF TurnsGrow
  <2>2. \A i, j \in DOMAIN turns' :
          turns'[i].kind = "start" /\ turns'[j] = turns'[i] => i = j
    <3>1. CASE turns' = turns
      BY <3>1 DEF StartsOnce
    <3>2. ASSUME NEW t \in Tickets, turns' = Append(turns, t),
                 t.kind = "start" => ~Due(t.of),
                 NEW i \in DOMAIN turns', NEW j \in DOMAIN turns',
                 turns'[i].kind = "start", turns'[j] = turns'[i]
          PROVE  i = j
      <4>1. /\ (i \in DOMAIN turns /\ turns'[i] = turns[i]) \/ (i = Len(turns) + 1 /\ turns'[i] = t)
            /\ (j \in DOMAIN turns /\ turns'[j] = turns[j]) \/ (j = Len(turns) + 1 /\ turns'[j] = t)
        BY <3>2, OneMore DEF VoiceTypes
      <4>2. \A k \in DOMAIN turns : turns[k].kind = "start" => Due(turns[k].of)
        BY TicketFacts DEF StartsOnce, VoiceTypes
      <4> QED BY <3>2, <4>1, <4>2 DEF StartsOnce
    <3> QED BY <3>1, <3>2 DEF TurnsGrow
  <2>3. \A s \in Spoken : stream'[s].members # {} => BegunNow(s)' \/ Done(s)'
    BY <1>7 DEF StartsOnce, CallsMove, BegunNow
  <2>4. \A c \in Announcements : spoken'[c].st = "idle" => batch'[c].st = "idle"
    BY DEF CallsMove
  <2> QED BY <2>1, <2>2, <2>3, <2>4 DEF StartsOnce
<1>11. ReturnedIsSilent'
  BY DEF ReturnedIsSilent, CallsMove
<1> QED BY <1>2, <1>3, <1>4, <1>5, <1>6, <1>8, <1>9, <1>10, <1>11

LEMMA VoiceInitial == VoiceInit => VoiceInv
<1> SUFFICES ASSUME VoiceInit PROVE VoiceInv
  OBVIOUS
<1>1. link \in [Panels -> Links] /\ \A p \in Panels : link[p].told = None
  BY DEF VoiceInit, Links
<1>2. spoken \in [Spoken -> SpokenRecords] /\ \A c \in Spoken : spoken[c].st \in {"idle", "over"}
  <2> DEFINE I == {[st |-> st, pending |-> FALSE, session |-> 0, aborted |-> FALSE] :
                    st \in {"idle", "over"}}
  <2>1. ASSUME NEW r \in I
        PROVE  r \in SpokenRecords /\ r.st \in {"idle", "over"}
    <3>1. PICK st \in {"idle", "over"} :
            r = [st |-> st, pending |-> FALSE, session |-> 0, aborted |-> FALSE]
      OBVIOUS
    <3> QED BY <3>1 DEF SpokenRecords, Stations
  <2>2. spoken \in [Spoken -> I]
    BY DEF VoiceInit
  <2> HIDE DEF I
  <2> QED BY <2>1, <2>2
<1>3. /\ batch \in [Announcements -> Batches]
      /\ \A b \in Announcements : batch[b].members = {} /\ batch[b].st = "idle"
  BY DEF VoiceInit, Batches
<1>4. stream \in [Spoken -> Streams] /\ \A s \in Spoken : stream[s].members = {}
  BY DEF VoiceInit, Streams
<1>5. playing \in [Panels -> Spoken \cup {None}]
  BY DEF VoiceInit
<1>6. doing \in Doings /\ doing.at = "free" /\ doing.visited = {}
  BY DEF VoiceInit, Nothing, Doings
<1>7. turns = <<>> /\ turns \in Seq(Tickets) /\ DOMAIN turns = {}
  BY DEF VoiceInit
<1>8. VoiceTypes
  BY <1>1, <1>2, <1>3, <1>4, <1>5, <1>6, <1>7 DEF VoiceTypes
<1>9. MembersPlay /\ MembersGather /\ ReturnedIsSilent
  BY <1>3, <1>4 DEF MembersPlay, MembersGather, ReturnedIsSilent
<1>10. Withdrawn /\ VisitedAreFree /\ HolderHolds
  BY <1>6, <1>7 DEF Withdrawn, VisitedAreFree, HolderHolds, LeavingNow
<1>11. ToldAreMembers /\ StartsOnce
  BY <1>1, <1>3, <1>4, <1>7 DEF ToldAreMembers, StartsOnce
<1> QED BY <1>8, <1>9, <1>10, <1>11 DEF VoiceInv

\* A call that hears its end stays where it is.
StationsStay ==
  /\ spoken' \in [Spoken -> SpokenRecords]
  /\ \A c \in Spoken : spoken'[c].st = spoken[c].st /\ spoken'[c].aborted = spoken[c].aborted

LEMMA StayingIsMoving ==
  ASSUME VoiceInv, StationsStay, batch' = batch
  PROVE  CallsMove
<1>1. MembersGather'
  BY DEF VoiceInv, VoiceTypes, StationsStay, MembersGather, Spoken, Batches
<1>2. \A s \in Spoken : (Due(s) => Due(s)') /\ (Done(s) => Done(s)')
  BY DEF StationsStay, Due, Done
<1>3. \A c \in Announcements :
        /\ spoken[c].st = spoken'[c].st /\ spoken'[c].aborted = spoken[c].aborted
        /\ spoken[c].st = "idle" => batch[c].st = "idle"
  BY DEF VoiceInv, StationsStay, StartsOnce, Spoken
<1>4. batch' \in [Announcements -> Batches]
  BY DEF VoiceInv, VoiceTypes
<1> QED BY <1>1, <1>2, <1>3, <1>4 DEF CallsMove, StationsStay

\* One call that moves, and no other.
LEMMA OneMoves ==
  ASSUME VoiceInv, NEW c \in Spoken, NEW r \in SpokenRecords,
         spoken' = [spoken EXCEPT ![c] = r]
  PROVE  /\ spoken' \in [Spoken -> SpokenRecords]
         /\ spoken'[c] = r
         /\ \A d \in Spoken \ {c} : spoken'[d] = spoken[d]
BY DEF VoiceInv, VoiceTypes

LEMMA SessionChangedStays ==
  ASSUME VoiceInv, NEW p \in Panels, spoken' = SessionChanged(p)
  PROVE  StationsStay
<1>1. \A c \in Spoken : spoken[c] \in SpokenRecords
  BY DEF VoiceInv, VoiceTypes
<1> QED BY <1>1, HeardKeeps DEF SessionChanged, StationsStay

LEMMA AttachedIsFresh ==
  ASSUME NEW l \in Links
  PROVE  Attached(l) \in Links /\ Attached(l).told = None
<1>1. l.n + 1 \in Nat
  BY DEF Links
<1>2. \A n \in Nat : LET a == [l EXCEPT !.n = n, !.open = TRUE, !.told = None]
                     IN  a \in Links /\ a.told = None
  BY DEF Links
<1> QED BY <1>1, <1>2 DEF Attached

LEMMA ConnectMoves ==
  ASSUME VoiceInv, NEW p \in Panels, Connect(p) \/ Disconnect(p)
  PROVE  LinksMove
<1>1. link[p] \in Links
  BY DEF VoiceInv, VoiceTypes
<1>2. CASE Connect(p)
  <2> DEFINE w == [Attached(link[p]) EXCEPT !.here = TRUE, !.session = link[p].session + 1]
  <2>0. link[p].session + 1 \in Nat
    BY <1>1 DEF Links
  <2>1. w \in Links /\ w.told = None
    BY <1>1, <2>0, AttachedIsFresh DEF Links
  <2>2. link' = [link EXCEPT ![p] = w]
    BY <1>2 DEF Connect
  <2> HIDE DEF w
  <2> QED BY <2>1, <2>2 DEF VoiceInv, VoiceTypes, LinksMove
<1>3. CASE Disconnect(p)
  <2> DEFINE w == [link[p] EXCEPT !.here = FALSE, !.open = FALSE, !.told = None]
  <2>1. w \in Links /\ w.told = None
    BY <1>1 DEF Links
  <2>2. link' = [link EXCEPT ![p] = w]
    BY <1>3 DEF Disconnect
  <2> HIDE DEF w
  <2> QED BY <2>1, <2>2 DEF VoiceInv, VoiceTypes, LinksMove
<1> QED BY <1>2, <1>3

LEMMA LinkMoves ==
  ASSUME VoiceInv, NEW p \in Panels, PlayerComesAndGoes(p) \/ LinkCloses(p)
  PROVE  LinksMove
<1>1. CASE link' = [link EXCEPT ![p].paired = link[p].n]
  BY <1>1 DEF VoiceInv, VoiceTypes, LinksMove, Links
<1>2. CASE link' = [link EXCEPT ![p].paired = 0]
  BY <1>2 DEF VoiceInv, VoiceTypes, LinksMove, Links
<1>3. CASE link' = [link EXCEPT ![p].open = FALSE]
  BY <1>3 DEF VoiceInv, VoiceTypes, LinksMove, Links
<1> QED BY <1>1, <1>2, <1>3 DEF PlayerComesAndGoes, LinkCloses

LEMMA ConnectKeeps ==
  ASSUME VoiceInv, NEW p \in Panels, Connect(p) \/ Disconnect(p)
  PROVE  VoiceInv'
<1>1. LinksMove
  BY ConnectMoves
<1>2. StationsStay /\ batch' = batch
  BY SessionChangedStays DEF Connect, Disconnect
<1>3. TurnsGrow /\ UNCHANGED <<stream, playing, doing>>
  BY DEF Connect, Disconnect, TurnsGrow
<1> QED BY <1>1, <1>2, <1>3, StayingIsMoving, CallsKeep

LEMMA LinkKeeps ==
  ASSUME VoiceInv, NEW p \in Panels, PlayerComesAndGoes(p) \/ LinkCloses(p)
  PROVE  VoiceInv'
<1>1. LinksMove
  BY LinkMoves
<1>2. UNCHANGED <<spoken, batch, turns, stream, playing, doing>>
  BY DEF PlayerComesAndGoes, LinkCloses
<1>3. StationsStay /\ TurnsGrow
  BY <1>2 DEF StationsStay, TurnsGrow, VoiceInv, VoiceTypes
<1> QED BY <1>1, <1>2, <1>3, StayingIsMoving, CallsKeep

LEMMA LinksStay ==
  ASSUME VoiceInv, link' = link
  PROVE  LinksMove
BY DEF LinksMove, VoiceInv, VoiceTypes

LEMMA PanelAsksKeeps ==
  ASSUME VoiceInv, NEW p \in Panels, PanelAsks(p)
  PROVE  VoiceInv'
<1>1. UNCHANGED <<link, spoken, batch, stream, playing, doing>>
  BY DEF PanelAsks
<1>2. TurnsGrow
  <2>1. CASE turns' = Append(turns, [kind |-> "reset", panel |-> p, link |-> link[p].n])
    <3> DEFINE t == [kind |-> "reset", panel |-> p, link |-> link[p].n]
    <3>1. t \in Tickets /\ t.kind = "reset"
      BY DEF VoiceInv, VoiceTypes, Links, Tickets
    <3> HIDE DEF t
    <3>2. turns' = Append(turns, t)
      BY <2>1 DEF t
    <3> QED BY <3>1, <3>2 DEF TurnsGrow
  <2>2. CASE /\ link[p].told # None
             /\ turns' = Append(turns, [kind |-> "stop", panel |-> p, of |-> link[p].told])
    <3> DEFINE t == [kind |-> "stop", panel |-> p, of |-> link[p].told]
    <3>1. t \in Tickets /\ t.kind = "stop"
      BY <2>2 DEF VoiceInv, VoiceTypes, Links, Tickets
    <3> HIDE DEF t
    <3>2. turns' = Append(turns, t)
      BY <2>2 DEF t
    <3> QED BY <3>1, <3>2 DEF TurnsGrow
  <2> QED BY <2>1, <2>2 DEF PanelAsks
<1>3. StationsStay
  BY <1>1 DEF StationsStay, VoiceInv, VoiceTypes
<1> QED BY <1>1, <1>2, <1>3, LinksStay, StayingIsMoving, CallsKeep

LEMMA PlayedKeeps ==
  ASSUME VoiceInv, NEW c \in Announcements, PanelReportsPlayed(c)
  PROVE  VoiceInv'
<1>1. spoken[c] \in SpokenRecords /\ c \in Spoken
  BY DEF VoiceInv, VoiceTypes, Spoken
<1>2. spoken' = [spoken EXCEPT ![c] = Heard(spoken[c])]
  BY DEF PanelReportsPlayed
<1>3. StationsStay
  BY <1>1, <1>2, HeardKeeps, OneMoves DEF StationsStay
<1>4. UNCHANGED <<link, batch, turns, stream, playing, doing>>
  BY DEF PanelReportsPlayed
<1>5. TurnsGrow
  BY <1>4 DEF TurnsGrow
<1> QED BY <1>3, <1>4, <1>5, LinksStay, StayingIsMoving, CallsKeep

LEMMA AnnounceKeeps ==
  ASSUME VoiceInv, NEW c \in Announcements, Announce(c)
  PROVE  VoiceInv'
<1> DEFINE r == [spoken[c] EXCEPT !.st = IF Ready(Target[c]) THEN "gathering" ELSE "waiting",
                                  !.pending = TRUE, !.session = link[Target[c]].session]
<1>1. /\ spoken[c] \in SpokenRecords /\ c \in Spoken /\ c \notin Replies
      /\ spoken[c].st = "idle" /\ batch[c].st = "idle" /\ Target[c] \in Panels
  BY VoiceAssumption DEF VoiceInv, VoiceTypes, Spoken, Announce, StartsOnce
<1>2. /\ r \in SpokenRecords
      /\ r.st = IF Ready(Target[c]) THEN "gathering" ELSE "waiting"
  BY <1>1 DEF VoiceInv, VoiceTypes, SpokenRecords, Stations, Links
<1>3. spoken' = [spoken EXCEPT ![c] = r]
  BY DEF Announce
<1> HIDE DEF r
<1>4. /\ spoken' \in [Spoken -> SpokenRecords]
      /\ spoken'[c] = r
      /\ \A d \in Spoken \ {c} : spoken'[d] = spoken[d]
  BY <1>1, <1>2, <1>3, OneMoves
<1>5. UNCHANGED <<link, turns, stream, playing, doing>>
  BY DEF Announce
<1>6. \A b \in Announcements : c \notin batch[b].members
  BY <1>1 DEF VoiceInv, MembersGather
<1>7. CallsMove
  <2>1. CASE ~Ready(Target[c])
    <3>1. batch' = batch
      BY <2>1 DEF Announce
    <3> QED BY <1>1, <1>2, <1>4, <1>6, <2>1, <3>1
        DEF CallsMove, VoiceInv, VoiceTypes, MembersGather, StartsOnce, Due, Done, Spoken, Batches
  <2>2. CASE Ready(Target[c])
    <3> DEFINE b == IF OpenBatches(c) = {} THEN c ELSE CHOOSE b \in OpenBatches(c) : TRUE
    <3>0. batch' = [batch EXCEPT ![b] = [batch[b] EXCEPT !.st = "open", !.members = @ \cup {c}]]
      BY <2>2 DEF Announce
    <3>1. b \in Announcements /\ (b = c \/ batch[b].st = "open")
      BY DEF OpenBatches
    <3> HIDE DEF b
    <3>2. batch[b] \in Batches /\ batch[b].st \in {"idle", "open"}
      BY <1>1, <3>1 DEF VoiceInv, VoiceTypes
    <3> DEFINE w == [batch[b] EXCEPT !.st = "open", !.members = @ \cup {c}]
    <3>3. w \in Batches /\ w.st = "open" /\ w.members = batch[b].members \cup {c}
      BY <3>2 DEF Batches
    <3>4. batch' = [batch EXCEPT ![b] = w]
      BY <3>0
    <3> HIDE DEF w
    <3>5. /\ batch' \in [Announcements -> Batches] /\ batch'[b] = w
          /\ \A d \in Announcements \ {b} : batch'[d] = batch[d]
      BY <3>1, <3>3, <3>4 DEF VoiceInv, VoiceTypes
    <3>6. MembersGather'
      <4> SUFFICES ASSUME NEW d \in Announcements, NEW e \in batch'[d].members
                   PROVE  spoken'[e].st = "gathering"
        BY DEF MembersGather
      <4>1. e = c \/ e \in batch[d].members
        BY <3>3, <3>5
      <4>2. e \in batch[d].members => e \in Spoken /\ e # c /\ spoken[e].st = "gathering"
        BY <1>6 DEF VoiceInv, VoiceTypes, MembersGather, Batches, Spoken
      <4> QED BY <1>2, <1>4, <2>2, <4>1, <4>2
    <3>7. \A d \in Announcements : spoken'[d].st = "idle" => batch'[d].st = "idle"
      <4> SUFFICES ASSUME NEW d \in Announcements, spoken'[d].st = "idle"
                   PROVE  batch'[d].st = "idle"
        OBVIOUS
      <4>1. d # c /\ spoken[d].st = "idle"
        BY <1>2, <1>4 DEF Spoken
      <4>2. batch[d].st = "idle"
        BY <4>1 DEF VoiceInv, StartsOnce
      <4>3. d # b
        BY <3>1, <4>1, <4>2
      <4> QED BY <3>5, <4>2, <4>3
    <3>8. \A s \in Spoken : (Due(s) => Due(s)') /\ (Done(s) => Done(s)')
      BY <1>1, <1>4, <3>2, <3>5 DEF Due, Done, Spoken
    <3> QED BY <1>1, <1>2, <1>4, <3>5, <3>6, <3>7, <3>8 DEF CallsMove, Spoken
  <2> QED BY <2>1, <2>2
<1>8. TurnsGrow
  BY <1>5 DEF TurnsGrow
<1> QED BY <1>5, <1>7, <1>8, LinksStay, CallsKeep


LEMMA WindowKeeps ==
  ASSUME VoiceInv, NEW b \in Announcements, WindowCloses(b) \/ Fetched(b)
  PROVE  VoiceInv'
<1>1. UNCHANGED <<link, spoken, stream, playing, doing>>
  BY DEF WindowCloses, Fetched
<1>2. b \in Spoken /\ b \notin Replies /\ batch[b] \in Batches
  BY VoiceAssumption DEF VoiceInv, VoiceTypes, Spoken
<1>3. PICK st \in {"fetching", "starting", "done"} : batch' = [batch EXCEPT ![b].st = st]
  BY DEF WindowCloses, Fetched
<1> DEFINE w == [batch[b] EXCEPT !.st = st]
<1>4. w \in Batches /\ w.st = st /\ w.members = batch[b].members
  BY <1>2 DEF Batches
<1>5. batch' = [batch EXCEPT ![b] = w]
  BY <1>3
<1> HIDE DEF w
<1>6. /\ batch' \in [Announcements -> Batches] /\ batch'[b] = w
      /\ \A d \in Announcements \ {b} : batch'[d] = batch[d]
  BY <1>4, <1>5 DEF VoiceInv, VoiceTypes
<1>7. batch[b].st \in {"open", "fetching"}
  BY DEF WindowCloses, Fetched
<1>8. CallsMove
  <2>1. MembersGather'
    BY <1>1, <1>4, <1>6 DEF VoiceInv, MembersGather
  <2>2. \A d \in Announcements : spoken[d].st = "idle" => batch'[d].st = "idle"
    BY <1>6, <1>7 DEF VoiceInv, StartsOnce
  <2>3. \A s \in Spoken : (Due(s) => Due(s)') /\ (Done(s) => Done(s)')
    BY <1>1, <1>6, <1>7 DEF Due, Done, Spoken
  <2> QED BY <1>1, <1>6, <2>1, <2>2, <2>3 DEF CallsMove, VoiceInv, VoiceTypes
<1>9. TurnsGrow
  <2>1. CASE turns' = turns
    BY <2>1 DEF TurnsGrow
  <2>2. CASE /\ turns' = Append(turns, StartOf(b))
             /\ batch' = [batch EXCEPT ![b].st = "starting"]
    <3>1. batch'[b].st = "starting"
      BY <1>2, <2>2 DEF VoiceInv, VoiceTypes, Batches
    <3>2. ~Due(b) /\ Due(b)'
      BY <1>2, <1>7, <3>1 DEF Due
    <3> QED BY <1>2, <2>2, <3>2, TicketFacts DEF TurnsGrow
  <2> QED BY <2>1, <2>2 DEF WindowCloses, Fetched, StartOf
<1> QED BY <1>1, <1>8, <1>9, LinksStay, CallsKeep

\* c leaves whatever batch it gathers in.
Ungathered(c) == [b \in Announcements |-> [batch[b] EXCEPT !.members = @ \ {c}]]

LEMMA UngatheredFacts ==
  ASSUME VoiceInv, NEW c, batch' = Ungathered(c)
  PROVE  /\ batch' \in [Announcements -> Batches]
         /\ \A b \in Announcements :
              batch'[b].st = batch[b].st /\ batch'[b].members = batch[b].members \ {c}
<1>1. ASSUME NEW b \in Announcements
      PROVE  LET w == [batch[b] EXCEPT !.members = @ \ {c}]
             IN  w \in Batches /\ w.st = batch[b].st /\ w.members = batch[b].members \ {c}
  <2>1. batch[b] \in Batches
    BY DEF VoiceInv, VoiceTypes
  <2> QED BY <2>1 DEF Batches
<1> QED BY <1>1 DEF Ungathered

\* An announcement that was gathering or waiting goes on, out of every batch.
LEMMA LeavingBatchMoves ==
  ASSUME VoiceInv, NEW c \in Announcements, NEW r \in SpokenRecords,
         spoken[c].st \in {"gathering", "waiting"},
         r.st \in {"waiting", "withdrawing"},
         spoken' = [spoken EXCEPT ![c] = r],
         batch' = Ungathered(c) \/ (batch' = batch /\ spoken[c].st = "waiting")
  PROVE  CallsMove
<1>1. /\ spoken' \in [Spoken -> SpokenRecords]
      /\ c \in Spoken /\ c \notin Replies /\ spoken'[c] = r
      /\ \A d \in Spoken \ {c} : spoken'[d] = spoken[d]
  BY OneMoves, VoiceAssumption DEF Spoken
<1>2. /\ batch' \in [Announcements -> Batches]
      /\ \A b \in Announcements :
           batch'[b].st = batch[b].st /\ batch'[b].members = batch[b].members \ {c}
  <2>1. CASE batch' = Ungathered(c)
    BY <2>1, UngatheredFacts
  <2>2. CASE batch' = batch /\ spoken[c].st = "waiting"
    BY <2>2 DEF VoiceInv, VoiceTypes, MembersGather
  <2> QED BY <2>1, <2>2
<1>3. MembersGather'
  <2> SUFFICES ASSUME NEW b \in Announcements, NEW d \in batch'[b].members
               PROVE  spoken'[d].st = "gathering"
    BY DEF MembersGather
  <2>1. d \in batch[b].members /\ d # c
    BY <1>2
  <2>2. d \in Spoken /\ spoken[d].st = "gathering"
    BY <2>1 DEF VoiceInv, VoiceTypes, MembersGather, Batches, Spoken
  <2> QED BY <1>1, <2>1, <2>2
<1>4. \A d \in Announcements : d # c => spoken'[d] = spoken[d]
  BY <1>1 DEF Spoken
<1>5. \A d \in Announcements : spoken'[d].st = "idle" => batch'[d].st = "idle"
  BY <1>1, <1>2, <1>4 DEF VoiceInv, StartsOnce
<1>6. \A s \in Spoken : (Due(s) => Due(s)') /\ (Done(s) => Done(s)')
  BY <1>1, <1>2 DEF Due, Done, Spoken
<1> QED BY <1>1, <1>2, <1>3, <1>4, <1>5, <1>6 DEF CallsMove

LEMMA BatchAnswersKeeps ==
  ASSUME VoiceInv, NEW c \in Announcements, BatchAnswers(c)
  PROVE  VoiceInv'
<1> DEFINE r == [spoken[c] EXCEPT !.st = "waiting"]
<1>1. spoken[c] \in SpokenRecords
  BY DEF VoiceInv, VoiceTypes, Spoken
<1>2. r \in SpokenRecords /\ r.st = "waiting"
  BY <1>1 DEF SpokenRecords, Stations
<1>3. spoken' = [spoken EXCEPT ![c] = r]
  BY DEF BatchAnswers
<1> HIDE DEF r
<1>4. /\ UNCHANGED <<link, turns, stream, playing, doing>>
      /\ batch' = Ungathered(c) /\ spoken[c].st = "gathering"
  BY DEF BatchAnswers, Ungathered
<1>5. CallsMove
  BY <1>2, <1>3, <1>4, LeavingBatchMoves
<1>6. TurnsGrow
  BY <1>4 DEF TurnsGrow
<1> QED BY <1>4, <1>5, <1>6, LinksStay, CallsKeep

LEMMA AnnouncementEndsKeeps ==
  ASSUME VoiceInv, NEW c \in Announcements, AnnouncementEnds(c) \/ Cancel(c)
  PROVE  VoiceInv'
<1> DEFINE r == [Heard(spoken[c]) EXCEPT !.st = "withdrawing"]
           t == [kind |-> "withdraw", of |-> c]
<1>1. spoken[c] \in SpokenRecords
  BY DEF VoiceInv, VoiceTypes, Spoken
<1>2. r \in SpokenRecords /\ r.st = "withdrawing"
  BY <1>1, HeardKeeps DEF SpokenRecords, Stations
<1>3. spoken' = [spoken EXCEPT ![c] = r] /\ turns' = Append(turns, t)
  BY DEF AnnouncementEnds, Cancel, Settles
<1>4. t \in Tickets /\ t.kind = "withdraw" /\ t.of = c
  BY TicketFacts
<1> HIDE DEF r, t
<1>5. /\ UNCHANGED <<link, stream, playing, doing>>
      /\ spoken[c].st \in {"gathering", "waiting"}
  BY DEF AnnouncementEnds, Cancel
<1>6. batch' = Ungathered(c) \/ (batch' = batch /\ spoken[c].st = "waiting")
  <2>1. CASE AnnouncementEnds(c)
    BY <2>1 DEF AnnouncementEnds
  <2>2. CASE Cancel(c) /\ spoken[c].st = "gathering"
    BY <2>2 DEF Cancel, Ungathered
  <2>3. CASE Cancel(c) /\ spoken[c].st = "waiting"
    BY <2>3 DEF Cancel, VoiceInv, VoiceTypes
  <2> QED BY <1>5, <2>1, <2>2, <2>3
<1>7. CallsMove
  BY <1>2, <1>3, <1>5, <1>6, LeavingBatchMoves
<1>8. spoken'[c].st = "withdrawing"
  BY <1>2, <1>3, OneMoves DEF Spoken
<1>9. TurnsGrow
  BY <1>3, <1>4, <1>8 DEF TurnsGrow
<1> QED BY <1>5, <1>7, <1>9, LinksStay, CallsKeep

\* A reply moves on to where it is due, or it is over.
LEMMA ReplyMoves ==
  ASSUME VoiceInv, NEW c \in Replies, NEW r \in SpokenRecords,
         spoken[c].st \in {"idle", "fetching"},
         spoken' = [spoken EXCEPT ![c] = r], batch' = batch
  PROVE  CallsMove /\ spoken'[c] = r
<1>1. /\ spoken' \in [Spoken -> SpokenRecords]
      /\ c \in Spoken /\ c \notin Announcements /\ spoken'[c] = r
      /\ \A d \in Spoken \ {c} : spoken'[d] = spoken[d]
  BY OneMoves, VoiceAssumption DEF Spoken
<1>2. \A d \in Announcements : spoken'[d] = spoken[d]
  BY <1>1 DEF Spoken
<1>3. MembersGather'
  BY <1>2 DEF VoiceInv, VoiceTypes, MembersGather, Batches
<1>4. \A s \in Spoken : (Due(s) => Due(s)') /\ (Done(s) => Done(s)')
  BY <1>1 DEF Due, Done
<1>5. batch' \in [Announcements -> Batches]
      /\ \A d \in Announcements : spoken'[d].st = "idle" => batch'[d].st = "idle"
  BY <1>2 DEF VoiceInv, VoiceTypes, StartsOnce
<1> QED BY <1>1, <1>2, <1>3, <1>4, <1>5 DEF CallsMove

LEMMA ReplyKeeps ==
  ASSUME VoiceInv, NEW c \in Replies, Reply(c)
  PROVE  VoiceInv'
<1> DEFINE r == [spoken[c] EXCEPT !.st = "fetching", !.session = link[Target[c]].session]
<1>1. spoken[c] \in SpokenRecords /\ Target[c] \in Panels /\ link[Target[c]].session \in Nat
  BY VoiceAssumption DEF VoiceInv, VoiceTypes, Spoken, Links
<1>2. r \in SpokenRecords
  BY <1>1 DEF SpokenRecords, Stations
<1>3. spoken' = [spoken EXCEPT ![c] = r]
  BY DEF Reply
<1> HIDE DEF r
<1>4. UNCHANGED <<link, batch, stream, playing, turns, doing>> /\ spoken[c].st = "idle"
  BY DEF Reply
<1>5. CallsMove
  BY <1>2, <1>3, <1>4, ReplyMoves
<1>6. TurnsGrow
  BY <1>4 DEF TurnsGrow
<1> QED BY <1>4, <1>5, <1>6, LinksStay, CallsKeep

LEMMA ReplyFetchedKeeps ==
  ASSUME VoiceInv, NEW c \in Replies, ReplyFetched(c)
  PROVE  VoiceInv'
<1>1. spoken[c] \in SpokenRecords /\ c \in Spoken
  BY DEF VoiceInv, VoiceTypes, Spoken
<1>2. UNCHANGED <<link, batch, stream, playing, doing>> /\ spoken[c].st = "fetching"
  BY DEF ReplyFetched
<1>3. CASE spoken' = [spoken EXCEPT ![c].st = "over"] /\ turns' = turns
  <2> DEFINE r == [spoken[c] EXCEPT !.st = "over"]
  <2>1. r \in SpokenRecords
    BY <1>1 DEF SpokenRecords, Stations
  <2>2. spoken' = [spoken EXCEPT ![c] = r]
    BY <1>3
  <2> HIDE DEF r
  <2>3. CallsMove
    BY <1>2, <2>1, <2>2, ReplyMoves
  <2>4. TurnsGrow
    BY <1>3 DEF TurnsGrow
  <2> QED BY <1>2, <2>3, <2>4, LinksStay, CallsKeep
<1>4. CASE spoken' = [spoken EXCEPT ![c].st = "starting"] /\ turns' = Append(turns, StartOf(c))
  <2> DEFINE r == [spoken[c] EXCEPT !.st = "starting"]
  <2>1. r \in SpokenRecords /\ r.st = "starting"
    BY <1>1 DEF SpokenRecords, Stations
  <2>2. spoken' = [spoken EXCEPT ![c] = r]
    BY <1>4
  <2> HIDE DEF r
  <2>3. CallsMove /\ spoken'[c] = r
    BY <1>2, <2>1, <2>2, ReplyMoves
  <2>4. ~Due(c) /\ Due(c)'
    BY <1>2, <2>1, <2>3 DEF Due
  <2>5. TurnsGrow
    BY <1>1, <1>4, <2>4, TicketFacts DEF TurnsGrow
  <2> QED BY <1>2, <2>3, <2>5, LinksStay, CallsKeep
<1> QED BY <1>3, <1>4 DEF ReplyFetched, StartOf

-----------------------------------------------------------------------------
(* What the holder of the lock and the tasks of the streams do. *)

\* Nothing leaves or joins a stream.
SameMembers ==
  /\ stream' \in [Spoken -> Streams]
  /\ \A s \in Spoken : stream'[s].members = stream[s].members

LEMMA SameMembersKeep ==
  ASSUME VoiceInv, SameMembers, LinksMove, UNCHANGED <<spoken, batch, playing, turns>>,
         doing' \in Doings, VisitedAreFree', HolderHolds',
         \A s \in Spoken : BegunNow(s) => BegunNow(s)'
  PROVE  VoiceInv'
<1> USE DEF VoiceInv
<1>1. VoiceTypes'
  BY DEF VoiceTypes, SameMembers, LinksMove
<1>2. MembersPlay' /\ MembersGather' /\ Withdrawn'
  BY DEF MembersPlay, MembersGather, Withdrawn, SameMembers
<1>3. ToldAreMembers'
  <2> SUFFICES ASSUME NEW p \in Panels, link'[p].told # None
               PROVE  \E m \in On(link[p].told, p)' : m.link = link'[p].n /\ link'[p].told = link[p].told
    BY DEF ToldAreMembers, On
  <2>1. link'[p].told = link[p].told /\ link'[p].n = link[p].n /\ link[p].told \in Spoken
    BY DEF LinksMove, VoiceTypes, Links
  <2>2. PICK m \in On(link[p].told, p) : m.link = link[p].n
    BY <2>1 DEF ToldAreMembers
  <2>3. m \in stream'[link[p].told].members
    BY <2>1, <2>2 DEF SameMembers, On
  <2> QED BY <2>1, <2>2, <2>3 DEF On
<1>4. StartsOnce'
  BY DEF StartsOnce, Due, Done, SameMembers
<1>5. ReturnedIsSilent'
  BY DEF ReturnedIsSilent, SameMembers
<1> QED BY <1>1, <1>2, <1>3, <1>4, <1>5

LEMMA TaskKeeps ==
  ASSUME VoiceInv, NEW s \in Spoken, Flows(s) \/ PlaysOut(s) \/ CutOff(s)
  PROVE  VoiceInv'
<1>1. stream[s] \in Streams
  BY DEF VoiceInv, VoiceTypes
<1>2. SameMembers
  <2>1. CASE Flows(s)
    <3> DEFINE w == [stream[s] EXCEPT !.st = "flowing", !.started = TRUE]
    <3>1. w \in Streams /\ w.members = stream[s].members
      BY <1>1 DEF Streams
    <3>2. stream' = [stream EXCEPT ![s] = w]
      BY <2>1 DEF Flows
    <3> HIDE DEF w
    <3> QED BY <3>1, <3>2 DEF SameMembers, VoiceInv, VoiceTypes
  <2>2. CASE PlaysOut(s)
    BY <1>1, <2>2 DEF PlaysOut, Streams, SameMembers, VoiceInv, VoiceTypes
  <2>3. CASE CutOff(s)
    <3> DEFINE st == IF stream[s].st = "ending" THEN "over" ELSE "ending"
               w == [stream[s] EXCEPT !.cut = FALSE, !.st = st]
    <3>1. st \in {"ending", "over"}
      OBVIOUS
    <3>2. stream' = [stream EXCEPT ![s] = w]
      BY <2>3 DEF CutOff
    <3> HIDE DEF st
    <3>3. w \in Streams /\ w.members = stream[s].members
      BY <1>1, <3>1 DEF Streams
    <3> HIDE DEF w
    <3> QED BY <3>2, <3>3 DEF SameMembers, VoiceInv, VoiceTypes
  <2> QED BY <2>1, <2>2, <2>3
<1>3. UNCHANGED <<link, spoken, batch, playing, turns, doing>>
  BY DEF Flows, PlaysOut, CutOff
<1>4. VisitedAreFree' /\ HolderHolds'
  BY <1>2, <1>3 DEF VoiceInv, VisitedAreFree, HolderHolds, LeavingNow, On, PanelOf, SameMembers
<1>5. doing' \in Doings /\ \A x \in Spoken : BegunNow(x) => BegunNow(x)'
  BY <1>3 DEF VoiceInv, VoiceTypes, BegunNow
<1> QED BY <1>2, <1>3, <1>4, <1>5, LinksStay, SameMembersKeep

\* The holder turns to a panel that plays something.
LEMMA LeavesFacts ==
  ASSUME VoiceInv, NEW p \in Panels, playing[p] # None, NEW todo \in SUBSET Spoken,
         doing.at \in {"free", "left"}, turns # <<>>,
         Head(turns).kind # "start" => PanelOf(Head(turns)) = p,
         UNCHANGED <<playing, turns>>, Leaves(playing[p], p, todo)
  PROVE  /\ SameMembers /\ doing' \in Doings /\ VisitedAreFree' /\ HolderHolds'
         /\ \A s \in Spoken : BegunNow(s) => BegunNow(s)'
<1>1. playing[p] \in Spoken /\ stream[playing[p]] \in Streams /\ doing \in Doings
  BY DEF VoiceInv, VoiceTypes
<1>2. PICK at \in {"waits", "removes"}, last \in BOOLEAN :
        /\ doing' = [at |-> at, todo |-> todo, visited |-> doing.visited \cup {p},
                     of |-> playing[p], panel |-> p]
        /\ stream' = [stream EXCEPT ![playing[p]].cut = last]
  BY DEF Leaves
<1>3. SameMembers
  BY <1>1, <1>2 DEF SameMembers, VoiceInv, VoiceTypes, Streams
<1>4. /\ doing' \in Doings /\ doing'.at = at /\ doing'.visited = doing.visited \cup {p}
      /\ doing'.of = playing[p] /\ doing'.panel = p
  BY <1>1, <1>2 DEF Doings
<1>5. VisitedAreFree'
  <2>1. \A q \in doing.visited, s \in Spoken : On(s, q) = {}
    BY DEF VoiceInv, VisitedAreFree, LeavingNow
  <2>2. \A q, s : s \in Spoken => On(s, q)' = On(s, q)
    BY <1>3 DEF On, SameMembers
  <2> QED BY <1>1, <1>2, <1>4, <2>1, <2>2 DEF VisitedAreFree, LeavingNow
<1>6. HolderHolds'
  BY <1>2, <1>4 DEF HolderHolds, PanelOf
<1>7. \A s \in Spoken : ~BegunNow(s)
  BY DEF BegunNow
<1> QED BY <1>3, <1>4, <1>5, <1>6, <1>7

\* The ticket whose turn it is belongs to a panel, unless it starts a stream.
LEMMA TurnsPanel ==
  ASSUME VoiceInv, NEW t, turns # <<>>, t = Head(turns), t.kind # "start"
  PROVE  t \in Tickets /\ PanelOf(t) \in Panels
<1>1. t \in Tickets
  BY OneLess DEF VoiceInv, VoiceTypes
<1>2. CASE t.kind = "withdraw"
  <2>1. t.of \in Announcements
    BY <1>1, <1>2, TicketFacts
  <2> QED BY <1>1, <1>2, <2>1, VoiceAssumption DEF PanelOf
<1>3. CASE t.kind \in {"reset", "stop"}
  BY <1>1, <1>3, TicketFacts DEF PanelOf
<1> QED BY <1>1, <1>2, <1>3, TicketFacts

LEMMA TakeTurnMoves ==
  ASSUME VoiceInv, NEW t, turns # <<>>, t = Head(turns), TakeTurn(t)
  PROVE  LinksMove
<1>0. PanelOf(t) \in Panels
  BY TurnsPanel DEF TakeTurn
<1>1. PICK x \in BOOLEAN : link' = [link EXCEPT ![PanelOf(t)].open = x]
  <2>1. link[PanelOf(t)].open \in BOOLEAN
    BY <1>0 DEF VoiceInv, VoiceTypes, Links
  <2> QED BY <2>1 DEF TakeTurn
<1>2. link \in [Panels -> Links] /\ link[PanelOf(t)] \in Links
  BY <1>0 DEF VoiceInv, VoiceTypes
<1> DEFINE l == [link[PanelOf(t)] EXCEPT !.open = x]
<1>3. l \in Links /\ l.told = link[PanelOf(t)].told /\ l.n = link[PanelOf(t)].n
  BY <1>2 DEF Links
<1>4. link' = [link EXCEPT ![PanelOf(t)] = l]
  BY <1>1, <1>2
<1> HIDE DEF l
<1> QED BY <1>0, <1>2, <1>3, <1>4 DEF LinksMove

LEMMA TakeTurnKeeps ==
  ASSUME VoiceInv, NEW t, turns # <<>>, t = Head(turns), TakeTurn(t)
  PROVE  VoiceInv'
<1>1. t \in Tickets /\ t.kind # "start" /\ PanelOf(t) \in Panels
  BY TurnsPanel DEF TakeTurn
<1>2. playing[PanelOf(t)] # None
  BY DEF TakeTurn, LeftFor, PanelOf
<1>3. UNCHANGED <<spoken, batch, playing, turns>>
  BY DEF TakeTurn
<1>4. Leaves(playing[PanelOf(t)], PanelOf(t), {}) /\ doing.at = "free"
  BY DEF TakeTurn
<1>5. /\ SameMembers /\ doing' \in Doings /\ VisitedAreFree' /\ HolderHolds'
      /\ \A s \in Spoken : BegunNow(s) => BegunNow(s)'
  <2> DEFINE p == PanelOf(t)
  <2>1. {} \in SUBSET Spoken /\ doing.at \in {"free", "left"} /\ PanelOf(Head(turns)) = p
    BY <1>4
  <2> HIDE DEF p
  <2>2. p \in Panels /\ playing[p] # None /\ Leaves(playing[p], p, {})
    BY <1>1, <1>2, <1>4 DEF p
  <2> QED BY <1>3, <2>1, <2>2, LeavesFacts
<1>6. LinksMove
  BY TakeTurnMoves
<1> QED BY <1>3, <1>5, <1>6, SameMembersKeep

LEMMA ClearPanelKeeps ==
  ASSUME VoiceInv, NEW s \in Spoken, ClearPanel(s)
  PROVE  VoiceInv'
<1>1. PICK c \in Occupied(s) : Leaves(playing[Target[c]], Target[c], Eligible(s))
  BY DEF ClearPanel
<1>2. Eligible(s) \subseteq Spoken
  BY DEF Eligible, Listeners, VoiceInv, VoiceTypes, Batches, Spoken
<1>3. Target[c] \in Panels /\ playing[Target[c]] # None
  BY <1>1, <1>2, VoiceAssumption DEF Occupied, Spoken
<1>4. turns # <<>> /\ Head(turns).kind = "start" /\ doing.at \in {"free", "left"}
  BY DEF ClearPanel, Starting, Holds
<1>5. UNCHANGED <<link, spoken, batch, playing, turns>>
  BY DEF ClearPanel
<1>6. /\ SameMembers /\ doing' \in Doings /\ VisitedAreFree' /\ HolderHolds'
      /\ \A x \in Spoken : BegunNow(x) => BegunNow(x)'
  BY <1>1, <1>2, <1>3, <1>4, <1>5, LeavesFacts
<1> QED BY <1>5, <1>6, LinksStay, SameMembersKeep

LEMMA LeaveResumesKeeps ==
  ASSUME VoiceInv, LeaveResumes
  PROVE  VoiceInv'
<1>1. doing' = [doing EXCEPT !.at = "drains"] /\ doing.at \in {"waits", "removes"}
  BY DEF LeaveResumes
<1>2. UNCHANGED <<link, spoken, batch, stream, playing, turns>>
  BY DEF LeaveResumes
<1>3. /\ doing' \in Doings /\ doing'.at = "drains" /\ doing'.visited = doing.visited
      /\ doing'.of = doing.of /\ doing'.panel = doing.panel
  BY <1>1 DEF VoiceInv, VoiceTypes, Doings
<1>4. VisitedAreFree'
  BY <1>1, <1>2, <1>3 DEF VoiceInv, VisitedAreFree, LeavingNow, On
<1>5. HolderHolds'
  BY <1>1, <1>2, <1>3 DEF VoiceInv, HolderHolds, PanelOf
<1>6. SameMembers
  BY <1>2 DEF SameMembers, VoiceInv, VoiceTypes
<1>7. \A s \in Spoken : ~BegunNow(s)
  BY <1>1 DEF BegunNow
<1> QED BY <1>2, <1>3, <1>4, <1>5, <1>6, <1>7, LinksStay, SameMembersKeep

\* On(s, p), the panel's part of the stream, has left it.
PartLeaves(s, p) ==
  /\ stream' \in [Spoken -> Streams]
  /\ stream'[s].members = stream[s].members \ On(s, p)
  /\ \A x \in Spoken \ {s} : stream'[x].members = stream[x].members

LEMMA ClaimFacts ==
  ASSUME VoiceInv, NEW s \in Spoken, NEW p \in Panels, PartLeaves(s, p), Claim(s, p)
  PROVE  /\ StationsStay /\ link' \in [Panels -> Links]
         /\ playing' \in [Panels -> Spoken \cup {None}]
         /\ \A q \in Panels : playing'[q] \in {playing[q], None}
         /\ \A x \in Spoken : \A q : On(x, q)' \subseteq On(x, q)
         /\ On(s, p)' = {}
         /\ MembersPlay' /\ ToldAreMembers'
<1>1. /\ playing \in [Panels -> Spoken \cup {None}] /\ link \in [Panels -> Links]
      /\ \A c \in Spoken : spoken[c] \in SpokenRecords
  BY DEF VoiceInv, VoiceTypes
<1>2. StationsStay
  BY <1>1, HeardKeeps DEF Claim, StationsStay
<1>3. /\ playing' \in [Panels -> Spoken \cup {None}]
      /\ \A q \in Panels \ {p} : playing'[q] = playing[q]
      /\ playing'[p] = IF playing[p] = s /\ On(s, p) # {} THEN None ELSE playing[p]
  BY <1>1 DEF Claim
<1>4. \A x \in Spoken : \A q : On(x, q)' \subseteq On(x, q)
  BY DEF PartLeaves, On
<1>5. On(s, p)' = {}
  BY DEF PartLeaves, On
<1>6. MembersPlay'
  <2> SUFFICES ASSUME NEW x \in Spoken, NEW m \in stream'[x].members
               PROVE  playing'[Target[m.call]] = x
    BY DEF MembersPlay
  <2>1. m \in stream[x].members /\ m.call \in Spoken /\ Target[m.call] \in Panels
    BY VoiceAssumption DEF PartLeaves, VoiceInv, VoiceTypes, Streams, MemberRecords, Spoken
  <2>2. playing[Target[m.call]] = x
    BY <2>1 DEF VoiceInv, MembersPlay
  <2>3. ~(Target[m.call] = p /\ x = s)
    BY <1>5 DEF On
  <2> QED BY <1>3, <2>1, <2>2, <2>3
<1>7. /\ link' \in [Panels -> Links]
      /\ \A q \in Panels \ {p} : link'[q] = link[q]
      /\ link'[p].n = link[p].n
      /\ link'[p].told = IF link[p].told = s /\ \E m \in On(s, p) : m.link = link[p].n
                         THEN None ELSE link[p].told
  <2> DEFINE told == IF link[p].told = s /\ \E m \in On(s, p) : m.link = link[p].n
                     THEN None ELSE link[p].told
             w == [link[p] EXCEPT !.told = told]
  <2>1. told \in Spoken \cup {None} /\ link[p] \in Links
    BY <1>1 DEF Links
  <2>2. link' = [link EXCEPT ![p].told = told]
    BY DEF Claim
  <2> HIDE DEF told
  <2>3. w \in Links /\ w.told = told /\ w.n = link[p].n
    BY <2>1 DEF Links
  <2>4. link' = [link EXCEPT ![p] = w]
    BY <2>2
  <2> HIDE DEF w
  <2>5. /\ link' \in [Panels -> Links] /\ link'[p] = w
        /\ \A q \in Panels \ {p} : link'[q] = link[q]
    BY <1>1, <2>3, <2>4
  <2> QED BY <2>3, <2>5 DEF told
<1>8. ToldAreMembers'
  <2> SUFFICES ASSUME NEW q \in Panels, NEW x, x = link'[q].told, x # None
               PROVE  \E m \in On(x, q)' : m.link = link'[q].n
    BY DEF ToldAreMembers, On
  <2>1. x = link[q].told /\ link'[q].n = link[q].n /\ x \in Spoken
    BY <1>1, <1>7 DEF Links
  <2>2. PICK m \in On(x, q) : m.link = link[q].n
    BY <2>1 DEF VoiceInv, ToldAreMembers
  <2>3. ~(q = p /\ x = s)
    BY <1>7, <2>1, <2>2
  <2>4. m \in stream'[x].members
    BY <2>1, <2>2, <2>3 DEF PartLeaves, On
  <2> QED BY <2>1, <2>2, <2>4 DEF On
<1> QED BY <1>2, <1>3, <1>4, <1>5, <1>6, <1>7, <1>8

LEMMA PartLeavesKeeps ==
  ASSUME VoiceInv, NEW s \in Spoken, NEW p \in Panels, PartLeaves(s, p), Claim(s, p),
         UNCHANGED <<batch, turns>>, doing' \in Doings, VisitedAreFree', HolderHolds',
         \A x \in Spoken : BegunNow(x) => BegunNow(x)'
  PROVE  VoiceInv'
<1>1. /\ StationsStay /\ link' \in [Panels -> Links] /\ MembersPlay' /\ ToldAreMembers'
      /\ playing' \in [Panels -> Spoken \cup {None}]
  BY ClaimFacts
<1>2. CallsMove
  BY <1>1, StayingIsMoving
<1>3. VoiceTypes'
  BY <1>1 DEF VoiceInv, VoiceTypes, StationsStay, PartLeaves
<1>4. Withdrawn'
  <2> SUFFICES ASSUME NEW i \in DOMAIN turns', turns'[i].kind = "withdraw"
               PROVE  spoken'[turns'[i].of].st \in {"withdrawing", "over"}
    BY DEF Withdrawn
  <2>1. turns[i] \in Tickets /\ turns[i].kind = "withdraw" /\ i \in DOMAIN turns
    BY DEF VoiceInv, VoiceTypes
  <2>2. turns[i].of \in Spoken
    BY <2>1, TicketFacts DEF Spoken
  <2>3. spoken[turns[i].of].st \in {"withdrawing", "over"}
    BY <2>1 DEF VoiceInv, Withdrawn
  <2> QED BY <1>1, <2>2, <2>3 DEF StationsStay
<1>5. \A x \in Spoken : stream'[x].members \subseteq stream[x].members
  BY DEF PartLeaves
<1>6. StartsOnce'
  <2>1. \A i \in DOMAIN turns', x \in Spoken : turns'[i] = StartOf(x) => Due(x)'
    BY <1>2 DEF VoiceInv, StartsOnce, CallsMove
  <2>2. \A x \in Spoken : stream'[x].members # {} => BegunNow(x)' \/ Done(x)'
    BY <1>2, <1>5 DEF VoiceInv, StartsOnce, CallsMove
  <2>3. \A c \in Announcements : spoken'[c].st = "idle" => batch'[c].st = "idle"
    BY <1>2 DEF CallsMove
  <2> QED BY <2>1, <2>2, <2>3 DEF VoiceInv, StartsOnce
<1>7. ReturnedIsSilent'
  BY <1>2, <1>5 DEF VoiceInv, ReturnedIsSilent, CallsMove
<1> QED BY <1>1, <1>2, <1>3, <1>4, <1>6, <1>7 DEF VoiceInv, CallsMove

LEMMA LeaveEndsKeeps ==
  ASSUME VoiceInv, LeaveEnds
  PROVE  VoiceInv'
<1>0. PICK s, p : s = doing.of /\ p = doing.panel
  OBVIOUS
<1>1. /\ s \in Spoken /\ p \in doing.visited /\ p \in Panels
      /\ playing[p] \in {s, None} /\ doing.at = "drains"
  BY <1>0 DEF LeaveEnds, VoiceInv, VoiceTypes, VisitedAreFree, LeavingNow, Doings
<1>2. /\ doing' = [doing EXCEPT !.at = "left"] /\ Claim(s, p) /\ UNCHANGED <<batch, turns>>
      /\ stream' = [stream EXCEPT ![s].members = @ \ On(s, p)]
  BY <1>0 DEF LeaveEnds
<1>3. /\ doing' \in Doings /\ doing'.at = "left" /\ doing'.visited = doing.visited
  BY <1>2 DEF VoiceInv, VoiceTypes, Doings
<1>4. PartLeaves(s, p)
  BY <1>1, <1>2 DEF PartLeaves, VoiceInv, VoiceTypes, Streams
<1>5. VisitedAreFree'
  <2> SUFFICES ASSUME NEW q \in doing.visited, NEW x \in Spoken PROVE On(x, q)' = {}
    BY <1>3 DEF VisitedAreFree, LeavingNow, On
  <2>1. /\ \A y \in Spoken : On(y, q)' \subseteq On(y, q)
        /\ On(s, p)' = {}
    BY <1>1, <1>2, <1>4, ClaimFacts
  <2>2. CASE q = p
    <3>1. x # s => On(x, p) = {}
      BY <1>1, VoiceAssumption DEF VoiceInv, MembersPlay, On, Spoken
    <3> QED BY <2>1, <2>2, <3>1
  <2>3. CASE q # p
    <3>1. On(x, q) = {}
      BY <1>0, <2>3 DEF VoiceInv, VisitedAreFree
    <3> QED BY <2>1, <3>1
  <2> QED BY <2>2, <2>3
<1>6. HolderHolds'
  BY <1>1, <1>2, <1>3 DEF VoiceInv, HolderHolds, PanelOf
<1>7. \A x \in Spoken : ~BegunNow(x)
  BY <1>1 DEF BegunNow
<1> QED BY <1>1, <1>2, <1>3, <1>4, <1>5, <1>6, <1>7, PartLeavesKeeps

LEMMA TaskEndsKeeps ==
  ASSUME VoiceInv, NEW s \in Spoken, TaskEnds(s)
  PROVE  VoiceInv'
<1> DEFINE left == {Target[m.call] : m \in stream[s].members}
<1>1. UNCHANGED <<batch, turns, doing>> /\ stream[s] \in Streams
  BY DEF TaskEnds, VoiceInv, VoiceTypes
<1>2. left \subseteq Panels
  BY <1>1, VoiceAssumption DEF Streams, MemberRecords, Spoken
<1>3. CASE left = {}
  <2>1. stream' = [stream EXCEPT ![s].st = "over"] /\ UNCHANGED <<link, spoken, playing>>
    BY <1>3 DEF TaskEnds
  <2>2. SameMembers
    BY <1>1, <2>1 DEF SameMembers, VoiceInv, VoiceTypes, Streams
  <2>3. VisitedAreFree' /\ HolderHolds'
    BY <1>1, <2>1, <2>2 DEF VoiceInv, VisitedAreFree, HolderHolds, LeavingNow, On, PanelOf, SameMembers
  <2>4. doing' \in Doings /\ \A x \in Spoken : BegunNow(x) => BegunNow(x)'
    BY <1>1 DEF VoiceInv, VoiceTypes, BegunNow
  <2> QED BY <1>1, <2>1, <2>2, <2>3, <2>4, LinksStay, SameMembersKeep
<1>4. CASE left # {}
  <2>1. PICK p \in left :
          /\ stream' = [stream EXCEPT ![s].members = @ \ On(s, p),
                                      ![s].st = IF left = {p} THEN "over" ELSE @]
          /\ Claim(s, p)
    BY <1>4 DEF TaskEnds
  <2>2. p \in Panels
    BY <1>2
  <2> DEFINE st == IF left = {p} THEN "over" ELSE stream[s].st
             w == [stream[s] EXCEPT !.members = @ \ On(s, p), !.st = st]
  <2>3. st \in {"idle", "forming", "flowing", "ending", "over"}
    BY <1>1 DEF Streams
  <2>4. stream' = [stream EXCEPT ![s] = w]
    BY <2>1
  <2> HIDE DEF st
  <2>5. w \in Streams /\ w.members = stream[s].members \ On(s, p)
    BY <1>1, <2>3 DEF Streams
  <2> HIDE DEF w
  <2>6. PartLeaves(s, p)
    BY <2>4, <2>5 DEF PartLeaves, VoiceInv, VoiceTypes
  <2>7. VisitedAreFree'
    <3>1. /\ \A x \in Spoken : \A q : On(x, q)' \subseteq On(x, q)
          /\ \A q \in Panels : playing'[q] \in {playing[q], None}
      BY <2>1, <2>2, <2>6, ClaimFacts
    <3> QED BY <1>1, <3>1 DEF VoiceInv, VoiceTypes, VisitedAreFree, LeavingNow, Doings
  <2>8. HolderHolds'
    BY <1>1 DEF VoiceInv, HolderHolds, PanelOf
  <2>9. doing' \in Doings /\ \A x \in Spoken : BegunNow(x) => BegunNow(x)'
    BY <1>1 DEF VoiceInv, VoiceTypes, BegunNow
  <2> QED BY <1>1, <2>1, <2>2, <2>6, <2>7, <2>8, <2>9, PartLeavesKeeps
<1> QED BY <1>3, <1>4

-----------------------------------------------------------------------------
(* The end of a turn. *)

\* The calls and the batches go on, save for a start that is no longer due
\* and stands no longer in the queue.
TurnsShrink ==
  /\ LeftOf(turns, turns')
  /\ spoken' \in [Spoken -> SpokenRecords]
  /\ batch' \in [Announcements -> Batches]
  /\ MembersGather'
  /\ \A c \in Announcements :
       /\ spoken[c].st \in {"withdrawing", "over"} => spoken'[c].st \in {"withdrawing", "over"}
       /\ spoken'[c].st = "idle" => batch'[c].st = "idle"
  /\ \A s \in Spoken :
       /\ Due(s) => Due(s)' \/ \A j \in DOMAIN turns' : turns'[j] # StartOf(s)
       /\ Done(s) => Done(s)'
       /\ BegunNow(s) => BegunNow(s)' \/ Done(s)'

LEMMA ShrinkingKeeps ==
  ASSUME VoiceInv, TurnsShrink, LinksMove, UNCHANGED <<stream, playing>>,
         ReturnedIsSilent', doing' \in Doings, VisitedAreFree', HolderHolds'
  PROVE  VoiceInv'
<1> USE DEF VoiceInv
<1>0. PICK f \in [DOMAIN turns' -> DOMAIN turns] :
        /\ \A j \in DOMAIN turns' : turns'[j] = turns[f[j]]
        /\ \A j, k \in DOMAIN turns' : f[j] = f[k] => j = k
  BY DEF TurnsShrink, LeftOf
<1>1. VoiceTypes'
  BY DEF VoiceTypes, TurnsShrink, LinksMove, LeftOf
<1>2. MembersPlay' /\ MembersGather'
  BY DEF MembersPlay, TurnsShrink
<1>3. Withdrawn'
  <2> SUFFICES ASSUME NEW j \in DOMAIN turns', turns'[j].kind = "withdraw"
               PROVE  spoken'[turns'[j].of].st \in {"withdrawing", "over"}
    BY DEF Withdrawn
  <2>1. /\ f[j] \in DOMAIN turns /\ turns'[j] = turns[f[j]]
    BY <1>0
  <2>2. turns'[j].of \in Announcements
    BY <2>1, TicketFacts DEF VoiceTypes
  <2> QED BY <2>1, <2>2 DEF Withdrawn, TurnsShrink
<1>4. ToldAreMembers'
  BY DEF ToldAreMembers, LinksMove, On
<1>5. StartsOnce'
  <2>1. \A j \in DOMAIN turns', s \in Spoken : turns'[j] = StartOf(s) => Due(s)'
    BY <1>0 DEF StartsOnce, TurnsShrink
  <2>2. \A i, j \in DOMAIN turns' :
          turns'[i].kind = "start" /\ turns'[j] = turns'[i] => i = j
    BY <1>0 DEF StartsOnce
  <2>3. \A s \in Spoken : stream'[s].members # {} => BegunNow(s)' \/ Done(s)'
    BY DEF StartsOnce, TurnsShrink
  <2>4. \A c \in Announcements : spoken'[c].st = "idle" => batch'[c].st = "idle"
    BY DEF TurnsShrink
  <2> QED BY <2>1, <2>2, <2>3, <2>4 DEF StartsOnce
<1> QED BY <1>1, <1>2, <1>3, <1>4, <1>5

LEMMA NothingFacts ==
  ASSUME doing' = Nothing
  PROVE  doing' \in Doings /\ VisitedAreFree' /\ HolderHolds'
<1>1. doing' \in Doings /\ doing'.at = "free" /\ doing'.visited = {}
  BY DEF Nothing, Doings
<1> QED BY <1>1 DEF VisitedAreFree, HolderHolds, LeavingNow

\* A withdrawal that ends leaves its call on no panel.
LEMMA WithdrawnIsSilent ==
  ASSUME VoiceInv, NEW c \in Announcements, turns # <<>>,
         Head(turns) = [kind |-> "withdraw", of |-> c],
         doing.at \in {"free", "left"}, doing.at = "free" => LeftFor(Head(turns)) = {},
         NEW s \in Spoken, NEW m \in stream[s].members
  PROVE  m.call # c
<1> SUFFICES ASSUME m.call = c PROVE FALSE
  OBVIOUS
<1> DEFINE t == Head(turns)
           p == Target[c]
<1>1. t.kind = "withdraw" /\ t.of = c /\ p \in Panels /\ s # None
  BY VoiceAssumption DEF Spoken
<1>2. playing[p] = s /\ m \in On(s, p)
  BY DEF VoiceInv, MembersPlay, On
<1>3. CASE doing.at = "free"
  <2>1. LeftFor(t) = {n \in On(s, p) : n.call = c}
    BY <1>1, <1>2 DEF LeftFor
  <2> QED BY <1>2, <1>3, <2>1
<1>4. CASE doing.at = "left"
  <2>1. p \in doing.visited
    BY <1>1, <1>4 DEF VoiceInv, HolderHolds, PanelOf
  <2> QED BY <1>2, <1>4, <2>1 DEF VoiceInv, VisitedAreFree, LeavingNow
<1> QED BY <1>3, <1>4

LEMMA EndTurnMoves ==
  ASSUME VoiceInv, NEW t, turns # <<>>, t = Head(turns), EndTurn(t)
  PROVE  LinksMove
<1>0. t \in Tickets
  BY OneLess DEF VoiceInv, VoiceTypes
<1>1. CASE link' = link
  BY <1>1, LinksStay
<1>2. CASE t.kind = "reset" /\ link' = [link EXCEPT ![t.panel] = Attached(@)]
  <2>1. t.panel \in Panels /\ link[t.panel] \in Links
    BY <1>0, <1>2, TicketFacts DEF VoiceInv, VoiceTypes
  <2>2. link' = [link EXCEPT ![t.panel] = Attached(link[t.panel])]
    BY <1>2
  <2> QED BY <2>1, <2>2, AttachedIsFresh DEF LinksMove, VoiceInv, VoiceTypes
<1> QED BY <1>1, <1>2 DEF EndTurn

LEMMA EndTurnKeeps ==
  ASSUME VoiceInv, NEW t, turns # <<>>, t = Head(turns), EndTurn(t)
  PROVE  VoiceInv'
<1>1. /\ t \in Tickets /\ t.kind # "start" /\ doing.at \in {"free", "left"}
      /\ doing.at = "free" => LeftFor(t) = {}
      /\ turns' = Tail(turns) /\ doing' = Nothing
      /\ UNCHANGED <<batch, stream, playing>>
      /\ spoken' = IF t.kind = "withdraw" THEN [spoken EXCEPT ![t.of].st = "over"] ELSE spoken
  BY OneLess DEF VoiceInv, VoiceTypes, EndTurn, GivesBack
<1>2. LinksMove
  BY EndTurnMoves
<1>3. LeftOf(turns, turns')
  BY <1>1, OneLess DEF VoiceInv, VoiceTypes
<1>4. /\ spoken' \in [Spoken -> SpokenRecords]
      /\ \A d \in Spoken : spoken'[d].aborted = spoken[d].aborted
      /\ \A d \in Spoken :
           spoken'[d].st = spoken[d].st \/
           (spoken'[d].st = "over" /\ d \in Announcements /\ t = [kind |-> "withdraw", of |-> d])
  <2>1. CASE t.kind # "withdraw"
    BY <1>1, <2>1 DEF VoiceInv, VoiceTypes
  <2>2. CASE t.kind = "withdraw"
    <3>1. PICK c \in Announcements : t = [kind |-> "withdraw", of |-> c]
      BY <1>1, <2>2 DEF Tickets
    <3> DEFINE r == [spoken[c] EXCEPT !.st = "over"]
    <3>2. spoken[c] \in SpokenRecords /\ c \in Spoken
      BY DEF VoiceInv, VoiceTypes, Spoken
    <3>3. r \in SpokenRecords /\ r.st = "over" /\ r.aborted = spoken[c].aborted
      BY <3>2 DEF SpokenRecords, Stations
    <3>4. spoken' = [spoken EXCEPT ![c] = r]
      <4>1. t.kind = "withdraw" /\ t.of = c
        BY <3>1
      <4>2. spoken' = [spoken EXCEPT ![c].st = "over"]
        BY <1>1, <4>1
      <4> QED BY <4>2
    <3> HIDE DEF r
    <3> QED BY <3>1, <3>2, <3>3, <3>4, OneMoves
  <2> QED BY <2>1, <2>2
<1>5. \A d \in Announcements :
        t = [kind |-> "withdraw", of |-> d] => spoken[d].st \in {"withdrawing", "over"}
  <2>1. 1 \in DOMAIN turns /\ turns[1] = t
    BY OneLess DEF VoiceInv, VoiceTypes
  <2> QED BY <2>1 DEF VoiceInv, Withdrawn
<1>6. MembersGather'
  BY <1>1, <1>4, <1>5 DEF VoiceInv, VoiceTypes, MembersGather, Batches, Spoken
<1>7. ReturnedIsSilent'
  <2> SUFFICES ASSUME NEW c \in Announcements, spoken'[c].st = "over", ~spoken'[c].aborted,
                      NEW s \in Spoken, NEW m \in stream'[s].members
               PROVE  m.call # c
    BY DEF ReturnedIsSilent
  <2>1. CASE spoken'[c].st = spoken[c].st
    BY <1>1, <1>4, <2>1 DEF VoiceInv, ReturnedIsSilent, Spoken
  <2>2. CASE t = [kind |-> "withdraw", of |-> c]
    BY <1>1, <2>2, WithdrawnIsSilent
  <2> QED BY <1>4, <2>1, <2>2 DEF Spoken
<1>8. \A s \in Spoken : (Due(s) => Due(s)') /\ (Done(s) => Done(s)') /\ ~BegunNow(s)
  BY <1>1, <1>4, VoiceAssumption DEF Due, Done, BegunNow
<1>9. TurnsShrink
  <2>1. \A c \in Announcements : spoken'[c].st = "idle" => spoken[c].st = "idle"
    BY <1>4 DEF Spoken
  <2>2. \A c \in Announcements :
          spoken[c].st \in {"withdrawing", "over"} => spoken'[c].st \in {"withdrawing", "over"}
    BY <1>4 DEF Spoken
  <2> QED BY <1>1, <1>3, <1>4, <1>6, <1>8, <2>1, <2>2
      DEF TurnsShrink, VoiceInv, VoiceTypes, StartsOnce
<1> QED BY <1>1, <1>2, <1>7, <1>9, NothingFacts, ShrinkingKeeps

\* A start that ends has reported: to its batch, or the reply is over.
LEMMA StartedShrinks ==
  ASSUME VoiceInv, NEW s \in Spoken, turns # <<>>, Head(turns) = StartOf(s),
         GivesBack, Started(s), UNCHANGED <<stream, playing>>
  PROVE  TurnsShrink /\ ReturnedIsSilent'
<1>1. turns' = Tail(turns) /\ doing' = Nothing
  BY DEF GivesBack
<1>2. /\ LeftOf(turns, turns') /\ Due(s)
      /\ \A j \in DOMAIN turns' : turns'[j] # StartOf(s)
  <2>1. /\ LeftOf(turns, turns') /\ 1 \in DOMAIN turns /\ turns[1] = StartOf(s)
        /\ \A j \in DOMAIN turns' : j + 1 \in DOMAIN turns /\ j + 1 # 1 /\ turns'[j] = turns[j + 1]
    BY <1>1, OneLess DEF VoiceInv, VoiceTypes
  <2>2. StartOf(s).kind = "start"
    BY DEF StartOf
  <2> QED BY <2>1, <2>2 DEF VoiceInv, StartsOnce
<1>3. \A x \in Spoken : BegunNow(x) => x = s
  BY TicketFacts DEF BegunNow
<1>4. CASE s \in Replies
  <2> DEFINE r == [spoken[s] EXCEPT !.st = "over"]
  <2>1. r \in SpokenRecords /\ r.st = "over"
    BY DEF VoiceInv, VoiceTypes, SpokenRecords, Stations
  <2>2. spoken' = [spoken EXCEPT ![s] = r] /\ batch' = batch
    BY <1>4 DEF Started
  <2> HIDE DEF r
  <2>3. /\ spoken' \in [Spoken -> SpokenRecords] /\ spoken'[s] = r
        /\ \A d \in Spoken \ {s} : spoken'[d] = spoken[d]
    BY <2>1, <2>2, OneMoves
  <2>4. \A c \in Announcements : spoken'[c] = spoken[c]
    BY <1>4, <2>3, VoiceAssumption DEF Spoken
  <2>5. \A x \in Spoken : /\ x # s /\ Due(x) => Due(x)'
                          /\ Done(x) => Done(x)'
    BY <2>1, <2>2, <2>3 DEF Due, Done
  <2>6. Done(s)'
    BY <1>4, <2>1, <2>3 DEF Done
  <2>7. MembersGather'
    BY <2>2, <2>4 DEF VoiceInv, VoiceTypes, MembersGather, Batches
  <2>8. ReturnedIsSilent'
    BY <2>4 DEF VoiceInv, ReturnedIsSilent
  <2> QED BY <1>2, <1>3, <2>2, <2>3, <2>4, <2>5, <2>6, <2>7, <2>8
      DEF TurnsShrink, VoiceInv, VoiceTypes, StartsOnce
<1>5. CASE s \notin Replies
  <2> DEFINE w == [batch[s] EXCEPT !.st = "done"]
  <2>0. s \in Announcements /\ batch[s] \in Batches
    BY <1>5 DEF Spoken, VoiceInv, VoiceTypes
  <2>1. w \in Batches /\ w.st = "done" /\ w.members = batch[s].members
    BY <2>0 DEF Batches
  <2>2. batch' = [batch EXCEPT ![s] = w] /\ spoken' = spoken
    BY <1>5 DEF Started
  <2> HIDE DEF w
  <2>3. /\ batch' \in [Announcements -> Batches] /\ batch'[s] = w
        /\ \A d \in Announcements \ {s} : batch'[d] = batch[d]
    BY <2>0, <2>1, <2>2 DEF VoiceInv, VoiceTypes
  <2>4. \A x \in Spoken : /\ x # s /\ Due(x) => Due(x)'
                          /\ Done(x) => Done(x)'
    BY <2>1, <2>2, <2>3 DEF Due, Done, Spoken
  <2>5. Done(s)'
    BY <1>5, <2>1, <2>3 DEF Done
  <2>6. MembersGather'
    BY <2>1, <2>2, <2>3 DEF VoiceInv, MembersGather
  <2>7. ReturnedIsSilent'
    BY <2>2 DEF VoiceInv, ReturnedIsSilent
  <2>8. \A c \in Announcements : spoken[c].st = "idle" => batch'[c].st = "idle"
    BY <1>2, <1>5, <2>3 DEF VoiceInv, StartsOnce, Due
  <2> QED BY <1>2, <1>3, <2>2, <2>3, <2>4, <2>5, <2>6, <2>7, <2>8
      DEF TurnsShrink, VoiceInv, VoiceTypes
<1> QED BY <1>4, <1>5

LEMMA StartEndsKeeps ==
  ASSUME VoiceInv, NEW s \in Spoken, StartEnds(s)
  PROVE  VoiceInv'
<1>1. /\ turns # <<>> /\ Head(turns) = StartOf(s)
      /\ GivesBack /\ Started(s) /\ UNCHANGED <<link, stream, playing>>
  BY DEF StartEnds, Holds, StartOf
<1>2. doing' = Nothing
  BY <1>1 DEF GivesBack
<1> QED BY <1>1, <1>2, LinksStay, StartedShrinks, NothingFacts, ShrinkingKeeps

LEMMA CancelInTurnKeeps ==
  ASSUME VoiceInv, NEW c \in Spoken, CancelInTurn(c)
  PROVE  VoiceInv'
<1>1. UNCHANGED <<link, batch, stream, playing>>
  BY DEF CancelInTurn
<1> DEFINE r == [spoken[c] EXCEPT !.st = "over", !.aborted = TRUE]
<1>2. r \in SpokenRecords /\ r.st = "over" /\ r.aborted = TRUE
  BY DEF VoiceInv, VoiceTypes, SpokenRecords, Stations
<1>3. spoken' = [spoken EXCEPT ![c] = r]
  BY DEF CancelInTurn
<1> HIDE DEF r
<1>4. /\ spoken' \in [Spoken -> SpokenRecords] /\ spoken'[c] = r
      /\ \A d \in Spoken \ {c} : spoken'[d] = spoken[d]
  BY <1>2, <1>3, OneMoves
<1>5. spoken[c].st \in {"withdrawing", "fetching", "starting"}
  BY DEF CancelInTurn
<1>6. MembersGather'
  BY <1>1, <1>4, <1>5 DEF VoiceInv, VoiceTypes, MembersGather, Batches, Spoken
<1>7. ReturnedIsSilent'
  BY <1>1, <1>2, <1>4 DEF VoiceInv, ReturnedIsSilent, Spoken
<1>8. /\ \A d \in Announcements :
           /\ spoken[d].st \in {"withdrawing", "over"} => spoken'[d].st \in {"withdrawing", "over"}
           /\ spoken'[d].st = "idle" => batch'[d].st = "idle"
      /\ \A s \in Spoken : Done(s) => Done(s)'
      /\ \A s \in Spoken : ~(s = c /\ c \in Replies) => (Due(s) => Due(s)')
  BY <1>1, <1>2, <1>4 DEF VoiceInv, StartsOnce, Due, Done, Spoken
<1>9. c \in Replies => TurnOf(c) = StartOf(c) /\ Done(c)'
  BY <1>2, <1>4 DEF TurnOf, StartOf, Done
<1>10. /\ LeftOf(turns, turns')
       /\ \A j \in DOMAIN turns' : \E k \in DOMAIN turns : turns'[j] = turns[k]
       /\ c \in Replies => \A j \in DOMAIN turns' : turns'[j] # StartOf(c)
       /\ turns # <<>> /\ Head(turns) # TurnOf(c)
            => turns' # <<>> /\ Head(turns') = Head(turns)
  <2>1. CASE InTurn(c)
    <3>1. PICK i \in DOMAIN turns : turns[i] = TurnOf(c) /\ turns' = RemoveAt(turns, i)
      BY <2>1 DEF CancelInTurn
    <3>2. /\ LeftOf(turns, turns')
          /\ i # 1 => turns' # <<>> /\ Head(turns') = Head(turns)
          /\ \A j \in DOMAIN turns' : \E k \in DOMAIN turns : k # i /\ turns'[j] = turns[k]
      BY <3>1, OneTakenOut DEF VoiceInv, VoiceTypes
    <3>3. ASSUME c \in Replies, NEW j \in DOMAIN turns' PROVE turns'[j] # StartOf(c)
      <4>1. PICK k \in DOMAIN turns : k # i /\ turns'[j] = turns[k]
        BY <3>2
      <4>2. turns[i] = StartOf(c) /\ StartOf(c).kind = "start"
        BY <1>9, <3>1, <3>3 DEF StartOf
      <4> QED BY <4>1, <4>2 DEF VoiceInv, StartsOnce
    <3>4. turns # <<>> /\ Head(turns) # TurnOf(c) => i # 1
      BY <3>1, OneLess DEF VoiceInv, VoiceTypes
    <3> QED BY <3>2, <3>3, <3>4
  <2>2. CASE ~InTurn(c)
    <3>1. turns' = turns
      BY <2>2 DEF CancelInTurn
    <3>2. LeftOf(turns, turns)
      <4> DEFINE f == [j \in DOMAIN turns |-> j]
      <4>1. /\ f \in [DOMAIN turns -> DOMAIN turns]
            /\ \A j \in DOMAIN turns : turns[j] = turns[f[j]]
            /\ \A j, k \in DOMAIN turns : f[j] = f[k] => j = k
        OBVIOUS
      <4> QED BY <4>1 DEF LeftOf, VoiceInv, VoiceTypes
    <3> QED BY <1>9, <2>2, <3>1, <3>2 DEF InTurn
  <2> QED BY <2>1, <2>2
<1>11. CASE Holds(TurnOf(c))
  <2>1. doing' = Nothing
    BY <1>11 DEF CancelInTurn
  <2>2. ASSUME NEW s \in Spoken, BegunNow(s) PROVE Done(s)'
    <3>1. Head(turns) = StartOf(s) /\ Head(turns) = TurnOf(c)
      BY <1>11, <2>2 DEF BegunNow, Holds
    <3>2. c = s /\ c \in Replies
      BY <3>1 DEF StartOf, TurnOf
    <3> QED BY <1>9, <3>2
  <2>3. TurnsShrink
    BY <1>1, <1>4, <1>6, <1>8, <1>10, <2>2 DEF TurnsShrink, VoiceInv, VoiceTypes
  <2> QED BY <1>1, <1>7, <2>1, <2>3, LinksStay, NothingFacts, ShrinkingKeeps
<1>12. CASE ~Holds(TurnOf(c))
  <2>1. doing' = doing
    BY <1>12 DEF CancelInTurn
  <2>2. turns # <<>> => turns' # <<>> /\ Head(turns') = Head(turns)
    BY <1>10, <1>12 DEF Holds
  <2>3. \A s \in Spoken : BegunNow(s) => BegunNow(s)'
    BY <2>1, <2>2 DEF BegunNow
  <2>4. TurnsShrink
    BY <1>1, <1>4, <1>6, <1>8, <1>10, <2>3 DEF TurnsShrink, VoiceInv, VoiceTypes
  <2>5. doing' \in Doings /\ VisitedAreFree'
    BY <1>1, <2>1 DEF VoiceInv, VoiceTypes, VisitedAreFree, LeavingNow, On
  <2>6. HolderHolds'
    BY <2>1, <2>2 DEF VoiceInv, HolderHolds, PanelOf
  <2> QED BY <1>1, <1>7, <2>4, <2>5, <2>6, LinksStay, ShrinkingKeeps
<1> QED BY <1>11, <1>12

-----------------------------------------------------------------------------
(* Form: the start of a stream. *)

\* Whoever the start is about to tell stands in no stream.
LEMMA OccupiedByNone ==
  ASSUME VoiceInv, NEW s \in Spoken, Starting(s), Occupied(s) = {},
         NEW c \in Eligible(s)
  PROVE  /\ c \in Spoken /\ Target[c] \in Panels
         /\ \A x \in Spoken : On(x, Target[c]) = {}
<1>1. c \in Spoken /\ Target[c] \in Panels
  BY VoiceAssumption DEF Eligible, Listeners, VoiceInv, VoiceTypes, Batches, Spoken
<1>2. playing[Target[c]] = None \/ Target[c] \in doing.visited
  BY DEF Occupied
<1>3. CASE playing[Target[c]] = None
  <2>1. \A x \in Spoken : x # None
    BY VoiceAssumption DEF Spoken
  <2>2. \A x \in Spoken : \A m \in On(x, Target[c]) : playing[Target[c]] = x
    BY DEF VoiceInv, MembersPlay, On
  <2> QED BY <1>1, <1>3, <2>1, <2>2
<1>4. CASE Target[c] \in doing.visited
  <2>1. ~LeavingNow
    BY DEF LeavingNow, Starting
  <2>2. \A x \in Spoken : On(x, Target[c]) = {}
    BY <1>4, <2>1 DEF VoiceInv, VisitedAreFree
  <2> QED BY <1>1, <2>2
<1> QED BY <1>1, <1>2, <1>3, <1>4

\* A start that has not begun has a stream that nobody was ever in.
LEMMA StreamIsNew ==
  ASSUME VoiceInv, NEW s \in Spoken, Starting(s)
  PROVE  /\ turns # <<>> /\ Head(turns) = StartOf(s)
         /\ stream[s].members = {} /\ \A x \in Spoken : ~BegunNow(x)
<1>1. turns # <<>> /\ Head(turns) = StartOf(s) /\ doing.at # "starts"
  BY DEF Starting, Holds, StartOf
<1>2. Due(s)
  BY <1>1, OneLess DEF VoiceInv, VoiceTypes, StartsOnce
<1>3. ~Done(s) /\ ~BegunNow(s)
  BY <1>1, <1>2 DEF Due, Done, BegunNow
<1> QED BY <1>1, <1>3 DEF VoiceInv, StartsOnce, BegunNow

Told(s) == {Target[c] : c \in Members(s)}
NewMembers(s) == {[call |-> c, link |-> link[Target[c]].n] : c \in Members(s)}

\* What a start that tells somebody does.
Forms(s) ==
  /\ link' = [p \in Panels |-> IF p \in Told(s) THEN [link[p] EXCEPT !.told = s] ELSE link[p]]
  /\ playing' = [p \in Panels |-> IF p \in Told(s) THEN s ELSE playing[p]]
  /\ stream' = [stream EXCEPT ![s] = [@ EXCEPT !.st = "forming", !.members = NewMembers(s)]]
  /\ doing' = [Nothing EXCEPT !.at = "starts"]
  /\ UNCHANGED <<batch, spoken, turns>>

LEMMA FormsFacts ==
  ASSUME VoiceInv, NEW s \in Spoken, Starting(s), Occupied(s) = {}, Forms(s)
  PROVE  /\ Told(s) \subseteq Panels
         /\ \A p \in Told(s), x \in Spoken : On(x, p) = {}
         /\ link' \in [Panels -> Links] /\ playing' \in [Panels -> Spoken \cup {None}]
         /\ \A p \in Panels :
              /\ link'[p].n = link[p].n
              /\ link'[p].told = IF p \in Told(s) THEN s ELSE link[p].told
              /\ playing'[p] = IF p \in Told(s) THEN s ELSE playing[p]
         /\ stream' \in [Spoken -> Streams] /\ stream'[s].members = NewMembers(s)
         /\ \A x \in Spoken \ {s} : stream'[x] = stream[x]
         /\ \A m \in NewMembers(s) :
              /\ m.call \in Listeners(s) /\ m.call \in Spoken /\ Target[m.call] \in Told(s)
              /\ m.link = link[Target[m.call]].n
         /\ doing' \in Doings /\ doing'.at = "starts" /\ doing'.visited = {}
<1>1. \A c \in Members(s) :
        /\ c \in Listeners(s) /\ c \in Spoken /\ Target[c] \in Panels
        /\ \A x \in Spoken : On(x, Target[c]) = {}
  BY OccupiedByNone DEF Members, Eligible
<1>2. /\ Told(s) \subseteq Panels
      /\ \A p \in Told(s), x \in Spoken : On(x, p) = {}
  BY <1>1 DEF Told
<1>3. \A m \in NewMembers(s) :
        /\ m \in MemberRecords
        /\ m.call \in Listeners(s) /\ m.call \in Spoken /\ Target[m.call] \in Told(s)
        /\ m.link = link[Target[m.call]].n
  <2> SUFFICES ASSUME NEW c \in Members(s), NEW m, m = [call |-> c, link |-> link[Target[c]].n]
               PROVE  /\ m \in MemberRecords
                      /\ m.call \in Listeners(s) /\ m.call \in Spoken
                      /\ Target[m.call] \in Told(s)
                      /\ m.link = link[Target[m.call]].n
    BY DEF NewMembers
  <2>1. link[Target[c]].n \in Nat
    BY <1>1 DEF VoiceInv, VoiceTypes, Links
  <2> QED BY <1>1, <2>1 DEF MemberRecords, Told
<1>4. ASSUME NEW p \in Panels
      PROVE  LET w == [link[p] EXCEPT !.told = s]
             IN  w \in Links /\ w.told = s /\ w.n = link[p].n
  <2>1. link[p] \in Links
    BY DEF VoiceInv, VoiceTypes
  <2> QED BY <2>1 DEF Links
<1>5. /\ link' \in [Panels -> Links]
      /\ \A p \in Panels :
           /\ link'[p].n = link[p].n
           /\ link'[p].told = IF p \in Told(s) THEN s ELSE link[p].told
  BY <1>4 DEF Forms, VoiceInv, VoiceTypes
<1>6. /\ playing' \in [Panels -> Spoken \cup {None}]
      /\ \A p \in Panels : playing'[p] = IF p \in Told(s) THEN s ELSE playing[p]
  BY DEF Forms, VoiceInv, VoiceTypes
<1>7. /\ stream' \in [Spoken -> Streams] /\ stream'[s].members = NewMembers(s)
      /\ \A x \in Spoken \ {s} : stream'[x] = stream[x]
  <2> DEFINE w == [stream[s] EXCEPT !.st = "forming", !.members = NewMembers(s)]
  <2>1. NewMembers(s) \subseteq MemberRecords
    BY <1>3
  <2>2. w \in Streams /\ w.members = NewMembers(s)
    BY <2>1 DEF VoiceInv, VoiceTypes, Streams
  <2>3. stream' = [stream EXCEPT ![s] = w]
    BY DEF Forms
  <2> HIDE DEF w
  <2> QED BY <2>2, <2>3 DEF VoiceInv, VoiceTypes
<1>8. doing' \in Doings /\ doing'.at = "starts" /\ doing'.visited = {}
  BY DEF Forms, Nothing, Doings
<1> QED BY <1>2, <1>3, <1>5, <1>6, <1>7, <1>8

LEMMA FormsKeeps ==
  ASSUME VoiceInv, NEW s \in Spoken, Starting(s), Occupied(s) = {}, Forms(s)
  PROVE  VoiceInv'
<1>1. UNCHANGED <<batch, spoken, turns>>
  BY DEF Forms
<1>2. /\ turns # <<>> /\ Head(turns) = StartOf(s)
      /\ stream[s].members = {} /\ \A x \in Spoken : ~BegunNow(x)
  BY StreamIsNew
<1>3. VoiceTypes'
  BY <1>1, FormsFacts DEF VoiceInv, VoiceTypes
<1>4. MembersPlay'
  <2> SUFFICES ASSUME NEW x \in Spoken, NEW m \in stream'[x].members
               PROVE  playing'[Target[m.call]] = x
    BY DEF MembersPlay
  <2>1. CASE x = s
    BY <2>1, FormsFacts
  <2>2. CASE x # s
    <3>1. m \in stream[x].members
      BY <2>2, FormsFacts
    <3>2. Target[m.call] \in Panels /\ m \in On(x, Target[m.call])
      BY <3>1, VoiceAssumption
      DEF VoiceInv, VoiceTypes, Streams, MemberRecords, Spoken, On
    <3>3. Target[m.call] \notin Told(s)
      BY <3>2, FormsFacts
    <3> QED BY <3>1, <3>2, <3>3, FormsFacts DEF VoiceInv, MembersPlay
  <2> QED BY <2>1, <2>2
<1>5. MembersGather' /\ Withdrawn'
  BY <1>1 DEF VoiceInv, MembersGather, Withdrawn
<1>6. VisitedAreFree'
  BY FormsFacts DEF VisitedAreFree, LeavingNow
<1>7. HolderHolds'
  <2>1. StartOf(s).kind = "start"
    BY DEF StartOf
  <2> QED BY <1>1, <1>2, <2>1 DEF HolderHolds
<1>8. ToldAreMembers'
  <2> SUFFICES ASSUME NEW p \in Panels, NEW x, x = link'[p].told, x # None
               PROVE  \E m \in On(x, p)' : m.link = link'[p].n
    BY DEF ToldAreMembers, On
  <2>1. CASE p \in Told(s)
    <3>1. PICK c \in Members(s) : p = Target[c]
      BY <2>1 DEF Told
    <3> DEFINE m == [call |-> c, link |-> link[Target[c]].n]
    <3>2. m \in NewMembers(s) /\ m.call = c /\ m.link = link[p].n
      BY <3>1 DEF NewMembers
    <3> HIDE DEF m
    <3>3. x = s /\ stream'[x].members = NewMembers(s) /\ link'[p].n = link[p].n
      BY <2>1, FormsFacts
    <3> QED BY <3>1, <3>2, <3>3 DEF On
  <2>2. CASE p \notin Told(s)
    <3>1. x = link[p].told /\ link'[p].n = link[p].n /\ x \in Spoken
      BY <2>2, FormsFacts DEF VoiceInv, VoiceTypes, Links
    <3>2. PICK m \in On(x, p) : m.link = link[p].n
      BY <3>1 DEF VoiceInv, ToldAreMembers
    <3>3. x # s
      BY <1>2, <3>2 DEF On
    <3>4. m \in stream'[x].members
      BY <3>1, <3>2, <3>3, FormsFacts DEF On
    <3> QED BY <3>1, <3>2, <3>4 DEF On
  <2> QED BY <2>1, <2>2
<1>9. StartsOnce'
  <2>1. \A x \in Spoken : stream'[x].members # {} => BegunNow(x)' \/ Done(x)'
    <3> SUFFICES ASSUME NEW x \in Spoken, stream'[x].members # {}
                 PROVE  BegunNow(x)' \/ Done(x)'
      OBVIOUS
    <3>1. CASE x = s
      BY <1>1, <1>2, <3>1, FormsFacts DEF BegunNow, StartOf
    <3>2. CASE x # s
      <4>1. stream[x].members # {}
        BY <3>2, FormsFacts
      <4> QED BY <1>1, <1>2, <4>1 DEF VoiceInv, StartsOnce, Done
    <3> QED BY <3>1, <3>2
  <2> QED BY <1>1, <2>1 DEF VoiceInv, StartsOnce, Due
<1>10. ReturnedIsSilent'
  <2> SUFFICES ASSUME NEW c \in Announcements, spoken[c].st = "over", ~spoken[c].aborted,
                      NEW x \in Spoken, NEW m \in stream'[x].members
               PROVE  m.call # c
    BY <1>1 DEF ReturnedIsSilent
  <2>1. CASE x = s
    <3>1. m.call \in Listeners(s)
      BY <2>1, FormsFacts
    <3>2. CASE s \in Replies
      BY <3>1, <3>2, VoiceAssumption DEF Listeners
    <3>3. CASE s \notin Replies
      <4>1. s \in Announcements /\ m.call \in batch[s].members
        BY <3>1, <3>3 DEF Listeners, Spoken
      <4>2. spoken[m.call].st = "gathering"
        BY <4>1 DEF VoiceInv, MembersGather
      <4> QED BY <4>2
    <3> QED BY <3>2, <3>3
  <2>2. CASE x # s
    BY <2>2, FormsFacts DEF VoiceInv, ReturnedIsSilent
  <2> QED BY <2>1, <2>2
<1> QED BY <1>3, <1>4, <1>5, <1>6, <1>7, <1>8, <1>9, <1>10 DEF VoiceInv

LEMMA FormKeeps ==
  ASSUME VoiceInv, NEW s \in Spoken, Form(s)
  PROVE  VoiceInv'
<1>1. Starting(s) /\ Occupied(s) = {}
  BY DEF Form
<1>2. CASE Told(s) = {}
  <2>1. GivesBack /\ Started(s) /\ UNCHANGED <<link, stream, playing>>
    BY <1>2 DEF Form, Told
  <2>2. doing' = Nothing
    BY <2>1 DEF GivesBack
  <2> QED BY <1>1, <2>1, <2>2, LinksStay, StreamIsNew, StartedShrinks, NothingFacts, ShrinkingKeeps
<1>3. CASE Told(s) # {}
  <2>1. Forms(s)
    BY <1>3 DEF Form, Forms, Told, NewMembers
  <2> QED BY <1>1, <2>1, FormsKeeps
<1> QED BY <1>2, <1>3

LEMMA VoiceStep == VoiceInv /\ [VoiceNext]_voiceVars => VoiceInv'
<1> SUFFICES ASSUME VoiceInv, [VoiceNext]_voiceVars PROVE VoiceInv'
  OBVIOUS
<1>1. ASSUME NEW p \in Roaming,
             Connect(p) \/ Disconnect(p) \/ PlayerComesAndGoes(p) \/ LinkCloses(p) \/ PanelAsks(p)
      PROVE  VoiceInv'
  BY <1>1, VoiceAssumption, ConnectKeeps, LinkKeeps, PanelAsksKeeps
<1>2. ASSUME NEW c \in Announcements, Announce(c) \/ PanelReportsPlayed(c) \/ Cancel(c)
      PROVE  VoiceInv'
  BY <1>2, AnnounceKeeps, PlayedKeeps, AnnouncementEndsKeeps
<1>3. ASSUME NEW c \in Replies, Reply(c) PROVE VoiceInv'
  BY <1>3, ReplyKeeps
<1>4. ASSUME NEW c \in Spoken, CallStep(c) \/ CancelInTurn(c) \/ TaskStep(c)
      PROVE  VoiceInv'
  <2>1. CASE CallStep(c)
    BY <2>1, ReplyFetchedKeeps, WindowKeeps, BatchAnswersKeeps, AnnouncementEndsKeeps
    DEF CallStep, Spoken
  <2>2. CASE CancelInTurn(c)
    BY <2>2, CancelInTurnKeeps
  <2>3. CASE TaskStep(c)
    BY <2>3, TaskKeeps, TaskEndsKeeps DEF TaskStep
  <2> QED BY <1>4, <2>1, <2>2, <2>3
<1>5. CASE TurnStep
  <2>1. CASE LeaveResumes \/ LeaveEnds
    BY <2>1, LeaveResumesKeeps, LeaveEndsKeeps
  <2>2. ASSUME NEW t, turns # <<>>, t = Head(turns), t.kind = "start",
               ClearPanel(t.of) \/ Form(t.of) \/ StartEnds(t.of)
        PROVE  VoiceInv'
    <3>1. t.of \in Spoken
      BY <2>2, OneLess, TicketFacts DEF VoiceInv, VoiceTypes
    <3> QED BY <2>2, <3>1, ClearPanelKeeps, FormKeeps, StartEndsKeeps
  <2>3. ASSUME NEW t, turns # <<>>, t = Head(turns), TakeTurn(t) \/ EndTurn(t)
        PROVE  VoiceInv'
    BY <2>3, TakeTurnKeeps, EndTurnKeeps
  <2> QED BY <1>5, <2>1, <2>2, <2>3 DEF TurnStep
<1>6. CASE UNCHANGED voiceVars
  <2>1. UNCHANGED <<link, spoken, batch, stream, playing, turns, doing>>
    BY <1>6 DEF voiceVars
  <2>2. StationsStay /\ TurnsGrow
    BY <2>1 DEF StationsStay, TurnsGrow, VoiceInv, VoiceTypes
  <2> QED BY <2>1, <2>2, LinksStay, StayingIsMoving, CallsKeep
<1> QED BY <1>1, <1>2, <1>3, <1>4, <1>5, <1>6 DEF VoiceNext

\* An announcement whose call has returned plays nowhere: whatever becomes of
\* its panel's session, link or stream, the withdrawal that precedes the return
\* (async_withdraw and _async_leave, voice_stream.py) leaves it in no stream,
\* unless the withdrawal itself was cancelled.
THEOREM ReturnedCallsAreSilent == VoiceSpec => []ReturnedIsSilent
<1>1. VoiceInit => VoiceInv
  BY VoiceInitial
<1>2. VoiceInv /\ [VoiceNext]_voiceVars => VoiceInv'
  BY VoiceStep
<1>3. VoiceInv => ReturnedIsSilent
  BY DEF VoiceInv
<1> QED BY <1>1, <1>2, <1>3, PTL DEF VoiceSpec

\* A step tells a link to play only what follows an end.
TellsInTurn ==
  \A p \in Panels :
    link'[p].told \in {link[p].told, None} \/ link[p].told = None

LEMMA FormTellsInTurn ==
  ASSUME VoiceInv, NEW s \in Spoken, Form(s)
  PROVE  TellsInTurn
<1>1. Starting(s) /\ Occupied(s) = {}
  BY DEF Form
<1>2. CASE Told(s) = {}
  BY <1>2 DEF Form, Told, TellsInTurn
<1>3. CASE Told(s) # {}
  <2>1. Forms(s)
    BY <1>3 DEF Form, Forms, Told, NewMembers
  <2> SUFFICES ASSUME NEW p \in Panels, p \in Told(s) PROVE link[p].told = None
    BY <1>1, <2>1, FormsFacts DEF TellsInTurn
  <2>2. \A x \in Spoken : On(x, p) = {}
    BY <1>1, <2>1, FormsFacts
  <2> QED BY <2>2 DEF VoiceInv, VoiceTypes, Links, ToldAreMembers
<1> QED BY <1>2, <1>3

LEMMA LinksMoveTells == LinksMove => TellsInTurn
BY DEF LinksMove, TellsInTurn

LEMMA ClaimTells ==
  ASSUME VoiceInv, NEW s, NEW p, Claim(s, p)
  PROVE  TellsInTurn
<1>1. link \in [Panels -> Links]
  BY DEF VoiceInv, VoiceTypes
<1>2. PICK told \in {link[p].told, None} : link' = [link EXCEPT ![p].told = told]
  BY DEF Claim
<1> QED BY <1>1, <1>2 DEF TellsInTurn, Links

LEMMA EachTellsInTurn == VoiceInv /\ [VoiceNext]_voiceVars => TellsInTurn
<1> SUFFICES ASSUME VoiceInv, [VoiceNext]_voiceVars PROVE TellsInTurn
  OBVIOUS
<1>0. link' = link => TellsInTurn
  BY DEF TellsInTurn
<1>1. ASSUME NEW p \in Roaming,
             Connect(p) \/ Disconnect(p) \/ PlayerComesAndGoes(p) \/ LinkCloses(p) \/ PanelAsks(p)
      PROVE  TellsInTurn
  <2>1. CASE PanelAsks(p)
    BY <1>0, <2>1 DEF PanelAsks
  <2> QED BY <1>1, <2>1, VoiceAssumption, ConnectMoves, LinkMoves, LinksMoveTells
<1>2. ASSUME NEW c \in Announcements, Announce(c) \/ PanelReportsPlayed(c) \/ Cancel(c)
      PROVE  TellsInTurn
  BY <1>0, <1>2 DEF Announce, PanelReportsPlayed, Cancel
<1>3. ASSUME NEW c \in Replies, Reply(c) PROVE TellsInTurn
  BY <1>0, <1>3 DEF Reply
<1>4. ASSUME NEW c \in Spoken, CallStep(c) \/ CancelInTurn(c) \/ TaskStep(c)
      PROVE  TellsInTurn
  <2>1. CASE CallStep(c)
    BY <1>0, <2>1
    DEF CallStep, ReplyFetched, WindowCloses, Fetched, BatchAnswers, AnnouncementEnds
  <2>2. CASE CancelInTurn(c)
    BY <1>0, <2>2 DEF CancelInTurn
  <2>3. CASE Flows(c) \/ PlaysOut(c) \/ CutOff(c)
    BY <1>0, <2>3 DEF Flows, PlaysOut, CutOff
  <2>4. CASE TaskEnds(c)
    <3>1. link' = link \/ \E p \in {Target[m.call] : m \in stream[c].members} : Claim(c, p)
      BY <2>4 DEF TaskEnds
    <3>2. ASSUME NEW p, Claim(c, p) PROVE TellsInTurn
      BY <3>2, ClaimTells
    <3> QED BY <1>0, <3>1, <3>2
  <2> QED BY <1>4, <2>1, <2>2, <2>3, <2>4 DEF TaskStep
<1>5. CASE TurnStep
  <2>1. CASE LeaveResumes
    BY <1>0, <2>1 DEF LeaveResumes
  <2>2. CASE LeaveEnds
    BY <2>2, ClaimTells DEF LeaveEnds
  <2>3. ASSUME NEW t, turns # <<>>, t = Head(turns), t.kind = "start",
               ClearPanel(t.of) \/ Form(t.of) \/ StartEnds(t.of)
        PROVE  TellsInTurn
    <3>1. t.of \in Spoken
      BY <2>3, OneLess, TicketFacts DEF VoiceInv, VoiceTypes
    <3>2. CASE ClearPanel(t.of) \/ StartEnds(t.of)
      BY <1>0, <3>2 DEF ClearPanel, StartEnds
    <3> QED BY <2>3, <3>1, <3>2, FormTellsInTurn
  <2>4. ASSUME NEW t, turns # <<>>, t = Head(turns), TakeTurn(t) \/ EndTurn(t)
        PROVE  TellsInTurn
    BY <2>4, TakeTurnMoves, EndTurnMoves, LinksMoveTells
  <2> QED BY <1>5, <2>1, <2>2, <2>3, <2>4 DEF TurnStep
<1>6. CASE UNCHANGED voiceVars
  BY <1>0, <1>6 DEF voiceVars
<1> QED BY <1>1, <1>2, <1>3, <1>4, <1>5, <1>6 DEF VoiceNext

\* A link is told to play only after it has been told the end of what it played
\* before: by whoever claims the member first (_async_end), and before the next
\* start forms its group (_async_start, voice_stream.py), because a panel that
\* has a stream's member is taken off it while the lock is held.
THEOREM EndsPrecedeStarts == VoiceSpec => EndPrecedesNext
<1>1. VoiceInit => VoiceInv
  BY VoiceInitial
<1>2. VoiceInv /\ [VoiceNext]_voiceVars => VoiceInv'
  BY VoiceStep
<1>3. VoiceInv /\ [VoiceNext]_voiceVars =>
        [\A p \in Panels :
           /\ link'[p].told \notin {link[p].told, None}
           /\ link'[p].n = link[p].n
           => link[p].told = None]_voiceVars
  BY EachTellsInTurn DEF TellsInTurn
<1> QED BY <1>1, <1>2, <1>3, PTL DEF VoiceSpec, EndPrecedesNext

-----------------------------------------------------------------------------
(***************************************************************************)
(* The requests on their way to the panel.                                 *)
(***************************************************************************)
Requests == [op : {"subscribe", "unsubscribe"}, id : Relays]

LEMMA AskFacts ==
  /\ \A id \in Relays :
       Ask("subscribe", id) \in Requests /\ Ask("unsubscribe", id) \in Requests
  /\ \A op1, op2, id1, id2 :
       Ask(op1, id1) = Ask(op2, id2) <=> op1 = op2 /\ id1 = id2
  /\ \A op, id : Ask(op, id).op = op /\ Ask(op, id).id = id
  /\ \A a \in Requests : a = Ask(a.op, a.id) /\ a.id \in Relays
BY DEF Ask, Requests

\* q ends id behind its place i.
EndedAfter(q, i, id) ==
  \E j \in DOMAIN q : j > i /\ q[j] = Ask("unsubscribe", id)

\* Somebody is in the table of id, or it is about to be ended.
StillWanted(q, table, i, id) == table[id] # {} \/ EndedAfter(q, i, id)

\* What the panel has open is wanted, and so is what it is asked to open.
AllWanted(q, table, has) ==
  /\ \A i \in DOMAIN q, id \in Relays :
       q[i] = Ask("subscribe", id) => StillWanted(q, table, i, id)
  /\ \A f \in Feeds : has[f] # NoAnswer => StillWanted(q, table, 0, has[f])

AskedFor(q, id) == \E i \in DOMAIN q : q[i] = Ask("subscribe", id)

\* What loses its last listener is ended, or is not open and will not be.
LeftLawfully(q, q2, table, table2, has, sub) ==
  \A id \in Relays :
    table[id] # {} =>
      \/ table2[id] # {}
      \/ id = sub /\ q2 # q
      \/ ~AskedFor(q, id) /\ \A f \in Feeds : has[f] # id

\* A subscription loses its last listener only with a request to end it, or
\* where the panel has not opened and will not open it.
LEMMA LeavingIsLawful ==
  ASSUME NEW q \in Seq(Requests), NEW q2, NEW table, NEW table2, NEW has,
         NEW sub \in Relays,
         AllWanted(q, table, has),
         q2 = q \/ q2 = Append(q, Ask("unsubscribe", sub)),
         LeftLawfully(q, q2, table, table2, has, sub),
         \A f \in Feeds : has[f] # NoAnswer => has[f] \in Relays
  PROVE  AllWanted(q2, table2, has) /\ q2 \in Seq(Requests)
<1>1. q2 \in Seq(Requests) /\ Len(q2) \in Nat /\ Len(q) \in Nat
  BY AskFacts
<1>2. /\ DOMAIN q \subseteq DOMAIN q2
      /\ \A i \in DOMAIN q : q2[i] = q[i] /\ i \in Nat
      /\ \A i \in DOMAIN q2 : i \in DOMAIN q \/ q2[i] = Ask("unsubscribe", sub)
  <2>1. CASE q2 = q
    BY <2>1
  <2>2. CASE q2 = Append(q, Ask("unsubscribe", sub))
    BY <1>1, <2>2, AskFacts
  <2> QED BY <2>1, <2>2
<1>3. \A i, id : EndedAfter(q, i, id) => EndedAfter(q2, i, id)
  BY <1>2 DEF EndedAfter
<1>4. q2 # q => \A i \in DOMAIN q \cup {0} : EndedAfter(q2, i, sub)
  <2> HAVE q2 # q
  <2>1. q2 = Append(q, Ask("unsubscribe", sub))
    OBVIOUS
  <2>2. /\ Len(q) + 1 \in DOMAIN q2 /\ q2[Len(q) + 1] = Ask("unsubscribe", sub)
        /\ \A i \in DOMAIN q \cup {0} : Len(q) + 1 > i
    BY <1>1, <2>1, AskFacts
  <2> QED BY <2>2 DEF EndedAfter
<1>5. ASSUME NEW i \in DOMAIN q, NEW id \in Relays, q[i] = Ask("subscribe", id)
      PROVE  StillWanted(q2, table2, i, id)
  <2>1. StillWanted(q, table, i, id) /\ AskedFor(q, id)
    BY <1>5 DEF AllWanted, AskedFor
  <2> QED BY <1>3, <1>4, <2>1 DEF StillWanted, LeftLawfully
<1>6. ASSUME NEW f \in Feeds, has[f] # NoAnswer
      PROVE  StillWanted(q2, table2, 0, has[f])
  <2>1. StillWanted(q, table, 0, has[f]) /\ has[f] \in Relays
    BY <1>6 DEF AllWanted
  <2> QED BY <1>3, <1>4, <2>1 DEF StillWanted, LeftLawfully
<1>7. ASSUME NEW i \in DOMAIN q2, NEW id \in Relays, q2[i] = Ask("subscribe", id)
      PROVE  StillWanted(q2, table2, i, id)
  <2>1. i \in DOMAIN q /\ q[i] = Ask("subscribe", id)
    BY <1>2, <1>7, AskFacts
  <2> QED BY <1>5, <2>1
<1> QED BY <1>1, <1>6, <1>7 DEF AllWanted

\* What is taken off the queue.
LEMMA TakenFacts ==
  ASSUME NEW q \in Seq(Requests), q # <<>>
  PROVE  /\ Tail(q) \in Seq(Requests) /\ Head(q) \in Requests /\ q[1] = Head(q)
         /\ 1 \in DOMAIN q
         /\ \A i \in DOMAIN Tail(q) :
              i \in Nat /\ i + 1 \in DOMAIN q /\ Tail(q)[i] = q[i + 1]
         /\ \A id : \A i \in Nat : EndedAfter(q, i + 1, id) => EndedAfter(Tail(q), i, id)
         /\ \A id : EndedAfter(q, 0, id) /\ Head(q) # Ask("unsubscribe", id)
                      => EndedAfter(Tail(q), 0, id)
<1>1. /\ Tail(q) \in Seq(Requests) /\ Head(q) \in Requests /\ q[1] = Head(q)
      /\ Len(q) \in Nat /\ Len(q) # 0 /\ DOMAIN q = 1..Len(q)
      /\ DOMAIN Tail(q) = 1..(Len(q) - 1)
      /\ \A i \in 1..(Len(q) - 1) : Tail(q)[i] = q[i + 1]
  OBVIOUS
<1>2. ASSUME NEW j \in DOMAIN q, j > 1
      PROVE  j - 1 \in DOMAIN Tail(q) /\ Tail(q)[j - 1] = q[j]
  <2>1. j - 1 \in 1..(Len(q) - 1)
    BY <1>1, <1>2
  <2>2. Tail(q)[j - 1] = q[(j - 1) + 1] /\ (j - 1) + 1 = j
    BY <1>1, <2>1
  <2> QED BY <1>1, <2>1, <2>2
<1>3. ASSUME NEW id, NEW i \in Nat, EndedAfter(q, i + 1, id)
      PROVE  EndedAfter(Tail(q), i, id)
  <2>1. PICK j \in DOMAIN q : j > i + 1 /\ q[j] = Ask("unsubscribe", id)
    BY <1>3 DEF EndedAfter
  <2>2. j \in Nat /\ j > 1 /\ j - 1 > i
    BY <1>1, <2>1
  <2> QED BY <1>2, <2>1, <2>2 DEF EndedAfter
<1>4. ASSUME NEW id, EndedAfter(q, 0, id), Head(q) # Ask("unsubscribe", id)
      PROVE  EndedAfter(Tail(q), 0, id)
  <2>1. PICK j \in DOMAIN q : j > 0 /\ q[j] = Ask("unsubscribe", id)
    BY <1>4 DEF EndedAfter
  <2>2. j \in Nat /\ j > 1 /\ j - 1 > 0
    BY <1>1, <1>4, <2>1
  <2> QED BY <1>2, <2>1, <2>2 DEF EndedAfter
<1> QED BY <1>1, <1>3, <1>4

-----------------------------------------------------------------------------
(***************************************************************************)
(* The invariant of the relays.                                            *)
(***************************************************************************)
RelayRecords ==
  [st : {"new", "asked", "over"}, answer : AskedAnswers, ended : BOOLEAN,
   applied : BOOLEAN, panelId : Relays, held : 0..MaxUpdates,
   told : {"nothing", "answer", "failed", "update", "closed"}]

RelayTypes ==
  /\ sessionUp \in BOOLEAN
  /\ relay \in [Relays -> RelayRecords]
  /\ uiRelays \in [Relays -> SUBSET Relays]
  /\ toPanel \in Seq(Requests)
  /\ open \in [Feeds -> Relays \cup {NoAnswer}]
  /\ answered \in [Relays -> AskedAnswers]
  /\ updates \in 0..MaxUpdates
  /\ \A r \in Relays : relay[r].held <= updates

\* A relay listens in one table at most, that of the subscription it is on, and
\* only until its wait has ended and its browser with it.
Listens(r, table, state) ==
  /\ \A id \in Relays : r \in table[id] =>
       id = state.panelId /\ (state.st = "asked" \/ ~state.ended)
  /\ state.st # "over" => state.panelId = r
  /\ state.st = "over" /\ ~state.ended /\ r \in Subscriptions => state.applied

\* Its subscribe is sent once, is taken before it is answered, and opens the
\* subscription of its name or is answered with another.
AsksOnce(r, state, q, has, ans) ==
  /\ \A i, j \in DOMAIN q :
       q[i] = Ask("subscribe", r) /\ q[j] = Ask("subscribe", r) => i = j
  /\ AskedFor(q, r) =>
       /\ state.st # "new" /\ state.answer = NoAnswer /\ ans = NoAnswer
       /\ has[Feed[r]] # r
  /\ ans \notin {NoAnswer, r} \/ state.answer \notin {NoAnswer, r} =>
       has[Feed[r]] # r
  /\ state.st = "new" =>
       ans = NoAnswer /\ state.answer = NoAnswer /\ has[Feed[r]] # r

RelayInv ==
  /\ RelayTypes
  /\ \A f \in Feeds : open[f] # NoAnswer => Feed[open[f]] = f
  /\ \A r \in Relays : Listens(r, uiRelays, relay[r])
  /\ \A r \in Relays : AsksOnce(r, relay[r], toPanel, open, answered[r])
  /\ AllWanted(toPanel, uiRelays, open)
  /\ ~sessionUp => toPanel = <<>> /\ open = [f \in Feeds |-> NoAnswer]

LEMMA AppendFacts ==
  ASSUME NEW q \in Seq(Requests), NEW a \in Requests
  PROVE  /\ Append(q, a) \in Seq(Requests)
         /\ \A i \in DOMAIN q : i \in DOMAIN Append(q, a) /\ Append(q, a)[i] = q[i]
         /\ \A i \in DOMAIN Append(q, a) :
              i \in DOMAIN q \/ (i = Len(q) + 1 /\ Append(q, a)[i] = a)
         /\ \A i, id : EndedAfter(q, i, id) => EndedAfter(Append(q, a), i, id)
         /\ \A id : AskedFor(Append(q, a), id) =>
                      AskedFor(q, id) \/ a = Ask("subscribe", id)
<1>1. /\ Append(q, a) \in Seq(Requests)
      /\ \A i \in DOMAIN q : i \in DOMAIN Append(q, a) /\ Append(q, a)[i] = q[i]
      /\ \A i \in DOMAIN Append(q, a) :
           i \in DOMAIN q \/ (i = Len(q) + 1 /\ Append(q, a)[i] = a)
  OBVIOUS
<1>2. \A i, id : EndedAfter(q, i, id) => EndedAfter(Append(q, a), i, id)
  BY <1>1 DEF EndedAfter
<1>3. \A id : AskedFor(Append(q, a), id) =>
                AskedFor(q, id) \/ a = Ask("subscribe", id)
  BY <1>1 DEF AskedFor
<1> QED BY <1>1, <1>2, <1>3

\* A request to end a subscription asks for none.
LEMMA EndingAsksNothing ==
  ASSUME NEW q \in Seq(Requests), NEW sub \in Relays, NEW r \in Relays,
         NEW s, NEW h, NEW a, AsksOnce(r, s, q, h, a)
  PROVE  AsksOnce(r, s, Append(q, Ask("unsubscribe", sub)), h, a)
<1> DEFINE e == Ask("unsubscribe", sub)
           q2 == Append(q, e)
<1>1. e \in Requests /\ e # Ask("subscribe", r)
  BY AskFacts
<1>2. AskedFor(q2, r) => AskedFor(q, r)
  BY <1>1, AppendFacts
<1>3. \A i \in DOMAIN q2 : q2[i] = Ask("subscribe", r) =>
        i \in DOMAIN q /\ q[i] = Ask("subscribe", r)
  BY <1>1, AppendFacts
<1> HIDE DEF q2
<1>4. AsksOnce(r, s, q2, h, a)
  BY <1>2, <1>3 DEF AsksOnce
<1> QED BY <1>4 DEF q2

LEMMA LeaveFacts ==
  ASSUME NEW table \in [Relays -> SUBSET Relays], NEW r, NEW id \in Relays
  PROVE  /\ LeaveRelay(table, r, id) \in [Relays -> SUBSET Relays]
         /\ LeaveRelay(table, r, id)[id] = table[id] \ {r}
         /\ \A x \in Relays : x # id => LeaveRelay(table, r, id)[x] = table[x]
BY DEF LeaveRelay

\* Nothing is open or on its way under the name of a relay that was refused or
\* given another's subscription.
LEMMA NeverOpened ==
  ASSUME RelayInv, NEW r \in Relays, relay[r].answer \notin {NoAnswer, r}
  PROVE  ~AskedFor(toPanel, r) /\ \A f \in Feeds : open[f] # r
<1>1. AsksOnce(r, relay[r], toPanel, open, answered[r])
  BY DEF RelayInv
<1>2. r # NoAnswer
  BY RelayAssumption
<1>3. \A f \in Feeds : open[f] = r => f = Feed[r]
  BY <1>2 DEF RelayInv
<1> QED BY <1>1, <1>3 DEF AsksOnce

\* Relay r ends its wait or its part, and may ask to end subscription sub.
LEMMA LeaveStep ==
  ASSUME RelayInv, NEW r \in Relays, NEW sub \in Relays,
         relay[r].st # "new",
         relay' \in [Relays -> RelayRecords],
         relay'[r].st # "new", relay'[r].answer = relay[r].answer,
         relay'[r].held <= relay[r].held,
         \A o \in Relays : o # r => relay'[o] = relay[o],
         uiRelays' \in [Relays -> SUBSET Relays],
         \A o \in Relays : Listens(o, uiRelays', relay'[o]),
         toPanel' = toPanel \/ toPanel' = Append(toPanel, Ask("unsubscribe", sub)),
         ~sessionUp => toPanel' = toPanel,
         UNCHANGED <<sessionUp, open, answered, updates>>,
         sessionUp =>
           LeftLawfully(toPanel, toPanel', uiRelays, uiRelays', open, sub)
  PROVE  RelayInv'
<1>1. /\ RelayTypes /\ AllWanted(toPanel, uiRelays, open)
      /\ toPanel \in Seq(Requests)
      /\ \A f \in Feeds : open[f] # NoAnswer => open[f] \in Relays
  BY DEF RelayInv, RelayTypes
<1>4. \A o \in Relays : relay'[o].held <= updates
  <2>1. /\ relay[r].held \in Int /\ updates \in Int /\ relay[r].held <= updates
        /\ \A o \in Relays : relay[o].held <= updates
    BY <1>1, RelayAssumption DEF RelayTypes, RelayRecords
  <2>2. relay'[r].held \in Int
    BY RelayAssumption DEF RelayRecords
  <2>3. relay'[r].held <= updates
    BY <2>1, <2>2
  <2> QED BY <2>1, <2>3
<1>2. CASE sessionUp
  <2>1. AllWanted(toPanel', uiRelays', open) /\ toPanel' \in Seq(Requests)
    BY <1>1, <1>2, LeavingIsLawful
  <2> QED
    <3>1. RelayTypes'
      BY <1>1, <1>4, <2>1 DEF RelayTypes
    <3>2. ASSUME NEW o \in Relays
          PROVE  AsksOnce(o, relay[o], toPanel', open, answered[o])
      <4>1. AsksOnce(o, relay[o], toPanel, open, answered[o])
        BY DEF RelayInv
      <4>2. CASE toPanel' = toPanel
        BY <4>1, <4>2
      <4>3. CASE toPanel' = Append(toPanel, Ask("unsubscribe", sub))
        BY <1>1, <4>1, <4>3, EndingAsksNothing
      <4> QED BY <4>2, <4>3
    <3>3. ASSUME NEW o \in Relays
          PROVE  AsksOnce(o, relay'[o], toPanel', open, answered[o])
      <4>1. CASE o # r
        BY <3>2, <4>1
      <4>2. CASE o = r
        BY <3>2, <4>2 DEF AsksOnce
      <4> QED BY <4>1, <4>2
    <3> QED BY <1>2, <2>1, <3>1, <3>3 DEF RelayInv
<1>3. CASE ~sessionUp
  <2>1. toPanel' = <<>> /\ toPanel = <<>> /\ open = [f \in Feeds |-> NoAnswer]
    BY <1>3 DEF RelayInv
  <2>2. AllWanted(toPanel', uiRelays', open)
    BY <2>1 DEF AllWanted
  <2>3. RelayTypes'
    BY <1>1, <1>3, <1>4 DEF RelayTypes
  <2>4. ASSUME NEW o \in Relays
        PROVE  AsksOnce(o, relay'[o], toPanel', open, answered[o])
    <3>1. AsksOnce(o, relay[o], toPanel, open, answered[o])
      BY DEF RelayInv
    <3>2. CASE o # r
      BY <1>3, <3>1, <3>2
    <3>3. CASE o = r
      BY <1>3, <3>1, <3>3 DEF AsksOnce
    <3> QED BY <3>2, <3>3
  <2> QED BY <1>3, <2>1, <2>2, <2>3, <2>4 DEF RelayInv
<1> QED BY <1>2, <1>3

-----------------------------------------------------------------------------
(***************************************************************************)
(* The steps of the relays.                                                *)
(***************************************************************************)
LEMMA SubscribeKeeps ==
  ASSUME RelayInv, NEW r \in Relays, Subscribe(r)
  PROVE  RelayInv'
<1> DEFINE a == Ask("subscribe", r)
<1>1. /\ relay[r].st = "new" /\ sessionUp
      /\ relay' = [relay EXCEPT ![r].st = "asked"]
      /\ uiRelays' = [uiRelays EXCEPT ![r] = {r}]
      /\ toPanel' = Append(toPanel, a)
      /\ UNCHANGED <<sessionUp, open, answered, updates>>
  BY DEF Subscribe, CanSubscribe
<1>2. RelayTypes /\ a \in Requests /\ toPanel \in Seq(Requests)
  BY AskFacts DEF RelayInv, RelayTypes
<1>3. /\ relay' \in [Relays -> RelayRecords]
      /\ relay'[r].st = "asked" /\ relay'[r].panelId = relay[r].panelId
      /\ relay'[r].answer = relay[r].answer
      /\ \A o \in Relays : o # r => relay'[o] = relay[o]
      /\ \A o \in Relays : relay'[o].held = relay[o].held
  <2>1. relay[r] \in RelayRecords
    BY <1>2 DEF RelayTypes
  <2> DEFINE w == [relay[r] EXCEPT !.st = "asked"]
  <2>2. /\ w \in RelayRecords /\ w.st = "asked" /\ w.panelId = relay[r].panelId
        /\ w.answer = relay[r].answer /\ w.held = relay[r].held
    BY <2>1 DEF RelayRecords
  <2>3. relay' = [relay EXCEPT ![r] = w]
    BY <1>1
  <2> HIDE DEF w
  <2> QED BY <1>2, <2>2, <2>3 DEF RelayTypes
<1>4. /\ uiRelays' \in [Relays -> SUBSET Relays] /\ uiRelays'[r] = {r}
      /\ \A x \in Relays : x # r => uiRelays'[x] = uiRelays[x]
  BY <1>1, <1>2 DEF RelayTypes
<1>5. RelayTypes'
  BY <1>1, <1>2, <1>3, <1>4, AppendFacts DEF RelayTypes
<1>6. ASSUME NEW o \in Relays PROVE Listens(o, uiRelays', relay'[o])
  <2>1. Listens(o, uiRelays, relay[o])
    BY DEF RelayInv
  <2> QED BY <1>1, <1>3, <1>4, <2>1 DEF Listens
<1>7. ASSUME NEW o \in Relays
      PROVE  AsksOnce(o, relay'[o], toPanel', open, answered[o])
  <2>1. AsksOnce(o, relay[o], toPanel, open, answered[o])
    BY DEF RelayInv
  <2>2. /\ \A i \in DOMAIN toPanel : toPanel'[i] = toPanel[i]
        /\ \A i \in DOMAIN toPanel' :
             i \in DOMAIN toPanel \/ (i = Len(toPanel) + 1 /\ toPanel'[i] = a)
        /\ AskedFor(toPanel', o) => AskedFor(toPanel, o) \/ a = Ask("subscribe", o)
    BY <1>1, <1>2, AppendFacts
  <2>3. CASE o # r
    <3>1. a # Ask("subscribe", o)
      BY <2>3, AskFacts
    <3>2. \A i \in DOMAIN toPanel' : toPanel'[i] = Ask("subscribe", o) =>
            i \in DOMAIN toPanel /\ toPanel[i] = Ask("subscribe", o)
      BY <2>2, <3>1
    <3>3. relay'[o] = relay[o]
      BY <1>3, <2>3
    <3> HIDE DEF a
    <3> QED BY <2>1, <2>2, <3>1, <3>2, <3>3 DEF AsksOnce
  <2>4. CASE o = r
    <3>1. ~AskedFor(toPanel, r) /\ answered[r] = NoAnswer
          /\ relay[r].answer = NoAnswer /\ open[Feed[r]] # r
      BY <1>1, <2>1, <2>4 DEF AsksOnce
    <3>2. \A i \in DOMAIN toPanel' : toPanel'[i] = a => i = Len(toPanel) + 1
      BY <2>2, <3>1 DEF AskedFor
    <3> QED BY <1>3, <2>4, <3>1, <3>2 DEF AsksOnce
  <2> QED BY <2>3, <2>4
<1>8. AllWanted(toPanel', uiRelays', open)
  <2>1. AllWanted(toPanel, uiRelays, open)
    BY DEF RelayInv
  <2>2. \A i, id : EndedAfter(toPanel, i, id) => EndedAfter(toPanel', i, id)
    BY <1>1, <1>2, AppendFacts
  <2>3. \A id \in Relays : \A i : StillWanted(toPanel, uiRelays, i, id) =>
                                StillWanted(toPanel', uiRelays', i, id)
    BY <1>4, <2>2 DEF StillWanted
  <2>4. ASSUME NEW i \in DOMAIN toPanel', NEW id \in Relays,
               toPanel'[i] = Ask("subscribe", id)
        PROVE  StillWanted(toPanel', uiRelays', i, id)
    <3>1. CASE i \in DOMAIN toPanel
      <4>1. toPanel[i] = Ask("subscribe", id)
        BY <1>1, <1>2, <2>4, <3>1, AppendFacts
      <4> QED BY <2>1, <2>3, <3>1, <4>1 DEF AllWanted
    <3>2. CASE i \notin DOMAIN toPanel
      <4>1. id = r
        BY <1>1, <1>2, <2>4, <3>2, AppendFacts, AskFacts
      <4> QED BY <1>4, <4>1 DEF StillWanted
    <3> QED BY <3>1, <3>2
  <2>5. \A f \in Feeds : open[f] # NoAnswer => StillWanted(toPanel', uiRelays', 0, open[f])
    BY <1>2, <2>1, <2>3 DEF AllWanted, RelayTypes
  <2> QED BY <2>4, <2>5 DEF AllWanted
<1> QED BY <1>1, <1>5, <1>6, <1>7, <1>8 DEF RelayInv

\* A wait that ends without an answer, or with one that nothing was opened for.
LEMMA FailsToSubscribeKeeps ==
  ASSUME RelayInv, NEW r \in Relays, FailsToSubscribe(r)
  PROVE  RelayInv'
<1> DEFINE left == LeaveRelay(uiRelays, r, r)
           w == IF relay[r].ended THEN [relay[r] EXCEPT !.st = "over"]
                ELSE [Forwarded(relay[r], "failed") EXCEPT !.ended = TRUE]
<1>1. RelayTypes /\ relay[r] \in RelayRecords /\ Listens(r, uiRelays, relay[r])
  BY DEF RelayInv, RelayTypes
<1>2. /\ relay[r].st = "asked" /\ r \in Subscriptions /\ relay[r].answer \notin Relays
      /\ relay[r].panelId = r
      /\ toPanel' = IF relay[r].answer = "refused" THEN toPanel
                    ELSE Unsubscribes(left, FALSE, TRUE, r)
      /\ uiRelays' = left
      /\ relay' = [relay EXCEPT ![r] = w]
      /\ UNCHANGED <<sessionUp, open, answered, updates>>
  BY <1>1 DEF FailsToSubscribe, Listens
<1>3. /\ w \in RelayRecords /\ w.st = "over" /\ w.ended = TRUE
      /\ w.answer = relay[r].answer /\ w.panelId = r /\ w.held <= relay[r].held
  <2>1. relay[r].held \in Nat
    BY <1>1, RelayAssumption DEF RelayRecords
  <2>2. CASE relay[r].ended
    <3>1. w = [relay[r] EXCEPT !.st = "over"]
      BY <2>2
    <3>2. relay[r].ended = TRUE
      BY <1>1, <2>2 DEF RelayRecords
    <3> HIDE DEF w
    <3> QED BY <1>1, <1>2, <2>1, <3>1, <3>2 DEF RelayRecords
  <2>3. CASE ~relay[r].ended
    <3> DEFINE told == IF relay[r].held > 0 THEN "update" ELSE "failed"
    <3>1. told \in {"nothing", "answer", "failed", "update", "closed"}
      OBVIOUS
    <3>2. w = [relay[r] EXCEPT !.st = "over", !.told = told, !.held = 0, !.ended = TRUE]
      BY <1>1, <2>3 DEF Forwarded, RelayRecords
    <3>3. 0 \in 0..MaxUpdates
      BY RelayAssumption
    <3> HIDE DEF w, told
    <3>4. w \in RelayRecords
      BY <1>1, <3>1, <3>2, <3>3 DEF RelayRecords
    <3>5. /\ w.st = "over" /\ w.ended = TRUE /\ w.held = 0
          /\ w.answer = relay[r].answer /\ w.panelId = relay[r].panelId
      BY <1>1, <3>2 DEF RelayRecords
    <3> QED BY <1>2, <2>1, <3>4, <3>5
  <2> QED BY <2>2, <2>3
<1> HIDE DEF w
<1>4. /\ relay' \in [Relays -> RelayRecords] /\ relay'[r] = w
      /\ \A o \in Relays : o # r => relay'[o] = relay[o]
  BY <1>1, <1>2, <1>3 DEF RelayTypes
<1>5. /\ left \in [Relays -> SUBSET Relays] /\ left[r] = uiRelays[r] \ {r}
      /\ \A x \in Relays : x # r => left[x] = uiRelays[x]
  BY <1>1, LeaveFacts DEF RelayTypes
<1> HIDE DEF left
<1>6. ASSUME NEW o \in Relays PROVE Listens(o, uiRelays', relay'[o])
  <2>1. Listens(o, uiRelays, relay[o])
    BY DEF RelayInv
  <2>2. CASE o # r
    BY <1>2, <1>4, <1>5, <2>1, <2>2 DEF Listens
  <2>3. CASE o = r
    BY <1>2, <1>3, <1>4, <1>5, <2>1, <2>3 DEF Listens
  <2> QED BY <2>2, <2>3
<1>7. /\ toPanel' = toPanel \/ toPanel' = Append(toPanel, Ask("unsubscribe", r))
      /\ ~sessionUp => toPanel' = toPanel
      /\ sessionUp /\ left[r] = {} /\ relay[r].answer # "refused" =>
           toPanel' = Append(toPanel, Ask("unsubscribe", r))
  BY <1>2 DEF Unsubscribes
<1>8. Append(toPanel, Ask("unsubscribe", r)) # toPanel
  BY <1>1, AskFacts DEF RelayTypes
<1>9. ASSUME sessionUp, NEW id \in Relays, uiRelays[id] # {}
      PROVE  \/ uiRelays'[id] # {}
             \/ id = r /\ toPanel' # toPanel
             \/ ~AskedFor(toPanel, id) /\ \A f \in Feeds : open[f] # id
  <2>1. CASE id # r
    BY <1>2, <1>5, <1>9, <2>1
  <2>2. CASE id = r /\ relay[r].answer # "refused"
    BY <1>2, <1>7, <1>8, <1>9, <2>2
  <2>3. CASE id = r /\ relay[r].answer = "refused"
    <3>1. relay[r].answer \notin {NoAnswer, r}
      BY <1>2, <2>3, RelayAssumption
    <3> QED BY <2>3, <3>1, NeverOpened
  <2> QED BY <2>1, <2>2, <2>3
<1>10. sessionUp => LeftLawfully(toPanel, toPanel', uiRelays, uiRelays', open, r)
  BY <1>9 DEF LeftLawfully
<1>11. /\ relay'[r].st # "new" /\ relay'[r].answer = relay[r].answer
       /\ relay'[r].held <= relay[r].held /\ relay[r].st # "new"
       /\ uiRelays' \in [Relays -> SUBSET Relays]
  BY <1>2, <1>3, <1>4, <1>5
<1> QED BY <1>2, <1>4, <1>6, <1>7, <1>10, <1>11, LeaveStep

\* A wait that is cancelled ends its own command, whatever was answered.
LEMMA CancelSubscribeKeeps ==
  ASSUME RelayInv, NEW r \in Relays, CancelSubscribe(r)
  PROVE  RelayInv'
<1> DEFINE left == LeaveRelay(uiRelays, r, r)
           w == [relay[r] EXCEPT !.st = "over", !.ended = TRUE]
<1>1. RelayTypes /\ relay[r] \in RelayRecords /\ Listens(r, uiRelays, relay[r])
  BY DEF RelayInv, RelayTypes
<1>2. /\ relay[r].st = "asked" /\ relay[r].panelId = r
      /\ toPanel' = Unsubscribes(left, FALSE, TRUE, r)
      /\ uiRelays' = left
      /\ relay' = [relay EXCEPT ![r] = w]
      /\ UNCHANGED <<sessionUp, open, answered, updates>>
  <2>1. relay[r].panelId = r
    BY <1>1 DEF CancelSubscribe, Listens
  <2>2. [relay EXCEPT ![r].st = "over", ![r].ended = TRUE] = [relay EXCEPT ![r] = w]
    BY <1>1 DEF RelayTypes, RelayRecords
  <2> HIDE DEF w
  <2> QED BY <2>1, <2>2 DEF CancelSubscribe
<1>3. w \in RelayRecords /\ w.st = "over" /\ w.ended = TRUE
      /\ w.answer = relay[r].answer /\ w.held <= relay[r].held
  <2>1. relay[r].held \in Nat
    BY <1>1, RelayAssumption DEF RelayRecords
  <2>2. w \in RelayRecords /\ w.st = "over" /\ w.ended = TRUE
        /\ w.answer = relay[r].answer /\ w.held = relay[r].held
    BY <1>1 DEF RelayRecords
  <2> QED BY <2>1, <2>2
<1> HIDE DEF w
<1>4. /\ relay' \in [Relays -> RelayRecords] /\ relay'[r] = w
      /\ \A o \in Relays : o # r => relay'[o] = relay[o]
  BY <1>1, <1>2, <1>3 DEF RelayTypes
<1>5. /\ left \in [Relays -> SUBSET Relays] /\ left[r] = uiRelays[r] \ {r}
      /\ \A x \in Relays : x # r => left[x] = uiRelays[x]
  BY <1>1, LeaveFacts DEF RelayTypes
<1> HIDE DEF left
<1>6. ASSUME NEW o \in Relays PROVE Listens(o, uiRelays', relay'[o])
  <2>1. Listens(o, uiRelays, relay[o])
    BY DEF RelayInv
  <2>2. CASE o # r
    BY <1>2, <1>4, <1>5, <2>1, <2>2 DEF Listens
  <2>3. CASE o = r
    BY <1>2, <1>3, <1>4, <1>5, <2>1, <2>3 DEF Listens
  <2> QED BY <2>2, <2>3
<1>7. /\ toPanel' = toPanel \/ toPanel' = Append(toPanel, Ask("unsubscribe", r))
      /\ ~sessionUp => toPanel' = toPanel
      /\ sessionUp /\ left[r] = {} =>
           toPanel' = Append(toPanel, Ask("unsubscribe", r))
  BY <1>2 DEF Unsubscribes
<1>8. Append(toPanel, Ask("unsubscribe", r)) # toPanel
  BY <1>1, AskFacts DEF RelayTypes
<1>9. sessionUp => LeftLawfully(toPanel, toPanel', uiRelays, uiRelays', open, r)
  BY <1>2, <1>5, <1>7, <1>8 DEF LeftLawfully
<1>10. /\ relay'[r].st # "new" /\ relay'[r].answer = relay[r].answer
       /\ relay'[r].held <= relay[r].held /\ relay[r].st # "new"
       /\ uiRelays' \in [Relays -> SUBSET Relays]
  BY <1>2, <1>3, <1>4, <1>5
<1> QED BY <1>2, <1>4, <1>6, <1>7, <1>9, <1>10, LeaveStep

\* A page that leaves after its answer ends what nobody else listens to.
LEMMA BrowserEndsKeeps ==
  ASSUME RelayInv, NEW r \in Relays, BrowserEnds(r)
  PROVE  RelayInv'
<1> DEFINE sub == relay[r].panelId
           left == LeaveRelay(uiRelays, r, sub)
           w == [relay[r] EXCEPT !.ended = TRUE]
<1>1. RelayTypes /\ relay[r] \in RelayRecords /\ Listens(r, uiRelays, relay[r])
  BY DEF RelayInv, RelayTypes
<1>2. /\ r \in Subscriptions /\ relay[r].st # "new" /\ ~relay[r].ended
      /\ relay' = [relay EXCEPT ![r] = w]
      /\ UNCHANGED <<sessionUp, open, answered, updates>>
      /\ sub \in Relays
  <2>1. [relay EXCEPT ![r].ended = TRUE] = [relay EXCEPT ![r] = w]
    BY <1>1 DEF RelayTypes, RelayRecords
  <2>2. sub \in Relays
    BY <1>1 DEF RelayRecords
  <2> HIDE DEF w
  <2> QED BY <2>1, <2>2 DEF BrowserEnds
<1>3. /\ w \in RelayRecords /\ w.st = relay[r].st /\ w.ended = TRUE
      /\ w.answer = relay[r].answer /\ w.held <= relay[r].held
      /\ w.panelId = relay[r].panelId
  <2>1. relay[r].held \in Nat
    BY <1>1, RelayAssumption DEF RelayRecords
  <2>2. /\ w \in RelayRecords /\ w.st = relay[r].st /\ w.ended = TRUE
        /\ w.answer = relay[r].answer /\ w.held = relay[r].held
        /\ w.panelId = relay[r].panelId
    BY <1>1 DEF RelayRecords
  <2> QED BY <2>1, <2>2
<1> HIDE DEF w
<1>4. /\ relay' \in [Relays -> RelayRecords] /\ relay'[r] = w
      /\ \A o \in Relays : o # r => relay'[o] = relay[o]
  BY <1>1, <1>2, <1>3 DEF RelayTypes
<1>5. /\ left \in [Relays -> SUBSET Relays] /\ left[sub] = uiRelays[sub] \ {r}
      /\ \A x \in Relays : x # sub => left[x] = uiRelays[x]
  BY <1>1, <1>2, LeaveFacts DEF RelayTypes
<1>6. /\ relay[r].st = "asked" => uiRelays' = uiRelays /\ toPanel' = toPanel
      /\ relay[r].st # "asked" =>
           uiRelays' = left /\ toPanel' = Unsubscribes(left, relay[r].applied, FALSE, sub)
  BY DEF BrowserEnds
<1>7. relay[r].st = "over" \/ relay[r].st = "asked"
  BY <1>1, <1>2 DEF RelayRecords
<1> HIDE DEF left, sub
<1>8. /\ uiRelays' \in [Relays -> SUBSET Relays]
      /\ toPanel' = toPanel \/ toPanel' = Append(toPanel, Ask("unsubscribe", sub))
      /\ ~sessionUp => toPanel' = toPanel
  BY <1>1, <1>5, <1>6 DEF Unsubscribes, RelayTypes
<1>9. ASSUME NEW o \in Relays PROVE Listens(o, uiRelays', relay'[o])
  <2>1. Listens(o, uiRelays, relay[o])
    BY DEF RelayInv
  <2>2. \A id \in Relays : o \in uiRelays'[id] => o \in uiRelays[id]
    BY <1>5, <1>6
  <2>3. CASE o # r
    BY <1>4, <2>1, <2>2, <2>3 DEF Listens
  <2>4. CASE o = r /\ relay[r].st = "asked"
    BY <1>3, <1>4, <2>1, <2>2, <2>4 DEF Listens
  <2>5. CASE o = r /\ relay[r].st = "over"
    <3>1. \A id \in Relays : r \notin uiRelays'[id]
      <4>1. \A id \in Relays : r \in uiRelays[id] => id = sub
        BY <1>1 DEF Listens, sub
      <4> QED BY <1>5, <1>6, <2>5, <4>1
    <3> QED BY <1>3, <1>4, <2>5, <3>1 DEF Listens
  <2> QED BY <1>7, <2>3, <2>4, <2>5
<1>10. sessionUp => LeftLawfully(toPanel, toPanel', uiRelays, uiRelays', open, sub)
  <2> HAVE sessionUp
  <2>1. CASE relay[r].st = "asked"
    BY <1>6, <2>1 DEF LeftLawfully
  <2>2. CASE relay[r].st = "over"
    <3>1. relay[r].applied
      BY <1>1, <1>2, <2>2 DEF Listens
    <3>2. left[sub] = {} => toPanel' = Append(toPanel, Ask("unsubscribe", sub))
      BY <1>6, <2>2, <3>1 DEF Unsubscribes
    <3>3. Append(toPanel, Ask("unsubscribe", sub)) # toPanel
      BY <1>1, <1>2, AskFacts DEF RelayTypes
    <3> QED BY <1>5, <1>6, <2>2, <3>2, <3>3 DEF LeftLawfully
  <2> QED BY <1>7, <2>1, <2>2
<1>11. /\ relay'[r].st # "new" /\ relay'[r].answer = relay[r].answer
       /\ relay'[r].held <= relay[r].held
  BY <1>2, <1>3, <1>4
<1> QED BY <1>2, <1>4, <1>8, <1>9, <1>10, <1>11, LeaveStep DEF sub

\* A snapshot ends its own command, whatever became of its answer.
LEMMA SnapshotEndsKeeps ==
  ASSUME RelayInv, NEW s \in Relays, SnapshotEnds(s)
  PROVE  RelayInv'
<1> DEFINE w == [relay[s] EXCEPT !.st = "over"]
<1>1. RelayTypes /\ relay[s] \in RelayRecords
  BY DEF RelayInv, RelayTypes
<1>2. /\ relay[s].st = "asked"
      /\ relay' = [relay EXCEPT ![s] = w]
      /\ uiRelays' = [uiRelays EXCEPT ![s] = {}]
      /\ toPanel' = IF sessionUp THEN Append(toPanel, Ask("unsubscribe", s)) ELSE toPanel
      /\ UNCHANGED <<sessionUp, open, answered, updates>>
  <2>1. [relay EXCEPT ![s].st = "over"] = [relay EXCEPT ![s] = w]
    BY <1>1 DEF RelayTypes, RelayRecords
  <2> HIDE DEF w
  <2> QED BY <2>1 DEF SnapshotEnds
<1>3. /\ w \in RelayRecords /\ w.st = "over" /\ w.ended = relay[s].ended
      /\ w.answer = relay[s].answer /\ w.held <= relay[s].held
      /\ w.panelId = relay[s].panelId /\ w.applied = relay[s].applied
  <2>1. relay[s].held \in Nat
    BY <1>1, RelayAssumption DEF RelayRecords
  <2>2. /\ w \in RelayRecords /\ w.st = "over" /\ w.ended = relay[s].ended
        /\ w.answer = relay[s].answer /\ w.held = relay[s].held
        /\ w.panelId = relay[s].panelId /\ w.applied = relay[s].applied
    BY <1>1 DEF RelayRecords
  <2> QED BY <2>1, <2>2
<1> HIDE DEF w
<1>4. /\ relay' \in [Relays -> RelayRecords] /\ relay'[s] = w
      /\ \A o \in Relays : o # s => relay'[o] = relay[o]
  BY <1>1, <1>2, <1>3 DEF RelayTypes
<1>5. /\ uiRelays' \in [Relays -> SUBSET Relays] /\ uiRelays'[s] = {}
      /\ \A x \in Relays : x # s => uiRelays'[x] = uiRelays[x]
  BY <1>1, <1>2 DEF RelayTypes
<1>6. s \notin Subscriptions
  BY RelayAssumption DEF SnapshotEnds
<1>7. ASSUME NEW o \in Relays PROVE Listens(o, uiRelays', relay'[o])
  <2>1. Listens(o, uiRelays, relay[o])
    BY DEF RelayInv
  <2>2. CASE o # s
    BY <1>4, <1>5, <2>1, <2>2 DEF Listens
  <2>3. CASE o = s
    BY <1>2, <1>3, <1>4, <1>5, <1>6, <2>1, <2>3 DEF Listens
  <2> QED BY <2>2, <2>3
<1>8. Append(toPanel, Ask("unsubscribe", s)) # toPanel
  BY <1>1, AskFacts DEF RelayTypes
<1>9. sessionUp => LeftLawfully(toPanel, toPanel', uiRelays, uiRelays', open, s)
  BY <1>2, <1>5, <1>8 DEF LeftLawfully
<1>10. /\ relay'[s].st # "new" /\ relay'[s].answer = relay[s].answer
       /\ relay'[s].held <= relay[s].held /\ relay[s].st # "new"
       /\ toPanel' = toPanel \/ toPanel' = Append(toPanel, Ask("unsubscribe", s))
       /\ ~sessionUp => toPanel' = toPanel
  BY <1>2, <1>3, <1>4
<1> QED BY <1>2, <1>4, <1>5, <1>7, <1>9, <1>10, LeaveStep

\* An answer that applied: the relay moves to the subscription it names, and
\* leaves that one at once when its page has gone.
LEMMA AppliesKeeps ==
  ASSUME RelayInv, NEW r \in Relays, Applies(r)
  PROVE  RelayInv'
<1> DEFINE id == relay[r].answer
           joined == IF id = r THEN uiRelays
                     ELSE [LeaveRelay(uiRelays, r, r) EXCEPT ![id] = @ \cup {r}]
           left == LeaveRelay(joined, r, id)
           now == [relay[r] EXCEPT !.applied = TRUE, !.panelId = id]
           gone == [now EXCEPT !.st = "over"]
           told == Forwarded(now, "answer")
<1>1. RelayTypes /\ relay[r] \in RelayRecords /\ Listens(r, uiRelays, relay[r])
  BY DEF RelayInv, RelayTypes
<1>2. /\ relay[r].st = "asked" /\ id \in Relays /\ relay[r].panelId = r
      /\ UNCHANGED <<sessionUp, open, answered, updates>>
      /\ relay[r].ended =>
           /\ relay' = [relay EXCEPT ![r] = gone] /\ uiRelays' = left
           /\ toPanel' = Unsubscribes(left, TRUE, FALSE, id)
      /\ ~relay[r].ended =>
           /\ relay' = [relay EXCEPT ![r] = told] /\ uiRelays' = joined
           /\ toPanel' = toPanel
  <2>1. relay[r].panelId = r
    BY <1>1 DEF Applies, Listens
  <2> QED BY <2>1 DEF Applies
<1>3. /\ gone \in RelayRecords /\ gone.st = "over" /\ gone.ended = relay[r].ended
      /\ gone.answer = relay[r].answer /\ gone.held <= relay[r].held
      /\ gone.panelId = id /\ gone.applied = TRUE
  <2>1. relay[r].held \in Nat
    BY <1>1, RelayAssumption DEF RelayRecords
  <2>2. gone = [relay[r] EXCEPT !.applied = TRUE, !.panelId = id, !.st = "over"]
    BY <1>1 DEF RelayRecords
  <2> HIDE DEF gone, now, id
  <2>3. gone \in RelayRecords
    BY <1>1, <1>2, <2>2 DEF RelayRecords
  <2>4. /\ gone.st = "over" /\ gone.ended = relay[r].ended
        /\ gone.answer = relay[r].answer /\ gone.held = relay[r].held
        /\ gone.panelId = id /\ gone.applied = TRUE
    BY <1>1, <2>2 DEF RelayRecords
  <2> QED BY <2>1, <2>3, <2>4
<1>4. /\ told \in RelayRecords /\ told.st = "over" /\ told.ended = relay[r].ended
      /\ told.answer = relay[r].answer /\ told.held <= relay[r].held
      /\ told.panelId = id /\ told.applied = TRUE
  <2> DEFINE word == IF relay[r].held > 0 THEN "update" ELSE "answer"
  <2>1. relay[r].held \in Nat /\ 0 \in 0..MaxUpdates
    BY <1>1, RelayAssumption DEF RelayRecords
  <2>2. word \in {"nothing", "answer", "failed", "update", "closed"}
    OBVIOUS
  <2>3. told = [relay[r] EXCEPT !.applied = TRUE, !.panelId = id, !.st = "over",
                                !.told = word, !.held = 0]
    BY <1>1 DEF RelayRecords, Forwarded
  <2> HIDE DEF told, now, id, word
  <2>4. told \in RelayRecords
    BY <1>1, <1>2, <2>1, <2>2, <2>3 DEF RelayRecords
  <2>5. /\ told.st = "over" /\ told.ended = relay[r].ended
        /\ told.answer = relay[r].answer /\ told.held = 0
        /\ told.panelId = id /\ told.applied = TRUE
    BY <1>1, <2>3 DEF RelayRecords
  <2> QED BY <2>1, <2>4, <2>5
<1> HIDE DEF gone, told, now
<1>5. /\ joined \in [Relays -> SUBSET Relays]
      /\ joined[id] = uiRelays[id] \cup {r} \/ joined = uiRelays
      /\ id # r => joined[id] = uiRelays[id] \cup {r} /\ joined[r] = uiRelays[r] \ {r}
      /\ id = r => joined = uiRelays
      /\ \A x \in Relays : x \notin {r, id} => joined[x] = uiRelays[x]
  <2>1. CASE id = r
    BY <1>1, <2>1 DEF RelayTypes
  <2>2. CASE id # r
    <3> DEFINE without == LeaveRelay(uiRelays, r, r)
    <3>1. /\ without \in [Relays -> SUBSET Relays] /\ without[r] = uiRelays[r] \ {r}
          /\ \A x \in Relays : x # r => without[x] = uiRelays[x]
      BY <1>1, LeaveFacts DEF RelayTypes
    <3>2. joined = [without EXCEPT ![id] = @ \cup {r}]
      BY <2>2
    <3> HIDE DEF without, joined
    <3> QED BY <1>2, <2>2, <3>1, <3>2
  <2> QED BY <2>1, <2>2
<1> HIDE DEF joined
<1>6. /\ left \in [Relays -> SUBSET Relays] /\ left[id] = joined[id] \ {r}
      /\ \A x \in Relays : x # id => left[x] = joined[x]
  BY <1>2, <1>5, LeaveFacts
<1> HIDE DEF left
<1>7. /\ relay' \in [Relays -> RelayRecords]
      /\ relay'[r] = IF relay[r].ended THEN gone ELSE told
      /\ \A o \in Relays : o # r => relay'[o] = relay[o]
      /\ uiRelays' = IF relay[r].ended THEN left ELSE joined
      /\ uiRelays' \in [Relays -> SUBSET Relays]
  <2>1. relay \in [Relays -> RelayRecords]
    BY <1>1 DEF RelayTypes
  <2>2. CASE relay[r].ended
    <3>1. relay' = [relay EXCEPT ![r] = gone] /\ uiRelays' = left
      BY <1>2, <2>2
    <3> QED BY <1>3, <1>6, <2>1, <2>2, <3>1
  <2>3. CASE ~relay[r].ended
    <3>1. relay' = [relay EXCEPT ![r] = told] /\ uiRelays' = joined
      BY <1>2, <2>3
    <3> QED BY <1>4, <1>5, <2>1, <2>3, <3>1
  <2> QED BY <2>2, <2>3
<1>8. \A x \in Relays : r \in uiRelays[x] => x = r
  BY <1>1, <1>2 DEF Listens
<1>9. ASSUME NEW o \in Relays PROVE Listens(o, uiRelays', relay'[o])
  <2>1. Listens(o, uiRelays, relay[o])
    BY DEF RelayInv
  <2>2. CASE o # r
    <3>1. \A x \in Relays : o \in uiRelays'[x] => o \in uiRelays[x]
      BY <1>5, <1>6, <1>7, <2>2
    <3> QED BY <1>7, <2>1, <2>2, <3>1 DEF Listens
  <2>3. CASE o = r /\ relay[r].ended
    <3>1. \A x \in Relays : r \notin uiRelays'[x]
      BY <1>5, <1>6, <1>7, <1>8, <2>3
    <3>2. relay'[r].st = "over" /\ relay'[r].ended
      BY <1>3, <1>7, <2>3
    <3> QED BY <2>3, <3>1, <3>2 DEF Listens
  <2>4. CASE o = r /\ ~relay[r].ended
    <3>1. \A x \in Relays : r \in uiRelays'[x] => x = id
      BY <1>5, <1>7, <1>8, <2>4
    <3>2. /\ relay'[r].st = "over" /\ relay'[r].applied /\ relay'[r].panelId = id
          /\ ~relay'[r].ended
      BY <1>4, <1>7, <2>4
    <3> QED BY <2>4, <3>1, <3>2 DEF Listens
  <2> QED BY <2>2, <2>3, <2>4
<1>10. /\ toPanel' = toPanel \/ toPanel' = Append(toPanel, Ask("unsubscribe", id))
       /\ ~sessionUp => toPanel' = toPanel
       /\ sessionUp /\ relay[r].ended /\ left[id] = {} =>
            toPanel' = Append(toPanel, Ask("unsubscribe", id))
  BY <1>2 DEF Unsubscribes
<1>11. Append(toPanel, Ask("unsubscribe", id)) # toPanel
  BY <1>1, <1>2, AskFacts DEF RelayTypes
<1>12. ASSUME sessionUp, NEW x \in Relays, uiRelays[x] # {}
       PROVE  \/ uiRelays'[x] # {}
              \/ x = id /\ toPanel' # toPanel
              \/ ~AskedFor(toPanel, x) /\ \A f \in Feeds : open[f] # x
  <2>1. CASE x = id
    <3>1. joined[id] # {}
      BY <1>5, <1>12, <2>1
    <3> QED BY <1>6, <1>7, <1>10, <1>11, <1>12, <2>1, <3>1
  <2>2. CASE x = r /\ x # id
    <3>1. relay[r].answer \notin {NoAnswer, r}
      BY <1>2, <2>2, RelayAssumption DEF id
    <3> QED BY <2>2, <3>1, NeverOpened
  <2>3. CASE x \notin {r, id}
    BY <1>5, <1>6, <1>7, <1>12, <2>3
  <2> QED BY <2>1, <2>2, <2>3
<1>13. sessionUp => LeftLawfully(toPanel, toPanel', uiRelays, uiRelays', open, id)
  BY <1>12 DEF LeftLawfully
<1>14. /\ relay'[r].st # "new" /\ relay'[r].answer = relay[r].answer
       /\ relay'[r].held <= relay[r].held /\ relay[r].st # "new"
  BY <1>2, <1>3, <1>4, <1>7
<1> HIDE DEF id
<1> QED BY <1>2, <1>7, <1>9, <1>10, <1>13, <1>14, LeaveStep

\* The panel takes a subscribe: the subscription it opens is wanted, by the
\* relay that asked or by the request to end it.
LEMMA PanelSubscribesKeeps ==
  ASSUME RelayInv, NEW refuses \in BOOLEAN, PanelSubscribes(refuses)
  PROVE  RelayInv'
<1> DEFINE r == Head(toPanel).id
           f == Feed[r]
           shared == IF open[f] = NoAnswer THEN r ELSE open[f]
           q == Tail(toPanel)
<1>1. /\ RelayTypes /\ toPanel \in Seq(Requests) /\ toPanel # <<>>
      /\ sessionUp
  BY DEF RelayInv, RelayTypes, PanelSubscribes
<1>2. /\ Head(toPanel) \in Requests /\ toPanel[1] = Head(toPanel) /\ 1 \in DOMAIN toPanel
      /\ q \in Seq(Requests)
      /\ \A i \in DOMAIN q : i \in Nat /\ i + 1 \in DOMAIN toPanel /\ q[i] = toPanel[i + 1]
      /\ \A id : \A i \in Nat : EndedAfter(toPanel, i + 1, id) => EndedAfter(q, i, id)
      /\ \A id : EndedAfter(toPanel, 0, id) /\ Head(toPanel) # Ask("unsubscribe", id)
                   => EndedAfter(q, 0, id)
  BY <1>1, TakenFacts
<1>3. /\ r \in Relays /\ Head(toPanel) = Ask("subscribe", r)
      /\ \A id : Head(toPanel) # Ask("unsubscribe", id)
  BY <1>2, AskFacts DEF PanelSubscribes
<1>4. /\ toPanel' = q
      /\ open' = IF refuses THEN open ELSE [open EXCEPT ![f] = shared]
      /\ answered' = [answered EXCEPT ![r] = IF refuses THEN "refused" ELSE shared]
      /\ UNCHANGED <<sessionUp, relay, uiRelays, updates>>
  BY DEF PanelSubscribes
<1>5. f \in Feeds
  BY <1>3 DEF Feeds
<1>6. shared \in Relays /\ shared # NoAnswer
  BY <1>1, <1>3, <1>5, RelayAssumption DEF RelayTypes
<1>7. AskedFor(toPanel, r)
  BY <1>2, <1>3 DEF AskedFor
<1>8. AsksOnce(r, relay[r], toPanel, open, answered[r])
  BY <1>3 DEF RelayInv
<1> HIDE DEF q, r
<1>9. \A i \in DOMAIN q : i + 1 # 1
  BY <1>2
<1>10. \A id : AskedFor(q, id) => AskedFor(toPanel, id) /\ id # r
  <2>1. ASSUME NEW id, AskedFor(q, id) PROVE AskedFor(toPanel, id) /\ id # r
    <3>1. PICK i \in DOMAIN q : q[i] = Ask("subscribe", id)
      BY <2>1 DEF AskedFor
    <3>2. i + 1 \in DOMAIN toPanel /\ toPanel[i + 1] = Ask("subscribe", id)
      BY <1>2, <3>1
    <3>3. id # r
      BY <1>2, <1>3, <1>8, <1>9, <3>2 DEF AsksOnce
    <3> QED BY <3>2, <3>3 DEF AskedFor
  <2> QED BY <2>1
<1> HIDE DEF f, shared
<1>11. /\ open' \in [Feeds -> Relays \cup {NoAnswer}]
       /\ \A x \in Feeds : open'[x] = open[x] \/ (x = f /\ ~refuses /\ open'[x] = shared)
       /\ ~refuses => open'[f] = shared
       /\ refuses => open' = open
  BY <1>1, <1>4, <1>5, <1>6 DEF RelayTypes
<1>12. shared = r \/ shared = open[f]
  BY DEF shared
<1>13. /\ answered' \in [Relays -> AskedAnswers]
       /\ answered'[r] = IF refuses THEN "refused" ELSE shared
       /\ \A o \in Relays : o # r => answered'[o] = answered[o]
  BY <1>1, <1>3, <1>4, <1>6 DEF RelayTypes, AskedAnswers
<1>14. RelayTypes'
  BY <1>1, <1>2, <1>4, <1>11, <1>13 DEF RelayTypes
<1>15. ASSUME NEW x \in Feeds, open'[x] # NoAnswer PROVE Feed[open'[x]] = x
  <2>1. CASE open'[x] = open[x]
    BY <1>15, <2>1 DEF RelayInv
  <2>2. CASE x = f /\ open'[x] = shared
    <3>1. CASE shared = r
      BY <2>2, <3>1 DEF f
    <3>2. CASE shared = open[f]
      BY <1>15, <2>2, <3>2 DEF RelayInv
    <3> QED BY <1>12, <3>1, <3>2
  <2> QED BY <1>11, <2>1, <2>2
<1>16. ASSUME NEW o \in Relays
       PROVE  AsksOnce(o, relay[o], q, open', answered'[o])
  <2>1. AsksOnce(o, relay[o], toPanel, open, answered[o])
    BY DEF RelayInv
  <2>2. \A i, j \in DOMAIN q :
          q[i] = Ask("subscribe", o) /\ q[j] = Ask("subscribe", o) => i = j
    <3>1. ASSUME NEW i \in DOMAIN q, NEW j \in DOMAIN q,
                 q[i] = Ask("subscribe", o), q[j] = Ask("subscribe", o)
          PROVE  i = j
      <4>1. /\ i + 1 \in DOMAIN toPanel /\ toPanel[i + 1] = Ask("subscribe", o)
            /\ j + 1 \in DOMAIN toPanel /\ toPanel[j + 1] = Ask("subscribe", o)
            /\ i \in Nat /\ j \in Nat
        BY <1>2, <3>1
      <4>2. i + 1 = j + 1
        BY <2>1, <4>1 DEF AsksOnce
      <4> QED BY <4>1, <4>2
    <3> QED BY <3>1
  <2>3. CASE o # r
    <3>1. open'[Feed[o]] = o => open[Feed[o]] = o
      <4>1. Feed[o] \in Feeds
        BY DEF Feeds
      <4>2. shared = o => open[f] = o
        BY <1>12, <2>3
      <4> QED BY <1>11, <4>1, <4>2
    <3>2. answered'[o] = answered[o]
      BY <1>13, <2>3
    <3> QED BY <1>10, <2>1, <2>2, <3>1, <3>2 DEF AsksOnce
  <2>4. CASE o = r
    <3>1. ~AskedFor(q, r) /\ relay[r].st # "new" /\ relay[r].answer = NoAnswer
          /\ open[Feed[r]] # r
      BY <1>7, <1>8, <1>10 DEF AsksOnce
    <3>2. answered'[r] \notin {NoAnswer, r} => open'[Feed[r]] # r
      BY <1>11, <1>13, <3>1 DEF f
    <3> QED BY <2>2, <2>4, <3>1, <3>2 DEF AsksOnce
  <2> QED BY <2>3, <2>4
<1>17. AllWanted(q, uiRelays, open')
  <2>1. AllWanted(toPanel, uiRelays, open)
    BY DEF RelayInv
  <2>2. ASSUME NEW i \in DOMAIN q, NEW id \in Relays, q[i] = Ask("subscribe", id)
        PROVE  StillWanted(q, uiRelays, i, id)
    <3>1. /\ i \in Nat /\ i + 1 \in DOMAIN toPanel
          /\ toPanel[i + 1] = Ask("subscribe", id)
      BY <1>2, <2>2
    <3>2. StillWanted(toPanel, uiRelays, i + 1, id)
      BY <2>1, <3>1 DEF AllWanted
    <3> QED BY <1>2, <3>1, <3>2 DEF StillWanted
  <2>3. StillWanted(q, uiRelays, 0, r)
    <3>1. StillWanted(toPanel, uiRelays, 1, r)
      BY <1>2, <1>3, <2>1 DEF AllWanted
    <3>2. EndedAfter(toPanel, 0 + 1, r) => EndedAfter(q, 0, r)
      BY <1>2
    <3> QED BY <3>1, <3>2 DEF StillWanted
  <2>4. ASSUME NEW x \in Feeds, open[x] # NoAnswer
        PROVE  StillWanted(q, uiRelays, 0, open[x])
    <3>1. StillWanted(toPanel, uiRelays, 0, open[x])
      BY <2>1, <2>4 DEF AllWanted
    <3> QED BY <1>2, <1>3, <3>1 DEF StillWanted
  <2>5. ASSUME NEW x \in Feeds, open'[x] # NoAnswer
        PROVE  StillWanted(q, uiRelays, 0, open'[x])
    BY <1>5, <1>11, <1>12, <2>3, <2>4, <2>5
  <2> QED BY <2>2, <2>5 DEF AllWanted
<1> QED BY <1>1, <1>4, <1>14, <1>15, <1>16, <1>17 DEF RelayInv

\* The panel takes an unsubscribe, which closes what goes by its name.
LEMMA PanelUnsubscribesKeeps ==
  ASSUME RelayInv, PanelUnsubscribes
  PROVE  RelayInv'
<1> DEFINE e == Head(toPanel).id
           f == Feed[e]
           q == Tail(toPanel)
<1>1. /\ RelayTypes /\ toPanel \in Seq(Requests) /\ toPanel # <<>> /\ sessionUp
  BY DEF RelayInv, RelayTypes, PanelUnsubscribes
<1>2. /\ Head(toPanel) \in Requests /\ toPanel[1] = Head(toPanel) /\ 1 \in DOMAIN toPanel
      /\ q \in Seq(Requests)
      /\ \A i \in DOMAIN q : i \in Nat /\ i + 1 \in DOMAIN toPanel /\ q[i] = toPanel[i + 1]
      /\ \A id : \A i \in Nat : EndedAfter(toPanel, i + 1, id) => EndedAfter(q, i, id)
      /\ \A id : EndedAfter(toPanel, 0, id) /\ Head(toPanel) # Ask("unsubscribe", id)
                   => EndedAfter(q, 0, id)
  BY <1>1, TakenFacts
<1>3. e \in Relays /\ Head(toPanel) = Ask("unsubscribe", e)
  BY <1>2, AskFacts DEF PanelUnsubscribes
<1>4. /\ toPanel' = q
      /\ open' = IF open[f] = e THEN [open EXCEPT ![f] = NoAnswer] ELSE open
      /\ UNCHANGED <<sessionUp, relay, uiRelays, answered, updates>>
  BY DEF PanelUnsubscribes
<1> HIDE DEF q, e
<1>5. f \in Feeds
  BY <1>3 DEF Feeds
<1>6. /\ open' \in [Feeds -> Relays \cup {NoAnswer}]
      /\ \A x \in Feeds : open'[x] = open[x] \/ open'[x] = NoAnswer
      /\ open[f] = e => open'[f] = NoAnswer
  BY <1>1, <1>4, <1>5 DEF RelayTypes
<1> HIDE DEF f
<1>7. \A x \in Feeds : open'[x] # NoAnswer => open'[x] = open[x] /\ open[x] # e
  <2>1. ASSUME NEW x \in Feeds, open'[x] # NoAnswer, open[x] = e PROVE FALSE
    <3>1. e # NoAnswer
      BY <1>3, RelayAssumption
    <3>2. x = f
      BY <2>1, <3>1 DEF RelayInv, f
    <3> QED BY <1>6, <2>1, <3>2
  <2> QED BY <1>6, <2>1
<1>8. ASSUME NEW o \in Relays
      PROVE  AsksOnce(o, relay[o], q, open', answered[o])
  <2>1. AsksOnce(o, relay[o], toPanel, open, answered[o])
    BY DEF RelayInv
  <2>2. \A i, j \in DOMAIN q :
          q[i] = Ask("subscribe", o) /\ q[j] = Ask("subscribe", o) => i = j
    <3>1. ASSUME NEW i \in DOMAIN q, NEW j \in DOMAIN q,
                 q[i] = Ask("subscribe", o), q[j] = Ask("subscribe", o)
          PROVE  i = j
      <4>1. /\ i + 1 \in DOMAIN toPanel /\ toPanel[i + 1] = Ask("subscribe", o)
            /\ j + 1 \in DOMAIN toPanel /\ toPanel[j + 1] = Ask("subscribe", o)
            /\ i \in Nat /\ j \in Nat
        BY <1>2, <3>1
      <4>2. i + 1 = j + 1
        BY <2>1, <4>1 DEF AsksOnce
      <4> QED BY <4>1, <4>2
    <3> QED BY <3>1
  <2>3. AskedFor(q, o) => AskedFor(toPanel, o)
    BY <1>2 DEF AskedFor
  <2>4. Feed[o] \in Feeds /\ o # NoAnswer
    BY RelayAssumption DEF Feeds
  <2>5. open'[Feed[o]] = o => open[Feed[o]] = o
    BY <1>6, <2>4
  <2> QED BY <2>1, <2>2, <2>3, <2>5 DEF AsksOnce
<1>9. AllWanted(q, uiRelays, open')
  <2>1. AllWanted(toPanel, uiRelays, open)
    BY DEF RelayInv
  <2>2. ASSUME NEW i \in DOMAIN q, NEW id \in Relays, q[i] = Ask("subscribe", id)
        PROVE  StillWanted(q, uiRelays, i, id)
    <3>1. /\ i \in Nat /\ i + 1 \in DOMAIN toPanel
          /\ toPanel[i + 1] = Ask("subscribe", id)
      BY <1>2, <2>2
    <3>2. StillWanted(toPanel, uiRelays, i + 1, id)
      BY <2>1, <3>1 DEF AllWanted
    <3> QED BY <1>2, <3>1, <3>2 DEF StillWanted
  <2>3. ASSUME NEW x \in Feeds, open'[x] # NoAnswer
        PROVE  StillWanted(q, uiRelays, 0, open'[x])
    <3>1. open'[x] = open[x] /\ open[x] # e
      BY <1>7, <2>3
    <3>2. StillWanted(toPanel, uiRelays, 0, open[x])
      BY <2>1, <2>3, <3>1 DEF AllWanted
    <3>3. Head(toPanel) # Ask("unsubscribe", open[x])
      BY <1>3, <3>1, AskFacts
    <3> QED BY <1>2, <3>1, <3>2, <3>3 DEF StillWanted
  <2> QED BY <2>2, <2>3 DEF AllWanted
<1>10. RelayTypes'
  BY <1>1, <1>2, <1>4, <1>6 DEF RelayTypes
<1>11. \A x \in Feeds : open'[x] # NoAnswer => Feed[open'[x]] = x
  BY <1>7 DEF RelayInv
<1> QED BY <1>1, <1>4, <1>8, <1>9, <1>10, <1>11 DEF RelayInv

\* An answer that arrives changes nothing but what its wait finds.
LEMMA AnswerArrivesKeeps ==
  ASSUME RelayInv, NEW r \in Relays, AnswerArrives(r)
  PROVE  RelayInv'
<1> DEFINE w == [relay[r] EXCEPT !.answer = answered[r]]
<1>1. /\ RelayTypes /\ relay[r] \in RelayRecords /\ answered[r] \in AskedAnswers
  BY DEF RelayInv, RelayTypes
<1>2. /\ answered[r] # NoAnswer
      /\ answered' = [answered EXCEPT ![r] = NoAnswer]
      /\ relay' = IF relay[r].st = "asked" THEN [relay EXCEPT ![r] = w] ELSE relay
      /\ UNCHANGED <<sessionUp, uiRelays, toPanel, open, updates>>
  <2>1. [relay EXCEPT ![r].answer = answered[r]] = [relay EXCEPT ![r] = w]
    BY <1>1 DEF RelayTypes, RelayRecords
  <2> HIDE DEF w
  <2> QED BY <2>1 DEF AnswerArrives
<1>3. /\ w \in RelayRecords /\ w.st = relay[r].st /\ w.ended = relay[r].ended
      /\ w.answer = answered[r] /\ w.held = relay[r].held
      /\ w.panelId = relay[r].panelId /\ w.applied = relay[r].applied
  BY <1>1 DEF RelayRecords
<1> HIDE DEF w
<1>4. /\ relay' \in [Relays -> RelayRecords]
      /\ relay'[r] = w \/ relay'[r] = relay[r]
      /\ relay'[r] = w => relay[r].st = "asked" \/ relay[r] = w
      /\ \A o \in Relays : o # r => relay'[o] = relay[o]
  BY <1>1, <1>2, <1>3 DEF RelayTypes
<1>5. /\ answered' \in [Relays -> AskedAnswers] /\ answered'[r] = NoAnswer
      /\ \A o \in Relays : o # r => answered'[o] = answered[o]
  BY <1>1, <1>2 DEF RelayTypes, AskedAnswers
<1>6. ASSUME NEW o \in Relays
      PROVE  /\ Listens(o, uiRelays, relay'[o]) /\ relay'[o].held = relay[o].held
             /\ AsksOnce(o, relay'[o], toPanel, open, answered'[o])
  <2>1. /\ Listens(o, uiRelays, relay[o])
        /\ AsksOnce(o, relay[o], toPanel, open, answered[o])
    BY DEF RelayInv
  <2>2. CASE o # r
    BY <1>4, <1>5, <2>1, <2>2
  <2>3. CASE o = r
    <3>1. Listens(r, uiRelays, w) /\ w.held = relay[r].held
      BY <1>3, <2>1, <2>3 DEF Listens
    <3>2. ~AskedFor(toPanel, r) /\ relay[r].st # "new"
      BY <1>2, <2>1, <2>3 DEF AsksOnce
    <3>3. AsksOnce(r, w, toPanel, open, NoAnswer)
      BY <1>3, <2>1, <2>3, <3>2 DEF AsksOnce
    <3>4. AsksOnce(r, relay[r], toPanel, open, NoAnswer)
      BY <2>1, <2>3, <3>2 DEF AsksOnce
    <3> QED BY <1>4, <1>5, <2>1, <2>3, <3>1, <3>3, <3>4
  <2> QED BY <2>2, <2>3
<1>7. RelayTypes'
  BY <1>1, <1>2, <1>4, <1>5, <1>6 DEF RelayTypes
<1> QED BY <1>2, <1>6, <1>7 DEF RelayInv

\* What the panel sends is held or forwarded.
LEMMA UiUpdateKeeps ==
  ASSUME RelayInv, NEW f \in Feeds, UiUpdate(f)
  PROVE  RelayInv'
<1> DEFINE heard(r) == IF r \in uiRelays[open[f]] \cap Subscriptions
                       THEN HearsUpdate(relay[r]) ELSE relay[r]
<1>1. RelayTypes /\ updates \in Nat /\ updates < MaxUpdates /\ MaxUpdates \in Nat
  BY RelayAssumption DEF RelayInv, RelayTypes, UiUpdate
<1>2. /\ updates' = updates + 1
      /\ relay' = [r \in Relays |-> heard(r)]
      /\ UNCHANGED <<sessionUp, uiRelays, toPanel, open, answered>>
  BY DEF UiUpdate
<1>3. ASSUME NEW r \in Relays
      PROVE  /\ heard(r) \in RelayRecords
             /\ heard(r).st = relay[r].st /\ heard(r).ended = relay[r].ended
             /\ heard(r).answer = relay[r].answer
             /\ heard(r).panelId = relay[r].panelId
             /\ heard(r).applied = relay[r].applied
             /\ heard(r).held <= updates + 1
  <2>1. /\ relay[r] \in RelayRecords /\ relay[r].held \in 0..MaxUpdates
        /\ relay[r].held <= updates
    BY <1>1 DEF RelayTypes, RelayRecords
  <2>2. /\ relay[r].held <= updates + 1 /\ relay[r].held + 1 <= updates + 1
        /\ relay[r].held + 1 \in 0..MaxUpdates
    BY <1>1, <2>1
  <2> DEFINE more == [relay[r] EXCEPT !.held = @ + 1]
             told == [relay[r] EXCEPT !.told = "update"]
  <2>3. /\ more \in RelayRecords
        /\ more.st = relay[r].st /\ more.ended = relay[r].ended
        /\ more.answer = relay[r].answer /\ more.panelId = relay[r].panelId
        /\ more.applied = relay[r].applied /\ more.held = relay[r].held + 1
    BY <2>1, <2>2 DEF RelayRecords
  <2>4. /\ told \in RelayRecords
        /\ told.st = relay[r].st /\ told.ended = relay[r].ended
        /\ told.answer = relay[r].answer /\ told.panelId = relay[r].panelId
        /\ told.applied = relay[r].applied /\ told.held = relay[r].held
    BY <2>1 DEF RelayRecords
  <2>5. heard(r) = relay[r] \/ heard(r) = more \/ heard(r) = told
    BY DEF HearsUpdate
  <2> HIDE DEF more, told, heard
  <2> QED BY <2>1, <2>2, <2>3, <2>4, <2>5
<1> HIDE DEF heard
<1>4. \A o \in Relays : relay'[o] = heard(o)
  BY <1>2
<1>5. relay' \in [Relays -> RelayRecords] /\ updates' \in 0..MaxUpdates
  BY <1>1, <1>2, <1>3
<1>6. RelayTypes'
  BY <1>1, <1>2, <1>3, <1>4, <1>5 DEF RelayTypes
<1>7. ASSUME NEW o \in Relays
      PROVE  /\ Listens(o, uiRelays, relay'[o])
             /\ AsksOnce(o, relay'[o], toPanel, open, answered[o])
  <2>1. /\ Listens(o, uiRelays, relay[o])
        /\ AsksOnce(o, relay[o], toPanel, open, answered[o])
    BY DEF RelayInv
  <2>2. Listens(o, uiRelays, heard(o))
    BY <1>3, <2>1 DEF Listens
  <2>3. AsksOnce(o, heard(o), toPanel, open, answered[o])
    BY <1>3, <2>1 DEF AsksOnce
  <2> QED BY <1>4, <2>2, <2>3
<1> QED BY <1>2, <1>6, <1>7 DEF RelayInv

\* With the session goes everything that was open or asked for in it.
LEMMA EndSessionKeeps ==
  ASSUME RelayInv, EndSession
  PROVE  RelayInv'
<1> DEFINE listening == {r \in Subscriptions : r \in uiRelays[relay[r].panelId]
                                               /\ ~relay[r].ended}
           closed(r) == IF r \in listening THEN Closed(relay[r]) ELSE relay[r]
<1>1. RelayTypes
  BY DEF RelayInv
<1>2. /\ sessionUp' = FALSE
      /\ relay' = [r \in Relays |-> closed(r)]
      /\ uiRelays' = [r \in Relays |-> {}]
      /\ toPanel' = <<>>
      /\ open' = [f \in Feeds |-> NoAnswer]
      /\ answered' = [r \in Relays |-> NoAnswer]
      /\ UNCHANGED updates
  BY DEF EndSession
<1>3. ASSUME NEW r \in Relays
      PROVE  /\ closed(r) \in RelayRecords
             /\ closed(r).st = relay[r].st /\ closed(r).answer = relay[r].answer
             /\ relay[r].ended => closed(r).ended
             /\ closed(r).panelId = relay[r].panelId
             /\ closed(r).applied = relay[r].applied
             /\ closed(r).held = relay[r].held
  <2>1. relay[r] \in RelayRecords
    BY <1>1 DEF RelayTypes
  <2> DEFINE told == [relay[r] EXCEPT !.ended = TRUE, !.told = "closed"]
  <2>2. /\ told \in RelayRecords
        /\ told.st = relay[r].st /\ told.answer = relay[r].answer
        /\ told.ended = TRUE
        /\ told.panelId = relay[r].panelId
        /\ told.applied = relay[r].applied
        /\ told.held = relay[r].held
    BY <2>1 DEF RelayRecords
  <2>3. closed(r) = relay[r] \/ closed(r) = told
    BY DEF Closed
  <2> HIDE DEF told, closed
  <2> QED BY <2>1, <2>2, <2>3
<1> HIDE DEF closed
<1>4. \A o \in Relays : relay'[o] = closed(o)
  BY <1>2
<1>5. RelayTypes'
  <2>1. /\ toPanel' \in Seq(Requests)
        /\ uiRelays' \in [Relays -> SUBSET Relays]
        /\ open' \in [Feeds -> Relays \cup {NoAnswer}]
        /\ answered' \in [Relays -> AskedAnswers]
        /\ relay' \in [Relays -> RelayRecords]
    BY <1>2, <1>3 DEF AskedAnswers
  <2> QED BY <1>1, <1>2, <1>3, <1>4, <2>1 DEF RelayTypes
<1>6. ASSUME NEW o \in Relays
      PROVE  /\ Listens(o, uiRelays', relay'[o])
             /\ AsksOnce(o, relay'[o], toPanel', open', answered'[o])
  <2>1. /\ Listens(o, uiRelays, relay[o])
        /\ AsksOnce(o, relay[o], toPanel, open, answered[o])
    BY DEF RelayInv
  <2>2. \A x \in Relays : o \notin uiRelays'[x]
    BY <1>2
  <2>3. Listens(o, uiRelays', closed(o))
    BY <1>3, <2>1, <2>2 DEF Listens
  <2>4. ~AskedFor(toPanel', o) /\ DOMAIN toPanel' = {} /\ answered'[o] = NoAnswer
    BY <1>2 DEF AskedFor
  <2>5. open'[Feed[o]] # o
    <3>1. Feed[o] \in Feeds /\ o # NoAnswer
      BY RelayAssumption DEF Feeds
    <3> QED BY <1>2, <3>1
  <2>6. AsksOnce(o, closed(o), toPanel', open', answered'[o])
    BY <1>3, <2>1, <2>4, <2>5 DEF AsksOnce
  <2> QED BY <1>4, <2>3, <2>6
<1>7. AllWanted(toPanel', uiRelays', open')
  BY <1>2 DEF AllWanted
<1>8. \A f \in Feeds : open'[f] # NoAnswer => Feed[open'[f]] = f
  BY <1>2
<1> QED BY <1>2, <1>5, <1>6, <1>7, <1>8 DEF RelayInv

LEMMA RelayInitKeeps == RelayInit => RelayInv
<1> SUFFICES ASSUME RelayInit PROVE RelayInv
  OBVIOUS
<1>1. RelayTypes
  <2>1. 0 \in 0..MaxUpdates /\ <<>> \in Seq(Requests)
    BY RelayAssumption
  <2>2. relay \in [Relays -> RelayRecords] /\ \A r \in Relays : relay[r].held = 0
    BY <2>1 DEF RelayInit, RelayRecords, AskedAnswers
  <2> QED BY <2>1, <2>2 DEF RelayInit, RelayTypes, AskedAnswers
<1>2. ASSUME NEW o \in Relays
      PROVE  /\ Listens(o, uiRelays, relay[o])
             /\ AsksOnce(o, relay[o], toPanel, open, answered[o])
  <2>1. /\ relay[o].st = "new" /\ relay[o].answer = NoAnswer /\ relay[o].panelId = o
        /\ toPanel = <<>> /\ answered[o] = NoAnswer
        /\ \A x \in Relays : o \notin uiRelays[x]
    BY DEF RelayInit
  <2>2. open[Feed[o]] # o
    BY RelayAssumption DEF RelayInit, Feeds
  <2> QED BY <2>1, <2>2 DEF Listens, AsksOnce, AskedFor
<1>3. AllWanted(toPanel, uiRelays, open)
  BY DEF RelayInit, AllWanted
<1> QED BY <1>1, <1>2, <1>3 DEF RelayInit, RelayInv

LEMMA RelayStepKeeps == RelayInv /\ [RelayNext]_relayVars => RelayInv'
<1> SUFFICES ASSUME RelayInv, [RelayNext]_relayVars PROVE RelayInv'
  OBVIOUS
<1>1. ASSUME NEW r \in Relays,
             Subscribe(r) \/ Applies(r) \/ FailsToSubscribe(r) \/ CancelSubscribe(r)
      PROVE  RelayInv'
  BY <1>1, SubscribeKeeps, AppliesKeeps, FailsToSubscribeKeeps, CancelSubscribeKeeps
<1>2. ASSUME NEW r \in Relays, BrowserEnds(r) \/ SnapshotEnds(r) \/ AnswerArrives(r)
      PROVE  RelayInv'
  BY <1>2, BrowserEndsKeeps, SnapshotEndsKeeps, AnswerArrivesKeeps
<1>3. ASSUME NEW refuses \in BOOLEAN, PanelSubscribes(refuses) PROVE RelayInv'
  BY <1>3, PanelSubscribesKeeps
<1>4. ASSUME NEW f \in Feeds, UiUpdate(f) PROVE RelayInv'
  BY <1>4, UiUpdateKeeps
<1>5. CASE PanelUnsubscribes \/ EndSession
  BY <1>5, PanelUnsubscribesKeeps, EndSessionKeeps
<1>6. CASE UNCHANGED relayVars
  BY <1>6 DEF relayVars, RelayInv, RelayTypes
<1> QED BY <1>1, <1>2, <1>3, <1>4, <1>5, <1>6 DEF RelayNext

LEMMA AlwaysRelayInv == RelaySpec => []RelayInv
BY RelayInitKeeps, RelayStepKeeps, PTL DEF RelaySpec

\* The shape of the relays' state: no more updates are held than were sent, and
\* a subscription only ever goes by the name of a relay.
THEOREM RelaysTyped == RelaySpec => []RelayTypeOK
<1>1. RelayInv => RelayTypeOK
  BY DEF RelayInv, RelayTypes, RelayTypeOK, RelayRecords, Requests
<1> QED BY <1>1, AlwaysRelayInv, PTL

\* _Subscription._unsubscribe and _async_subscribe: what a panel has open for
\* Home Assistant somebody listens to, or waits for, or is about to end, over
\* refusals, shared and late answers, cancelled waits and pages that leave.
THEOREM OpenSubscriptionsAreWanted == RelaySpec => []OpenIsWanted
<1>1. RelayInv => OpenIsWanted
  <2> SUFFICES ASSUME RelayInv, NEW f \in Feeds, open[f] # NoAnswer
               PROVE  \/ \E r \in uiRelays[open[f]] :
                           relay[r].st = "asked" \/ ~relay[r].ended
                      \/ \E i \in DOMAIN toPanel :
                           toPanel[i] = Ask("unsubscribe", open[f])
    BY DEF OpenIsWanted
  <2>1. StillWanted(toPanel, uiRelays, 0, open[f])
    BY DEF RelayInv, AllWanted
  <2>2. open[f] \in Relays /\ uiRelays[open[f]] \subseteq Relays
    BY DEF RelayInv, RelayTypes
  <2>3. \A r \in uiRelays[open[f]] : relay[r].st = "asked" \/ ~relay[r].ended
    BY <2>2 DEF RelayInv, Listens
  <2> QED BY <2>1, <2>3 DEF StillWanted, EndedAfter
<1> QED BY <1>1, AlwaysRelayInv, PTL

-----------------------------------------------------------------------------
(***************************************************************************)
(* The players a conversation turns down.                                  *)
(***************************************************************************)
\* A call that is being made is the first of the record; and when nobody holds
\* the player any more, the last call is a restore.
Ordered(rec) ==
  /\ rec.calling => rec.calls # <<>>
  /\ rec.holders = {} /\ rec.calls # <<>> => rec.calls[Len(rec.calls)]

\* What is known of a player that has a level, until a turning down has strayed:
\* ducking and nobody else makes it low, to the level its record says, and the
\* record, if it has one, says where it goes back.
LevelKnown(rec, level, low, stray) ==
  ~stray =>
    /\ low <=> level \notin Natural
    /\ rec = Unheld => level \in Natural
    /\ rec # Unheld => rec.level \in Natural /\ level \in Natural \cup {Lowered(rec.level)}

Minded(e) == LevelKnown(ducked[e], volume[e], down[e], strayed[e])

\* The inductive invariant.
DuckInv ==
  /\ ducked \in [Players -> Records \cup {Unheld}]
  /\ hold \in [Rooms -> SUBSET Players]
  /\ volume \in [Players -> Levels]
  /\ promised \in [Players -> SUBSET Levels]
  /\ on \in [Players -> BOOLEAN] /\ down \in [Players -> BOOLEAN]
  /\ strayed \in [Players -> BOOLEAN]
  /\ \A e \in Players : ducked[e] # Unheld => Ordered(ducked[e])
  /\ \A e \in Players \ MuteOnly : Minded(e)

LEMMA LevelFacts ==
  /\ Natural \subseteq Levels /\ Turned \subseteq Levels /\ "muted" \in Levels
  /\ \A level \in Levels : level \in Turned <=> level \notin Natural
  /\ \A level \in Levels : Lowered(level) \in Levels
  /\ \A level \in Natural : Lowered(level) \in Turned
BY DEF Natural, Turned, Levels, Lowered

\* One more call of a record.
LEMMA WithCallFacts ==
  ASSUME NEW rec \in Records, NEW restoring \in BOOLEAN, NEW r,
         r = WithCall(rec, restoring)
  PROVE  /\ r \in Records /\ r.calls # <<>> /\ r.calls[Len(r.calls)] = restoring
         /\ r.level = rec.level /\ r.holders = rec.holders /\ r.waiting = rec.waiting
<1> DEFINE s == Append(rec.calls, restoring)
<1>1. rec.calls \in Seq(BOOLEAN)
  BY DEF Records
<1>2. s \in Seq(BOOLEAN) /\ Len(s) = Len(rec.calls) + 1 /\ s[Len(s)] = restoring
  BY <1>1
<1>3. s # <<>>
  BY <1>1, <1>2
<1>4. r = [rec EXCEPT !.calls = s]
  BY DEF WithCall
<1> HIDE DEF s
<1> QED BY <1>2, <1>3, <1>4 DEF Records

\* The end of a record's first call.
LEMMA CallDoneFacts ==
  ASSUME NEW rec \in Records, Ordered(rec), rec.calls # <<>>, NEW r, r = CallDone(rec)
  PROVE  \/ r = Unheld /\ rec.holders = {} /\ ~rec.waiting /\ Head(rec.calls)
         \/ r \in Records /\ Ordered(r) /\ r.level = rec.level
<1> DEFINE s == Tail(rec.calls)
<1>1. rec.calls \in Seq(BOOLEAN) /\ Len(rec.calls) \in Nat /\ Len(rec.calls) # 0
  BY DEF Records
<1>2. CASE Closes(rec)
  <2>1. rec.holders = {} /\ Len(rec.calls) = 1 /\ ~rec.waiting /\ r = Unheld
    BY <1>2 DEF Closes, CallDone
  <2>2. rec.calls[1]
    BY <2>1 DEF Ordered
  <2>3. rec.calls # <<>> => Head(rec.calls) = rec.calls[1]
    BY <1>1, HeadTailProperties
  <2> QED BY <2>1, <2>2, <2>3
<1>3. CASE ~Closes(rec)
  <2>1. r = [rec EXCEPT !.calls = s, !.calling = FALSE]
    BY <1>3 DEF CallDone
  <2>2. s \in Seq(BOOLEAN) /\ Len(s) = Len(rec.calls) - 1
    BY <1>1, HeadTailProperties
  <2>3. \A i \in 1..Len(s) : s[i] = rec.calls[i + 1]
    BY <1>1, HeadTailProperties
  <2> HIDE DEF s
  <2>4. ASSUME s # <<>> PROVE s[Len(s)] = rec.calls[Len(rec.calls)]
    <3>1. Len(s) \in Nat /\ Len(s) # 0
      BY <2>2, <2>4, EmptySeq, LenProperties
    <3>2. Len(s) \in 1..Len(s)
      BY <3>1
    <3> QED BY <1>1, <2>2, <2>3, <3>2
  <2>5. /\ r \in Records /\ r.level = rec.level /\ r.holders = rec.holders
        /\ r.calls = s /\ r.calling = FALSE
    BY <2>1, <2>2 DEF Records
  <2>6. Ordered(r)
    <3>1. ASSUME s # <<>>, rec.holders = {} PROVE rec.calls[Len(rec.calls)]
      BY <3>1 DEF Ordered
    <3> QED BY <2>5, <2>4, <3>1 DEF Ordered
  <2> QED BY <2>5, <2>6
<1> QED BY <1>2, <1>3

\* A step of one player.
LEMMA OnePlayer ==
  ASSUME DuckInv, NEW e \in Players, NEW r \in Records \cup {Unheld},
         NEW level \in Levels, NEW change \in SUBSET Levels, NEW low \in BOOLEAN,
         NEW stray \in BOOLEAN,
         ducked' = [ducked EXCEPT ![e] = r], volume' = [volume EXCEPT ![e] = level],
         promised' = [promised EXCEPT ![e] = change], down' = [down EXCEPT ![e] = low],
         strayed' = [strayed EXCEPT ![e] = stray],
         UNCHANGED hold, on' \in [Players -> BOOLEAN],
         r # Unheld => Ordered(r),
         e \notin MuteOnly => LevelKnown(r, level, low, stray)
  PROVE  DuckInv'
<1>1. /\ ducked' \in [Players -> Records \cup {Unheld}]
      /\ volume' \in [Players -> Levels]
      /\ promised' \in [Players -> SUBSET Levels]
      /\ down' \in [Players -> BOOLEAN] /\ strayed' \in [Players -> BOOLEAN]
  BY DEF DuckInv
<1>2. ASSUME NEW o \in Players, ducked'[o] # Unheld PROVE Ordered(ducked'[o])
  BY <1>2 DEF DuckInv
<1>3. ASSUME NEW o \in Players \ MuteOnly PROVE Minded(o)'
  <2>1. CASE o = e
    <3>1. /\ ducked'[o] = r /\ volume'[o] = level
          /\ down'[o] = low /\ strayed'[o] = stray
      BY <2>1 DEF DuckInv
    <3>2. Minded(o)' <=> LevelKnown(ducked'[o], volume'[o], down'[o], strayed'[o])
      BY DEF Minded, LevelKnown
    <3> QED BY <2>1, <3>1, <3>2
  <2>2. CASE o # e
    <3>1. /\ ducked'[o] = ducked[o] /\ volume'[o] = volume[o]
          /\ down'[o] = down[o] /\ strayed'[o] = strayed[o]
      BY <2>2 DEF DuckInv
    <3>2. Minded(o)
      BY DEF DuckInv
    <3> QED BY <3>1, <3>2 DEF Minded, LevelKnown
  <2> QED BY <2>1, <2>2
<1> QED BY <1>1, <1>2, <1>3 DEF DuckInv

LEMMA MindedFacts ==
  ASSUME DuckInv, NEW e \in Players \ MuteOnly, ~strayed[e]
  PROVE  /\ down[e] <=> volume[e] \notin Natural
         /\ ducked[e] = Unheld => volume[e] \in Natural
         /\ ducked[e] # Unheld =>
              /\ ducked[e].level \in Natural
              /\ volume[e] \in Natural \cup {Lowered(ducked[e].level)}
BY DEF DuckInv, Minded, LevelKnown

\* What a step may do to a record while its player keeps its level: close it
\* when the player is not down, keep its level, or begin it at a natural one.
KeepsLevel(e, rec) ==
  \/ rec = Unheld /\ ~down[e]
  \/ rec # Unheld /\ ducked[e] # Unheld /\ rec.level = ducked[e].level
  \/ rec # Unheld /\ ducked[e] = Unheld /\ rec.level \in Natural

\* A step of the records alone.
LEMMA RecordsOnly ==
  ASSUME DuckInv, ducked' \in [Players -> Records \cup {Unheld}],
         hold' \in [Rooms -> SUBSET Players],
         UNCHANGED <<volume, on, promised, down, strayed>>,
         \A e \in Players : ducked'[e] # Unheld => Ordered(ducked'[e]),
         \A e \in Players \ MuteOnly : ~strayed[e] => KeepsLevel(e, ducked'[e])
  PROVE  DuckInv'
<1>1. ASSUME NEW e \in Players \ MuteOnly PROVE Minded(e)'
  <2>1. LevelKnown(ducked'[e], volume[e], down[e], strayed[e])
    BY MindedFacts DEF LevelKnown, KeepsLevel
  <2>2. Minded(e)' <=> LevelKnown(ducked'[e], volume'[e], down'[e], strayed'[e])
    BY DEF Minded, LevelKnown
  <2> QED BY <2>1, <2>2
<1> QED BY <1>1 DEF DuckInv

-----------------------------------------------------------------------------
(* The turns. *)

\* A record that one more panel holds.
LEMMA HeldFacts ==
  ASSUME NEW p \in Rooms, NEW rec \in Records, rec.calling => rec.calls # <<>>,
         NEW r, r = [rec EXCEPT !.holders = @ \cup {p}]
  PROVE  r \in Records /\ Ordered(r) /\ r.level = rec.level
<1>1. r \in Records
  BY DEF Records
<1>2. r.level = rec.level /\ p \in r.holders /\ r.calls = rec.calls
  BY DEF Records
<1>3. r.calling <=> rec.calling
  BY DEF Records
<1> QED BY <1>1, <1>2, <1>3 DEF Ordered

LEMMA DuckKept ==
  ASSUME DuckInv, NEW p \in Rooms, Duck(p)
  PROVE  DuckInv'
<1> DEFINE Able(sounding) ==
             {e \in sounding : ducked[e] # Unheld \/ e \notin MuteOnly \/ volume[e] # "muted"}
           Sought(sounding) == IF hold[p] = {} THEN Able(sounding) ELSE {}
           Before(e) == IF ducked[e] = Unheld THEN Lower(e) ELSE ducked[e]
           Called(e) == IF Before(e).holders = {} THEN WithCall(Before(e), FALSE)
                        ELSE Before(e)
           Held(e) == [Called(e) EXCEPT !.holders = @ \cup {p}]
<1>0. PICK sounding \in SUBSET {e \in Players : on[e]} :
        /\ hold' = [hold EXCEPT ![p] = @ \cup Sought(sounding)]
        /\ ducked' = [e \in Players |-> IF e \notin Sought(sounding) THEN ducked[e]
                                        ELSE Held(e)]
  BY DEF Duck
<1>1. PICK held \in SUBSET Players :
        /\ hold' = [hold EXCEPT ![p] = @ \cup held]
        /\ ducked' = [e \in Players |-> IF e \notin held THEN ducked[e] ELSE Held(e)]
  <2> DEFINE held == Sought(sounding)
  <2>1. held \in SUBSET Players
    OBVIOUS
  <2> HIDE DEF Sought
  <2> QED BY <1>0, <2>1
<1>2. ASSUME NEW e \in Players PROVE Before(e) \in Records /\ Ordered(Before(e))
  <2>1. Lower(e) \in Records /\ Ordered(Lower(e))
    BY DEF Lower, Records, Ordered, DuckInv
  <2> QED BY <2>1 DEF DuckInv
<1>3. ASSUME NEW e \in Players
      PROVE  Held(e) \in Records /\ Ordered(Held(e)) /\ Held(e).level = Before(e).level
  <2>1. /\ Called(e) \in Records /\ Called(e).level = Before(e).level
        /\ Called(e).calling => Called(e).calls # <<>>
    <3>1. Before(e) \in Records /\ (Before(e).calling => Before(e).calls # <<>>)
      BY <1>2 DEF Ordered
    <3> HIDE DEF Before
    <3>2. CASE Before(e).holders = {}
      <4>1. Called(e) = WithCall(Before(e), FALSE)
        BY <3>2
      <4> HIDE DEF Called
      <4> QED BY <3>1, <4>1, WithCallFacts
    <3>3. CASE Before(e).holders # {}
      BY <3>1, <3>3
    <3> QED BY <3>2, <3>3
  <2> HIDE DEF Called
  <2> QED BY <2>1, HeldFacts
<1>4. ASSUME NEW e \in Players \ MuteOnly, ~strayed[e], ducked[e] = Unheld
      PROVE  Before(e).level \in Natural
  <2>1. Before(e).level = volume[e]
    BY <1>4 DEF Lower
  <2>2. volume[e] \in Natural
    BY <1>4, MindedFacts
  <2> QED BY <2>1, <2>2
<1>8. ASSUME NEW e \in Players, ducked[e] # Unheld PROVE Before(e).level = ducked[e].level
  BY <1>8
<1> HIDE DEF Before, Called, Held
<1>5. /\ ducked' \in [Players -> Records \cup {Unheld}]
      /\ hold' \in [Rooms -> SUBSET Players]
      /\ UNCHANGED <<volume, on, promised, down, strayed>>
  <2>1. hold' \in [Rooms -> SUBSET Players]
    BY <1>1 DEF DuckInv
  <2>2. ducked' \in [Players -> Records \cup {Unheld}]
    BY <1>1, <1>3 DEF DuckInv
  <2> QED BY <2>1, <2>2 DEF Duck
<1>6. ASSUME NEW e \in Players, ducked'[e] # Unheld PROVE Ordered(ducked'[e])
  BY <1>1, <1>3, <1>6 DEF DuckInv
<1>7. ASSUME NEW e \in Players \ MuteOnly, ~strayed[e] PROVE KeepsLevel(e, ducked'[e])
  <2>1. ducked'[e] = ducked[e] \/ ducked'[e] = Held(e)
    BY <1>1
  <2>2. Held(e) # Unheld /\ Held(e).level = Before(e).level
    BY <1>3, DuckAssumption
  <2> QED BY <1>4, <1>7, <1>8, <2>1, <2>2, MindedFacts DEF KeepsLevel
<1> QED BY <1>5, <1>6, <1>7, RecordsOnly

LEMMA LetsGoKept ==
  ASSUME DuckInv, NEW p \in Rooms, LetsGo(p), UNCHANGED <<volume, on, promised, down, strayed>>
  PROVE  DuckInv'
<1> DEFINE Let(e) == [ducked[e] EXCEPT !.holders = @ \ {p}]
           Gone(e) == WithCall(Let(e), TRUE)
<1>1. /\ hold' = [hold EXCEPT ![p] = {}]
      /\ ducked' = [e \in Players |-> IF e \in hold[p] /\ ducked[e] # Unheld
                                      THEN Gone(e) ELSE ducked[e]]
  BY DEF LetsGo
<1>2. ASSUME NEW e \in Players, ducked[e] # Unheld
      PROVE  Gone(e) \in Records /\ Ordered(Gone(e)) /\ Gone(e).level = ducked[e].level
  <2>1. Let(e) \in Records /\ Let(e).level = ducked[e].level
    BY <1>2 DEF DuckInv, Records
  <2> HIDE DEF Let
  <2>2. /\ Gone(e) \in Records /\ Gone(e).calls # <<>>
        /\ Gone(e).calls[Len(Gone(e).calls)] = TRUE /\ Gone(e).level = Let(e).level
    BY <2>1, WithCallFacts
  <2> HIDE DEF Gone
  <2> QED BY <2>1, <2>2 DEF Ordered
<1> HIDE DEF Let, Gone
<1>3. ducked' \in [Players -> Records \cup {Unheld}] /\ hold' \in [Rooms -> SUBSET Players]
  BY <1>1, <1>2 DEF DuckInv
<1>4. ASSUME NEW e \in Players, ducked'[e] # Unheld PROVE Ordered(ducked'[e])
  BY <1>1, <1>2, <1>4 DEF DuckInv
<1>5. ASSUME NEW e \in Players \ MuteOnly, ~strayed[e] PROVE KeepsLevel(e, ducked'[e])
  <2>1. ducked'[e] = ducked[e] \/ (ducked[e] # Unheld /\ ducked'[e] = Gone(e))
    BY <1>1
  <2>2. ducked[e] # Unheld => Gone(e) # Unheld /\ Gone(e).level = ducked[e].level
    BY <1>2, DuckAssumption
  <2> QED BY <1>5, <2>1, <2>2, MindedFacts DEF KeepsLevel
<1> QED BY <1>3, <1>4, <1>5, RecordsOnly

LEMMA TurnEndsKept ==
  ASSUME DuckInv, NEW p \in Rooms, TurnEnds(p) \/ LimitExpires(p)
  PROVE  DuckInv'
<1>1. UNCHANGED <<volume, on, promised, down, strayed>>
  BY DEF TurnEnds, LimitExpires
<1>2. CASE LetsGo(p)
  BY <1>1, <1>2, LetsGoKept
<1>3. CASE UNCHANGED <<ducked, hold>>
  <2>1. ducked \in [Players -> Records \cup {Unheld}] /\ hold \in [Rooms -> SUBSET Players]
        /\ \A e \in Players : ducked[e] # Unheld => Ordered(ducked[e])
    BY DEF DuckInv
  <2>2. \A e \in Players \ MuteOnly : ~strayed[e] => KeepsLevel(e, ducked[e])
    BY MindedFacts DEF KeepsLevel
  <2> QED BY <1>1, <1>3, <2>1, <2>2, RecordsOnly
<1> QED BY <1>2, <1>3 DEF TurnEnds, LimitExpires

-----------------------------------------------------------------------------
(* The calls to a player, and the player. *)

\* A step of one player's record.
LEMMA OneRecord ==
  ASSUME DuckInv, NEW e \in Players, NEW r \in Records \cup {Unheld},
         ducked' = [ducked EXCEPT ![e] = r], UNCHANGED <<hold, volume, on, promised, down, strayed>>,
         r # Unheld => Ordered(r),
         e \notin MuteOnly /\ ~strayed[e] => KeepsLevel(e, r)
  PROVE  DuckInv'
<1>1. ducked' \in [Players -> Records \cup {Unheld}]
  BY DEF DuckInv
<1>2. ASSUME NEW o \in Players, ducked'[o] # Unheld PROVE Ordered(ducked'[o])
  BY <1>2 DEF DuckInv
<1>3. ASSUME NEW o \in Players \ MuteOnly, ~strayed[o] PROVE KeepsLevel(o, ducked'[o])
  <2>1. ducked'[o] = IF o = e THEN r ELSE ducked[o]
    BY DEF DuckInv
  <2> QED BY <1>3, <2>1, MindedFacts DEF KeepsLevel
<1> QED BY <1>1, <1>2, <1>3, RecordsOnly DEF DuckInv

\* The record of a player with calls to make.
LEMMA RecordFacts ==
  ASSUME DuckInv, NEW e \in Players, ducked[e] # Unheld
  PROVE  /\ ducked[e] \in Records /\ Ordered(ducked[e])
         /\ ducked[e].level \in Levels
         /\ ducked[e].calls # <<>> => Restoring(e) \in BOOLEAN
<1>1. ducked[e] \in Records /\ Ordered(ducked[e])
  BY DEF DuckInv
<1>2. ducked[e].calls \in Seq(BOOLEAN) /\ ducked[e].level \in Levels
  BY <1>1 DEF Records
<1> QED BY <1>1, <1>2, HeadTailProperties DEF Restoring

\* A record without a call being made is one that waits, and stays.
LEMMA WaitingFacts ==
  ASSUME NEW rec \in Records, Ordered(rec)
  PROVE  /\ [rec EXCEPT !.waiting = TRUE] \in Records
         /\ Ordered([rec EXCEPT !.waiting = TRUE])
         /\ [rec EXCEPT !.waiting = TRUE].calls = rec.calls
         /\ [rec EXCEPT !.waiting = TRUE].waiting
         /\ [rec EXCEPT !.waiting = TRUE].level = rec.level
<1> DEFINE r == [rec EXCEPT !.waiting = TRUE]
<1>1. /\ r \in Records /\ r.calls = rec.calls /\ r.level = rec.level
      /\ r.holders = rec.holders /\ r.waiting = TRUE
  BY DEF Records
<1>2. r.calling <=> rec.calling
  BY DEF Records
<1> HIDE DEF r
<1>3. Ordered(r)
  BY <1>1, <1>2 DEF Ordered
<1> QED BY <1>1, <1>3 DEF r

LEMMA CallBeginsKept ==
  ASSUME DuckInv, NEW e \in Players, CallBegins(e)
  PROVE  DuckInv'
<1> DEFINE rec == ducked[e]
           w == [rec EXCEPT !.waiting = TRUE]
           started == [rec EXCEPT !.calling = TRUE]
<1>1. /\ rec # Unheld /\ rec.calls # <<>> /\ rec \in Records /\ Ordered(rec)
      /\ rec.level \in Levels /\ Restoring(e) \in BOOLEAN
      /\ e \notin MuteOnly /\ ~strayed[e] => rec.level \in Natural
  BY RecordFacts, MindedFacts DEF CallBegins
<1>2. UNCHANGED <<hold, volume, on, promised, down, strayed>>
  BY DEF CallBegins
<1>3. CASE Moot(e)
  <2> DEFINE r == CallDone(rec)
  <2>1. ducked' = [ducked EXCEPT ![e] = r]
    BY <1>3 DEF CallBegins
  <2>2. \/ r = Unheld /\ rec.holders = {}
        \/ r \in Records /\ Ordered(r) /\ r.level = rec.level
    BY <1>1, CallDoneFacts
  <2>3. ASSUME e \notin MuteOnly, ~strayed[e], rec.holders = {} PROVE ~down[e]
    <3>1. on[e] /\ ~Untouched(e)
      BY <1>3, <2>3 DEF Moot
    <3>2. volume[e] # Lowered(rec.level)
      BY <3>1 DEF Untouched, AtLevel
    <3> QED BY <1>1, <2>3, <3>2, MindedFacts
  <2> HIDE DEF r
  <2>4. e \notin MuteOnly /\ ~strayed[e] => KeepsLevel(e, r)
    BY <1>1, <2>2, <2>3, DuckAssumption DEF KeepsLevel
  <2> QED BY <1>2, <2>1, <2>2, <2>4, OneRecord
<1>4. CASE ~Moot(e) /\ MustWait(e)
  <2> DEFINE r == CallDone(w)
  <2>1. ducked' = [ducked EXCEPT ![e] = r]
    BY <1>4 DEF CallBegins
  <2>2. w \in Records /\ Ordered(w) /\ w.calls # <<>> /\ w.waiting /\ w.level = rec.level
    BY <1>1, WaitingFacts
  <2> HIDE DEF w
  <2>3. r \in Records /\ Ordered(r) /\ r.level = w.level
    BY <2>2, CallDoneFacts
  <2> HIDE DEF r
  <2>4. KeepsLevel(e, r)
    BY <1>1, <2>2, <2>3, DuckAssumption DEF KeepsLevel
  <2> QED BY <1>2, <2>1, <2>3, <2>4, OneRecord
<1>5. CASE ~Moot(e) /\ ~MustWait(e)
  <2>1. ducked' = [ducked EXCEPT ![e] = started]
    BY <1>5 DEF CallBegins
  <2>2. started \in Records /\ started.level = rec.level /\ started.calls = rec.calls
        /\ started.holders = rec.holders
    BY <1>1 DEF Records
  <2> HIDE DEF started
  <2>3. Ordered(started)
    BY <1>1, <2>2 DEF Ordered
  <2>4. KeepsLevel(e, started)
    BY <1>1, <2>2, DuckAssumption DEF KeepsLevel
  <2> QED BY <1>2, <2>1, <2>2, <2>3, <2>4, OneRecord
<1> QED BY <1>3, <1>4, <1>5

LEMMA CallReturnsKept ==
  ASSUME DuckInv, NEW e \in Players, CallReturns(e)
  PROVE  DuckInv'
<1> DEFINE rec == ducked[e]
           w == [rec EXCEPT !.waiting = TRUE]
           unsettled == Unsettled(e, on[e], volume'[e])
           r == CallDone(IF unsettled THEN w ELSE rec)
<1>1. /\ rec # Unheld /\ rec.calls # <<>> /\ rec \in Records /\ Ordered(rec)
      /\ rec.level \in Levels /\ Restoring(e) \in BOOLEAN
      /\ e \notin MuteOnly /\ ~strayed[e] => rec.level \in Natural
  <2>1. rec.calls # <<>>
    BY RecordFacts DEF CallReturns, Ordered
  <2> QED BY <2>1, RecordFacts, MindedFacts DEF CallReturns
<1>2. UNCHANGED <<hold, on, strayed>> /\ ducked' = [ducked EXCEPT ![e] = r]
  BY DEF CallReturns, Answered
<1>3. /\ w \in Records /\ Ordered(w) /\ w.calls = rec.calls /\ w.waiting
      /\ w.level = rec.level
  BY <1>1, WaitingFacts
<1>4. /\ r \in Records \cup {Unheld} /\ (r # Unheld => Ordered(r) /\ r.level = rec.level)
      /\ r = Unheld => ~unsettled /\ Restoring(e)
  <2> HIDE DEF w, unsettled
  <2>1. CASE unsettled
    <3>1. r = CallDone(w)
      BY <2>1
    <3> HIDE DEF r
    <3>2. r \in Records /\ Ordered(r) /\ r.level = w.level
      BY <1>1, <1>3, <3>1, CallDoneFacts
    <3> QED BY <1>3, <3>2, DuckAssumption
  <2>2. CASE ~unsettled
    <3>1. r = CallDone(rec)
      BY <2>2
    <3> HIDE DEF r
    <3>2. \/ r = Unheld /\ Restoring(e)
          \/ r \in Records /\ Ordered(r) /\ r.level = rec.level
      BY <1>1, <3>1, CallDoneFacts DEF Restoring
    <3> QED BY <2>2, <3>2, DuckAssumption
  <2> QED BY <2>1, <2>2
<1>5. Wanted(e) \in Levels
  BY <1>1, LevelFacts DEF Wanted
<1>6. e \notin MuteOnly => Wanted(e) = IF Restoring(e) THEN rec.level ELSE Lowered(rec.level)
  BY DEF Wanted
\* A call that ends the record leaves a player that does not report it is low.
<1>7. e \notin MuteOnly /\ r = Unheld => volume'[e] # Lowered(rec.level)
  BY <1>4 DEF Unsettled
<1> HIDE DEF r, w, unsettled, rec
<1>8. ASSUME NEW level \in Levels, NEW low \in BOOLEAN,
             volume' = [volume EXCEPT ![e] = level],
             down' = [down EXCEPT ![e] = low],
             e \notin MuteOnly /\ ~strayed[e] =>
               /\ level \in Natural \cup {Lowered(rec.level)}
               /\ low <=> level \notin Natural
      PROVE  DuckInv'
  <2>1. volume'[e] = level
    BY <1>8 DEF DuckInv
  <2>2. e \notin MuteOnly => LevelKnown(r, level, low, strayed[e])
    BY <1>1, <1>4, <1>7, <1>8, <2>1 DEF LevelKnown
  <2>3. on' \in [Players -> BOOLEAN] /\ strayed[e] \in BOOLEAN
        /\ strayed' = [strayed EXCEPT ![e] = strayed[e]]
    BY <1>2 DEF DuckInv
  <2>4. PICK change \in SUBSET Levels : promised' = [promised EXCEPT ![e] = change]
    <3>1. promised[e] \in SUBSET Levels /\ promised = [promised EXCEPT ![e] = promised[e]]
      BY DEF DuckInv
    <3>2. promised' = promised
            \/ promised' = [promised EXCEPT ![e] = promised[e] \cup {Wanted(e)}]
      BY DEF CallReturns
    <3>3. promised[e] \cup {Wanted(e)} \in SUBSET Levels
      BY <1>5, <3>1
    <3> QED BY <3>1, <3>2, <3>3
  <2> QED BY <1>2, <1>4, <1>8, <2>2, <2>3, <2>4, OnePlayer
<1>9. /\ volume[e] \in Levels /\ down[e] \in BOOLEAN
      /\ volume = [volume EXCEPT ![e] = volume[e]]
      /\ down = [down EXCEPT ![e] = down[e]]
  BY DEF DuckInv
<1>10. e \notin MuteOnly /\ ~strayed[e] =>
         /\ volume[e] \in Natural \cup {Lowered(rec.level)}
         /\ down[e] <=> volume[e] \notin Natural
  BY <1>1, MindedFacts DEF rec
<1>11. CASE /\ volume' = [volume EXCEPT ![e] = Wanted(e)]
            /\ down' = [down EXCEPT ![e] = ~Restoring(e)]
  <2>1. e \notin MuteOnly /\ ~strayed[e] =>
          /\ Wanted(e) \in Natural \cup {Lowered(rec.level)}
          /\ ~Restoring(e) <=> Wanted(e) \notin Natural
    BY <1>1, <1>6, LevelFacts
  <2>2. (~Restoring(e)) \in BOOLEAN
    BY <1>1
  <2> QED BY <1>5, <1>8, <1>11, <2>1, <2>2
<1>12. CASE UNCHANGED <<volume, down>>
  BY <1>8, <1>9, <1>10, <1>12
<1> QED BY <1>11, <1>12 DEF CallReturns

\* What a player's report makes of its record.
LEMMA SeenFacts ==
  ASSUME NEW rec \in Records \cup {Unheld}, rec # Unheld => Ordered(rec),
         NEW back \in BOOLEAN, NEW r, r = SeenBy(rec, back)
  PROVE  /\ r \in Records \cup {Unheld} /\ (r # Unheld => Ordered(r))
         /\ rec = Unheld => r = Unheld
         /\ rec # Unheld /\ r = Unheld => back
         /\ rec # Unheld /\ r # Unheld => r.level = rec.level
<1> DEFINE seen == [rec EXCEPT !.waiting = FALSE]
<1>1. CASE rec = Unheld \/ ~rec.waiting
  BY <1>1 DEF SeenBy
<1>2. CASE rec # Unheld /\ rec.waiting
  <2>1. /\ seen \in Records /\ seen.level = rec.level /\ seen.calls = rec.calls
        /\ seen.holders = rec.holders /\ (seen.calling <=> rec.calling)
    BY <1>2 DEF Records
  <2> HIDE DEF seen
  <2>2. Ordered(seen)
    BY <1>2, <2>1 DEF Ordered
  <2>3. CASE ~back
    <3>1. r = WithCall(seen, TRUE)
      BY <1>2, <2>3 DEF SeenBy, seen
    <3>2. r \in Records /\ r.calls # <<>> /\ r.calls[Len(r.calls)] = TRUE
          /\ r.level = rec.level
      BY <2>1, <3>1, WithCallFacts
    <3> QED BY <1>2, <3>2, DuckAssumption DEF Ordered
  <2>4. CASE back
    <3>1. r = Unheld \/ r = seen
      BY <1>2, <2>4 DEF SeenBy, seen
    <3> QED BY <1>2, <2>1, <2>2, <2>4, <3>1
  <2> QED BY <2>3, <2>4
<1> QED BY <1>1, <1>2

\* A player that reports a level: whoever set it is known.
LEMMA ReportsKept ==
  ASSUME DuckInv, NEW e \in Players, NEW level \in Levels,
         NEW change \in SUBSET Levels, NEW low \in BOOLEAN, NEW stray \in BOOLEAN,
         PlayerReports(e, level), on' \in [Players -> BOOLEAN], UNCHANGED hold,
         volume' = [volume EXCEPT ![e] = level],
         promised' = [promised EXCEPT ![e] = change], down' = [down EXCEPT ![e] = low],
         strayed' = [strayed EXCEPT ![e] = stray],
         e \notin MuteOnly => LevelKnown(ducked[e], level, low, stray)
  PROVE  DuckInv'
<1> DEFINE back == on'[e] /\ ducked[e] # Unheld /\ level = ducked[e].level
           r == SeenBy(ducked[e], back)
<1>1. ducked' = [ducked EXCEPT ![e] = r]
  BY DEF PlayerReports
<1>2. back \in BOOLEAN /\ ducked[e] \in Records \cup {Unheld}
      /\ (ducked[e] # Unheld => Ordered(ducked[e]))
  BY DEF DuckInv
<1>3. back => level = ducked[e].level
  OBVIOUS
<1> HIDE DEF back
<1>4. /\ r \in Records \cup {Unheld} /\ (r # Unheld => Ordered(r))
      /\ ducked[e] = Unheld => r = Unheld
      /\ ducked[e] # Unheld /\ r = Unheld => back
      /\ ducked[e] # Unheld /\ r # Unheld => r.level = ducked[e].level
  BY <1>2, SeenFacts
<1> HIDE DEF r
<1>5. e \notin MuteOnly => LevelKnown(r, level, low, stray)
  BY <1>3, <1>4 DEF LevelKnown
<1> QED BY <1>1, <1>4, <1>5, OnePlayer

LEMMA LateChangeKept ==
  ASSUME DuckInv, NEW e \in Players, LateChange(e)
  PROVE  DuckInv'
<1>1. PICK level \in promised[e] :
        /\ promised' = [promised EXCEPT ![e] = @ \ {level}]
        /\ volume' = [volume EXCEPT ![e] = level]
        /\ down' = [down EXCEPT ![e] = level \in Turned]
        /\ strayed' = [strayed EXCEPT ![e] = @ \/ Strays(e, level)]
        /\ UNCHANGED ducked \/ PlayerReports(e, level)
  BY DEF LateChange
<1> DEFINE low == level \in Turned
           stray == strayed[e] \/ Strays(e, level)
           change == promised[e] \ {level}
<1>2. level \in Levels /\ change \in SUBSET Levels
  BY DEF DuckInv
<1>3. low \in BOOLEAN /\ stray \in BOOLEAN
  BY DEF DuckInv
<1>4. e \notin MuteOnly => LevelKnown(ducked[e], level, low, stray)
  <2> SUFFICES ASSUME e \notin MuteOnly, ~stray PROVE LevelKnown(ducked[e], level, low, FALSE)
    BY DEF LevelKnown
  <2>1. low <=> level \notin Natural
    BY <1>2, LevelFacts
  <2>2. level \in Turned => ducked[e] # Unheld /\ level = Lowered(ducked[e].level)
    BY DEF Strays
  <2>3. ducked[e] # Unheld => ducked[e].level \in Natural
    BY MindedFacts
  <2> QED BY <2>1, <2>2, <2>3 DEF LevelKnown
<1>5. /\ volume' = [volume EXCEPT ![e] = level] /\ down' = [down EXCEPT ![e] = low]
      /\ promised' = [promised EXCEPT ![e] = change]
      /\ strayed' = [strayed EXCEPT ![e] = stray]
      /\ UNCHANGED hold /\ on' \in [Players -> BOOLEAN]
  BY <1>1 DEF LateChange, DuckInv
<1> HIDE DEF low, stray, change
<1>6. CASE PlayerReports(e, level)
  BY <1>2, <1>3, <1>4, <1>5, <1>6, ReportsKept
<1>7. CASE UNCHANGED ducked
  <2>1. ducked' = [ducked EXCEPT ![e] = ducked[e]]
        /\ ducked[e] \in Records \cup {Unheld}
        /\ (ducked[e] # Unheld => Ordered(ducked[e]))
    BY <1>7 DEF DuckInv
  <2> QED BY <1>2, <1>3, <1>4, <1>5, <2>1, OnePlayer
<1> QED BY <1>1, <1>6, <1>7

LEMMA SomebodySetsKept ==
  ASSUME DuckInv, NEW e \in Players, SomebodySets(e)
  PROVE  DuckInv'
<1>1. "set" \in Levels /\ "set" \in Natural /\ FALSE \in BOOLEAN
  BY DEF Natural, Levels
<1>2. /\ volume' = [volume EXCEPT ![e] = "set"] /\ down' = [down EXCEPT ![e] = FALSE]
      /\ UNCHANGED hold /\ PlayerReports(e, "set") /\ on' \in [Players -> BOOLEAN]
  BY DEF SomebodySets, DuckInv
<1>3. /\ promised' = [promised EXCEPT ![e] = promised[e]] /\ promised[e] \in SUBSET Levels
      /\ strayed' = [strayed EXCEPT ![e] = strayed[e]] /\ strayed[e] \in BOOLEAN
  BY DEF SomebodySets, DuckInv
<1>4. e \notin MuteOnly => LevelKnown(ducked[e], "set", FALSE, strayed[e])
  BY <1>1, MindedFacts DEF LevelKnown
<1> QED BY <1>1, <1>2, <1>3, <1>4, ReportsKept

LEMMA PowerChangesKept ==
  ASSUME DuckInv, NEW e \in Players, PowerChanges(e)
  PROVE  DuckInv'
<1>1. /\ volume' = [volume EXCEPT ![e] = volume[e]] /\ volume[e] \in Levels
      /\ down' = [down EXCEPT ![e] = down[e]] /\ down[e] \in BOOLEAN
      /\ promised' = [promised EXCEPT ![e] = promised[e]]
      /\ promised[e] \in SUBSET Levels
      /\ strayed' = [strayed EXCEPT ![e] = strayed[e]] /\ strayed[e] \in BOOLEAN
      /\ UNCHANGED hold /\ PlayerReports(e, volume[e])
  BY DEF PowerChanges, DuckInv
<1>2. on' \in [Players -> BOOLEAN]
  BY DEF PowerChanges, DuckInv
<1>3. e \notin MuteOnly => LevelKnown(ducked[e], volume[e], down[e], strayed[e])
  BY DEF DuckInv, Minded
<1> QED BY <1>1, <1>2, <1>3, ReportsKept

-----------------------------------------------------------------------------
LEMMA DuckInvInit ==
  ASSUME DuckInit
  PROVE  DuckInv
<1>1. /\ ducked \in [Players -> Records \cup {Unheld}]
      /\ hold \in [Rooms -> SUBSET Players]
      /\ volume \in [Players -> Levels]
      /\ promised \in [Players -> SUBSET Levels]
      /\ on \in [Players -> BOOLEAN] /\ down \in [Players -> BOOLEAN]
      /\ strayed \in [Players -> BOOLEAN]
      /\ \A e \in Players : ducked[e] = Unheld
  BY DEF DuckInit, Levels, Natural
<1>2. ASSUME NEW e \in Players PROVE Minded(e)
  BY DEF DuckInit, Minded, LevelKnown, Natural
<1> QED BY <1>1, <1>2 DEF DuckInv

LEMMA DuckInvKept ==
  ASSUME DuckInv, [DuckNext]_duckVars
  PROVE  DuckInv'
<1>1. CASE UNCHANGED duckVars
  <2>1. /\ ducked' \in [Players -> Records \cup {Unheld}]
        /\ hold' \in [Rooms -> SUBSET Players]
        /\ UNCHANGED <<ducked, volume, on, promised, down, strayed>>
        /\ \A e \in Players : ducked'[e] # Unheld => Ordered(ducked'[e])
    BY <1>1 DEF DuckInv, duckVars
  <2>2. \A e \in Players \ MuteOnly : ~strayed[e] => KeepsLevel(e, ducked'[e])
    BY <2>1, MindedFacts DEF KeepsLevel
  <2> QED BY <2>1, <2>2, RecordsOnly
<1>2. CASE DuckNext
  BY <1>2, DuckKept, TurnEndsKept, CallBeginsKept, CallReturnsKept, LateChangeKept,
     SomebodySetsKept, PowerChangesKept DEF DuckNext
<1> QED BY <1>1, <1>2

\* A player that a conversation turned down and nobody has touched since keeps
\* its record, whose level no conversation turned it down to: a record closes
\* with the last call, a restore, and only when the player is seen at another
\* level than the low one.  What is excepted is a player on which a turning down
\* has shown that was given up on, when its record had closed.
THEOREM DuckedIsRemembered == DuckSpec => []TurnedDownIsRemembered
<1>1. DuckInit => DuckInv
  BY DuckInvInit
<1>2. DuckInv /\ [DuckNext]_duckVars => DuckInv'
  BY DuckInvKept
<1>3. DuckInv => TurnedDownIsRemembered
  BY MindedFacts DEF TurnedDownIsRemembered
<1> QED BY <1>1, <1>2, <1>3, PTL DEF DuckSpec
=============================================================================
