------------------------------- MODULE RoomDuck -------------------------------
(***************************************************************************)
(* The players of an area that panels turn down while they hold a           *)
(* conversation (duck.py).  The panels of an area share one record of each  *)
(* player: the level before the first of them turned it down, who still     *)
(* holds it, and the calls to it, each of which waits for the one before.   *)
(* A record stays until the player is back at its level, or until somebody  *)
(* has set another one.                                                     *)
(*                                                                          *)
(* The players are external: they go off and come back, they apply a        *)
(* change at once, later or never, in any order, and people change them.  A *)
(* call waits CALL_LIMIT for its player at the longest, so what it asked    *)
(* for may show when the record it was made for is gone.                    *)
(***************************************************************************)
EXTENDS Naturals, Sequences

CONSTANTS
  Rooms,          \* panels in the area, each with a hold of its own
  Players,        \* the area's other media players
  MuteOnly,       \* those that have no level and are muted instead
  MaxTurns,       \* bound: conversation turns that turn players down
  MaxChanges,     \* bound: changes of a player by people and by its own power
  Unheld          \* no record

\* Levels: as it was, as somebody set it, and turned down from each of these, or
\* from a level that was turned down itself; or muted.
Natural == {"own", "set"}
Turned == {"ownLow", "setLow", "lower", "muted"}
Levels == Natural \cup Turned

\* A record: the level to go back to, who holds the player, whether it waits for
\* the player, the calls still to make (TRUE: a restore), the first being made.
Records == [level : Levels, holders : SUBSET Rooms, waiting : BOOLEAN,
            calls : Seq(BOOLEAN), calling : BOOLEAN]

ASSUME DuckAssumption ==
  /\ MuteOnly \subseteq Players
  /\ MaxTurns \in Nat /\ MaxChanges \in Nat
  /\ Unheld \notin Records

VARIABLES
  ducked,     \* [Players -> its record, or Unheld] (_DATA_DUCKED)
  hold,       \* [Rooms -> the players the panel holds] (_held)
  limit,      \* [Rooms -> the panel's timer: none, turn or follow_up]
  volume,     \* [Players -> what the player plays at]
  on,         \* [Players -> whether it reports a level]
  promised,   \* [Players -> the changes it has accepted and applies later]
  down,       \* [Players -> whether ducking, and nobody since, set its level]
  strayed,    \* [Players -> a turning down has shown without its record] (history)
  conversations, changes

duckVars ==
  <<ducked, hold, limit, volume, on, promised, down, strayed, conversations, changes>>

\* DUCK_FACTOR of a level.
Lowered(level) ==
  CASE level = "own" -> "ownLow" [] level = "set" -> "setLow" [] OTHER -> "lower"

-----------------------------------------------------------------------------
(* A record and its calls. *)

\* _at_level, of what the player reports.
AtLevel(e, level) == on[e] /\ volume[e] = level

\* _untouched: it still sits where the duck left it, or never moved.
Untouched(e) ==
  AtLevel(e, Lowered(ducked[e].level)) \/ AtLevel(e, ducked[e].level)

Lower(e) == [level |-> volume[e], holders |-> {}, waiting |-> FALSE,
             calls |-> <<>>, calling |-> FALSE]

\* _call: one more change of the player, after those before it.
WithCall(rec, restoring) == [rec EXCEPT !.calls = Append(@, restoring)]

\* Faulty: the record closes although it waits for its player.
ClosesWaiting(rec) == rec.holders = {} /\ Len(rec.calls) = 1

\* The end of a call, at the finally of _async_call: the last call to a player
\* nobody holds closes its record.
Closes(rec) == rec.holders = {} /\ Len(rec.calls) = 1 /\ ~rec.waiting

CallDone(rec) ==
  IF Closes(rec) THEN Unheld ELSE [rec EXCEPT !.calls = Tail(@), !.calling = FALSE]

-----------------------------------------------------------------------------
(* A panel's turns. *)

\* duck, at STT_START: lower the sounding players, or keep holding them.  A
\* player whose restore has not landed is lowered again after it.
Duck(p) ==
  /\ conversations < MaxTurns
  /\ conversations' = conversations + 1
  /\ \E sounding \in SUBSET {e \in Players : on[e]} :
       LET able == {e \in sounding : ducked[e] # Unheld \/ e \notin MuteOnly \/ volume[e] # "muted"}
           held == IF hold[p] = {} THEN able ELSE {}
       IN
       /\ hold' = [hold EXCEPT ![p] = @ \cup held]
       /\ ducked' = [e \in Players |->
            IF e \notin held THEN ducked[e]
            ELSE LET rec == IF ducked[e] = Unheld THEN Lower(e) ELSE ducked[e]
                     called == IF rec.holders = {} THEN WithCall(rec, FALSE) ELSE rec
                 IN [called EXCEPT !.holders = @ \cup {p}]]
       /\ limit' = [limit EXCEPT ![p] = IF hold'[p] # {} THEN "turn" ELSE @]
  /\ UNCHANGED <<volume, on, promised, down, strayed, changes>>

\* release: let go of every player; each is set back unless held again by then.
LetsGo(p) ==
  /\ limit' = [limit EXCEPT ![p] = "none"]
  /\ hold' = [hold EXCEPT ![p] = {}]
  /\ ducked' = [e \in Players |->
       IF e \in hold[p] /\ ducked[e] # Unheld
       THEN WithCall([ducked[e] EXCEPT !.holders = @ \ {p}], TRUE)
       ELSE ducked[e]]

\* end: a follow-up turn may come; otherwise let go.
TurnEnds(p) ==
  /\ hold[p] # {}
  /\ \/ limit' = [limit EXCEPT ![p] = "follow_up"] /\ UNCHANGED <<ducked, hold>>
     \/ LetsGo(p)
  /\ UNCHANGED <<volume, on, promised, down, strayed, conversations, changes>>

\* The turn or the follow-up did not come to its end in time.
\* Faulty: only a follow-up has a limit.
OverrunsFollowUp(p) == limit[p] = "follow_up"

Overruns(p) == limit[p] # "none"

LimitExpires(p) ==
  /\ Overruns(p)
  /\ LetsGo(p)
  /\ UNCHANGED <<volume, on, promised, down, strayed, conversations, changes>>

-----------------------------------------------------------------------------
(* The calls to a player. *)

Restoring(e) == Head(ducked[e].calls)

\* A restore that is not to be made: the player is held again, or somebody has
\* set it meanwhile.
Moot(e) ==
  /\ Restoring(e)
  /\ \/ ducked[e].holders # {}
     \/ e \notin MuteOnly /\ on[e] /\ ~Untouched(e)

\* A restore that has to wait until the player reports a level (_await_level).
MustWait(e) == Restoring(e) /\ ducked[e].holders = {} /\ e \notin MuteOnly /\ ~on[e]

\* A call's turn has come.
CallBegins(e) ==
  /\ ducked[e] # Unheld /\ ducked[e].calls # <<>> /\ ~ducked[e].calling
  /\ ducked' = [ducked EXCEPT ![e] =
       IF Moot(e) THEN CallDone(@)
       ELSE IF MustWait(e) THEN CallDone([@ EXCEPT !.waiting = TRUE])
       ELSE [@ EXCEPT !.calling = TRUE]]
  /\ UNCHANGED <<hold, limit, volume, on, promised, down, strayed, conversations, changes>>

\* What a call asks the player for.
Wanted(e) ==
  IF Restoring(e) THEN ducked[e].level
  ELSE IF e \in MuteOnly THEN "muted" ELSE Lowered(ducked[e].level)

\* After a restore that did not bring the player back: it is off, or still low.
Unsettled(e, reports, level) ==
  /\ Restoring(e) /\ e \notin MuteOnly
  /\ reports => level = Lowered(ducked[e].level)

Answered(e) ==
  ducked' = [ducked EXCEPT ![e] =
    CallDone(IF Unsettled(e, on[e], volume'[e]) THEN [@ EXCEPT !.waiting = TRUE] ELSE @)]

\* The call returns: the change was made; or it was refused, and is lost; or it
\* was not answered within CALL_LIMIT, and may still show, later.
CallReturns(e) ==
  /\ ducked[e] # Unheld /\ ducked[e].calling
  /\ \/ /\ on[e]
        /\ volume' = [volume EXCEPT ![e] = Wanted(e)]
        /\ down' = [down EXCEPT ![e] = ~Restoring(e)]
        /\ UNCHANGED promised
     \/ /\ promised' \in {promised, [promised EXCEPT ![e] = @ \cup {Wanted(e)}]}
        /\ UNCHANGED <<volume, down>>
  /\ Answered(e)
  /\ UNCHANGED <<hold, limit, on, strayed, conversations, changes>>

-----------------------------------------------------------------------------
(* The players. *)

\* _changed: a record that waits for a player looks again when it reports
\* anything new: it is back already, or is tried once more.
SeenBy(rec, back) ==
  IF rec = Unheld \/ ~rec.waiting THEN rec
  ELSE IF ~back THEN WithCall([rec EXCEPT !.waiting = FALSE], TRUE)
  ELSE IF rec.holders = {} /\ rec.calls = <<>> THEN Unheld
  ELSE [rec EXCEPT !.waiting = FALSE]

PlayerReports(e, level) ==
  ducked' = [ducked EXCEPT ![e] =
    SeenBy(@, on'[e] /\ @ # Unheld /\ level = ducked[e].level)]

\* A turning down that shows when the record it was made for is gone.
Strays(e, level) ==
  /\ level \in Turned
  /\ ducked[e] # Unheld => level # Lowered(ducked[e].level)

\* A change the player accepted earlier shows.
LateChange(e) ==
  /\ on[e]
  /\ \E level \in promised[e] :
       /\ promised' = [promised EXCEPT ![e] = @ \ {level}]
       /\ volume' = [volume EXCEPT ![e] = level]
       /\ down' = [down EXCEPT ![e] = level \in Turned]
       /\ strayed' = [strayed EXCEPT ![e] = @ \/ Strays(e, level)]
       /\ UNCHANGED on
       /\ IF level = volume[e] THEN UNCHANGED ducked ELSE PlayerReports(e, level)
  /\ UNCHANGED <<hold, limit, conversations, changes>>

\* Somebody sets its level.
SomebodySets(e) ==
  /\ on[e] /\ volume[e] # "set" /\ changes < MaxChanges
  /\ changes' = changes + 1
  /\ volume' = [volume EXCEPT ![e] = "set"]
  /\ down' = [down EXCEPT ![e] = FALSE]
  /\ UNCHANGED on /\ PlayerReports(e, "set")
  /\ UNCHANGED <<hold, limit, promised, strayed, conversations>>

\* It goes off or away, or comes back at the level it had.
PowerChanges(e) ==
  /\ changes < MaxChanges
  /\ changes' = changes + 1
  /\ on' = [on EXCEPT ![e] = ~@]
  /\ PlayerReports(e, volume[e])
  /\ UNCHANGED <<hold, limit, volume, promised, down, strayed, conversations>>

-----------------------------------------------------------------------------

DuckInit ==
  /\ ducked = [e \in Players |-> Unheld]
  /\ hold = [p \in Rooms |-> {}]
  /\ limit = [p \in Rooms |-> "none"]
  /\ volume = [e \in Players |-> "own"]
  /\ on = [e \in Players |-> TRUE]
  /\ promised = [e \in Players |-> {}]
  /\ down = [e \in Players |-> FALSE]
  /\ strayed = [e \in Players |-> FALSE]
  /\ conversations = 0 /\ changes = 0

DuckNext ==
  \/ \E p \in Rooms : Duck(p) \/ TurnEnds(p) \/ LimitExpires(p)
  \/ \E e \in Players :
       CallBegins(e) \/ CallReturns(e) \/ LateChange(e) \/ SomebodySets(e) \/ PowerChanges(e)

\* Timers fire, and tasks and calls, which are bounded, get their turn.
DuckFairness ==
  /\ \A p \in Rooms : WF_duckVars(LimitExpires(p))
  /\ \A e \in Players : WF_duckVars(CallBegins(e) \/ CallReturns(e))

DuckSpec == DuckInit /\ [][DuckNext]_duckVars /\ DuckFairness

-----------------------------------------------------------------------------
(* Properties. *)

\* A player that a conversation turned down, and nobody has touched since, is
\* never forgotten: its record says to what level it goes back, and that level
\* is not one a conversation turned it down to.  It holds of a player until a
\* turning down shows that was given up on and whose record has closed by then:
\* nothing in the code remembers that one.  A player that can only be muted is
\* tried once: a failed call leaves it muted.
TurnedDownIsRemembered ==
  \A e \in Players \ MuteOnly :
    ~strayed[e] =>
      /\ ducked[e] = Unheld => ~down[e]
      /\ ducked[e] # Unheld => ducked[e].level \in Natural

\* Every record ends, unless its player is away or has not taken the change, in
\* which case it waits for the player's next report.
RoomIsSetBack ==
  \A e \in Players : ducked[e] # Unheld ~> (ducked[e] = Unheld \/ ducked[e].waiting)
=============================================================================
