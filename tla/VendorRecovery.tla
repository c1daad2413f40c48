--------------------------- MODULE VendorRecovery ---------------------------
(***************************************************************************)
(* The return of a Shelly panel's dashboard after the vendor's launcher    *)
(* force-stopped the app (vendor_recovery.py).                             *)
(*                                                                         *)
(*   session  the panel's sessions: the latest generation, and whether it  *)
(*            is connected                                                 *)
(*   key      the generation the recovery was last armed for               *)
(*   witness  the generation a complete witness was taken in, until used   *)
(*   task     the coordinator's one task: arming, or recovering, and the   *)
(*            generation it works for                                      *)
(*   closing  whether a recovery that ended, or was cancelled, still closes*)
(*            its connection, and gives the reservation back after it      *)
(*                                                                         *)
(* A witness names the boot, the HOME and the vendor's process.  Any check *)
(* may also refuse for what is not modelled (a notice of a restart, another*)
(* boot, another credential, an install of the panel): a recovery may give *)
(* up at every step.                                                       *)
(***************************************************************************)
EXTENDS ManagedPanel

CONSTANT MaxSessions  \* bound: sessions the panel opens

VARIABLES session, key, witness, task, closing

recoveryVars == <<session, key, witness, task, closing>>

ASSUME SessionsBounded == MaxSessions \in Nat

Generations == 0..MaxSessions

NoTask == [pc |-> "idle", gen |-> 0]

RecoveryTypeOK ==
  /\ session \in [gen : Generations, live : BOOLEAN]
  /\ key \in Generations /\ witness \in Generations
  /\ task \in [pc : {"idle", "arm", "grace", "health", "look", "press"},
               gen : Generations]
  /\ closing \in BOOLEAN

RecoveryInit ==
  /\ session = [gen |-> 0, live |-> FALSE]
  /\ key = 0 /\ witness = 0 /\ task = NoTask /\ closing = FALSE

TaskAt(pc) == task.pc = pc

\* _current, for the context of generation g.
Current(g, connected) == entry /\ session.gen = g /\ session.live = connected

\* The task holds the panel from its claim on.
Reserved == task.pc \in {"health", "look", "press"}

\* What is left of a task that ends or is cancelled: the await of its close.
TaskEnds(next) == task' = next /\ closing' = (closing \/ Reserved)

\* _replace: the cancelled task closes beside the new one.
Replaced(pc, g) == TaskEnds([pc |-> pc, gen |-> g])

\* The close returns, and the claim is given back.
Closes ==
  /\ closing /\ closing' = FALSE /\ Released
  /\ UNCHANGED <<panel, entry, session, key, witness, task>>

\* changed, when the session is gone: a witness is used once.
Used(g) == witness' = 0 /\ Replaced("grace", g)

Changed ==
  /\ witness # 0 /\ Current(witness, FALSE)
  /\ Used(witness)
  /\ UNCHANGED <<deviceVars, session, key>>

\* A session opens, and ends with its socket.
SessionOpens ==
  /\ Answers /\ ~session.live /\ session.gen < MaxSessions
  /\ session' = [gen |-> session.gen + 1, live |-> TRUE]
  /\ UNCHANGED <<deviceVars, key, witness, task, closing>>

SessionEnds ==
  /\ session.live
  /\ session' = [session EXCEPT !.live = FALSE]
  /\ UNCHANGED <<deviceVars, key, witness, task, closing>>

\* observe: a poll of a connected panel arms once for its generation.
Observed ==
  /\ panel.shelly /\ key # session.gen /\ Current(session.gen, TRUE)
  /\ key' = session.gen /\ witness' = 0
  /\ Replaced("arm", session.gen)
  /\ UNCHANGED <<deviceVars, session>>

\* _arm: the panel over ADB, and again over HTTP, within the same session.
Arm ==
  /\ TaskAt("arm")
  /\ task' = NoTask
  /\ \/ /\ panel.app # "stopped" /\ panel.home = "app"
        /\ Current(task.gen, TRUE)
        /\ witness' = task.gen
     \/ UNCHANGED witness
  /\ UNCHANGED <<deviceVars, session, key, closing>>

\* The task ends, or is cancelled.
GivesUp ==
  /\ task.pc \in {"grace", "health", "look", "press"}
  /\ TaskEnds(NoTask)
  /\ UNCHANGED <<deviceVars, session, key, witness>>

\* _allowed, after the grace, and the claim.
Grace ==
  /\ TaskAt("grace") /\ Current(task.gen, FALSE) /\ Claimable("recovery")
  /\ task' = [task EXCEPT !.pc = "health"]
  /\ UNCHANGED <<panel, entry, session, key, witness, closing>>

\* An app that answers needs no recovery; then the credential, the address and
\* the connection.
Health ==
  /\ TaskAt("health") /\ ~Answers /\ Current(task.gen, FALSE)
  /\ task' = [task EXCEPT !.pc = "look"]
  /\ UNCHANGED <<deviceVars, session, key, witness, closing>>

\* The same boot and HOME, and the app stopped by the vendor's process.
Look ==
  /\ TaskAt("look") /\ Current(task.gen, FALSE)
  /\ panel.app = "stopped" /\ panel.home = "app"
  /\ task' = [task EXCEPT !.pc = "press"]
  /\ UNCHANGED <<deviceVars, session, key, witness, closing>>

\* The last checks, and HOME, which the shell presses only if the app is still
\* stopped and still HOME.
Press ==
  /\ TaskAt("press") /\ Current(task.gen, FALSE)
  /\ panel.app = "stopped" /\ panel.home = "app"
  /\ panel' = [panel EXCEPT !.app = "up"]
  /\ TaskEnds(NoTask)
  /\ UNCHANGED <<entry, claim, session, key, witness>>

\* close, and the restart of Home Assistant.
RecoveryStops ==
  /\ session' = [session EXCEPT !.live = FALSE]
  /\ key' = 0 /\ witness' = 0 /\ task' = NoTask /\ closing' = FALSE

RecoveryStep ==
  \/ Changed \/ SessionOpens \/ SessionEnds \/ Observed \/ Arm \/ GivesUp \/ Grace
  \/ Health \/ Look \/ Press \/ Closes
=============================================================================
