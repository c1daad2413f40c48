-------------------------- MODULE MCSessionTraffic --------------------------
(***************************************************************************)
(* What a panel's session carries: commands (SessionCommands) and speech   *)
(* (VoiceStream).  They share no state, so a behaviour explores one of     *)
(* them: part.                                                             *)
(*                                                                         *)
(* Commands: two, of which one is kept when its wait ends, so that the     *)
(* other one evicts it; and an event.  The one may lend and may ask the    *)
(* person at the panel, the other is a plain command.  Speech: an          *)
(* announcement and a reply on one panel with two troubles; or, with none, *)
(* beside them an announcement on another panel that shares the first      *)
(* one's batch.                                                            *)
(***************************************************************************)
EXTENDS SessionCommands, VoiceStream, TLC

CONSTANTS k1, k2, p1, p2, a1, a2, r1

VARIABLE part

MCTarget == [c \in Spoken |-> IF c = a2 THEN p2 ELSE p1]
MCKey == [c \in Announcements |-> "key"]

partVars == <<vars, voiceVars, part>>

\* The calls that come, and the troubles that are left for them.
SpeechInit ==
  /\ VoiceInit
  /\ \A c \in {a1, r1} : spoken[c].st = "idle"
  /\ troubles = IF spoken[a2].st = "idle" THEN MaxTroubles ELSE 0

\* The second command asks no one and lends nothing.
SecondIsPlain == ~command[k2].on_interim /\ ~command[k2].lends

PartInit ==
  part \in {"commands", "speech"} /\ Init /\ SpeechInit

PartNext ==
  /\ UNCHANGED part
  /\ \/ part = "commands" /\ Next /\ SecondIsPlain' /\ UNCHANGED voiceVars
     \/ part = "speech" /\ VoiceNext /\ UNCHANGED vars

\* The fairness of each, in its part.
PartSpec ==
  /\ PartInit /\ [][PartNext]_partVars
  /\ \A c \in Commands :
       /\ WF_vars(part = "commands" /\ TimerFires(c))
       /\ WF_vars(part = "commands" /\ Resume(c))
  /\ \A c \in Spoken :
       /\ WF_voiceVars(part = "speech" /\ CallStep(c))
       /\ WF_voiceVars(part = "speech" /\ TaskStep(c))
  /\ WF_voiceVars(part = "speech" /\ TurnStep)
=============================================================================
