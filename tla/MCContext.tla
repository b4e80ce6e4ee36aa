----------------------------- MODULE MCContext -----------------------------
(* Instances of the parts that decide in which conversation, context and     *)
(* account a turn runs, and of its place in the desktop. The parts share no  *)
(* state, so a behaviour follows one of them and leaves the others at rest.  *)
EXTENDS DesktopRegistry, ProjectPresence, ContextSegments, Capsule, ConversationTurns, QuotaCache, QuotaChoice

VARIABLE part

MCSegRuns == 1 .. 4
MCBatches == {<<"s">>}
MCGroup == <<"p", "q", "r">>
Weekly(used, resets, conf) ==
  [kind |-> "weekly", src |-> "probe", used |-> used, conf |-> conf, latch |-> FALSE, ttl |-> 24, resets |-> resets]
MCOffers ==
  {Weekly(1000, 24, "high"), Weekly(8850, 24, "high"), Weekly(1000, 48, "low"),
   [kind |-> "latch", src |-> "passive", used |-> 10000, conf |-> "high", latch |-> TRUE, ttl |-> 24, resets |-> 24]}

MCVars ==
  <<part, desktopVars, presenceVars, segVars, capVars, convVars, quotaVars, choiceVars>>

MCInit ==
  /\ part \in {"desktop", "presence", "segments", "capsule", "turns", "cache", "choice"}
  /\ DesktopInit /\ PresenceInit /\ SegInit /\ CapInit /\ ConvInit /\ QuotaInit /\ ChoiceInit
  /\ part # "presence" => projects = <<>>
  /\ part # "segments" => enforce
  /\ part # "capsule" => turnsLeft = <<0>> /\ fixed = 1
  /\ part # "turns" => account = "a"
  /\ part # "choice" => mode = "on"

(* Actors that differ by their name alone take their first steps in one order. *)
TasksInTurn ==
  LET moved == [t \in Tasks |-> turns'[t].status # "none"]
  IN  (moved["o"] => moved["n"]) /\ (moved["n"] => moved["m"])
PresentersInTurn == presents'[2].at # "binding" => presents'[1].at # "binding"
KeysInTurn == taskOf'["n"] # "none" => taskOf'["m"] # "none"

(* Two acts of other clients are looked at for one presentation, and three   *)
(* observations in the mode that follows them.                               *)
PresenceNarrow == hands' <= 1 \/ presents'[2].at = "binding"
ChoiceNarrow == Count' <= 2 \/ mode' = "on"

MCNext ==
  /\ UNCHANGED part
  /\ \/ /\ part = "desktop" /\ DesktopNext
        /\ UNCHANGED <<presenceVars, segVars, capVars, convVars, quotaVars, choiceVars>>
     \/ /\ part = "presence" /\ PresenceNext /\ PresentersInTurn /\ PresenceNarrow
        /\ UNCHANGED <<desktopVars, segVars, capVars, convVars, quotaVars, choiceVars>>
     \/ /\ part = "segments" /\ SegNext
        /\ UNCHANGED <<desktopVars, presenceVars, capVars, convVars, quotaVars, choiceVars>>
     \/ /\ part = "capsule" /\ CapNext
        /\ UNCHANGED <<desktopVars, presenceVars, segVars, convVars, quotaVars, choiceVars>>
     \/ /\ part = "turns" /\ ConvNext /\ TasksInTurn
        /\ UNCHANGED <<desktopVars, presenceVars, segVars, capVars, quotaVars, choiceVars>>
     \/ /\ part = "cache" /\ QuotaNext
        /\ UNCHANGED <<desktopVars, presenceVars, segVars, capVars, convVars, choiceVars>>
     \/ /\ part = "choice" /\ ChoiceNext /\ KeysInTurn /\ ChoiceNarrow
        /\ UNCHANGED <<desktopVars, presenceVars, segVars, capVars, convVars, quotaVars>>

MCSpec == MCInit /\ [][MCNext]_MCVars

-----------------------------------------------------------------------------
(* The place of a conversation in the desktop: its project and its thread.   *)
DesktopSafety == RegistrySafety /\ PresenceSafety

(* What is known of a quota, and the choice that rests on it.                *)
QuotaSafety == CacheSafety /\ ChoiceSafety
=============================================================================
