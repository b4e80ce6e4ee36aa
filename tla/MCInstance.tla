----------------------------- MODULE MCInstance -----------------------------
(* Instances of the parts around one installed instance: its plugins and     *)
(* their budgets, the plans of its service, its database, its clients (the   *)
(* bridge of a chat, the review tools, the capabilities, the control feed)   *)
(* and the hand-over between them. The parts share no state, so a behaviour  *)
(* follows one of them and leaves the others at rest.                        *)
EXTENDS PluginPools, ServicePlan, StateStore, BridgeLedger, PrReview, ReviewInbox, CapabilityCode,
        ControlFeed, Handoff, TLC

VARIABLES part, wide

MCRevs == 1 .. 2
MCConv == [i \in Execs |-> IF i = "c" THEN "y" ELSE "x"]
MCConf == [r \in MCRevs |-> [limit |-> [p \in Pools |-> IF p = "p" THEN 2 ELSE 3], most |-> 2,
            window |-> 1, remaining |-> IF r = 1 THEN Unknown ELSE 1, id |-> r]]

(* The sets of two are given the same values; one permutation serves them all. *)
MCSymmetry == Permutations(HandRequests)

(* A behaviour of the bridge has one request that goes far, or two that do not. *)
BridgeNarrow ==
  IF wide
  THEN /\ \A r \in Requests : coreTasks'[r].run <= 1 /\ coreTasks'[r].ev <= 1
       /\ Cardinality({c \in Callers : caller'[c].at # "idle"}) <= 1
       /\ host' = host
  ELSE row'["s"] = "none" /\ (coreTasks'["r"].run = 2 => coreTasks'["r"].ev <= 1)

MCVars ==
  <<part, wide, poolVars, serviceVars, storeVars, bridgeVars, reviewVars, inboxVars, codeVars, feedVars, handVars>>

MCInit ==
  /\ part \in {"pools", "service", "store", "bridge", "review", "inbox", "code", "feed", "handoff"}
  /\ wide \in (IF part = "bridge" THEN BOOLEAN ELSE {FALSE})
  /\ PoolInit /\ ServiceInit /\ StoreInit /\ BridgeInit /\ ReviewInit
  /\ InboxInit /\ CodeInit /\ FeedInit /\ HandInit

MCNext ==
  /\ UNCHANGED <<part, wide>>
  /\ \/ /\ part = "pools" /\ PoolNext
        /\ UNCHANGED <<serviceVars, storeVars, bridgeVars, reviewVars, inboxVars, codeVars, feedVars, handVars>>
     \/ /\ part = "service" /\ ServiceNext
        /\ UNCHANGED <<poolVars, storeVars, bridgeVars, reviewVars, inboxVars, codeVars, feedVars, handVars>>
     \/ /\ part = "store" /\ StoreNext
        /\ UNCHANGED <<poolVars, serviceVars, bridgeVars, reviewVars, inboxVars, codeVars, feedVars, handVars>>
     \/ /\ part = "bridge" /\ BridgeNext /\ BridgeNarrow
        /\ UNCHANGED <<poolVars, serviceVars, storeVars, reviewVars, inboxVars, codeVars, feedVars, handVars>>
     \/ /\ part = "review" /\ ReviewNext
        /\ UNCHANGED <<poolVars, serviceVars, storeVars, bridgeVars, inboxVars, codeVars, feedVars, handVars>>
     \/ /\ part = "inbox" /\ InboxNext
        /\ UNCHANGED <<poolVars, serviceVars, storeVars, bridgeVars, reviewVars, codeVars, feedVars, handVars>>
     \/ /\ part = "code" /\ CodeNext
        /\ UNCHANGED <<poolVars, serviceVars, storeVars, bridgeVars, reviewVars, inboxVars, feedVars, handVars>>
     \/ /\ part = "feed" /\ FeedNext
        /\ UNCHANGED <<poolVars, serviceVars, storeVars, bridgeVars, reviewVars, inboxVars, codeVars, handVars>>
     \/ /\ part = "handoff" /\ HandNext
        /\ UNCHANGED <<poolVars, serviceVars, storeVars, bridgeVars, reviewVars, inboxVars, codeVars, feedVars>>

MCSpec == MCInit /\ [][MCNext]_MCVars

-----------------------------------------------------------------------------
(* The reviews of an instance: their publication and their notices.          *)
ReviewsSafety == RecipeSafety /\ InboxSafety
=============================================================================
