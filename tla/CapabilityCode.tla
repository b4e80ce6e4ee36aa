---------------------------- MODULE CapabilityCode -----------------------------
(***************************************************************************)
(* The capability profile's code workflow (capabilities/service.py over          *)
(* control.py): a plan is prepared and shown, submitted once, dispatched if the   *)
(* world still is as the plan says, and then carried through review and repair     *)
(* by the quality runtime, whose every turn is an Action of the control profile     *)
(* with a budget of its own.  quality_progress is the bridge between the two.     *)
(*                                                                          *)
(*   config, base   versions of the configuration and of the target files       *)
(*   plans          what each prepared plan was made for; `until` is whether it is   *)
(*                  still within its fifteen minutes                         *)
(*   sent           the submissions answered, by key, and the plan of each        *)
(*   runs           the control run of each plan:                             *)
(*     status, desired   as control.py has them                              *)
(*     impl              the implementation, from "admitted" to its end          *)
(*     phase, repairs    the quality flow of its task                          *)
(*     step, unsettled   the turn the flow is in, and turns over but unsettled     *)
(*     paused            the flow is paused: "none", or by whom                   *)
(*     flag              asterun.quality_control_paused                      *)
(*     turns             turns the provider was asked for                       *)
(***************************************************************************)
EXTENDS Integers, FiniteSets

CONSTANTS Plans,           \* plans that may be prepared
          SubmitKeys,      \* idempotency keys of submissions
          MaxRepairs,      \* repairs the plan allows
          MaxEdits         \* bound on changes of the files and the configuration

ASSUME CapabilityCodeAssumption == MaxRepairs \in Nat /\ MaxEdits \in Nat

VARIABLES config, base, plans, sent, runs, edits

codeVars == <<config, base, plans, sent, runs, edits>>

NoPlan == [made |-> FALSE, config |-> 0, base |-> 0, until |-> FALSE]
NoRunYet == [status |-> "none", desired |-> "RUNNING", impl |-> "none", phase |-> "none", repairs |-> 0,
             step |-> "none", unsettled |-> 0, paused |-> "none", flag |-> FALSE, turns |-> 0, target |-> 0]

CodeRunOver == {"SUCCEEDED", "FAILED", "CANCELED"}
Phases == {"none", "reviewing", "repairing", "completed", "blocked"}
StepsOpen == {"admitted", "running", "unknown"}
MaxTurns == 2 + 2 * MaxRepairs

CodeInit ==
  /\ config = 0 /\ base = 0 /\ edits = 0 /\ plans = [p \in Plans |-> NoPlan]
  /\ sent = [k \in SubmitKeys |-> {}] /\ runs = [p \in Plans |-> NoRunYet]

CodeTypeOK ==
  /\ \A p \in Plans :
       LET r == runs[p] IN
       /\ r.phase \in Phases /\ r.turns <= MaxTurns
       /\ r.status # "none" => plans[p].made
       /\ r.phase # "none" => r.impl = "ok"
       /\ r.step \in {"none", "over"} \union StepsOpen
  /\ \A k \in SubmitKeys : Cardinality(sent[k]) <= 1

Put(p, r) == runs' = [runs EXCEPT ![p] = r]

-----------------------------------------------------------------------------
(* prepare and submit: a key answers as it did the first time.                  *)

PrepareCodePlan(p) ==
  /\ ~plans[p].made
  /\ plans' = [plans EXCEPT ![p] = [made |-> TRUE, config |-> config, base |-> base, until |-> TRUE]]
  /\ UNCHANGED <<config, base, sent, runs, edits>>

(* assert_plan *)
Stands(p) == plans[p].until /\ plans[p].config = config /\ plans[p].base = base

BindsAnew(p) == TRUE   \* mutant: the plan's admission is not bound to one execution
BindsOnce(p) == runs[p].status = "none"

SubmitPlan(k, p) ==
  /\ plans[p].made /\ sent[k] = {} /\ Stands(p) /\ BindsOnce(p)
  /\ sent' = [sent EXCEPT ![k] = @ \union {p}]
  /\ Put(p, [NoRunYet EXCEPT !.status = "QUEUED", !.impl = "admitted"])
  /\ UNCHANGED <<config, base, plans, edits>>

-----------------------------------------------------------------------------
(* advance: the implementation.                                               *)

Live(p) == runs[p].status \notin CodeRunOver \union {"none"}
GoesForward(p) == Live(p) /\ runs[p].desired = "RUNNING"

(* The guard, in the transaction that marks the delivery.                        *)
DispatchImpl(p) ==
  /\ GoesForward(p) /\ runs[p].impl = "admitted"
  /\ Put(p, IF Stands(p) THEN [runs[p] EXCEPT !.impl = "marked", !.status = "PREPARING"]
            ELSE [runs[p] EXCEPT !.impl = "failed", !.status = "FAILED"])
  /\ UNCHANGED <<config, base, plans, sent, edits>>

(* task.submit commits the intent, or nothing came of it, also by a crash.        *)
Intend(p) ==
  /\ Live(p) /\ runs[p].impl = "marked"
  /\ \/ Put(p, [runs[p] EXCEPT !.impl = "queued"])
     \/ Put(p, [runs[p] EXCEPT !.impl = "failed", !.status = "FAILED"])
  /\ UNCHANGED <<config, base, plans, sent, edits>>

GuardAgain(p) == Stands(p)

(* The intent waited for a slot: the guard is asked again before the call.        *)
StartImpl(p) ==
  /\ GoesForward(p) /\ runs[p].impl = "queued"
  /\ Put(p, IF GuardAgain(p) THEN [runs[p] EXCEPT !.impl = "running", !.status = "RUNNING", !.turns = @ + 1]
            ELSE [runs[p] EXCEPT !.impl = "failed"])
  /\ UNCHANGED <<config, base, plans, sent, edits>>

ImplReports(p, how) ==
  /\ runs[p].impl \in {"running", "unknown"} /\ how # runs[p].impl
  /\ Put(p, [runs[p] EXCEPT !.impl = how]) /\ UNCHANGED <<config, plans, sent, edits>>
  /\ base' \in {base, base + 1} /\ base' <= MaxEdits

(* What was not delivered stops where it is; what was, when it is over.           *)
ImplStops(p) ==
  LET r == runs[p] IN
  /\ Live(p) /\ r.desired # "RUNNING" /\ r.impl \in {"admitted", "queued", "failed"}
  /\ r.desired = "PAUSED" => r.status # "PAUSED"
  /\ Put(p, IF r.desired = "PAUSED" THEN [r EXCEPT !.status = "PAUSED"]
            ELSE [r EXCEPT !.status = "CANCELED", !.impl = IF @ = "failed" THEN @ ELSE "unsent"])
  /\ UNCHANGED <<config, base, plans, sent, edits>>

ImplFails(p) ==
  /\ GoesForward(p) /\ runs[p].impl = "failed" /\ Put(p, [runs[p] EXCEPT !.status = "FAILED"])
  /\ UNCHANGED <<config, base, plans, sent, edits>>

-----------------------------------------------------------------------------
(* The quality runtime: it runs on its own, and asks the bridge before it commits  *)
(* a turn (admit_quality_intent) and before it calls (guard_quality_dispatch).    *)

RepairsLeft(r) == r.repairs < MaxRepairs

(* The next turn, or why there is none.  A refusal by the bridge pauses the flow.    *)
NextStep(p, phase) ==
  LET r == runs[p] IN
  IF r.desired = "RUNNING" /\ plans[p].config = config
  THEN [r EXCEPT !.phase = phase, !.step = "admitted", !.target = IF phase = "reviewing" THEN base ELSE @,
                 !.repairs = IF phase = "repairing" THEN @ + 1 ELSE @]
  ELSE [r EXCEPT !.paused = "control"]

Flowing(p) == Live(p) /\ runs[p].impl = "ok" /\ runs[p].paused = "none"

(* The current run of the flow is over: the implementation or the last turn.        *)
Between(p) == Flowing(p) /\ runs[p].phase \in {"reviewing", "repairing"} /\ runs[p].step \in {"over", "none"}

AfterReview(p) ==
  /\ Between(p) /\ runs[p].phase = "reviewing"
  /\ IF base # runs[p].target
     THEN Put(p, [runs[p] EXCEPT !.phase = "blocked", !.paused = "flow"])
     ELSE \/ Put(p, [runs[p] EXCEPT !.phase = "completed"])
          \/ RepairsLeft(runs[p]) /\ Put(p, NextStep(p, "repairing"))
          \/ Put(p, [runs[p] EXCEPT !.phase = "blocked", !.paused = "flow"])
  /\ UNCHANGED <<config, base, plans, sent, edits>>

AfterRepair(p) ==
  /\ Between(p) /\ runs[p].phase = "repairing" /\ Put(p, NextStep(p, "reviewing"))
  /\ UNCHANGED <<config, base, plans, sent, edits>>

StepStarts(p) ==
  /\ Flowing(p) /\ runs[p].desired = "RUNNING" /\ runs[p].step = "admitted"
  /\ Put(p, IF plans[p].config = config THEN [runs[p] EXCEPT !.step = "running", !.turns = @ + 1]
            ELSE [runs[p] EXCEPT !.step = "over", !.unsettled = @ + 1, !.phase = "blocked", !.paused = "flow"])
  /\ UNCHANGED <<config, base, plans, sent, edits>>

StepEnds(p, how) ==
  /\ runs[p].step \in {"running", "unknown"} /\ how # runs[p].step
  /\ Put(p, IF how = "over" THEN [runs[p] EXCEPT !.step = how, !.unsettled = @ + 1] ELSE [runs[p] EXCEPT !.step = how])
  /\ base' \in (IF runs[p].phase = "repairing" THEN {base, base + 1} ELSE {base}) /\ base' <= MaxEdits
  /\ UNCHANGED <<config, plans, sent, edits>>

-----------------------------------------------------------------------------
(* quality_progress: settle what is over; stop, resume, begin or end the flow.      *)

SettleSteps(r) == [r EXCEPT !.unsettled = 0]

FlagAlways(r) == TRUE

(* The control intent stops the flow; what is running is let run, or cancelled.     *)
ProgressStops(p) ==
  LET r == SettleSteps(runs[p])
      s == IF r.phase # "none" /\ ~r.flag /\ FlagAlways(r) THEN [r EXCEPT !.paused = "control", !.flag = TRUE] ELSE r
  IN
  /\ Live(p) /\ r.impl = "ok" /\ r.desired # "RUNNING"
  /\ IF r.step \in StepsOpen
     THEN IF r.desired = "CANCELED" /\ r.step = "admitted"
          THEN Put(p, [s EXCEPT !.step = "over", !.unsettled = 1, !.phase = "blocked"]) ELSE Put(p, s)
     ELSE Put(p, [s EXCEPT !.status = IF r.desired = "PAUSED" THEN "PAUSED" ELSE "CANCELED"])
  /\ UNCHANGED <<config, base, plans, sent, edits>>

ProgressResumes(p) ==
  /\ GoesForward(p) /\ runs[p].impl = "ok" /\ runs[p].flag
  /\ Put(p, [SettleSteps(runs[p]) EXCEPT !.flag = FALSE, !.paused = "none"])
  /\ UNCHANGED <<config, base, plans, sent, edits>>

(* quality.start; where it cannot, the run waits.                                *)
ProgressBegins(p) ==
  /\ GoesForward(p) /\ runs[p].impl = "ok" /\ ~runs[p].flag /\ runs[p].phase = "none"
  /\ Put(p, IF plans[p].config = config
            THEN [NextStep(p, "reviewing") EXCEPT !.status = "WAITING"] ELSE [runs[p] EXCEPT !.status = "WAITING"])
  /\ UNCHANGED <<config, base, plans, sent, edits>>

AnyFiles(r) == TRUE   \* mutant: the accepted target is not compared again at the end

SameFiles(r) == base = r.target

ProgressEnds(p) ==
  LET r == SettleSteps(runs[p]) IN
  /\ GoesForward(p) /\ ~r.flag /\ r.phase = "completed" /\ r.paused = "none"
  /\ Put(p, IF ~SameFiles(r) THEN [r EXCEPT !.phase = "blocked", !.paused = "flow", !.status = "WAITING"]
            ELSE [r EXCEPT !.status = IF plans[p].config = config THEN "SUCCEEDED" ELSE "FAILED"])
  /\ UNCHANGED <<config, base, plans, sent, edits>>

-----------------------------------------------------------------------------
(* Commands of the control profile, and the world.                             *)

Pause(p) ==
  /\ Live(p) /\ runs[p].desired # "CANCELED"
  /\ Put(p, [runs[p] EXCEPT !.desired = "PAUSED", !.status = IF @ = "PAUSED" THEN @ ELSE "PAUSING"])
  /\ UNCHANGED <<config, base, plans, sent, edits>>

Resume(p) ==
  /\ runs[p].desired = "PAUSED" /\ runs[p].status = "PAUSED" /\ plans[p].config = config
  /\ Put(p, [runs[p] EXCEPT !.desired = "RUNNING", !.status = "RECONCILING"])
  /\ UNCHANGED <<config, base, plans, sent, edits>>

Cancel(p) ==
  /\ Live(p) /\ Put(p, [runs[p] EXCEPT !.desired = "CANCELED", !.status = "CANCELING"])
  /\ UNCHANGED <<config, base, plans, sent, edits>>

Changes ==
  /\ edits < MaxEdits /\ edits' = edits + 1
  /\ \/ config' = config + 1 /\ UNCHANGED <<base, plans>>
     \/ base < MaxEdits /\ base' = base + 1 /\ UNCHANGED <<config, plans>>
     \/ \E p \in Plans : plans[p].until /\ plans' = [plans EXCEPT ![p].until = FALSE] /\ UNCHANGED <<config, base>>
  /\ UNCHANGED <<sent, runs>>

CodeNext ==
  \/ \E p \in Plans :
       \/ PrepareCodePlan(p) \/ DispatchImpl(p) \/ Intend(p) \/ StartImpl(p) \/ ImplStops(p) \/ ImplFails(p)
       \/ \E k \in SubmitKeys : SubmitPlan(k, p)
       \/ \E how \in {"ok", "failed", "unknown"} : ImplReports(p, how)
       \/ AfterReview(p) \/ AfterRepair(p) \/ StepStarts(p)
       \/ \E how \in {"over", "unknown"} : StepEnds(p, how)
       \/ ProgressStops(p) \/ ProgressResumes(p) \/ ProgressBegins(p) \/ ProgressEnds(p)
       \/ Pause(p) \/ Resume(p) \/ Cancel(p)
  \/ Changes

CodeSpec == CodeInit /\ [][CodeNext]_codeVars

-----------------------------------------------------------------------------
(* A plan is executed once, whatever keys the submissions used.                  *)
OneRunPerPlan == \A p \in Plans : Cardinality({k \in SubmitKeys : p \in sent[k]}) <= 1

(* The implementation is called on the files the plan was made for: those the       *)
(* caller saw, not those of the moment.                                        *)
StartsOnItsBaseline ==
  [][\A p \in Plans : runs[p].impl = "queued" /\ runs'[p].impl = "running"
       => plans[p].base = base /\ plans[p].config = config]_codeVars

(* The turns the provider is asked for stay within what the plan showed.            *)
TurnsWithinPlan == \A p \in Plans : runs[p].turns <= 2 + 2 * MaxRepairs /\ runs[p].repairs <= MaxRepairs

(* A run that is over keeps no turn unsettled, so no reservation is held for ever.   *)
EndSettlesTurns ==
  \A p \in Plans : runs[p].status \in {"SUCCEEDED", "CANCELED"} => runs[p].unsettled = 0 /\ runs[p].step \notin StepsOpen

(* Success is that of the flow, on the files that were reviewed; the               *)
(* implementation's own end is never enough.                                   *)
SuccessIsReviewed ==
  [][\A p \in Plans : runs[p].status # "SUCCEEDED" /\ runs'[p].status = "SUCCEEDED"
       => runs[p].phase = "completed" /\ runs[p].target = base]_codeVars

(* A flow the control profile has stopped goes on once it is resumed: its mark is   *)
(* there to be taken back.                                                     *)
StopIsTakenBack ==
  \A p \in Plans : GoesForward(p) /\ runs[p].paused = "control" => runs[p].flag \/ plans[p].config # config

(* However submissions repeat and the world moves on: a plan is executed     *)
(* once, on its files, within its turns, and succeeds by review only.        *)
CodeSafety ==
  /\ [](CodeTypeOK /\ OneRunPerPlan /\ TurnsWithinPlan /\ EndSettlesTurns
        /\ StopIsTakenBack)
  /\ StartsOnItsBaseline /\ SuccessIsReviewed
=============================================================================
