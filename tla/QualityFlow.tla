---------------------------- MODULE QualityFlow ----------------------------
(***************************************************************************)
(* The quality flow of one task (quality_runtime.py): a pass of the core    *)
(* checks the implementation, orders an independent review of exactly the   *)
(* files it checked, repairs what was found and starts over, while the      *)
(* files change under it, runs fail or stay unknown, people pause, resume   *)
(* and cancel, evidence for later stages arrives, and a pass may stop after *)
(* any of its commits.                                                      *)
(*                                                                          *)
(*   flow   the durable task: the phase of its quality record, held (paused,*)
(*          owner human), acceptance, stale (evidence_stale), the target it *)
(*          is about, its implementation and review run, whether findings   *)
(*          are open, the counts of runs and repairs                        *)
(*   runs   the runs of the task in order; the last is current_run_id. `about`*)
(*          is the target_hash of a review or repair, `says` what a review  *)
(*          answered                                                        *)
(*   tree   what the files of target_paths hold now                         *)
(*   staged the targets whose required stages have passing evidence         *)
(*   starts how many flows were started (the idempotency key of a flow)     *)
(***************************************************************************)
EXTENDS Naturals, Sequences, FiniteSets, SequencesExt

CONSTANTS
  Trees,        \* contents of the target files
  Sound,        \* those that pass the deterministic checks
  MaxRuns,      \* config.scheduler.max_runs_per_task
  MaxRepairs,   \* config.workflow.max_repairs
  Gated,        \* config.workflow.stage_gates or dependencies are set
  AutoRepair,   \* payload.auto_repair
  MaxFlows      \* bound: flows started on the task

ASSUME QualityFlowAssumption ==
  /\ Sound \subseteq Trees /\ 0 \notin Trees /\ Gated \in BOOLEAN /\ AutoRepair \in BOOLEAN
  /\ MaxRuns \in Nat \ {0} /\ MaxRepairs \in Nat /\ MaxFlows \in Nat

VARIABLES flow, runs, tree, staged, starts

flowVars == <<flow, runs, tree, staged, starts>>

FlowResting == {"none", "completed", "stale", "blocked"}
Phases == FlowResting \cup {"checking", "repairing", "reviewing", "reviewed", "awaiting_stages"}
FlowEnds == {"succeeded", "failed", "cancelled"}
NewRun(role, about) == [role |-> role, status |-> "queued", about |-> about, says |-> "none", asked |-> FALSE]

FlowInit ==
  /\ flow = [phase |-> "none", held |-> FALSE, acceptance |-> "pending", stale |-> FALSE, target |-> 0,
             implementation |-> 1, review |-> 0, open |-> FALSE, runCount |-> 1, repairCount |-> 0]
  /\ runs = <<[NewRun("implement", 0) EXCEPT !.status = "succeeded"]>>
  /\ tree \in Trees /\ staged = {} /\ starts = 0

FlowTypeOK ==
  /\ flow \in [phase : Phases, held : BOOLEAN, acceptance : {"pending", "passed", "failed"}, stale : BOOLEAN,
               target : Trees \cup {0}, implementation : DOMAIN runs, review : {0} \cup DOMAIN runs,
               open : BOOLEAN, runCount : Nat, repairCount : Nat]
  /\ runs \in Seq([role : {"implement", "review", "repair"}, about : Trees \cup {0}, asked : BOOLEAN,
                   status : {"queued", "sent", "pending"} \cup FlowEnds,
                   says : {"none", "clean", "findings", "unreadable"}])
  /\ tree \in Trees /\ staged \subseteq Trees /\ starts \in 0 .. MaxFlows

Current == Last(runs)
FlowRunEnded(r) == r.status \in FlowEnds

(* QualityRuntime.pause and invalidate.                                      *)
Paused(f) == [f EXCEPT !.held = TRUE, !.acceptance = "pending"]
Blocked(f) == [Paused(f) EXCEPT !.phase = "blocked"]
Invalidated(f) == [Paused(f) EXCEPT !.phase = "stale", !.stale = TRUE]

Gate(t) == ~Gated \/ t \in staged

KeepRuns == UNCHANGED <<runs, staged, starts>>
OnlyFlow == KeepRuns /\ UNCHANGED tree

(* The quality record a start writes: open findings are carried on.          *)
Begun(base) == [flow EXCEPT !.phase = "checking", !.acceptance = "pending", !.stale = FALSE,
                            !.target = tree, !.implementation = base, !.review = 0]

(* workflow.start: the task is not held and no flow is at work; the current  *)
(* run, or the implementation an ended review was about, has succeeded. What *)
(* it commits is the flow; its own call of advance is the next pass.         *)
StartFlow ==
  /\ starts < MaxFlows /\ ~flow.held /\ flow.phase \in FlowResting
  /\ LET reviewed == flow.phase # "none" /\ Current.role = "review"
         base == IF reviewed THEN flow.implementation ELSE Len(runs)
     IN /\ FlowRunEnded(Current)
        /\ runs[base].status = "succeeded" /\ ~runs[base].asked
        /\ flow' = Begun(base)
  /\ starts' = starts + 1
  /\ UNCHANGED <<runs, tree, staged>>

Advancing == ~flow.held /\ flow.phase \notin FlowResting

(* advance: the authorisation fails, or the files cannot be read.            *)
PassRefused ==
  /\ Advancing
  /\ \/ flow' = Paused(flow)
     \/ Current.status = "succeeded" /\ flow' = Blocked(flow)
  /\ OnlyFlow

(* Mutant: a failed run is waited for.                                       *)
PassStopsCancelled ==
  /\ Advancing /\ ~flow.stale /\ Current.asked /\ flow' = Blocked(flow) /\ OnlyFlow

(* _advance_one before it looks at the files.                                *)
PassStops ==
  /\ Advancing
  /\ \/ flow.stale /\ flow' = Invalidated(flow)
     \/ /\ ~flow.stale
        /\ \/ (Current.asked \/ Current.status \in {"cancelled", "failed"}) /\ flow' = Blocked(flow)
           \/ ~Current.asked /\ Current.status = "pending" /\ flow' = Paused(flow)
  /\ OnlyFlow

Capturing == Advancing /\ ~flow.stale /\ Current.status = "succeeded" /\ ~Current.asked

(* The repaired files become the target of the next round.                   *)
TakeRepair ==
  /\ Capturing /\ flow.phase = "repairing"
  /\ flow' = [flow EXCEPT !.implementation = Len(runs), !.target = tree, !.phase = "checking"]
  /\ OnlyFlow

(* The files are captured before and after the checks read them; an edit     *)
(* before or in between voids the flow. (One edit in between is modelled.)   *)
TargetMoved ==
  /\ Capturing /\ flow.phase # "repairing"
  /\ tree' \in Trees /\ (tree = flow.target => tree' # flow.target)
  /\ flow' = Invalidated(flow)
  /\ KeepRuns

Steady == Capturing /\ flow.phase # "repairing" /\ tree = flow.target

(* Mutant: the caller pauses its own copy after the intent committed.        *)
RepairOverwritten(f) ==
  /\ AutoRepair /\ f.repairCount < MaxRepairs /\ f.runCount < MaxRuns
  /\ runs' = Append(runs, NewRun("repair", f.target)) /\ flow' = Paused(f)

(* workflow_repair called by the flow: auto_repair is off or the backend can *)
(* not dispatch, or a limit is reached, or the intent of the repair, the run *)
(* pointer, the counts and the phase commit together.                        *)
RepairOrdered(f) ==
  \/ flow' = Paused(f) /\ UNCHANGED runs
  \/ AutoRepair /\ (f.repairCount >= MaxRepairs \/ f.runCount >= MaxRuns)
     /\ flow' = Blocked(f) /\ UNCHANGED runs
  \/ /\ AutoRepair /\ f.repairCount < MaxRepairs /\ f.runCount < MaxRuns
     /\ runs' = Append(runs, NewRun("repair", f.target))
     /\ flow' = [f EXCEPT !.phase = "repairing", !.acceptance = "pending",
                          !.runCount = @ + 1, !.repairCount = @ + 1]

(* The checks fail: the findings are committed, then the repair is ordered,  *)
(* unless the core stops in between.                                         *)
CheckFinds ==
  /\ Steady /\ flow.phase = "checking" /\ tree \notin Sound
  /\ LET found == [flow EXCEPT !.open = TRUE]
     IN (flow' = found /\ UNCHANGED runs) \/ RepairOrdered(found)
  /\ UNCHANGED <<tree, staged, starts>>

(* _review: no backend can review, or the run budget is used up, or the      *)
(* intent of a review run bound to the target commits with the pointers.     *)
OrderReview ==
  /\ Steady /\ flow.phase = "checking" /\ tree \in Sound
  /\ \/ flow' = Paused(flow) /\ UNCHANGED runs
     \/ flow.runCount >= MaxRuns /\ flow' = Blocked(flow) /\ UNCHANGED runs
     \/ /\ flow.runCount < MaxRuns
        /\ runs' = Append(runs, NewRun("review", flow.target))
        /\ flow' = [flow EXCEPT !.phase = "reviewing", !.review = Len(runs) + 1, !.runCount = @ + 1]
  /\ UNCHANGED <<tree, staged, starts>>

(* The answer of the review, the checks once more, and the stage gate decide.*)
JudgeReview ==
  /\ Steady /\ flow.phase = "reviewing"
  /\ IF Len(runs) # flow.review \/ Current.about # tree \/ Current.says = "unreadable"
     THEN flow' = Blocked(flow)
     ELSE IF Current.says = "clean" /\ tree \in Sound
     THEN flow' = [flow EXCEPT !.open = FALSE,
                     !.phase = IF Gate(tree) THEN "completed" ELSE "awaiting_stages",
                     !.acceptance = IF Gate(tree) THEN "passed" ELSE "pending"]
     ELSE flow' = [flow EXCEPT !.open = TRUE, !.phase = "reviewed"]
  /\ OnlyFlow

OrderRepair ==
  /\ Steady /\ flow.phase = "reviewed"
  /\ RepairOrdered(flow)
  /\ UNCHANGED <<tree, staged, starts>>

(* Later passes look at the checks and the stages again.                     *)
JudgeStages ==
  /\ Steady /\ flow.phase = "awaiting_stages"
  /\ flow' = IF tree \notin Sound THEN [flow EXCEPT !.acceptance = "failed"]
             ELSE IF Gate(tree) THEN [flow EXCEPT !.phase = "completed", !.acceptance = "passed"]
             ELSE [flow EXCEPT !.acceptance = "pending"]
  /\ OnlyFlow

(* _advance_one; while the current run goes on it changes nothing.           *)
FlowPass ==
  \/ PassStops \/ TakeRepair \/ TargetMoved \/ CheckFinds
  \/ OrderReview \/ JudgeReview \/ OrderRepair \/ JudgeStages
AdvanceFlow == PassRefused \/ FlowPass

(* task.get and workflow.evaluate: a completed flow is captured and checked  *)
(* again, then the stages are.                                               *)
ReadFlow ==
  /\ flow.phase = "completed"
  /\ flow' = IF tree # flow.target \/ tree \notin Sound \/ flow.stale THEN Invalidated(flow)
             ELSE IF Gated /\ (flow.acceptance = "passed" \/ ~flow.held)
             THEN [flow EXCEPT !.acceptance = IF Gate(tree) THEN "passed" ELSE "pending"]
             ELSE flow
  /\ OnlyFlow

(* Mutant: an external change marks the evidence and keeps the acceptance.   *)
HandOverAccepted(held, edited) ==
  flow' = [flow EXCEPT !.held = held, !.stale = @ \/ edited] /\ OnlyFlow

(* task.handoff, with or without external_change, and task.cancel.           *)
HandFlowOver(held, edited) ==
  /\ flow' = [flow EXCEPT !.held = held, !.stale = @ \/ edited,
                          !.acceptance = IF edited /\ @ = "passed" THEN "pending" ELSE @]
  /\ OnlyFlow

CancelFlow ==
  /\ flow.phase \notin FlowResting \/ ~FlowRunEnded(Current)
  /\ flow' = IF flow.phase \in FlowResting THEN flow ELSE Blocked(flow)
  /\ runs' = IF FlowRunEnded(Current) THEN runs
             ELSE [runs EXCEPT ![Len(runs)].asked = TRUE,
                               ![Len(runs)].status = IF @ = "queued" THEN "cancelled" ELSE @]
  /\ UNCHANGED <<tree, staged, starts>>

(* The core dispatches the queued run, at once or from its queue. If the     *)
(* files are no longer what the run is about, or it is not authorised, the   *)
(* run fails and nothing was called.                                         *)
DispatchRun ==
  /\ Current.status = "queued" /\ ~flow.held
  /\ \E s \in {"failed"} \cup (IF tree = Current.about THEN {"sent"} ELSE {}) :
       runs' = [runs EXCEPT ![Len(runs)].status = s]
  /\ UNCHANGED <<flow, tree, staged, starts>>

(* The backend reports, or its outcome is unknown until it is reconciled.    *)
ReportRun ==
  /\ Current.status \in {"sent", "pending"}
  /\ \E s \in FlowEnds \cup {"pending"},
        says \in IF Current.role = "review" THEN {"clean", "findings", "unreadable"} ELSE {"none"} :
       /\ s = "cancelled" => Current.asked
       /\ runs' = [runs EXCEPT ![Len(runs)].status = s,
                               ![Len(runs)].says = IF s = "succeeded" THEN says ELSE "none"]
  /\ UNCHANGED <<flow, tree, staged, starts>>

(* The agent of the run or anyone else edits the files; evidence of the      *)
(* stages arrives for the present files, or the policy is tightened.         *)
EditTree == tree' \in Trees \ {tree} /\ UNCHANGED <<flow, runs, staged, starts>>

StageEvidence ==
  /\ Gated /\ staged' \in {staged \cup {tree}, {}} \ {staged}
  /\ UNCHANGED <<flow, runs, tree, starts>>

FlowNext ==
  \/ StartFlow \/ AdvanceFlow \/ ReadFlow \/ CancelFlow
  \/ \E held, edited \in BOOLEAN : HandFlowOver(held, edited)
  \/ DispatchRun \/ ReportRun \/ EditTree \/ StageEvidence

(* The core polls on and a called run ends; no pass has to be refused.       *)
FlowFairness ==
  /\ WF_flowVars(FlowPass) /\ WF_flowVars(DispatchRun)
  /\ WF_flowVars(ReportRun /\ FlowRunEnded(Current)')

FlowSpec == FlowInit /\ [][FlowNext]_flowVars /\ FlowFairness

(* A passed acceptance rests on files that pass the checks and on a clean    *)
(* review, ordered by this flow, of exactly those files and of the run that  *)
(* made them.                                                                *)
AcceptedWasReviewed ==
  flow.acceptance = "passed" =>
    /\ flow.target \in Sound /\ ~flow.stale /\ ~flow.open
    /\ flow.review > flow.implementation
    /\ runs[flow.review].status = "succeeded" /\ runs[flow.review].says = "clean"
    /\ runs[flow.review].about = flow.target

(* Whoever stops a pass, the counts of the budget are those of the runs.     *)
BudgetCountsRuns ==
  /\ flow.runCount = Len(runs) /\ flow.runCount <= MaxRuns
  /\ flow.repairCount = Cardinality({i \in DOMAIN runs : runs[i].role = "repair"})
  /\ flow.repairCount <= MaxRepairs

(* An implementation is reviewed once in a flow.                             *)
OneReviewEach ==
  flow.phase = "checking" /\ flow.review # 0 => flow.review < flow.implementation

(* Acceptance is granted for what the files hold at that moment, and a task  *)
(* that is held gets neither a new run nor an acceptance.                    *)
GrantedForPresentFiles ==
  [][/\ flow.acceptance # "passed" /\ flow'.acceptance = "passed" => tree' = flow'.target /\ ~flow.held
     /\ flow.held => Len(runs') = Len(runs)]_flowVars

(* Findings are closed by a clean review of the present files only.          *)
FindingsCloseByReview ==
  [][flow.open /\ ~flow'.open => Current.role = "review" /\ Current.says = "clean"
                                 /\ Current.about = tree']_flowVars

(* A flow comes to rest: finished, void, blocked or in the hands of a person,*)
(* or it waits for the evidence of later stages.                             *)
FlowSettles ==
  flow.phase \notin FlowResting ~> (flow.phase \in FlowResting \cup {"awaiting_stages"} \/ flow.held)

(* Wherever a pass stops and whatever happens to the files meanwhile:        *)
(* acceptance and closed findings come from one review of exactly the files  *)
(* that are there, within the budget.                                        *)
FlowSafety ==
  /\ [](FlowTypeOK /\ AcceptedWasReviewed /\ BudgetCountsRuns
        /\ OneReviewEach)
  /\ GrantedForPresentFiles /\ FindingsCloseByReview
=============================================================================
