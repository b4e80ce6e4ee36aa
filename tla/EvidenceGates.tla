--------------------------- MODULE EvidenceGates ---------------------------
(***************************************************************************)
(* Acceptance of tasks that are judged from outside (workflow.evaluate      *)
(* without a quality flow): evidence bound to a run and to the files it was *)
(* given for, stages whose policy may only be tightened (stage_gates.py),   *)
(* attestations, a dependent task that runs after an accepted one           *)
(* (dependencies.py), and the checkpoint taken around a run (checkpoints.py)*)
(*                                                                          *)
(* Two tasks: "down" depends on "up". For each:                             *)
(*   task[t]   acceptance, evidence_stale, external_evaluation (`bound`: the*)
(*             target, 0 none; stage_gate.bound follows it), the sticky     *)
(*             external_require_review, stage_gate.policy                   *)
(*   run[t]    the current run: its number, status, dependency_bindings     *)
(*             (`dep`), checkpoint baseline (`base`) and evidence:          *)
(*             `local` and `told` by stage, the target and verdict of the   *)
(*             last check of the core and of the last attestation           *)
(*   tree[t]   what the files of the task hold                              *)
(*   rules     config.workflow.stage_gates of this process                  *)
(***************************************************************************)
EXTENDS Naturals, FiniteSets

CONSTANTS
  Stages,       \* stages a configuration may require
  Staged,       \* bound: tasks that gather evidence for stages
  Reviewed,     \* bound: tasks a caller may demand a review of
  FilesOf,      \* contents of the files of each task
  AttemptsOf    \* bound: runs of each task

ASSUME EvidenceGatesAssumption ==
  /\ \A t \in {"up", "down"} : FilesOf[t] # {} /\ 0 \notin FilesOf[t]
  /\ AttemptsOf \in [{"up", "down"} -> Nat \ {0}]

VARIABLES task, run, files, rules

gateVars == <<task, run, files, rules>>

TaskIds == {"up", "down"}
Files == FilesOf["up"] \cup FilesOf["down"]
Sources == {"none", "core", "external_reported"}
NoEvidence == [target |-> 0, passed |-> FALSE]
NoDep == [number |-> 0, target |-> 0]

Attempt(n) == [number |-> n, status |-> "queued", dep |-> NoDep, base |-> 0,
               local |-> [s \in Stages |-> NoEvidence], told |-> [s \in Stages |-> NoEvidence]]

GateInit ==
  /\ rules \in [Stages -> Sources]
  /\ task = [t \in TaskIds |-> [accepted |-> FALSE, stale |-> FALSE, bound |-> 0,
                                review |-> FALSE, policy |-> rules]]
  /\ run = [t \in TaskIds |-> Attempt(1)]
  /\ files \in {f \in [TaskIds -> Files] : \A t \in TaskIds : f[t] \in FilesOf[t]}

Ends == {"succeeded", "failed"}

GateTypeOK ==
  LET Evidence == [Stages -> [target : Files \cup {0}, passed : BOOLEAN]] IN
  /\ task \in [TaskIds -> [accepted : BOOLEAN, stale : BOOLEAN, bound : Files \cup {0},
                review : BOOLEAN, policy : [Stages -> Sources]]]
  /\ run \in [TaskIds -> [number : Nat, status : {"queued", "sent"} \cup Ends,
                dep : [number : Nat, target : Files \cup {0}],
                base : Files \cup {0}, local : Evidence, told : Evidence]]
  /\ files \in [TaskIds -> Files] /\ rules \in [Stages -> Sources]

(* policy_for: a configured stage joins the policy of the task, and a stage  *)
(* that demanded the core's own evidence goes on demanding it.               *)
PolicyFor(k) ==
  [s \in Stages |-> IF rules[s] = "none" \/ k.policy[s] = "core" THEN k.policy[s] ELSE rules[s]]

(* evidence: what a stage shows for this target. A failed check of the core  *)
(* stands; otherwise the last attestation speaks where the policy allows it. *)
Shows(e, target) == e.target = target /\ e.passed
StagePasses(r, s, source, target) ==
  LET failed == r.local[s].target = target /\ ~r.local[s].passed
  IN IF source = "external_reported" /\ r.told[s].target # 0 /\ ~failed
     THEN Shows(r.told[s], target) ELSE Shows(r.local[s], target)

(* Mutant: the policy is noted, the stages are not.                          *)
StageGatedByName(k, r, target) == [k EXCEPT !.policy = PolicyFor(k)]

(* apply_gate on a task judged for this target.                              *)
StageGated(k, r, target) ==
  LET policy == PolicyFor(k)
      needed == {s \in Stages : policy[s] # "none"}
      met == \A s \in needed : StagePasses(r, s, policy[s], target)
  IN IF needed = {} THEN k
     ELSE [k EXCEPT !.policy = policy,
             !.accepted = @ /\ met]

Required(k) == \E s \in Stages : PolicyFor(k)[s] # "none"

(* _validate_external_evidence, then revalidate: bound evidence is compared  *)
(* with the files, then the stages are looked at again.                      *)
Refreshed(k, r, now) ==
  LET v == IF k.bound # 0 /\ ~k.stale /\ (k.bound # now \/ r.status \notin Ends)
           THEN [k EXCEPT !.stale = TRUE, !.accepted = FALSE] ELSE k
  IN IF ~v.accepted \/ ~Required(v) THEN v
     ELSE IF v.bound # now THEN [v EXCEPT !.policy = PolicyFor(v), !.accepted = FALSE]
     ELSE StageGated(v, r, now)

(* dependencies.inspect of "down": the upstream is refreshed and is ready if *)
(* it is accepted for a bound target by a run that succeeded.                *)
Upstream == Refreshed(task["up"], run["up"], files["up"])
Ready == Upstream.accepted /\ ~Upstream.stale /\ run["up"].status = "succeeded"
         /\ Upstream.bound # 0
Binding == [number |-> run["up"].number, target |-> Upstream.bound]

(* dependencies.gate                                                         *)
Depending(t, k) ==
  IF t = "down" THEN [k EXCEPT !.accepted = @ /\ Ready /\ run[t].dep = Binding] ELSE k

(* Every look at "down" also saves what it found of "up".                    *)
Saved(t, k) == task' = [task EXCEPT ![t] = k, !["up"] = IF t = "up" THEN k ELSE Upstream]

(* evaluate_quality: the decision, before stages and dependencies. What is   *)
(* not passed (pending, failed, not_configured) is not told apart here.      *)
Decide(r, review, passed) == ~review /\ r.status = "succeeded" /\ passed

(* workflow.evaluate with or without a target. A target needs an ended run;  *)
(* stale evidence, a dropped binding, or files that change while they are    *)
(* read (they are captured again before anything is saved) are errors.       *)
Evaluate(t, bound, review, passed) ==
  LET k == task[t]
      r == run[t]
      needed == k.review \/ review
      judged == [k EXCEPT !.accepted = Decide(r, needed, passed), !.review = needed,
                   !.stale = IF bound THEN FALSE ELSE @, !.bound = IF bound THEN files[t] ELSE @]
  IN /\ review => t \in Reviewed
     /\ bound => r.status \in Ends
     /\ ~bound => ~k.stale /\ k.bound = 0 /\ ~Required(k)
     /\ Saved(t, Depending(t, IF bound THEN StageGated(judged, r, files[t]) ELSE judged))
     /\ UNCHANGED <<run, files, rules>>

(* task.get                                                                  *)
Look(t) ==
  /\ Saved(t, Depending(t, Refreshed(task[t], run[t], files[t])))
  /\ UNCHANGED <<run, files, rules>>

(* workflow.check and workflow.attest: evidence for the files as they are.   *)
Prove(t, s, own, passed) ==
  /\ run[t].status \in Ends /\ t \in Staged
  /\ run' = IF own THEN [run EXCEPT ![t].local[s] = [target |-> files[t], passed |-> passed]]
            ELSE [run EXCEPT ![t].told[s] = [target |-> files[t], passed |-> passed]]
  /\ UNCHANGED <<task, files, rules>>

(* Mutant: a baseline that exists is taken for the present one.              *)
DriftedNever(t) == FALSE

(* The files are not those of the baseline an earlier attempt committed.     *)
Drifted(t) == run[t].base \notin {0, files[t]}

(* Dispatch: "down" needs its upstream; the checkpoint baseline is committed *)
(* before the call, or compared when a stopped core had committed it.        *)
Call(t) ==
  LET allowed == (t = "down" => Ready) /\ ~Drifted(t) IN
  /\ run[t].status = "queued"
  /\ \/ /\ allowed
        /\ run' = [run EXCEPT ![t].base = files[t], ![t].dep = IF t = "down" THEN Binding ELSE @,
                     ![t].status = "sent"]
     \/ allowed /\ run' = [run EXCEPT ![t].base = files[t], ![t].dep = IF t = "down" THEN Binding ELSE @]
     \/ Drifted(t) /\ run' = [run EXCEPT ![t].status = "failed"]
  /\ task' = [task EXCEPT !["up"] = IF t = "down" THEN Upstream ELSE @]
  /\ UNCHANGED <<files, rules>>

(* A run ends; its baseline is not compared any more.                        *)
Finish(t) ==
  /\ run[t].status = "sent"
  /\ \E s \in Ends : run' = [run EXCEPT ![t].status = s, ![t].base = 0]
  /\ UNCHANGED <<task, files, rules>>

(* workflow.repair: another run; what was bound to the last one is dropped.  *)
Repair(t) ==
  /\ run[t].status \in Ends /\ run[t].number < AttemptsOf[t]
  /\ run' = [run EXCEPT ![t] = Attempt(run[t].number + 1)]
  /\ task' = [task EXCEPT ![t].accepted = FALSE, ![t].stale = FALSE, ![t].bound = 0]
  /\ UNCHANGED <<files, rules>>

(* Files change; the core is started with other rules.                       *)
Edit(t) == \E f \in FilesOf[t] \ {files[t]} : files' = [files EXCEPT ![t] = f] /\ UNCHANGED <<task, run, rules>>
Configure == rules' \in [Stages -> Sources] \ {rules} /\ UNCHANGED <<task, run, files>>

GateNext ==
  \/ \E t \in TaskIds :
       \/ \E bound, review, passed \in BOOLEAN : Evaluate(t, bound, review, passed)
       \/ \E s \in Stages, own, passed \in BOOLEAN : Prove(t, s, own, passed)
       \/ Look(t) \/ Call(t) \/ Finish(t) \/ Repair(t) \/ Edit(t)
  \/ Configure

GateSpec == GateInit /\ [][GateNext]_gateVars

(* A dependent task is accepted only if its run was bound to an upstream run *)
(* and its target, and a task that must be reviewed, or whose evidence went  *)
(* stale, is not accepted.                                                   *)
AcceptedStandsOnEvidence ==
  \A t \in TaskIds : task[t].accepted =>
    /\ run[t].status = "succeeded" /\ ~task[t].review /\ ~task[t].stale
    /\ t = "down" => run[t].dep # NoDep

(* Acceptance is granted only for the files as they are, with every stage of *)
(* the policy met and, downstream, an accepted upstream at that very moment. *)
GrantNeedsEveryStage ==
  [][\A t \in TaskIds : ~task[t].accepted /\ task'[t].accepted =>
       /\ task'[t].bound \in {0, files[t]}
       /\ \A s \in Stages : task'[t].policy[s] # "none" => StagePasses(run[t], s, task'[t].policy[s], files[t])
       /\ t = "down" => /\ task'["up"].accepted /\ task'["up"].bound = files["up"]
                        /\ run["down"].dep.number = run["up"].number]_gateVars

(* Configurations come and go, the policy of a task only tightens.           *)
PolicyOnlyTightens ==
  [][\A t \in TaskIds, s \in Stages :
       /\ task[t].policy[s] # "none" => task'[t].policy[s] # "none"
       /\ task[t].policy[s] = "core" => task'[t].policy[s] = "core"]_gateVars

(* A run is called from the files of its baseline, also after a restart.     *)
CalledFromBaseline ==
  [][\A t \in TaskIds : run[t].status = "queued" /\ run'[t].status = "sent" =>
       run[t].base \in {0, files[t]} /\ run'[t].base = files[t]]_gateVars

(* Whatever configurations, evidence and upstream tasks come and go:         *)
(* acceptance stands on all the evidence its tightest policy asks for, and a *)
(* run on its baseline.                                                      *)
GatesSafety ==
  /\ [](GateTypeOK /\ AcceptedStandsOnEvidence)
  /\ GrantNeedsEveryStage /\ PolicyOnlyTightens /\ CalledFromBaseline
=============================================================================
