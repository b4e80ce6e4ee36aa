----------------------------- MODULE RunRecord -----------------------------
(***************************************************************************)
(* The durable record of one run: the columns of its run, operation, task   *)
(* and approval rows that decide what the core may do with it, and what     *)
(* each transaction of application.py makes of them.  Constant level.       *)
(*                                                                          *)
(*   status    run.status ("unborn": no row yet)                            *)
(*   op        operation.status ("absent": no operation row)                *)
(*   mark      native.slot_held / concurrency_released                      *)
(*   stash     native.unapplied_result: a received result not yet applied   *)
(*   answer    native.unapplied_approval: a confirmed approval outcome not  *)
(*             yet applied                                                  *)
(*   cancel    run.cancel_requested                                         *)
(*   approval  state of the run's approval row                              *)
(*   attempted the approval's target hash is in run.approval_attempts       *)
(*   paused    task.paused (and task.orchestration_owner = "human")         *)
(***************************************************************************)
EXTENDS Naturals

Terminal == {"succeeded", "failed", "cancelled"}

Statuses == Terminal \cup
  {"unborn", "queued", "dispatching", "running", "waiting_input",
   "pending_reconcile", "paused"}

OpStatuses ==
  {"absent", "intended", "dispatched", "completed", "failed", "unknown"}

Decisions == {"approved", "denied"}

ApprovalStates ==
  {"none", "pending", "forwarding", "invalidated"} \cup Decisions

(* The kinds of results a backend reports, told apart by what the core does *)
(* with them.  "progress" and "cleared" are running snapshots ("cleared"    *)
(* carries an explicit empty list of approval requests); "waiting" asks for *)
(* an approval; "unknown" is a pending_reconcile result with native         *)
(* references; "fallback" is the generic one a worker emits after its       *)
(* action raised.                                                           *)
Kinds == Terminal \cup {"progress", "cleared", "waiting", "unknown", "fallback"}

RowType ==
  [status : Statuses, op : OpStatuses, mark : {"none", "held", "released"},
   stash : Kinds \cup {"none"}, answer : Decisions \cup {"none"},
   cancel : BOOLEAN, approval : ApprovalStates, attempted : BOOLEAN,
   paused : BOOLEAN]

Unborn ==
  [status |-> "unborn", op |-> "absent", mark |-> "none", stash |-> "none",
   answer |-> "none", cancel |-> FALSE, approval |-> "none",
   attempted |-> FALSE, paused |-> FALSE]

(* commit_intent: task, run and operation in one transaction. *)
Intended == [Unborn EXCEPT !.status = "queued", !.op = "intended"]

Known(x) == x.status # "unborn"   \* mutant: a run that ended still takes results

Open(x) == x.status \notin Terminal \cup {"unborn"}

IsProgress(k) == k \in {"progress", "cleared"}
Rich(k) == k \notin {"none", "fallback"}

StatusOf(k) ==
  CASE k \in Terminal                -> k
    [] IsProgress(k)                 -> "running"
    [] k = "waiting"                 -> "waiting_input"
    [] k \in {"unknown", "fallback"} -> "pending_reconcile"

(* The operation status _record_result_once writes for a run status. *)
OpFor(status) ==
  CASE status = "failed"                     -> "failed"
    [] status \in {"succeeded", "cancelled"} -> "completed"
    [] status = "pending_reconcile"          -> "unknown"
    [] OTHER                                 -> "dispatched"

(* An operation that was never written is not created by later updates. *)
WithOp(x, op) == IF x.op = "absent" THEN x ELSE [x EXCEPT !.op = op]

SlotByOperation(x) ==   \* mutant: the release mark is overlooked
  x.status \notin Terminal /\ x.op \notin {"absent", "intended"}

(* _persisted_slot_held *)
SlotHeld(x) ==
  /\ x.status \notin Terminal
  /\ \/ x.mark = "held"
     \/ x.mark = "none" /\ x.op \notin {"absent", "intended"}

AnswerLost(x, d) == x   \* mutant: the outcome is dropped with the stash

(* _write_approval_outcome *)
WithAnswer(x, d) == IF d = "none" THEN x ELSE [x EXCEPT !.approval = d]

ApprovalRenewed(x, k) ==   \* mutant: an attempted request is offered again
  IF x.approval = "pending" /\ (k \in Terminal \/ k = "cleared")
  THEN "invalidated"
  ELSE IF k = "waiting" THEN "pending" ELSE x.approval

(* The approval rows after a result of kind k: a pending one is invalidated *)
(* when the run ended or the snapshot no longer lists it; a request that    *)
(* was not attempted before becomes pending when none is.                   *)
ApprovalAfter(x, k) ==
  IF x.approval = "pending" /\ (k \in Terminal \/ k = "cleared")
  THEN "invalidated"
  ELSE IF k = "waiting" /\ ~x.attempted THEN "pending" ELSE x.approval

(* The transaction of _record_result_once: result k of the backend, with    *)
(* approval outcome d ("none" when the caller passes none).                 *)
Landed(x, k, d) ==
  LET y == WithAnswer(x, IF d # "none" THEN d ELSE x.answer)
  IN  WithOp([y EXCEPT !.status = StatusOf(k),
                       !.mark = IF k \in Terminal THEN "none" ELSE "held",
                       !.stash = "none", !.answer = "none",
                       !.approval = ApprovalAfter(y, k)],
             OpFor(StatusOf(k)))

(* The transaction of _commit_retained_progress: a running snapshot that    *)
(* could not be written when it arrived only adds native references.        *)
ProgressLanded(x, d) ==
  LET y == WithAnswer(x, IF d # "none" THEN d ELSE x.answer)
  IN  WithOp([y EXCEPT !.status = "pending_reconcile", !.mark = "released",
                       !.stash = "none", !.answer = "none"],
             "unknown")

(* The transaction of _preserve_failed_result. *)
Preserved(x, k, d) ==
  WithOp([x EXCEPT !.status = "pending_reconcile", !.mark = "released",
                   !.stash = IF Rich(@) /\ k = "fallback" THEN @ ELSE k,
                   !.answer = IF d # "none" THEN d ELSE @],
         "unknown")

(* The status task.handoff resume gives a paused run. *)
ResumedStatus(x) ==
  CASE x.op = "intended" -> "queued"
    [] x.op = "unknown"  -> "pending_reconcile"
    [] OTHER -> IF x.approval = "pending" THEN "waiting_input" ELSE "running"
=============================================================================
