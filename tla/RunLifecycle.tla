---------------------------- MODULE RunLifecycle ----------------------------
(***************************************************************************)
(* The core of asterun: one state-owning thread (class Application of        *)
(* application.py) that accepts tasks, dispatches each run to its backend,   *)
(* records what the backend reports and reconciles after a restart, with the *)
(* worker threads of executor.py, the scheduler of scheduler.py, a durable   *)
(* store whose transactions may fail, and a process that may crash between   *)
(* any two of them.                                                          *)
(*                                                                          *)
(* One action is one step of the core thread up to its next durable commit,  *)
(* so a crash can fall between any two commits; worker threads interleave    *)
(* with every action.  `core` is the control state of that thread:           *)
(*   pc        where it is (the steps below)                                 *)
(*   cur       the run it is working on                                      *)
(*   ret       where it continues when the queue is drained (or reconciled)  *)
(*   todo      runs still to visit (restore, retained results, shutdown)     *)
(*   items     the snapshot of the queue _drain_queue iterates over          *)
(*   draining  _draining, the re-entrancy guard of _drain_queue              *)
(*   phase     "boot" while Application.__init__ restores, "serve", "close"  *)
(***************************************************************************)
EXTENDS Scheduler, RunRecord

CONSTANTS
  Background,     \* an Executor is present (asterun serve)
  HostSurvives,   \* the host goes on polling after poll or handle raised
  PlannedStops,   \* the host may call close()
  QueueSize,      \* capacity of Executor.updates (64)
  BackoffCap,     \* _RETRY_BACKOFF_CAP (8)
  LegacyRuns,     \* rows written by a version without slot marks
  MayRefuse,      \* runs a check before dispatch (config, grant, quota) may refuse
  LostEvidence,   \* runs whose backend can prove that the host process is gone
  ProgressKinds,  \* kinds a worker may publish before it returns
  FinalKinds,     \* kinds a dispatched action may return
  ReconcileKinds, \* kinds a reconcile of a native reference may return
  CancelKinds,    \* confirmed outcomes request_cancel may return
  Streams,        \* synchronous dispatch publishes snapshots (grok code profile)
  Requests,       \* which requests clients send
  MaxFaults,      \* bound: store transactions that fail
  MaxCrashes,     \* bound: crashes of the process
  NoRun           \* no run

ASSUME RunLifecycleAssumption ==
  /\ {Background, HostSurvives, PlannedStops, Streams} \subseteq BOOLEAN
  /\ QueueSize \in Nat \ {0} /\ BackoffCap \in Nat \ {0}
  /\ LegacyRuns \cup MayRefuse \cup LostEvidence \subseteq Runs
  /\ ProgressKinds \subseteq {"progress", "cleared", "waiting"}
  /\ FinalKinds \cup ReconcileKinds \subseteq Kinds
  /\ CancelKinds \subseteq {"cancelled", "succeeded"}
  /\ MaxFaults \in Nat /\ MaxCrashes \in Nat
  /\ NoRun \notin Runs

VARIABLES
  row,       \* durable: the record of every run
  sched,     \* the Scheduler
  retained,  \* _retained_results: results whose write failed
  worker,    \* the executor's thread for a run
  updates,   \* Executor.updates
  core,      \* control state of the state-owning thread
  calls,     \* history: times a backend was called to execute the run
  faults,    \* failed store transactions so far
  crashes    \* crashes so far

vars == <<row, sched, retained, worker, updates, core, calls, faults, crashes>>

Nothing == [result |-> "none", answer |-> "none", failures |-> 0, wait |-> 0]
NoWorker == [pc |-> "none", result |-> "none", final |-> FALSE, error |-> FALSE]
CoreDown ==
  [pc |-> "down", cur |-> NoRun, ret |-> "idle", todo |-> {}, items |-> <<>>,
   draining |-> FALSE, phase |-> "boot"]

(* A row an older version left: started, no slot mark; its operation row     *)
(* may be missing.                                                           *)
LegacyRows ==
  {[Unborn EXCEPT !.status = "running", !.op = op] : op \in {"absent", "dispatched"}}

Init ==
  /\ row \in [Runs -> LegacyRows \cup {Unborn}]
  /\ \A r \in Runs : row[r] = Unborn <=> r \notin LegacyRuns
  /\ sched = EmptyScheduler
  /\ retained = [r \in Runs |-> Nothing]
  /\ worker = [r \in Runs |-> NoWorker]
  /\ updates = <<>>
  /\ core = CoreDown
  /\ calls = [r \in Runs |-> IF r \in LegacyRuns THEN 1 ELSE 0]
  /\ faults = 0
  /\ crashes = 0

-----------------------------------------------------------------------------
(* Control of the core thread. *)

At(p) == core.pc = p
Goto(c, p) == [c EXCEPT !.pc = p]

(* An exception leaves _drain_queue (its finally clears _draining), poll or  *)
(* handle; HandleRaise says what the host does with it.                      *)
Raise(c) ==
  [c EXCEPT !.pc = "raise", !.draining = FALSE, !.items = <<>>, !.todo = {}]

DrainNothing(c, queue, ret) ==   \* mutant: iterates over an emptied list
  [c EXCEPT !.pc = "drain", !.items = <<>>, !.draining = TRUE, !.ret = ret]

BeginDrain(c, queue, ret) ==
  [c EXCEPT !.pc = "drain", !.items = queue, !.draining = TRUE, !.ret = ret]

(* _finish_recorded_result: a terminal result frees a slot, so the queue is  *)
(* drained, unless the core restores, stops, or drains already.              *)
AfterResult(c, ended, queue, next) ==
  IF ended /\ c.phase = "serve" /\ ~c.draining
  THEN BeginDrain(c, queue, next)
  ELSE Goto(c, next)

ProjectOnlyStarts(s, r, x) ==   \* mutant: a released slot is never projected
  IF SlotHeld(x) THEN Start(s, r) ELSE s

(* _project_slot *)
Project(s, r, x) == IF SlotHeld(x) THEN Start(s, r) ELSE Finish(s, r)

(* _backoff_gap *)
BackoffGap(failures) ==
  LET gap == IF failures <= 1 THEN 1 ELSE 2 ^ (failures - 1)
  IN  IF gap \in 1 .. BackoffCap THEN gap ELSE BackoffCap

(* _remember_result with failed = True *)
Remember(m, k, d) ==
  IF Rich(m.result) /\ k = "fallback" THEN m
  ELSE [result |-> k, answer |-> IF d # "none" THEN d ELSE m.answer,
        failures |-> m.failures + 1, wait |-> BackoffGap(m.failures + 1)]

-----------------------------------------------------------------------------
(* _record_result(r, k, remember, approval = d): the core received result k  *)
(* for run r.  `s` and `c` are the scheduler and control state to go on      *)
(* from; it continues at `next`, or at `ended` after a terminal result.      *)
(* `onFail` is where a failed write leaves: "raise" when remember is true.   *)
(* `replay` is not remember.                                                 *)

NothingIgnored(r, k) == FALSE   \* mutant: the generic result counts as any other

IgnoredFallback(r, k) ==
  /\ k = "fallback"
  /\ \/ Rich(row[r].stash) \/ Rich(retained[r].result)
     \/ row[r].status = "pending_reconcile"
     \/ row[r].mark = "released"

RecordLands(r, k, d, replay, s, c, next, ended) ==
  /\ Open(row[r])
  /\ ~IgnoredFallback(r, k)
  /\ LET x == IF replay /\ IsProgress(k) THEN ProgressLanded(row[r], d)
                                         ELSE Landed(row[r], k, d)
         t == Project(s, r, x)
     IN  /\ row' = [row EXCEPT ![r] = x]
         /\ sched' = t
         /\ core' = AfterResult(c, ~Open(x), t.queue, IF Open(x) THEN next ELSE ended)
  /\ retained' = [retained EXCEPT ![r] = Nothing]
  /\ UNCHANGED faults

(* A run that ended takes no further result; the retained one is dropped.    *)
RecordDropped(r, s, c, ended) ==
  /\ ~Open(row[r])
  /\ retained' = [retained EXCEPT ![r] = Nothing]
  /\ sched' = s
  /\ core' = Goto(c, ended)
  /\ UNCHANGED <<row, faults>>

(* The generic result of a worker adds nothing to what is kept already.      *)
RecordIgnored(r, k, s, c, next) ==
  /\ Open(row[r])
  /\ IgnoredFallback(r, k)
  /\ sched' = s
  /\ core' = Goto(c, next)
  /\ UNCHANGED <<row, retained, faults>>

(* The transaction fails and rolls back: _preserve_failed_result keeps the   *)
(* result in memory, stashes it on the row unless that transaction fails     *)
(* too, and frees the slot in the scheduler in either case.                  *)
RecordFails(r, k, d, s, c, onFail) ==
  /\ Open(row[r])
  /\ ~IgnoredFallback(r, k)
  /\ \E preserved \in BOOLEAN :
       /\ faults' = faults + (IF preserved THEN 1 ELSE 2)
       /\ faults' <= MaxFaults
       /\ row' = IF preserved THEN [row EXCEPT ![r] = Preserved(@, k, d)] ELSE row
  /\ retained' = [retained EXCEPT ![r] = Remember(@, k, d)]
  /\ sched' = Finish(s, r)
  /\ core' = IF onFail = "raise" THEN Raise(c) ELSE Goto(c, onFail)

Record(r, k, d, replay, s, c, next, ended, onFail) ==
  \/ RecordLands(r, k, d, replay, s, c, next, ended)
  \/ RecordDropped(r, s, c, ended)
  \/ RecordIgnored(r, k, s, c, next)
  \/ RecordFails(r, k, d, s, c, onFail)

(* A transaction of the core other than those of Record raises.              *)
StoreFails ==
  /\ faults < MaxFaults
  /\ faults' = faults + 1
  /\ core' = Raise(core)
  /\ UNCHANGED <<row, sched, retained, worker, updates, calls, crashes>>

-----------------------------------------------------------------------------
(* Start-up: Application.__init__ and _restore_scheduler. *)

WorkerAlive(r) == worker[r].pc \notin {"none", "dead"}
Untouched == UNCHANGED <<worker, updates, calls, crashes>>

OpenProcess ==
  /\ At("down")
  /\ core' = [core EXCEPT !.pc = "boot", !.todo = {r \in Runs : Open(row[r])}]
  /\ UNCHANGED <<row, sched, retained, faults>> /\ Untouched

(* _apply_retained_result_if_any, then the branch of the run. *)
BootReplay(r) ==
  /\ At("boot") /\ r \in core.todo
  /\ LET c == [core EXCEPT !.todo = @ \ {r}, !.cur = r]
     IN  IF row[r].stash = "none"
         THEN /\ core' = Goto(c, "bootRun")
              /\ UNCHANGED <<row, sched, retained, faults>>
         ELSE Record(r, row[r].stash, row[r].answer, TRUE, sched, c,
                     "bootRun", "boot", "bootRun")
  /\ Untouched

BootRedispatches(r) ==   \* mutant: a dispatched run is queued again, too
  /\ At("bootRun") /\ r = core.cur
  /\ row[r].op \in {"intended", "dispatched"}
  /\ row' = [row EXCEPT ![r].status = "queued", ![r].op = "intended"]
  /\ sched' = Enqueue(Finish(sched, r), r)
  /\ core' = Goto(core, "boot")
  /\ UNCHANGED <<retained, faults>> /\ Untouched

(* A run whose intent was never dispatched waits again, whatever the limits. *)
BootEnqueue(r) ==
  /\ At("bootRun") /\ r = core.cur
  /\ row[r].op = "intended"
  /\ sched' = Enqueue(Finish(sched, r), r)
  /\ core' = Goto(core, "boot")
  /\ UNCHANGED <<row, retained, faults>> /\ Untouched

(* reconcile_lost: the recorded host process is provably gone. *)
BootLost(r) ==
  /\ At("bootRun") /\ r = core.cur /\ r \in LostEvidence
  /\ row[r].op \notin {"absent", "intended"}
  /\ Record(r, IF row[r].cancel THEN "cancelled" ELSE "failed", "none", FALSE,
            sched, core, "boot", "boot", "raise")
  /\ Untouched

BootProject(r) ==
  /\ At("bootRun") /\ r = core.cur
  /\ row[r].op # "intended"
  /\ sched' = IF row[r].op = "absent" THEN sched ELSE Project(sched, r, row[r])
  /\ core' = [core EXCEPT !.pc = "recon", !.ret = "boot"]
  /\ UNCHANGED <<row, retained, faults>> /\ Untouched

BootEnd ==
  /\ At("boot") /\ core.todo = {}
  /\ core' = IF Background THEN BeginDrain(core, sched.queue, "idle")
                           ELSE [core EXCEPT !.pc = "idle", !.ret = "idle", !.phase = "serve"]
  /\ UNCHANGED <<row, sched, retained, faults>> /\ Untouched

-----------------------------------------------------------------------------
(* _reconcile_one of core.cur, from _restore_scheduler or task.reconcile. *)

ReconReplay(r) ==
  /\ At("recon") /\ r = core.cur
  /\ IF row[r].stash = "none" \/ WorkerAlive(r)
     THEN /\ core' = Goto(core, "reconTail")
          /\ UNCHANGED <<row, sched, retained, faults>>
     ELSE Record(r, row[r].stash, row[r].answer, TRUE, sched, core,
                 "reconTail", core.ret, "reconTail")
  /\ Untouched

(* _release_untracked_run: there is no operation row. *)
ReconUntracked(r) ==
  /\ At("reconTail") /\ r = core.cur
  /\ row[r].op = "absent"
  /\ row' = [row EXCEPT ![r].mark = "released", ![r].status = "pending_reconcile"]
  /\ sched' = Project(sched, r, row'[r])
  /\ core' = Goto(core, core.ret)
  /\ UNCHANGED <<retained, faults>> /\ Untouched

ReconObserved(r) ==
  /\ At("reconTail") /\ r = core.cur
  /\ row[r].op # "absent"
  /\ worker[r].pc # "none" \/ row[r].op # "dispatched"
  /\ core' = Goto(core, core.ret)
  /\ UNCHANGED <<row, sched, retained, faults>> /\ Untouched

(* First commit: the operation.  The run's status follows in a second one. *)
ReconUnknownOp(r) ==
  /\ At("reconTail") /\ r = core.cur
  /\ row[r].op = "dispatched" /\ worker[r].pc = "none"
  /\ row' = [row EXCEPT ![r].op = "unknown"]
  /\ core' = Goto(core, IF row[r].status = "pending_reconcile" THEN core.ret
                                                               ELSE "reconRun")
  /\ UNCHANGED <<sched, retained, faults>> /\ Untouched

ReconUnknownRun(r) ==
  /\ At("reconRun") /\ r = core.cur
  /\ row' = [row EXCEPT ![r].status = "pending_reconcile"]
  /\ core' = Goto(core, core.ret)
  /\ UNCHANGED <<sched, retained, faults>> /\ Untouched

-----------------------------------------------------------------------------
(* poll: retained results that are due, the workers' updates, the queue. *)

PollGivesUp ==   \* mutant: a result is retried once
  /\ At("idle")
  /\ retained' = [r \in Runs |-> [retained[r] EXCEPT !.wait = IF @ = 0 THEN 0 ELSE @ - 1]]
  /\ core' = [core EXCEPT !.pc = "retry",
       !.todo = {r \in Runs : retained[r].failures = 1 /\ retained'[r].wait = 0}]
  /\ UNCHANGED <<row, sched, faults>> /\ Untouched

PollBegin ==
  /\ At("idle")
  /\ retained' = [r \in Runs |-> [retained[r] EXCEPT !.wait = IF @ = 0 THEN 0 ELSE @ - 1]]
  /\ core' = [core EXCEPT !.pc = "retry",
       !.todo = {r \in Runs : retained[r].result # "none" /\ retained'[r].wait = 0}]
  /\ UNCHANGED <<row, sched, faults>> /\ Untouched

(* What is due is still kept when its turn comes: a result that ends another *)
(* run, and the dispatches that follow it, do not drop it.                   *)
RetryOne(r) ==
  /\ At("retry") /\ r \in core.todo
  /\ retained[r].result # "none"
  /\ Record(r, retained[r].result, retained[r].answer, TRUE, sched,
            [core EXCEPT !.todo = @ \ {r}], "retry", "retry", "retry")
  /\ Untouched

RetryEnd ==
  /\ At("retry") /\ core.todo = {}
  /\ core' = IF Background THEN Goto(core, "updates")
                           ELSE BeginDrain(core, sched.queue, "ready")
  /\ UNCHANGED <<row, sched, retained, faults>> /\ Untouched

(* Executor.drain applies one update and acknowledges it, with the error if  *)
(* the write raised; also the drain of close().                              *)
ApplyUpdate(r) ==
  /\ At("updates") \/ At("closing")
  /\ updates # <<>> /\ Head(updates).run = r
  /\ updates' = Tail(updates)
  /\ Record(r, Head(updates).result, "none", FALSE, sched, core,
            core.pc, core.pc, "raise")
  /\ worker' = IF worker[r].pc # "ack" THEN worker
               ELSE [worker EXCEPT ![r].pc = "acked", ![r].error = (core'.pc = "raise")]
  /\ UNCHANGED <<calls, crashes>>

Pruned == [r \in Runs |-> IF worker[r].pc = "dead" THEN NoWorker ELSE worker[r]]

UpdatesEnd ==
  /\ At("updates") /\ updates = <<>>
  /\ worker' = Pruned
  /\ core' = BeginDrain(core, sched.queue, "ready")
  /\ UNCHANGED <<row, sched, retained, updates, calls, faults, crashes>>

PollEnd ==
  /\ At("ready")
  /\ core' = Goto(core, "idle")
  /\ UNCHANGED <<row, sched, retained, faults>> /\ Untouched

-----------------------------------------------------------------------------
(* _drain_queue: the items of the snapshot in order. *)

NextItem(r) == At("drain") /\ core.items # <<>> /\ Head(core.items) = r
PastItem == [core EXCEPT !.items = Tail(@)]

Dispatchable(r) ==
  ~row[r].paused /\ CanStart(sched, r) /\ row[r].op = "intended"

(* Left where it is, or dropped when the run ended meanwhile. *)
DrainSkip(r) ==
  /\ NextItem(r)
  /\ row[r].status \in Terminal \/ ~Dispatchable(r)
  /\ sched' = IF row[r].status \in Terminal THEN Remove(sched, r) ELSE sched
  /\ core' = PastItem
  /\ UNCHANGED <<row, retained, faults>> /\ Untouched

DrainTake(r) ==
  /\ NextItem(r)
  /\ row[r].status \notin Terminal /\ Dispatchable(r)
  /\ sched' = Remove(sched, r)
  /\ core' = [PastItem EXCEPT !.pc = "check", !.cur = r]
  /\ UNCHANGED <<row, retained, faults>> /\ Untouched

DrainEnd ==
  /\ At("drain") /\ core.items = <<>>
  /\ core' = [core EXCEPT !.pc = core.ret, !.draining = FALSE, !.phase = "serve"]
  /\ UNCHANGED <<row, sched, retained, faults>> /\ Untouched

-----------------------------------------------------------------------------
(* _dispatch_committed of core.cur, from the drain or from task.submit. *)

AfterDispatch == IF core.draining THEN "drain" ELSE "idle"

StillQueued(r) ==   \* mutant: an accepted cancellation is overlooked
  row[r].op = "intended" /\ row[r].status = "queued"

StillIntended(r) ==
  row[r].op = "intended" /\ row[r].status = "queued" /\ ~row[r].cancel

(* A check refuses.  The drain ends the run; task.submit reports the error   *)
(* and leaves the intent where it is, in no queue.                           *)
CheckRefuses(r) ==
  /\ At("check") /\ r = core.cur
  /\ ~StillIntended(r) \/ r \in MayRefuse
  /\ IF core.draining
     THEN /\ row' = [row EXCEPT ![r].status = "failed"]
          /\ core' = Goto(core, "refused")
     ELSE /\ core' = Goto(core, "idle")
          /\ UNCHANGED row
  /\ UNCHANGED <<sched, retained, faults>> /\ Untouched

(* _finish_operation *)
RefusedOp(r) ==
  /\ At("refused") /\ r = core.cur
  /\ row' = [row EXCEPT ![r].op = "failed"]
  /\ core' = Goto(core, "drain")
  /\ UNCHANGED <<sched, retained, faults>> /\ Untouched

(* First commit: the run takes the slot and is dispatching. *)
CommitDispatching(r) ==
  /\ At("check") /\ r = core.cur
  /\ StillIntended(r)
  /\ row' = [row EXCEPT ![r].status = "dispatching", ![r].mark = "held"]
  /\ core' = Goto(core, "committing")
  /\ UNCHANGED <<sched, retained, faults>> /\ Untouched

(* Second commit: the operation is dispatched.  Then the slot is projected   *)
(* and the backend is called, on a worker thread or in place.                *)
CallBackend(r) ==
  /\ At("committing") /\ r = core.cur
  /\ row' = [row EXCEPT ![r].op = "dispatched"]
  /\ sched' = Project(sched, r, row'[r])
  /\ calls' = [calls EXCEPT ![r] = @ + 1]
  /\ IF Background
     THEN /\ worker' = [worker EXCEPT ![r] = [NoWorker EXCEPT !.pc = "act"]]
          /\ core' = Goto(core, AfterDispatch)
     ELSE /\ core' = Goto(core, "calling")
          /\ UNCHANGED worker
  /\ UNCHANGED <<retained, updates, faults, crashes>>

(* A grok-code dispatch on the core thread records each snapshot; when the   *)
(* write fails the backend stops and can only report an unknown outcome.     *)
StreamPublishes(r) ==
  /\ Streams /\ core.pc \in {"calling", "streaming"} /\ r = core.cur
  /\ Record(r, "progress", "none", FALSE, sched, core, "streaming", "streaming", "broken")
  /\ Untouched

CallReturns(r, k) ==
  /\ core.pc \in {"calling", "streaming", "broken"} /\ r = core.cur
  /\ At("broken") => k = "unknown"
  /\ Record(r, k, "none", FALSE, sched, core, AfterDispatch, AfterDispatch, "raise")
  /\ Untouched

(* The call raised before any snapshot was recorded; the drain goes on, the  *)
(* request reports REMOTE_STATE_UNKNOWN.                                     *)
CallRaises(r) ==
  /\ At("calling") /\ r = core.cur
  /\ row' = [row EXCEPT ![r].status = "pending_reconcile", ![r].op = "unknown"]
  /\ core' = Goto(core, AfterDispatch)
  /\ UNCHANGED <<sched, retained, faults>> /\ Untouched

-----------------------------------------------------------------------------
(* Requests: handle() has just polled. *)

Asked(q) == At("ready") /\ q \in Requests

(* commit_intent writes task, run and operation in one transaction, after    *)
(* admit found room for the run.                                             *)
TaskSubmit(r) ==
  /\ Asked("submit")
  /\ row[r].status = "unborn"
  /\ CanStart(sched, r) \/ CanEnqueue(sched)
  /\ row' = [row EXCEPT ![r] = Intended]
  /\ core' = [core EXCEPT !.pc = "accepted", !.cur = r]
  /\ UNCHANGED <<sched, retained, faults>> /\ Untouched

(* The decision of admit, after the events of the new run were written.      *)
Admit(r) ==
  /\ At("accepted") /\ r = core.cur
  /\ IF CanStart(sched, r)
     THEN /\ core' = Goto(core, "check")
          /\ UNCHANGED sched
     ELSE /\ sched' = Enqueue(sched, r)
          /\ core' = Goto(core, "idle")
  /\ UNCHANGED <<row, retained, faults>> /\ Untouched

(* task.cancel: the request is durable before anything is done about it. *)
CancelIntent(r) ==
  /\ Asked("cancel")
  /\ Open(row[r])
  /\ row' = [row EXCEPT ![r].cancel = TRUE]
  /\ core' = [core EXCEPT !.pc = "cancelling", !.cur = r]
  /\ UNCHANGED <<sched, retained, faults>> /\ Untouched

CancelQueued(r) ==
  /\ At("cancelling") /\ r = core.cur
  /\ row[r].op = "intended"
  /\ Record(r, "cancelled", "none", FALSE, Remove(sched, r), core, "idle", "idle", "raise")
  /\ Untouched

(* What a backend can say of a run it was never told of: that it does not    *)
(* run, or that nothing is known of it.                                      *)
Ignorance == {"failed", "cancelled", "unknown", "fallback"}
Answerable(r, k) == calls[r] = 0 => k \in Ignorance

(* The backend, or the evidence of a lost process, confirms the end.  A      *)
(* backend with a running worker can only confirm the cancellation.          *)
CancelConfirmed(r, k) ==
  /\ At("cancelling") /\ r = core.cur
  /\ row[r].op # "intended"
  /\ \/ k \in CancelKinds /\ (WorkerAlive(r) => k = "cancelled") /\ Answerable(r, k)
     \/ k = "cancelled" /\ r \in LostEvidence /\ worker[r].pc = "none"
  /\ Record(r, k, "none", FALSE, sched, core, "idle", "idle", "raise")
  /\ Untouched

(* request_cancel only accepted the request, or raised. *)
CancelUnconfirmed(r) ==
  /\ At("cancelling") /\ r = core.cur
  /\ row[r].op # "intended"
  /\ core' = Goto(core, "idle")
  /\ UNCHANGED <<row, sched, retained, faults>> /\ Untouched

(* task.reconcile with terminate: an operator ends a run nobody observes. *)
TerminateIntent(r) ==
  /\ Asked("terminate")
  /\ Open(row[r]) /\ worker[r].pc = "none"
  /\ sched' = IF row[r].op = "intended" THEN Remove(sched, r) ELSE sched
  /\ core' = [core EXCEPT !.pc = "terminate", !.cur = r]
  /\ UNCHANGED <<row, retained, faults>> /\ Untouched

TerminateSave(r) ==
  /\ At("terminate") /\ r = core.cur
  /\ row' = [row EXCEPT ![r].cancel = TRUE]
  /\ core' = Goto(core, "terminating")
  /\ UNCHANGED <<sched, retained, faults>> /\ Untouched

TerminateRecord(r) ==
  /\ At("terminating") /\ r = core.cur
  /\ Record(r, "cancelled", "none", FALSE, sched, core, "idle", "idle", "raise")
  /\ Untouched

(* task.handoff pause: first the run, unless a worker observes it, then the  *)
(* task.                                                                     *)
PauseRun(r) ==
  /\ Asked("pause")
  /\ row[r].status # "unborn"
  /\ row' = IF Open(row[r]) /\ worker[r].pc = "none"
            THEN [row EXCEPT ![r].status = "paused"] ELSE row
  /\ core' = [core EXCEPT !.pc = "pausing", !.cur = r]
  /\ UNCHANGED <<sched, retained, faults>> /\ Untouched

PauseTask(r) ==
  /\ At("pausing") /\ r = core.cur
  /\ row' = [row EXCEPT ![r].paused = TRUE]
  /\ core' = Goto(core, "idle")
  /\ UNCHANGED <<sched, retained, faults>> /\ Untouched

ResumeRun(r) ==
  /\ Asked("resume")
  /\ row[r].status # "unborn"
  /\ row' = IF row[r].status = "paused"
            THEN [row EXCEPT ![r].status = ResumedStatus(row[r])] ELSE row
  /\ core' = [core EXCEPT !.pc = "resuming", !.cur = r]
  /\ UNCHANGED <<sched, retained, faults>> /\ Untouched

ResumeTask(r) ==
  /\ At("resuming") /\ r = core.cur
  /\ row' = [row EXCEPT ![r].paused = FALSE]
  /\ core' = BeginDrain(core, sched.queue, "idle")
  /\ UNCHANGED <<sched, retained, faults>> /\ Untouched

KeptTerminal(r) == {retained[r].result, row[r].stash} \cap Terminal

(* A backend that is asked again about a run it already reported the end of  *)
(* reports the same end, or that it cannot tell.                             *)
Truthful(r, k) ==
  /\ KeptTerminal(r) # {} => k \in KeptTerminal(r) \cup {"unknown", "fallback"}
  /\ Answerable(r, k)

(* The backend has a method to ask about a run, and nobody observes this one. *)
CanAsk(r) ==
  ReconcileKinds # {} /\ row[r].op \in {"dispatched", "unknown"} /\ worker[r].pc = "none"

(* task.reconcile: the native reference (reconcile_native,                   *)
(* reconcile_execution) or the evidence of a lost process                    *)
(* (reconcile_recorded), then _reconcile_one.                                *)
ReconcileRecord(r, k) ==
  /\ Asked("reconcile")
  /\ row[r].op \in {"dispatched", "unknown"} /\ Open(row[r])
  /\ worker[r].pc = "none"
  /\ \/ CanAsk(r) /\ k \in ReconcileKinds /\ Truthful(r, k)
     \/ r \in LostEvidence /\ k = (IF row[r].cancel THEN "cancelled" ELSE "failed")
  /\ Record(r, k, "none", FALSE, sched, [core EXCEPT !.cur = r, !.ret = "idle"],
            "recon", "idle", "raise")
  /\ Untouched

ReconcileOnly(r) ==
  /\ Asked("reconcile")
  /\ Open(row[r]) /\ ~CanAsk(r)
  /\ core' = [core EXCEPT !.pc = "recon", !.cur = r, !.ret = "idle"]
  /\ UNCHANGED <<row, sched, retained, faults>> /\ Untouched

(* approval.respond: the intent to forward is durable before the backend is  *)
(* told.  A backend answers only while it still waits for the decision.      *)
RespondIntent(r) ==
  /\ Asked("respond")
  /\ row[r].approval = "pending" /\ ~row[r].attempted
  /\ row[r].status = "waiting_input" /\ ~row[r].cancel /\ ~row[r].paused
  /\ row' = [row EXCEPT ![r].approval = "forwarding", ![r].attempted = TRUE]
  /\ core' = [core EXCEPT !.pc = "forwarding", !.cur = r]
  /\ UNCHANGED <<sched, retained, faults>> /\ Untouched

RespondAnswered(r, k, d) ==
  /\ At("forwarding") /\ r = core.cur
  /\ KeptTerminal(r) = {}
  /\ Background => k = "progress" /\ WorkerAlive(r) /\ ~worker[r].final
  /\ Record(r, k, d, FALSE, sched, core, "idle", "idle", "raise")
  /\ Untouched

(* The backend raised: the approval stays forwarding and is never resent.    *)
RespondUnknown(r) ==
  /\ At("forwarding") /\ r = core.cur
  /\ core' = Goto(core, "idle")
  /\ UNCHANGED <<row, sched, retained, faults>> /\ Untouched

-----------------------------------------------------------------------------
(* The worker thread of a run (executor.py): the backend's action publishes  *)
(* snapshots and waits for each acknowledgement; its return value is         *)
(* published last.                                                           *)

CoreStands == UNCHANGED <<row, sched, retained, core, calls, faults, crashes>>

WorkerPublishes(r, k) ==
  /\ worker[r].pc = "act"
  /\ worker' = [worker EXCEPT ![r].pc = "put", ![r].result = k]
  /\ UNCHANGED updates /\ CoreStands

WorkerReturns(r, k) ==
  /\ worker[r].pc = "act"
  /\ worker' = [worker EXCEPT ![r].pc = "put", ![r].result = k, ![r].final = TRUE]
  /\ UNCHANGED updates /\ CoreStands

WorkerPuts(r) ==
  /\ worker[r].pc = "put" /\ Len(updates) < QueueSize
  /\ updates' = Append(updates, [run |-> r, result |-> worker[r].result])
  /\ worker' = [worker EXCEPT ![r].pc = "ack"]
  /\ CoreStands

WorkerGoesOn(r) ==
  /\ worker[r].pc = "acked" /\ ~worker[r].final /\ ~worker[r].error
  /\ worker' = [worker EXCEPT ![r].pc = "act"]
  /\ UNCHANGED updates /\ CoreStands

(* The core could not record the snapshot: publish raises in the action,     *)
(* which ends with the generic result or with one of its own.                *)
WorkerFallsBack(r, k) ==
  /\ worker[r].pc = "acked" /\ ~worker[r].final /\ worker[r].error
  /\ worker' = [worker EXCEPT ![r].pc = "put", ![r].result = k,
                              ![r].final = TRUE, ![r].error = FALSE]
  /\ UNCHANGED updates /\ CoreStands

WorkerEnds(r) ==
  /\ worker[r].pc = "acked" /\ worker[r].final
  /\ worker' = [worker EXCEPT ![r] = [NoWorker EXCEPT !.pc = "dead"]]
  /\ UNCHANGED updates /\ CoreStands

(* stopping is set: publish gives up, the thread ends.                       *)
WorkerStops(r) ==
  /\ core.phase = "close" /\ WorkerAlive(r)
  /\ worker' = [worker EXCEPT ![r] = [NoWorker EXCEPT !.pc = "dead"]]
  /\ UNCHANGED updates /\ CoreStands

-----------------------------------------------------------------------------
(* Failures and shutdown. *)

(* The process is gone: everything in memory with it. *)
ProcessEnds ==
  /\ core' = CoreDown
  /\ sched' = EmptyScheduler
  /\ retained' = [r \in Runs |-> Nothing]
  /\ worker' = [r \in Runs |-> NoWorker]
  /\ updates' = <<>>
  /\ UNCHANGED <<row, calls, faults>>

(* The next commit of a step or of a request raises instead of taking        *)
(* effect.                                                                   *)
CommitFails ==
  /\ core.pc \in {"ready", "accepted", "check", "committing", "calling", "refused",
                  "reconTail", "reconRun", "terminate", "pausing", "resuming",
                  "forwarding", "marking", "markOp"}
  /\ At("ready") => Requests # {}
  /\ At("check") => StillIntended(core.cur)
  /\ StoreFails

(* What the caller of poll or handle does with the exception: Application    *)
(* itself gives up while it is restoring; an embedding host polls again;     *)
(* serve() leaves its loop and closes.                                       *)
HandleRaise ==
  /\ At("raise")
  /\ IF core.phase # "serve"
     THEN ProcessEnds
     ELSE /\ core' = IF HostSurvives THEN Goto(core, "idle") ELSE Goto(core, "close")
          /\ UNCHANGED <<row, sched, retained, worker, updates, calls, faults>>
  /\ UNCHANGED crashes

StopRequested ==
  /\ PlannedStops /\ At("idle")
  /\ core' = Goto(core, "close")
  /\ UNCHANGED <<row, sched, retained, faults>> /\ Untouched

(* close() *)
CloseBegin ==
  /\ At("close")
  /\ IF Background
     THEN /\ core' = [core EXCEPT !.pc = "closing", !.phase = "close"]
          /\ UNCHANGED <<row, sched, retained, worker, updates, calls, faults>>
     ELSE ProcessEnds
  /\ UNCHANGED crashes

CloseMarksEnded ==   \* mutant: runs that ended are marked, too
  /\ At("closing") /\ updates = <<>>
  /\ core' = [core EXCEPT !.pc = "marking",
       !.todo = {r \in Runs : row[r].op \notin {"absent", "intended"}}]
  /\ UNCHANGED <<row, sched, retained, faults>> /\ Untouched

CloseDrained ==
  /\ At("closing") /\ updates = <<>>
  /\ core' = [core EXCEPT !.pc = "marking",
       !.todo = {r \in Runs : Open(row[r]) /\ row[r].op \notin {"absent", "intended"}}]
  /\ UNCHANGED <<row, sched, retained, faults>> /\ Untouched

CloseMarkRun(r) ==
  /\ At("marking") /\ r \in core.todo
  /\ row' = [row EXCEPT ![r].status = "pending_reconcile"]
  /\ core' = [core EXCEPT !.pc = "markOp", !.cur = r, !.todo = @ \ {r}]
  /\ UNCHANGED <<sched, retained, faults>> /\ Untouched

CloseMarkOp(r) ==
  /\ At("markOp") /\ r = core.cur
  /\ row' = [row EXCEPT ![r].op = "unknown"]
  /\ core' = Goto(core, "marking")
  /\ UNCHANGED <<sched, retained, faults>> /\ Untouched

CloseEnd ==
  /\ At("marking") /\ core.todo = {}
  /\ ProcessEnds
  /\ UNCHANGED crashes

Crash ==
  /\ ~At("down") /\ crashes < MaxCrashes
  /\ crashes' = crashes + 1
  /\ ProcessEnds

-----------------------------------------------------------------------------
Restore ==
  \/ OpenProcess \/ BootEnd
  \/ \E r \in Runs : \/ BootReplay(r) \/ BootEnqueue(r) \/ BootLost(r) \/ BootProject(r)
                     \/ ReconReplay(r) \/ ReconUntracked(r) \/ ReconObserved(r)
                     \/ ReconUnknownOp(r) \/ ReconUnknownRun(r)

Poll ==
  \/ PollBegin \/ RetryEnd \/ UpdatesEnd \/ PollEnd
  \/ \E r \in Runs : RetryOne(r) \/ ApplyUpdate(r)

Dispatch ==
  \/ DrainEnd
  \/ \E r \in Runs : \/ DrainSkip(r) \/ DrainTake(r)
                     \/ CheckRefuses(r) \/ RefusedOp(r)
                     \/ CommitDispatching(r) \/ CallBackend(r)
                     \/ StreamPublishes(r) \/ CallRaises(r)
                     \/ \E k \in FinalKinds : CallReturns(r, k)

Request ==
  \E r \in Runs :
    \/ TaskSubmit(r) \/ Admit(r)
    \/ CancelIntent(r) \/ CancelQueued(r) \/ CancelUnconfirmed(r)
    \/ \E k \in {"cancelled", "succeeded"} : CancelConfirmed(r, k)
    \/ TerminateIntent(r) \/ TerminateSave(r) \/ TerminateRecord(r)
    \/ PauseRun(r) \/ PauseTask(r) \/ ResumeRun(r) \/ ResumeTask(r)
    \/ ReconcileOnly(r)
    \/ \E k \in ReconcileKinds \cup {"failed", "cancelled"} : ReconcileRecord(r, k)
    \/ RespondIntent(r) \/ RespondUnknown(r)
    \/ \E k \in {"progress"} \cup (FinalKinds \cap Terminal), d \in Decisions :
         RespondAnswered(r, k, d)

Shutdown ==
  \/ CommitFails \/ HandleRaise \/ StopRequested
  \/ CloseBegin \/ CloseDrained \/ CloseEnd
  \/ \E r \in Runs : CloseMarkRun(r) \/ CloseMarkOp(r)

CoreThread == Restore \/ Poll \/ Dispatch \/ Request \/ Shutdown

Worker(r) ==
  \/ \E k \in ProgressKinds : WorkerPublishes(r, k)
  \/ \E k \in FinalKinds : WorkerReturns(r, k)
  \/ \E k \in {"fallback"} \cup (FinalKinds \cap {"unknown"}) : WorkerFallsBack(r, k)
  \/ WorkerPuts(r) \/ WorkerGoesOn(r) \/ WorkerEnds(r) \/ WorkerStops(r)

Next == CoreThread \/ (\E r \in Runs : Worker(r)) \/ Crash

Spec == Init /\ [][Next]_vars

(* The host keeps calling poll (serve() does, every 30 ms), so the core      *)
(* thread never rests for good.  Backends owe nothing: no worker is fair.    *)
FairSpec == Spec /\ WF_vars(CoreThread)

-----------------------------------------------------------------------------
(* Types. *)

Pcs ==
  {"down", "boot", "bootRun", "recon", "reconTail", "reconRun", "idle", "retry",
   "updates", "ready", "drain", "check", "refused", "committing", "calling",
   "streaming", "broken", "accepted", "cancelling", "terminate", "terminating",
   "pausing", "resuming", "forwarding", "raise", "close", "closing", "marking",
   "markOp"}

(* Where a drained queue or a reconciliation leads back: never into the      *)
(* middle of another step.                                                   *)
Returns ==
  Pcs \ {"down", "bootRun", "recon", "reconTail", "reconRun", "accepted", "check",
         "committing", "calling", "marking", "markOp"}

RetainedType ==
  [result : Kinds \cup {"none"}, answer : Decisions \cup {"none"},
   failures : Nat, wait : Nat]

WorkerType ==
  [pc : {"none", "act", "put", "ack", "acked", "dead"},
   result : Kinds \cup {"none"}, final : BOOLEAN, error : BOOLEAN]

CoreType ==
  [pc : Pcs, cur : Runs \cup {NoRun}, ret : Returns, todo : SUBSET Runs,
   items : Seq(Runs), draining : BOOLEAN, phase : {"boot", "serve", "close"}]

(* Every variable keeps the shape the code gives it. *)
TypeOK ==
  /\ row \in [Runs -> RowType]
  /\ sched \in SchedulerType
  /\ retained \in [Runs -> RetainedType]
  /\ worker \in [Runs -> WorkerType]
  /\ updates \in Seq([run : Runs, result : Kinds])
  /\ core \in CoreType
  /\ calls \in [Runs -> Nat]
  /\ faults \in 0 .. MaxFaults
  /\ crashes \in 0 .. MaxCrashes

-----------------------------------------------------------------------------
(* Safety. *)

(* "The task is not dispatched again": through failed writes, restarts,      *)
(* retries and reconciliation, a backend is called at most once to execute a *)
(* run (operation.status guards _dispatch_committed).                        *)
AtMostOneDispatch == \A r \in Runs : calls[r] <= 1

(* The assertions of tests/test_result_persistence.py:751 on the scheduler:  *)
(* the per-backend counts are the runs it tracks, whatever the order of      *)
(* starts, finishes and replays.                                             *)
CountsMatchRuns ==
  \A b \in Backends :
    sched.inflight[b] = Cardinality({r \in sched.runs : BackendOf[r] = b})

(* One persisted source of occupancy: between two steps of the host, a run   *)
(* whose dispatch was committed and whose last write did not fail is counted *)
(* by the scheduler exactly when its row holds the slot.                     *)
SlotsFollowMarks ==
  At("idle") =>
    \A r \in Runs :
      row[r].op # "intended" /\ retained[r] = Nothing =>
        (r \in sched.runs <=> row[r].status # "unborn" /\ SlotHeld(row[r]))

(* A run waits in the queue once, only before it is dispatched, and never    *)
(* while it occupies a slot.                                                 *)
QueueSound ==
  /\ \A i, j \in DOMAIN sched.queue : sched.queue[i] = sched.queue[j] => i = j
  /\ \A i \in DOMAIN sched.queue :
       LET r == sched.queue[i]
       IN  /\ r \notin sched.runs
           /\ row[r].op = "intended" \/ row[r].status \in Terminal
           /\ calls[r] = 0

(* A forwarded approval request is never offered again: once the attempt is  *)
(* recorded the approval does not return to pending, whatever is replayed.   *)
AttemptNotRenewed == \A r \in Runs : row[r].attempted => row[r].approval \notin {"none", "pending"}

(* A run that ended keeps its outcome. *)
TerminalIsFinal ==
  [][\A r \in Runs : row[r].status \in Terminal => row'[r].status = row[r].status]_vars

Called(r) == calls'[r] # calls[r]

(* A new dispatch respects the limits at the moment the backend is called,   *)
(* also when slots were released, taken back or restored in between.         *)
DispatchWithinLimits ==
  [][\A r \in Runs : Called(r) =>
       /\ MaxConcurrency # Unlimited => Cardinality(sched'.runs) <= MaxConcurrency
       /\ Cardinality({q \in sched'.runs : BackendOf[q] = BackendOf[r]}) <= PerBackend
       /\ \A q \in sched'.runs \ {r} : WorkspaceOf[q] # WorkspaceOf[r]]_vars

(* Nothing is dispatched for a task handed to a human or for a run whose     *)
(* cancellation was accepted, before or after a restart.                     *)
NoUnwantedDispatch ==
  [][\A r \in Runs : Called(r) => ~row[r].paused /\ ~row[r].cancel]_vars

(* While the core restores, a run marked as released takes its slot back     *)
(* only by landing the result it kept, and a run without an operation never  *)
(* does.                                                                     *)
RestoreKeepsReleased ==
  [][core.phase = "boot" =>
       \A r \in sched'.runs \ sched.runs :
         /\ row[r].op # "absent"
         /\ row[r].mark = "released" => row[r].stash # "none" /\ row'[r].stash = "none"]_vars

CrashStep == crashes' # crashes
Keeps(m, x) == {m.result, x.stash}

(* A received success or failure stays in memory or on the row until it is   *)
(* the outcome of the run: no later result, reconciliation or restart        *)
(* replaces it, unless the run was cancelled on request.  Memory is lost in  *)
(* a crash.                                                                  *)
KeptResultLands ==
  [][\A r \in Runs : \A k \in Keeps(retained[r], row[r]) \cap {"succeeded", "failed"} :
       \/ k \in Keeps(retained'[r], row'[r])
       \/ row'[r].status \in Terminal /\ (row'[r].status = k \/ row'[r].cancel)
       \/ CrashStep /\ row[r].stash # k]_vars

(* A confirmed approval outcome that was stashed on the row stays there until *)
(* it is the state of the approval, whichever result lands first and across   *)
(* restarts.                                                                  *)
StashedAnswerLands ==
  [][\A r \in Runs : row[r].answer # "none" =>
       row'[r].answer = row[r].answer \/ row'[r].approval = row[r].answer]_vars

(* Refuted, see the README: the same for an outcome that is only in memory.   *)
KeptAnswerLands ==
  [][\A r \in Runs : \A d \in {retained[r].answer} \cap Decisions :
       \/ d \in {retained'[r].answer, row'[r].answer}
       \/ row'[r].approval = d
       \/ CrashStep]_vars

(* Refuted, see the README: a terminal run drops its slot mark. *)
TerminalDropsMark == \A r \in Runs : row[r].status \in Terminal => row[r].mark = "none"

(* The whole core implements the promise of RunPromise: a run moves through  *)
(* accepted, called and one outcome in that order, a refusal never follows a *)
(* call, and nothing but a call leads to success, across failed writes,      *)
(* replays of kept results, reconciliation, crashes and shutdown.            *)
Standing(r) ==
  IF row[r].status \in Terminal THEN row[r].status
  ELSE IF row[r].status = "unborn" THEN "absent"
  ELSE IF calls[r] = 0 THEN "accepted"
  ELSE IF calls[r] = 1 THEN "called" ELSE "repeated"

Promise ==
  INSTANCE RunPromise WITH Inherited <- LegacyRuns, promise <- [r \in Runs |-> Standing(r)]

PromiseKept == Promise!Spec

-----------------------------------------------------------------------------
(* Liveness. *)

(* "Later polls retry with a capped backoff until it lands." *)
RetainedLands == \A r \in Runs : Rich(retained[r].result) ~> ~Rich(retained[r].result)

Waits(r) == \E i \in DOMAIN sched.queue : sched.queue[i] = r

(* A queued run that may start does not stay in the queue for ever.          *)
StartableLeaves ==
  \A r \in Runs : (Waits(r) /\ Dispatchable(r)) ~> ~(Waits(r) /\ Dispatchable(r))

-----------------------------------------------------------------------------
(* The questions of the runs that have several parts.                        *)

(* Whatever fails or is restored, the scheduler holds what it should: the     *)
(* queue without repetition, the counts of what runs.                        *)
SchedulerSound == QueueSound /\ CountsMatchRuns

(* What was said about an approval is not lost, and what was tried is not     *)
(* offered to be tried again.                                                *)
AnswersLand == StashedAnswerLands /\ []AttemptNotRenewed

(* The durable mark of a slot and the slot agree, also for rows an older      *)
(* version wrote.                                                            *)
MarksGovernSlots == []SlotsFollowMarks /\ RestoreKeepsReleased

(* Nothing that can go on waits for ever: no kept result, no startable run.  *)
NothingIsStuck == RetainedLands /\ StartableLeaves
=============================================================================
