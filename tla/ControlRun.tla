----------------------------- MODULE ControlRun -----------------------------
(***************************************************************************)
(* The control runtime of control.py at work on one task: commands of its   *)
(* clients, the pass of ControlRuntime.advance in every poll, the dispatch  *)
(* of the run it hands to the core (the "legacy" run of application.py) and *)
(* what the core reports of it, with a process that may stop between any    *)
(* two transactions, leases that age and settings that change meanwhile.    *)
(*                                                                          *)
(* The core is taken at its word: the legacy run moves as RunPromise allows *)
(* (PromiseKept below), which RunLifecycle shows of the core in detail.     *)
(*                                                                          *)
(*   legacy.stage    "queued" intended and not called, "torn" likewise, but *)
(*                   a crash came between the two commits of its dispatch,  *)
(*                   "kept" cancelled uncalled while that result waits for a *)
(*                   write, "called" and not heard of since, "working",     *)
(*                   "waiting" for an answer, "pend" outcome unknown, or    *)
(*                   how it ended                                           *)
(*   legacy.cancel   run.cancel_requested                                   *)
(*   legacy.receipt  what the adapter's receipt proves: "notsent" no prompt *)
(*                   was sent, "nospawn" cancelled before a process started *)
(*   legacy.queued   it waits in the scheduler's queue (memory)             *)
(*   core.pc         where the state-owning thread is                       *)
(*   core.ret        where it continues after a call in place               *)
(*   core.background an Executor is present (asterun serve)                 *)
(*   core.bypassed   history: a restart called the backend against the book *)
(***************************************************************************)
EXTENDS ControlLedger

CONSTANTS
  Modes,        \* values of core.background the process may start with
  Drifts,       \* may the settings differ from those the task was made with
  Commands,     \* commands clients send
  MayCrash,     \* the process may stop at any time
  Failures      \* "commit": a transaction of the runtime may fail;
                \* "result": the write of a result of the core may

ASSUME ControlRunAssumption ==
  /\ Modes \subseteq BOOLEAN /\ Modes # {} /\ Drifts \subseteq BOOLEAN /\ Drifts # {}
  /\ MayCrash \in BOOLEAN /\ Failures \subseteq {"commit", "result"}

VARIABLES
  book,      \* durable: the book of the task
  legacy,    \* the legacy run of the latest attempt
  stand,     \* history: where every attempt stands, as RunPromise tells it
  reached,   \* history: attempts whose prompt may have reached a provider
  drift,     \* the settings of this process differ from the task's
  core,      \* the state-owning thread
  refused    \* history: a transition was refused in the middle of a pass

vars == <<book, legacy, stand, reached, drift, core, refused>>

LegacyEnds == {"succeeded", "failed", "cancelled"}
Stages == LegacyEnds \cup {"absent", "queued", "torn", "kept", "called", "working", "waiting",
                       "pend"}
Receipts == {"none", "notsent", "nospawn"}
NoLegacy == [stage |-> "absent", cancel |-> FALSE, receipt |-> "none", queued |-> FALSE]

Pcs == {"down", "boot", "idle", "advance", "owned", "submit", "accepted", "calling",
        "control", "cancelled", "reconcile", "settle", "drain"}

Init ==
  /\ book = Blank
  /\ legacy = NoLegacy
  /\ stand = [a \in Attempts |-> "absent"]
  /\ reached = {}
  /\ drift = FALSE
  /\ core = [pc |-> "down", ret |-> "idle", background |-> FALSE, bypassed |-> FALSE]
  /\ refused = FALSE

At(p) == core.pc = p
Goto(p) == core' = [core EXCEPT !.pc = p]

Uncalled == legacy.stage \in {"queued", "torn", "kept"}
LegacyEnded == legacy.stage \in LegacyEnds

KeepBook == UNCHANGED <<book, refused>>
KeepLegacy == UNCHANGED <<legacy, stand, reached>>

(* One transaction of advance: it commits and the pass goes on at `next`, or *)
(* a refused transition rolls it back and leaves the poll as an error.       *)
Commit(x, next) ==
  /\ IF x.ok THEN book' = x /\ Goto(next) /\ UNCHANGED refused
             ELSE refused' = TRUE /\ Goto("idle") /\ UNCHANGED book
  /\ KeepLegacy /\ UNCHANGED drift

(* The legacy run comes to `stage`; an end is final. *)
LegacyTo(stage, receipt) ==
  /\ legacy' = [legacy EXCEPT !.stage = stage, !.queued = FALSE, !.receipt = receipt]
  /\ stand' = IF stage \in LegacyEnds
              THEN [stand EXCEPT ![book.attempt] = stage] ELSE stand
  /\ reached' = IF receipt = "none" THEN reached ELSE reached \ {book.attempt}

-----------------------------------------------------------------------------
(* Commands: one transaction, then a poll in the same request. *)

Commanded(c, x) ==
  /\ At("idle") /\ c \in Commands
  /\ x.ok
  /\ book' = x
  /\ Goto("advance")
  /\ UNCHANGED refused

(* The task records the settings of this process. *)
TaskCreate ==
  /\ book.task = None
  /\ Commanded("create", Move([book EXCEPT !.task = "DRAFT"], "task", "READY"))
  /\ drift' = FALSE
  /\ KeepLegacy

(* run.start of a READY task, run.retry of a FAILED one: the contract, the   *)
(* settings and the budget are checked with the reservation.                 *)
RunStart ==
  /\ book.task \in {"READY", "FAILED"}
  /\ book.attempt < MaxAttempts
  /\ ~drift
  /\ TurnsTaken(book) + 1 <= TurnLimit
  /\ Commanded("start", Admitted(book))
  /\ legacy' = NoLegacy
  /\ UNCHANGED <<stand, reached, drift>>

OpenRun == book.attempt # 0 /\ ~Ended(book)

RunPause ==
  /\ OpenRun /\ book.desired # "CANCELED"
  /\ Commanded("pause", Pausing(book))
  /\ KeepLegacy /\ UNCHANGED drift

RunCancel ==
  /\ OpenRun
  /\ Commanded("cancel", Canceling(book))
  /\ KeepLegacy /\ UNCHANGED drift

RunResume ==
  /\ OpenRun /\ ~drift
  /\ book.desired = "PAUSED" /\ book.run = "PAUSED" /\ book.owner = "runner"
  /\ Commanded("resume", Resuming(book))
  /\ KeepLegacy /\ UNCHANGED drift

RunTakeover ==
  /\ OpenRun /\ book.desired # "CANCELED"
  /\ Commanded("takeover", [Pausing(book) EXCEPT !.takeover = TRUE])
  /\ KeepLegacy /\ UNCHANGED drift

ReturnKeepsRequest(x) ==   \* mutant: the request of the takeover is kept
  Resuming([x EXCEPT !.owner = "runner"])

Returned(x) == Resuming([x EXCEPT !.owner = "runner", !.takeover = FALSE])

RunReturnControl ==
  /\ OpenRun /\ ~drift
  /\ book.owner = "human" /\ book.run = "PAUSED"
  /\ Commanded("return_control", Returned(book))
  /\ KeepLegacy /\ UNCHANGED drift

GrantRevoke ==
  /\ book.attempt # 0
  /\ Commanded("revoke", [book EXCEPT !.granted = FALSE])
  /\ KeepLegacy /\ UNCHANGED drift

-----------------------------------------------------------------------------
(* advance *)

Poll ==
  /\ At("idle")
  /\ Goto("advance")
  /\ KeepBook /\ KeepLegacy /\ UNCHANGED drift

AdvanceNothing ==
  /\ At("advance") /\ ~InHand(book)
  /\ Goto("drain")
  /\ KeepBook /\ KeepLegacy /\ UNCHANGED drift

AdvanceOwns ==
  /\ At("advance") /\ InHand(book)
  /\ Commit(Owned(book), "owned")

(* The delivery was marked and no intent of the core exists: it cannot have  *)
(* been submitted, and is not submitted again.                               *)
LocalIntentAbsent ==
  /\ At("owned") /\ legacy.stage = "absent" /\ book.dispatched
  /\ Commit(NotApplied(Owned(book)), "drain")

IntentBeforeDelivery ==
  /\ At("owned") /\ legacy.stage = "absent" /\ ~book.dispatched
  /\ book.desired # "RUNNING"
  /\ Commit(Undelivered(book), "drain")

NotDelivered ==
  /\ At("owned") /\ legacy.stage = "absent" /\ ~book.dispatched
  /\ book.desired = "RUNNING"

(* No slot is free. *)
DispatchWaits ==
  /\ NotDelivered
  /\ Goto("drain")
  /\ KeepBook /\ KeepLegacy /\ UNCHANGED drift

(* _dispatch_guard *)
Guarded(x) ==
  MayAdvance(x) /\ ~drift /\ x.lease \in {"fresh", "aging"} /\ x.granted

Dispatch ==
  /\ NotDelivered /\ Guarded(book)
  /\ Commit(Delivering(book), "submit")

(* Plans, policies and the applied configuration may refuse as well. *)
DispatchDenied ==
  /\ NotDelivered
  /\ Commit(Denied(book), "drain")

(* task.submit refuses before it commits an intent. *)
SubmitRefused ==
  /\ At("submit")
  /\ Commit(NotApplied(Owned(book)), "drain")

SubmitCommits ==
  /\ At("submit")
  /\ legacy' = [NoLegacy EXCEPT !.stage = "queued"]
  /\ stand' = [stand EXCEPT ![book.attempt] = "accepted"]
  /\ Goto("accepted")
  /\ KeepBook /\ UNCHANGED <<reached, drift>>

(* The scheduler has no slot, or the intent waits for another task. *)
SubmitQueues ==
  /\ At("accepted")
  /\ legacy' = [legacy EXCEPT !.queued = TRUE]
  /\ Goto("owned")
  /\ KeepBook /\ UNCHANGED <<stand, reached, drift>>

(* _dispatch_committed refuses: the intent stays, in no queue. *)
SubmitUndispatched ==
  /\ At("accepted")
  /\ Goto("owned")
  /\ KeepBook /\ KeepLegacy /\ UNCHANGED drift

(* The call of the backend, on a worker or in place. *)
CallBackend(ret) ==
  /\ legacy' = [legacy EXCEPT !.stage = "called", !.queued = FALSE]
  /\ stand' = [stand EXCEPT ![book.attempt] = "called"]
  /\ reached' = reached \cup {book.attempt}
  /\ core' = [core EXCEPT !.pc = IF core.background THEN ret ELSE "calling", !.ret = ret]
  /\ KeepBook /\ UNCHANGED drift

SubmitCalls ==
  /\ At("accepted") /\ Guarded(book)
  /\ CallBackend("owned")

-----------------------------------------------------------------------------
(* _observe *)

SessionOf(stage) ==
  CASE stage = "queued"            -> "CREATING"
    [] stage \in {"pend", "kept"}  -> "DISCONNECTED"
    [] stage \in LegacyEnds        -> "IDLE"
    [] OTHER                       -> "BUSY"

ObserveBinds ==
  /\ At("owned") /\ legacy.stage # "absent"
  /\ Commit(Bound(Owned(book), SessionOf(legacy.stage)), "control")

(* A queued intent under a pause stays where it is. *)
HoldPaused ==
  /\ At("control") /\ legacy.stage = "queued" /\ book.desired = "PAUSED"
  /\ Commit(Undelivered(Owned(book)), "drain")

MarkUnsent ==
  /\ At("control") /\ legacy.stage = "queued" /\ book.desired = "CANCELED"
  /\ ~book.unsent
  /\ Commit([book EXCEPT !.unsent = TRUE], "control")

MustCancelCalled ==   \* mutant: only a run that was called is cancelled
  book.desired = "CANCELED" /\ ~LegacyEnded /\ ~legacy.cancel /\ ~Uncalled

MustCancel == book.desired = "CANCELED" /\ ~LegacyEnded /\ ~legacy.cancel

(* task_cancel commits the request of the cancellation first. *)
RequestCancel ==
  /\ At("control") /\ MustCancel
  /\ legacy.stage = "queued" => book.unsent
  /\ legacy' = [legacy EXCEPT !.cancel = TRUE]
  /\ Goto("cancelled")
  /\ KeepBook /\ UNCHANGED <<stand, reached, drift>>

(* task_cancel refuses under settings that are not the task's; the error is  *)
(* dropped, the next pass asks again.                                        *)
CancelRefused ==
  /\ At("control") /\ MustCancel /\ drift
  /\ legacy.stage = "queued" => book.unsent
  /\ Goto("reconcile")
  /\ KeepBook /\ KeepLegacy /\ UNCHANGED drift

NoCancel ==
  /\ At("control") /\ ~MustCancel
  /\ legacy.stage = "queued" =>
       book.desired = "RUNNING" \/ (book.desired = "CANCELED" /\ book.unsent)
  /\ Goto("reconcile")
  /\ KeepBook /\ KeepLegacy /\ UNCHANGED drift

(* An intent that was never called is recorded as cancelled. *)
CancelQueued ==
  /\ At("cancelled") /\ legacy.stage \in {"queued", "torn"}
  /\ LegacyTo("cancelled", "none")
  /\ Goto("reconcile")
  /\ KeepBook /\ UNCHANGED drift

(* ... unless the write fails: the result is kept and the poll raises. *)
CancelKept ==
  /\ At("cancelled") /\ legacy.stage \in {"queued", "torn"}
  /\ "result" \in Failures
  /\ LegacyTo("kept", "none")
  /\ Goto("idle")
  /\ KeepBook /\ UNCHANGED drift

CancelConfirmed ==
  /\ At("cancelled") /\ ~Uncalled
  /\ \/ \E stage \in {"cancelled", "succeeded"} : LegacyTo(stage, "none")
     \/ legacy.stage = "called" /\ LegacyTo("cancelled", "nospawn")
  /\ Goto("reconcile")
  /\ KeepBook /\ UNCHANGED drift

CancelUnconfirmed ==
  /\ At("cancelled") /\ legacy.stage \notin {"queued", "torn"}
  /\ Goto("reconcile")
  /\ KeepBook /\ KeepLegacy /\ UNCHANGED drift

(* task_reconcile of an unknown outcome: it stays unknown, or the recorded   *)
(* evidence decides.                                                         *)
ReconcileSkips ==
  /\ At("reconcile")
  /\ legacy.stage = "kept" => "result" \in Failures
  /\ Goto("settle")
  /\ KeepBook /\ KeepLegacy /\ UNCHANGED drift

ReconcileSettles ==
  /\ At("reconcile") /\ legacy.stage \in {"pend", "kept"}
  /\ \E stage \in LegacyEnds :
       /\ legacy.stage = "kept" => stage = "cancelled"
       /\ LegacyTo(stage, "none")
  /\ Goto("settle")
  /\ KeepBook /\ UNCHANGED drift

(* The required criteria: the execution succeeded under unchanged settings,  *)
(* and its output may have to be non-empty.                                  *)
MayPass == IF legacy.stage = "succeeded" /\ ~drift THEN BOOLEAN ELSE {FALSE}

(* The outcome is known: proofs that nothing was sent come first, a pause    *)
(* leaves acceptance and settlement to the resume.                           *)
SettleEnd ==
  /\ At("settle") /\ LegacyEnded
  /\ LET x == Owned(book)
     IN  IF legacy.receipt = "nospawn" THEN Commit(CancelNotApplied(x), "drain")
         ELSE IF legacy.receipt = "notsent" THEN Commit(NotApplied(x), "drain")
         ELSE IF x.unsent THEN Commit(CancelNotApplied(x), "drain")
         ELSE IF x.desired = "PAUSED" THEN Commit(PausedEnd(x), "drain")
         ELSE \E passed \in MayPass : Commit(Completed(x, passed), "drain")

SettleUnknown ==
  /\ At("settle") /\ legacy.stage \in {"pend", "kept"}
  /\ Commit(Unknown(Owned(book)), "drain")

(* The run goes on; its status follows the legacy run unless a pause or a    *)
(* cancellation is under way.                                                *)
Following(x) ==
  LET y == IF x.action = "UNKNOWN_REMOTE" THEN Move(x, "action", "EXECUTING") ELSE x
  IN  Move(y, "run", IF legacy.stage = "waiting" THEN "WAITING" ELSE "RUNNING")

SettleFollows ==
  /\ At("settle") /\ legacy.stage \in {"queued", "torn", "called", "working", "waiting"}
  /\ Commit(IF book.desired = "RUNNING" THEN Following(Owned(book)) ELSE Owned(book),
            "drain")

-----------------------------------------------------------------------------
(* The core: the drain of the queue at the end of a poll, or earlier when a  *)
(* result of another run freed a slot; reports of workers; operators.        *)

Draining == core.pc \in {"idle", "drain"}

InQueue == legacy.queued /\ legacy.stage \in {"queued", "torn"}

DrainPasses ==
  /\ At("drain")
  /\ Goto("idle")
  /\ KeepBook /\ KeepLegacy /\ UNCHANGED drift

DrainCalls ==
  /\ Draining /\ InQueue /\ MayAdvance(book)
  /\ legacy.stage = "queued" /\ ~legacy.cancel /\ Guarded(book)
  /\ CallBackend("idle")

(* A check fails: the run is failed without a call. *)
DrainRefuses ==
  /\ Draining /\ InQueue /\ MayAdvance(book)
  /\ LegacyTo("failed", "none")
  /\ Goto("idle")
  /\ KeepBook /\ UNCHANGED drift

(* A backend called in place returns. *)
CallReturns ==
  /\ At("calling")
  /\ \/ \E stage \in {"waiting", "pend"} \cup LegacyEnds : LegacyTo(stage, "none")
     \/ LegacyTo("failed", "notsent")
  /\ Goto(core.ret)
  /\ KeepBook /\ UNCHANGED drift

(* Executor.drain applies what a worker published: before the pass of a poll *)
(* starts.                                                                   *)
Reporting == core.pc \in {"idle", "advance"}

WorkerReports ==
  /\ Reporting
  /\ \/ legacy.stage \in {"called", "working"} /\ LegacyTo("waiting", "none")
     \/ legacy.stage \in {"called", "waiting", "pend"} /\ LegacyTo("working", "none")
  /\ KeepBook /\ UNCHANGED <<drift, core>>

(* ... and how it ended; a cancellation is honoured by an adapter that was   *)
(* asked for it, an unwritten result keeps its receipt.                      *)
WorkerEnds ==
  /\ Reporting /\ legacy.stage \in {"called", "working", "waiting"}
  /\ \/ \E stage \in LegacyEnds : LegacyTo(stage, "none")
     \/ legacy.stage # "waiting" /\ LegacyTo("failed", "notsent")
     \/ legacy.stage = "called" /\ legacy.cancel /\ LegacyTo("cancelled", "nospawn")
  /\ KeepBook /\ UNCHANGED <<drift, core>>

WorkerUnknown ==
  /\ Reporting /\ legacy.stage \in {"called", "working", "waiting"}
  /\ LegacyTo("pend", "none")
  /\ KeepBook /\ UNCHANGED <<drift, core>>

LateEnd ==
  /\ Reporting /\ legacy.stage \in {"pend", "kept"}
  /\ \/ \E stage \in LegacyEnds :
          /\ legacy.stage = "kept" => stage = "cancelled"
          /\ LegacyTo(stage, "none")
     \/ /\ "result" \in Failures /\ legacy.stage = "pend"
        /\ \/ LegacyTo("failed", "notsent")
           \/ legacy.cancel /\ LegacyTo("cancelled", "nospawn")
  /\ KeepBook /\ UNCHANGED <<drift, core>>

TerminateAnything ==   \* mutant: an outcome is overwritten
  /\ At("idle") /\ "terminate" \in Commands
  /\ legacy.stage # "absent"
  /\ legacy' = [legacy EXCEPT !.stage = "cancelled", !.cancel = TRUE, !.queued = FALSE]
  /\ stand' = [stand EXCEPT ![book.attempt] = "cancelled"]
  /\ KeepBook /\ UNCHANGED <<reached, drift, core>>

(* task.reconcile with terminate, by an operator. *)
OperatorTerminates ==
  /\ At("idle") /\ "terminate" \in Commands
  /\ legacy.stage \in {"queued", "torn", "pend"}
  /\ legacy' = [legacy EXCEPT !.stage = "cancelled", !.cancel = TRUE, !.queued = FALSE]
  /\ stand' = [stand EXCEPT ![book.attempt] = "cancelled"]
  /\ KeepBook /\ UNCHANGED <<reached, drift, core>>

-----------------------------------------------------------------------------
(* Time, and what goes wrong. *)

LeaseAges ==
  /\ InHand(book) /\ book.lease \in {"fresh", "aging"}
  /\ book' = [book EXCEPT !.lease = IF @ = "fresh" THEN "aging" ELSE "expired"]
  /\ KeepLegacy /\ UNCHANGED <<drift, core, refused>>

GrantExpires ==
  /\ InHand(book) /\ book.granted
  /\ book' = [book EXCEPT !.granted = FALSE]
  /\ KeepLegacy /\ UNCHANGED <<drift, core, refused>>

(* A transaction of the runtime raises: the poll ends as an error. *)
CommitFails ==
  /\ "commit" \in Failures
  /\ core.pc \in {"advance", "owned", "control", "settle"}
  /\ Goto("idle")
  /\ KeepBook /\ KeepLegacy /\ UNCHANGED drift

Stop(stage) ==
  /\ book' = IF InHand(book) THEN [book EXCEPT !.lease = "foreign"] ELSE book
  /\ legacy' = [legacy EXCEPT !.stage = stage, !.queued = FALSE]
  /\ Goto("down")
  /\ UNCHANGED <<stand, reached, drift, refused>>

Crash ==
  /\ MayCrash /\ ~At("down")
  /\ Stop(legacy.stage)

(* Between the two commits of a dispatch. *)
CrashInDispatch ==
  /\ MayCrash /\ Guarded(book) /\ legacy.stage = "queued" /\ ~legacy.cancel
  /\ \/ At("accepted")
     \/ Draining /\ legacy.queued
  /\ Stop("torn")

-----------------------------------------------------------------------------
(* Application.__init__: a new worker identity, perhaps other settings; what *)
(* was not called is queued again, what was is of unknown outcome unless the *)
(* evidence of a lost process or a kept result decides.                      *)

(* _restore_scheduler, the loop over the tasks. *)
Restart ==
  /\ At("down")
  /\ \E background \in Modes :
       core' = [core EXCEPT !.pc = "boot", !.background = background]
  /\ drift' \in Drifts
  /\ \/ /\ legacy.stage \in LegacyEnds \cup {"absent"}
        /\ KeepLegacy
     \/ /\ legacy.stage \in {"queued", "torn"}
        /\ legacy' = [legacy EXCEPT !.queued = TRUE]
        /\ UNCHANGED <<stand, reached>>
     \/ /\ legacy.stage \in {"called", "working", "waiting", "pend"}
        /\ LegacyTo("pend", "none")
     \/ /\ legacy.stage \in {"called", "working", "waiting", "pend"}
        /\ LegacyTo(IF legacy.cancel THEN "cancelled" ELSE "failed", "none")
     \/ /\ legacy.stage = "kept"
        /\ \E stage \in {"kept", "cancelled"} : LegacyTo(stage, "none")
  /\ KeepBook

(* _restore_scheduler ends with a drain when there is an Executor.  The      *)
(* control runtime does not exist yet, so neither the intent nor the guard   *)
(* is consulted.                                                             *)
BootCalls ==
  /\ At("boot") /\ core.background
  /\ legacy.queued /\ legacy.stage = "queued" /\ ~legacy.cancel
  /\ legacy' = [legacy EXCEPT !.stage = "called", !.queued = FALSE]
  /\ stand' = [stand EXCEPT ![book.attempt] = "called"]
  /\ reached' = reached \cup {book.attempt}
  /\ core' = [core EXCEPT !.pc = "idle", !.bypassed = @ \/ ~MayAdvance(book)]
  /\ KeepBook /\ UNCHANGED drift

BootRefuses ==
  /\ At("boot") /\ core.background /\ InQueue
  /\ LegacyTo("failed", "none")
  /\ Goto("idle")
  /\ KeepBook /\ UNCHANGED drift

BootEnds ==
  /\ At("boot")
  /\ Goto("idle")
  /\ KeepBook /\ KeepLegacy /\ UNCHANGED drift

-----------------------------------------------------------------------------
Command ==
  \/ TaskCreate \/ RunStart \/ RunPause \/ RunCancel \/ RunResume
  \/ RunTakeover \/ RunReturnControl \/ GrantRevoke

Advance ==
  \/ AdvanceNothing \/ AdvanceOwns
  \/ LocalIntentAbsent \/ IntentBeforeDelivery
  \/ DispatchWaits \/ Dispatch \/ DispatchDenied
  \/ SubmitRefused \/ SubmitCommits
  \/ SubmitQueues \/ SubmitUndispatched \/ SubmitCalls
  \/ ObserveBinds \/ HoldPaused \/ MarkUnsent
  \/ RequestCancel \/ CancelRefused \/ NoCancel
  \/ CancelQueued \/ CancelKept \/ CancelConfirmed \/ CancelUnconfirmed
  \/ ReconcileSkips \/ ReconcileSettles
  \/ SettleEnd \/ SettleUnknown \/ SettleFollows

Boot == Restart \/ BootCalls \/ BootRefuses \/ BootEnds

Drain == DrainPasses \/ DrainCalls \/ DrainRefuses

CoreStep == Poll \/ Advance \/ Drain \/ CallReturns \/ Boot

World ==
  \/ WorkerReports \/ WorkerEnds \/ WorkerUnknown \/ LateEnd
  \/ OperatorTerminates \/ LeaseAges \/ GrantExpires
  \/ CommitFails \/ Crash \/ CrashInDispatch

Next == Command \/ CoreStep \/ World

Spec == Init /\ [][Next]_vars

(* The host polls for ever, and a worker ends at some time: its adapter has  *)
(* a deadline, and a cancellation interrupts it.  Its result waits in a      *)
(* queue that every poll drains: the step is possible again and again.       *)
ControlFairness == WF_vars(CoreStep) /\ SF_vars(WorkerEnds)

FairSpec == Spec /\ ControlFairness

-----------------------------------------------------------------------------
(* Correctness. *)

(* Every variable keeps its type. *)
TypeOK ==
  /\ book \in BookType
  /\ legacy \in [stage : Stages, cancel : BOOLEAN, receipt : Receipts, queued : BOOLEAN]
  /\ stand \in [Attempts -> {"absent", "accepted", "called"} \cup LegacyEnds]
  /\ reached \subseteq Attempts
  /\ drift \in BOOLEAN /\ refused \in BOOLEAN
  /\ core \in [pc : Pcs, ret : {"idle", "owned"}, background : BOOLEAN,
               bypassed : BOOLEAN]

(* The budget of turns bounds what providers were asked: the turn of an      *)
(* attempt whose prompt may have been sent is held, uncertain or spent, never *)
(* given back, so providers see at most TurnLimit prompts of the task        *)
(* (reserve, settle and every caller of _settle_reservation).                *)
TurnsCoverCalls ==
  core.bypassed \/
  /\ \A a \in reached : book.turns[a] \in {"HELD", "UNCERTAIN", "spent"}
  /\ Cardinality(reached) <= TurnLimit

(* The rows of an attempt end together, whatever ended it and in whatever     *)
(* order commands, results and restarts came: a run is over exactly when its *)
(* Action and Assignment are, its delivery is done and its turn is settled,  *)
(* and the Task then has the outcome of its run.                             *)
EndTogether ==
  LET closed == {book.action \in ActionEnds, book.asg \in RunEnds, book.outbox = "DONE",
                 book.turns[book.attempt] \in {"free", "spent"}, book.task = book.run}
  IN  book.attempt # 0 => closed = {Ended(book)}

(* PAUSED means stopped: no backend works on a run that is shown as paused or *)
(* belongs to a human, nor is its outcome open (SPEC 6.2).  A restart may    *)
(* have called it against the intent: see CallsFollowIntent.                 *)
PausedIsQuiet ==
  ~core.bypassed /\ (book.run = "PAUSED" \/ book.owner = "human")
    => legacy.stage \notin {"called", "working", "waiting", "pend"} \/ book.run = "CANCELED"

(* An accepted cancellation decides: it is not taken back, a run ends as      *)
(* CANCELED exactly when it was cancelled, even if its backend succeeded.    *)
CancelDecides ==
  Ended(book) => (book.run = "CANCELED" <=> book.desired = "CANCELED")

(* advance meets a transition the tables refuse, which raises in every later  *)
(* poll until a client commands something, in one case only: that nothing was *)
(* sent is recorded after the outcome was taken for unknown.                 *)
LateProof == (legacy.receipt = "nospawn" \/ book.unsent) /\ book.run = "RECONCILING"
NoRefusedTransition == [][refused' # refused => LateProof \/ core.bypassed]_vars

(* A takeover that was asked for ends with the pause it was asked with: it    *)
(* does not wait for the next pause to hand the run to a human.              *)
TakeoverEndsWithPause == book.takeover => book.desired # "RUNNING"

(* The legacy run moves as RunPromise says: what this module takes for        *)
(* granted of the core is what RunLifecycle implements.                      *)
Core == INSTANCE RunPromise WITH Runs <- Attempts, Inherited <- {}, promise <- stand
PromiseKept == Core!Spec

(* No backend is called for a run whose intent is PAUSED or CANCELED, or that *)
(* belongs to a human: only resume and return_control make it go on, no      *)
(* lost connection and no restart.                                           *)
CallsFollowIntent == [][reached' \subseteq reached \/ MayAdvance(book)]_vars

(* A process that is restarted after every crash, and crashes finitely often. *)
StaysUp == <>[](core.pc # "down")

(* A cancelled run ends, unless its outcome stays unknown: whatever was done  *)
(* of the cancellation before a crash, the passes that follow go on with it. *)
CancelFinishes ==
  StaysUp => (book.desired = "CANCELED" ~> (Ended(book) \/ legacy.stage = "pend"))

(* What the core recorded as ended is settled, unless a pause defers it. *)
EndIsRecorded ==
  LegacyEnded /\ ~Ended(book) ~> (Ended(book) \/ book.desired = "PAUSED")

(* The rows of a task agree with each other and with its cancellation, in     *)
(* every state between two transactions.                                     *)
BookConsistent == TypeOK /\ EndTogether /\ CancelDecides
=============================================================================
