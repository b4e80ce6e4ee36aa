----------------------------- MODULE Scheduler -----------------------------
(***************************************************************************)
(* The in-memory scheduler of the core (scheduler.py): how many runs each   *)
(* backend executes, which runs these are, and the bounded FIFO of runs     *)
(* that wait.  Constant level: a scheduler is a value                       *)
(*   [inflight : backend -> count, runs : set of runs, queue : sequence]    *)
(* and each method is an operator on it.                                    *)
(*                                                                          *)
(* `workspaces` of the code maps every run in `inflight_runs` to its        *)
(* workspace root: application.py always passes a key, so the map is        *)
(* exactly WorkspaceOf restricted to `runs` and is not kept separately.     *)
(***************************************************************************)
EXTENDS Integers, Sequences, FiniteSets, Folds

CONSTANTS
  Runs,             \* run ids (one task each)
  Backends,         \* backend names
  Workspaces,       \* workspace roots
  BackendOf,        \* the backend a run is bound to at submission
  WorkspaceOf,      \* the workspace root of the run's task
  MaxQueue,         \* scheduler.max_queue
  PerBackend,       \* scheduler.per_backend_concurrency
  MaxConcurrency,   \* scheduler.max_concurrency, or Unlimited
  Unlimited         \* `max_concurrency` left out of the configuration

ASSUME SchedulerAssumption ==
  /\ IsFiniteSet(Runs) /\ IsFiniteSet(Backends)
  /\ BackendOf \in [Runs -> Backends]
  /\ WorkspaceOf \in [Runs -> Workspaces]
  /\ MaxQueue \in Nat
  /\ PerBackend \in Nat \ {0}
  /\ MaxConcurrency = Unlimited \/ MaxConcurrency \in Nat \ {0}

EmptyScheduler ==
  [inflight |-> [b \in Backends |-> 0], runs |-> {}, queue |-> <<>>]

SchedulerType ==
  [inflight : [Backends -> Nat], runs : SUBSET Runs, queue : Seq(Runs)]

InflightTotal(s) ==
  MapThenFoldSet(+, 0, LAMBDA b : s.inflight[b], LAMBDA S : CHOOSE b \in S : TRUE, Backends)

CanStartAnywhere(s, r) ==   \* mutant: workspaces are not exclusive
  /\ MaxConcurrency # Unlimited => InflightTotal(s) < MaxConcurrency
  /\ s.inflight[BackendOf[r]] < PerBackend

(* can_start: the global limit, the backend's limit, and one run at a time  *)
(* in a workspace.                                                          *)
CanStart(s, r) ==
  /\ MaxConcurrency # Unlimited => InflightTotal(s) < MaxConcurrency
  /\ s.inflight[BackendOf[r]] < PerBackend
  /\ \A q \in s.runs : WorkspaceOf[q] # WorkspaceOf[r]

CanEnqueue(s) == Len(s.queue) < MaxQueue

StartAgain(s, r) ==   \* mutant: a run that is counted is counted again
  [s EXCEPT !.inflight[BackendOf[r]] = @ + 1, !.runs = @ \cup {r}]

(* start: idempotent by run id. *)
Start(s, r) ==
  IF r \in s.runs
  THEN s
  ELSE [s EXCEPT !.inflight[BackendOf[r]] = @ + 1, !.runs = @ \cup {r}]

FinishAgain(s, r) ==   \* mutant: finish is not idempotent
  [s EXCEPT !.inflight[BackendOf[r]] = @ - 1, !.runs = @ \ {r}]

(* finish: a run that is not counted is left alone; the count never goes    *)
(* below zero.                                                              *)
Finish(s, r) ==
  IF r \notin s.runs
  THEN s
  ELSE [s EXCEPT !.inflight[BackendOf[r]] = IF @ <= 1 THEN 0 ELSE @ - 1,
                 !.runs = @ \ {r}]

Enqueue(s, r) == [s EXCEPT !.queue = Append(@, r)]

RemoveNothing(s, r) == s   \* mutant: the item stays in the queue

(* remove: the item of a run leaves the queue.  The list comprehension of    *)
(* the code would drop several; a run never waits twice (QueueSound).        *)
Place(q, r) == CHOOSE i \in DOMAIN q : q[i] = r

Remove(s, r) ==
  IF \A i \in DOMAIN s.queue : s.queue[i] # r
  THEN s
  ELSE LET i == Place(s.queue, r)
       IN  [s EXCEPT !.queue = SubSeq(@, 1, i - 1) \o SubSeq(@, i + 1, Len(@))]
=============================================================================
