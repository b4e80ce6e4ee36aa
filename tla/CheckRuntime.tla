---------------------------- MODULE CheckRuntime ----------------------------
(***************************************************************************)
(* The checks a caller may run on the target of a run (check_runtime.py,    *)
(* local_checks.py): the durable rows under run.native.local_checks, the    *)
(* table of the checks at work, their worker threads and the update queue   *)
(* of their executor, while the target files and the configuration change,  *)
(* callers cancel, writes fail and the core stops.                          *)
(*                                                                          *)
(*   row[j]     the durable row of job j: its status, the verdict of its    *)
(*              report, the key it was asked under, the version of the      *)
(*              target and of the check it is bound to                      *)
(*   mem        memory of the core: `active`, "on" or "stop" (its event is  *)
(*              set), `worker` where its thread is, `got` what the thread   *)
(*              brings, `cand` the reports it may reuse, `queue` the updates*)
(*   target     what the selected files hold now (a bound version stands    *)
(*              for run, revision, input and files together)                *)
(*   check      the configured command now                                  *)
(***************************************************************************)
EXTENDS Naturals, Sequences, FiniteSets, SequencesExt

CONSTANTS
  Jobs,          \* 1 .. MAX_JOBS, in the order of submission
  Keys,          \* idempotency keys of callers
  Targets,       \* versions of the target
  Checks,        \* versions of the configured command
  Concurrency,   \* config.scheduler.local_check_concurrency
  MaxCheckFails, \* bound: writes that fail
  MaxCheckStops  \* bound: times the core stops or crashes

ASSUME CheckRuntimeAssumption ==
  /\ Jobs = 1 .. Cardinality(Jobs) /\ Cardinality(Jobs) \in Nat
  /\ Concurrency \in Nat \ {0} /\ MaxCheckFails \in Nat /\ MaxCheckStops \in Nat

VARIABLES row, mem, target, check, checkUp, checkFails, checkStops

checkVars == <<row, mem, target, check, checkUp, checkFails, checkStops>>

Verdicts == {"passed", "failed"}
NoKey == "none"
CheckEnds == {"completed", "cancelled", "stale", "failed", "unknown"}
Open == {"running", "cancelling"}
NoJob == [status |-> "absent", verdict |-> "none", key |-> NoKey, target |-> 0, check |-> 0]

Idle == [active |-> [j \in Jobs |-> "no"], worker |-> [j \in Jobs |-> "none"],
         got |-> [j \in Jobs |-> [status |-> "none", verdict |-> "none"]],
         cand |-> [j \in Jobs |-> {}], queue |-> <<>>]

CheckInit ==
  /\ row = [j \in Jobs |-> NoJob] /\ mem = Idle
  /\ target \in Targets /\ check \in Checks
  /\ checkUp = TRUE /\ checkFails = 0 /\ checkStops = 0

CheckTypeOK ==
  /\ row \in [Jobs -> [status : {"absent"} \cup Open \cup CheckEnds, verdict : Verdicts \cup {"none"},
                       key : Keys \cup {NoKey}, target : Targets \cup {0}, check : Checks \cup {0}]]
  /\ mem \in [active : [Jobs -> {"no", "on", "stop"}],
              worker : [Jobs -> {"none", "start", "work", "put", "wait", "end"}],
              got : [Jobs -> [status : CheckEnds \cup {"none"}, verdict : Verdicts \cup {"none"}]],
              cand : [Jobs -> SUBSET Verdicts], queue : Seq(Jobs)]
  /\ target \in Targets /\ check \in Checks /\ checkUp \in BOOLEAN
  /\ checkFails \in 0 .. MaxCheckFails /\ checkStops \in 0 .. MaxCheckStops

Active(m) == {j \in Jobs : m.active[j] # "no"}

(* What a row is bound to still holds.                                       *)
CheckBound(r) == r.target = target /\ r.check = check

(* Mutant: a completed report is taken as it is.                             *)
RecordedUnbound(r, stopped, got) ==
  IF r.status = "cancelling" \/ stopped THEN [r EXCEPT !.status = "cancelled"]
  ELSE [r EXCEPT !.status = got.status, !.verdict = got.verdict]

(* The row after the update of job j: an asked cancellation wins over any    *)
(* report, and a report counts only for the target and the check as they are.*)
Recorded(r, stopped, got) ==
  LET cancelled == r.status = "cancelling" \/ stopped
      stale == got.status = "completed" /\ ~CheckBound(r)
  IN [r EXCEPT !.status = IF cancelled THEN "cancelled" ELSE IF stale THEN "stale" ELSE got.status,
               !.verdict = IF ~cancelled /\ ~stale THEN got.verdict ELSE "none"]

(* Mutant: a job without a thread is dropped from memory alone.              *)
LostInMemory(r) == r

Lost(r) == [r EXCEPT !.status = "unknown", !.verdict = "none"]

(* CheckRuntime.drain with the write for job `bad` failing (0: none does):   *)
(* the updates before it are recorded, it is acknowledged with its error and *)
(* the rest stays queued; only an emptied queue lets the core look for       *)
(* active jobs without a thread, whose outcome is then unknown.              *)
Drained(rows, m, bad) ==
  LET n == IF bad \in ToSet(m.queue) THEN CHOOSE i \in DOMAIN m.queue : m.queue[i] = bad
           ELSE Len(m.queue) + 1
      noted == {m.queue[i] : i \in 1 .. (n - 1)} \cap Active(m)
      alone == {j \in Active(m) \ ToSet(m.queue) : n = Len(m.queue) + 1 /\ m.worker[j] = "none"
                                                   /\ (bad # 0 => j < bad)}
      taken == {m.queue[i] : i \in DOMAIN m.queue \cap (1 .. n)}
  IN [row |-> [j \in Jobs |-> IF j \in noted THEN Recorded(rows[j], m.active[j] = "stop", m.got[j])
                              ELSE IF j \in alone THEN Lost(rows[j]) ELSE rows[j]],
      mem |-> [m EXCEPT !.active = [j \in Jobs |-> IF j \in noted \cup alone THEN "no" ELSE @[j]],
                        !.worker = [j \in Jobs |-> IF j \in taken THEN "end" ELSE @[j]],
                        !.queue = SubSeq(@, n + 1, Len(@))]]

(* A handler whose drain works on these rows and this memory.                *)
DrainRows(rows, m) ==
  \E bad \in {0} \cup (IF checkFails < MaxCheckFails THEN Active(m) ELSE {}) :
    /\ bad # 0 => bad \in ToSet(m.queue) \/ m.worker[bad] = "none"
    /\ row' = Drained(rows, m, bad).row /\ mem' = Drained(rows, m, bad).mem
    /\ checkFails' = checkFails + (IF bad = 0 THEN 0 ELSE 1)

KeepWorld == UNCHANGED <<target, check>>
KeepHost == UNCHANGED <<checkUp, checkStops>>

(* Mutant: drain looks for jobs without a thread only while updates wait.    *)
DrainQueuedOnly == checkUp /\ mem.queue # <<>> /\ DrainRows(row, mem) /\ KeepWorld /\ KeepHost

(* poll and workflow.check-status take the updates in.                       *)
DrainChecks == checkUp /\ DrainRows(row, mem) /\ KeepWorld /\ KeepHost

(* A new job: no row holds the key, a slot is free and a row too. The row is *)
(* committed before anything starts; a failed commit leaves nothing.         *)
Fresh(d, j, k) ==
  /\ \A i \in Jobs : d.row[i].status = "absent" <=> i >= j
  /\ k = NoKey \/ \A i \in Jobs : d.row[i].key # k
  /\ Cardinality(Active(d.mem)) < Concurrency

Intent(k) == [status |-> "running", verdict |-> "none", key |-> k, target |-> target, check |-> check]

(* The reports of finished jobs for the same target and the same command.    *)
Reusable(d) == {d.row[i].verdict : i \in {i \in Jobs : d.row[i].status = "completed" /\ CheckBound(d.row[i])}}

(* workflow.check with "async": its thread starts, or cannot be started and  *)
(* the row becomes unknown, unless that write fails too.                     *)
SubmitAsync(k) ==
  /\ checkUp /\ k # NoKey
  /\ LET d == Drained(row, mem, 0)
         Put(j, status, active, worker) ==
           /\ row' = [d.row EXCEPT ![j] = [Intent(k) EXCEPT !.status = status]]
           /\ mem' = [d.mem EXCEPT !.active[j] = active, !.worker[j] = worker, !.cand[j] = Reusable(d)]
     IN \E j \in Jobs :
          /\ Fresh(d, j, k)
          /\ \/ Put(j, "running", "on", "start") /\ UNCHANGED checkFails
             \/ Put(j, "unknown", "no", "none") /\ UNCHANGED checkFails
             \/ /\ checkFails < MaxCheckFails /\ checkFails' = checkFails + 1
                /\ Put(j, "running", "on", "none")
  /\ KeepWorld /\ KeepHost

(* What running the command may report: its verdict while the target stayed  *)
(* as it was bound, or a failure before or after.                            *)
Reports(same) ==
  (IF same THEN [status : {"completed"}, verdict : Verdicts] ELSE {[status |-> "stale", verdict |-> "none"]})
  \cup [status : {"failed", "unknown"}, verdict : {"none"}]

(* workflow.check inline: the core waits for the command, the files may      *)
(* change meanwhile, and the row is recorded or that write fails.            *)
SubmitInline(k) ==
  /\ checkUp
  /\ LET d == Drained(row, mem, 0) IN
     \E j \in Jobs :
       /\ Fresh(d, j, k)
       /\ target' \in Targets
       /\ \/ \E got \in Reports(TRUE) \cup Reports(FALSE) :
               LET ran == [d.row EXCEPT ![j] = Intent(k)] IN
               /\ row' = [ran EXCEPT ![j] = IF target' = target THEN Recorded(@, FALSE, got)
                                            ELSE [@ EXCEPT !.status = IF got.status = "completed"
                                                                     THEN "stale" ELSE got.status]]
               /\ mem' = d.mem /\ UNCHANGED checkFails
          \/ /\ checkFails < MaxCheckFails /\ checkFails' = checkFails + 1
             /\ row' = [d.row EXCEPT ![j] = Intent(k)]
             /\ mem' = [d.mem EXCEPT !.active[j] = "on"]
  /\ KeepHost /\ UNCHANGED check

(* workflow.check-cancel: the intent to cancel is committed, then the event  *)
(* is set, then results are taken in.                                        *)
CancelCheck(j) ==
  /\ checkUp /\ row[j].status \in Open
  /\ \/ checkFails < MaxCheckFails /\ checkFails' = checkFails + 1 /\ UNCHANGED <<row, mem>>
     \/ DrainRows([row EXCEPT ![j].status = "cancelling"],
              [mem EXCEPT !.active[j] = IF @ = "no" THEN "no" ELSE "stop"])
  /\ KeepWorld /\ KeepHost

(* The thread of a job. It first compares the files with the bound version,  *)
(* or reuses a report, runs the command, and compares them again.            *)
Brings(j, got) == mem' = [mem EXCEPT !.worker[j] = "put", !.got[j] = got]

WorkerStarts(j) ==
  /\ mem.worker[j] = "start"
  /\ \/ mem.active[j] = "stop" /\ Brings(j, [status |-> "cancelled", verdict |-> "none"])
       
     \/ /\ mem.active[j] # "stop"
        /\ \/ target = row[j].target /\ mem' = [mem EXCEPT !.worker[j] = "work"]
           \/ target # row[j].target /\ Brings(j, [status |-> "stale", verdict |-> "none"])
             
           \/ \E v \in mem.cand[j] : Brings(j, [status |-> "completed", verdict |-> v])
             
  /\ KeepWorld /\ KeepHost /\ UNCHANGED <<row, checkFails>>

CheckWorkerEnds(j) ==
  /\ mem.worker[j] = "work"
  /\ \/ mem.active[j] = "stop" /\ Brings(j, [status |-> "cancelled", verdict |-> "none"])
     \/ mem.active[j] # "stop" /\ \E got \in Reports(target = row[j].target) : Brings(j, got)
  /\ KeepWorld /\ KeepHost /\ UNCHANGED <<row, checkFails>>

(* Executor.publish: the update is queued and waits for its acknowledgement; *)
(* the thread ends after it.                                                 *)
WorkerPublishes(j) ==
  /\ mem.worker[j] = "put"
  /\ mem' = [mem EXCEPT !.worker[j] = "wait", !.queue = Append(@, j)]
  /\ KeepWorld /\ KeepHost /\ UNCHANGED <<row, checkFails>>

WorkerExits(j) ==
  /\ mem.worker[j] = "end" /\ mem' = [mem EXCEPT !.worker[j] = "none"]
  /\ KeepWorld /\ KeepHost /\ UNCHANGED <<row, checkFails>>

(* close: every event is set and the executor stops, so a thread that has    *)
(* not published never will; queued updates are taken in, and what is still  *)
(* active is unknown. A failed write leaves the rest as it is.               *)
CloseChecks ==
  /\ checkUp /\ checkStops < MaxCheckStops
  /\ LET stopped == [mem EXCEPT !.active = [j \in Jobs |-> IF @[j] = "no" THEN "no" ELSE "stop"],
                                !.worker = [j \in Jobs |-> IF j \in ToSet(mem.queue) THEN @[j] ELSE "none"]]
     IN \E bad \in {0} \cup (IF checkFails < MaxCheckFails THEN Active(mem) ELSE {}) :
          /\ row' = Drained(row, stopped, bad).row
          /\ checkFails' = checkFails + (IF bad = 0 THEN 0 ELSE 1)
  /\ mem' = Idle /\ checkUp' = FALSE /\ checkStops' = checkStops + 1
  /\ KeepWorld

CrashChecks ==
  /\ checkUp /\ checkStops < MaxCheckStops
  /\ checkUp' = FALSE /\ checkStops' = checkStops + 1 /\ mem' = Idle
  /\ KeepWorld /\ UNCHANGED <<row, checkFails>>

(* restore: an open row may have run, so it is unknown and not run again.    *)
RestoreChecks ==
  /\ ~checkUp
  /\ \/ /\ row' = [j \in Jobs |-> IF row[j].status \in Open THEN Lost(row[j]) ELSE row[j]]
        /\ checkUp' = TRUE /\ UNCHANGED checkFails
     \/ /\ checkFails < MaxCheckFails /\ checkFails' = checkFails + 1
        /\ UNCHANGED <<row, checkUp>>
  /\ KeepWorld /\ UNCHANGED <<mem, checkStops>>

(* The caller edits the files; an operator applies another configuration.    *)
WorldMoves ==
  /\ \/ target' \in Targets \ {target} /\ UNCHANGED check
     \/ check' \in Checks \ {check} /\ UNCHANGED target
  /\ KeepHost /\ UNCHANGED <<row, mem, checkFails>>

CheckNext ==
  \/ DrainChecks \/ CloseChecks \/ CrashChecks \/ RestoreChecks \/ WorldMoves
  \/ \E k \in Keys : SubmitAsync(k) \/ SubmitInline(k)
  \/ SubmitInline(NoKey)
  \/ \E j \in Jobs : CancelCheck(j) \/ WorkerStarts(j) \/ CheckWorkerEnds(j)
                     \/ WorkerPublishes(j) \/ WorkerExits(j)

CheckFairness ==
  /\ WF_checkVars(DrainChecks)
  /\ \A j \in Jobs : WF_checkVars(WorkerStarts(j) \/ CheckWorkerEnds(j) \/ WorkerPublishes(j) \/ WorkerExits(j))

CheckSpec == CheckInit /\ [][CheckNext]_checkVars /\ CheckFairness

(* A check whose row is open is one the core still has at work: whatever     *)
(* write failed and however its thread ended, the core has not forgotten it. *)
OpenHasOwner == checkUp => \A j \in Jobs : row[j].status \in Open => mem.active[j] # "no"

(* No more commands run at a time than the configured slots, also when a     *)
(* row was given up or its write failed.                                     *)
SlotsBoundChecks == Cardinality({j \in Jobs : mem.worker[j] \in {"start", "work"}}) <= Concurrency

(* A report is published only for the target and the command as they are at  *)
(* that moment, and never once a cancellation was recorded.                  *)
ReportIsCurrent ==
  [][\A j \in Jobs : row[j].status # "completed" /\ row'[j].status = "completed" =>
       row[j].status # "cancelling" /\ row'[j].target = target /\ row'[j].check = check]_checkVars

(* What a caller was told of a finished check stays so: a late update or a   *)
(* restart does not touch a closed row, and a recorded cancellation ends in  *)
(* cancelled or unknown.                                                     *)
ClosedStays ==
  [][\A j \in Jobs :
       /\ row[j].status \in CheckEnds => row'[j] = row[j]
       /\ row[j].status = "cancelling" => row'[j].status \in {"cancelling", "cancelled", "unknown"}]_checkVars

(* A check does not stay open while the core polls on.                       *)
CheckSettles == \A j \in Jobs : row[j].status \in Open ~> (row[j].status \in CheckEnds \/ ~checkUp)

(* Whatever write fails, whoever cancels and however a thread ends: an open  *)
(* check is at work, and its report counts only for what is there, once.     *)
ChecksSafety ==
  /\ [](CheckTypeOK /\ OpenHasOwner /\ SlotsBoundChecks)
  /\ ReportIsCurrent /\ ClosedStays
=============================================================================
