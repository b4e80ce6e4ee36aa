--------------------------- MODULE ContextSegments ---------------------------
(***************************************************************************)
(* The runs of one task that is worked on in segments (context_budget/,      *)
(* capsule/, and their calls in application.py): a run that ends at its      *)
(* limit is continued by a successor made from a capsule; the tokens of      *)
(* every run are reserved before it is sent and settled when it ends.  The   *)
(* core is one thread; it may die between any two commits and come back      *)
(* with another configuration.                                               *)
(*                                                                          *)
(*   srun[r]   the row of run r: status, segmented, the run it continues,    *)
(*             contract of its capsule, segment_end marker                   *)
(*   sres[r]   its reservation; hard  limit of the budget, 0 if none          *)
(*   stask     current run, number of runs, pause, version of the contract   *)
(*   enforce   context_budget.mode and the whitelists ask for segments       *)
(*   queued    the scheduler's queue, in memory                              *)
(*   spc       what the core thread is doing, for which run, and whether it   *)
(*             will save a copy of that run's row made before it was judged  *)
(*   judged[s] s was found to have no successor                              *)
(***************************************************************************)
EXTENDS Integers, FiniteSets, FiniteSetsExt

CONSTANTS
  SegRuns,       \* numbers of the runs the task may have
  Contracts,     \* versions of the task's contract (findings, repairs ...)
  Soft,          \* segment_soft of the profile, 0 when it has none
  TaskHard,      \* task_hard of the profile, 0 when it has none
  MaxSegments,   \* max_segments of the profile
  MaxPerTask,    \* scheduler.max_runs_per_task
  Amounts,       \* tokens a provider may report
  Presents,      \* results may carry a changed desktop presentation
  MaxSegRestarts \* bound on restarts

ASSUME ContextSegmentsAssumption ==
  /\ Soft \in Nat /\ TaskHard \in Nat /\ MaxSegments \in Nat \ {0} /\ MaxPerTask \in Nat
  /\ Amounts \subseteq Nat /\ Presents \in BOOLEAN /\ MaxSegRestarts \in Nat

VARIABLES srun, sres, hard, stask, enforce, queued, spc, judged, segRestarts

segVars == <<srun, sres, hard, stask, enforce, queued, spc, judged, segRestarts>>

NotJudged == "none"
UnknownUse == 0 - 1    \* a provider that reports no consumption
NoRow == [status |-> "none", segment |-> FALSE, index |-> 0, source |-> 0, capsule |-> 0, end |-> NotJudged, by |-> 0]
Row(source, index, capsule) ==
  [NoRow EXCEPT !.status = "queued", !.segment = source # 0, !.source = source, !.index = index, !.capsule = capsule]
NoReserve == [status |-> "none", reserved |-> 0, actual |-> 0]
AtRest == [step |-> "idle", run |-> 0, stale |-> FALSE, next |-> 0]
SegOver == {"limit", "done", "refused"}      \* TERMINAL_RUN_STATUSES
Reasons == {"disabled", "max_segments", "max_runs", "budget", "capsule_not_ready", "queue_full"}

SegInit ==
  /\ srun = [r \in SegRuns |-> IF r = 1 THEN Row(0, 0, 0) ELSE NoRow]
  /\ sres = [r \in SegRuns |-> NoReserve] /\ hard = 0
  /\ stask = [current |-> 1, count |-> 1, paused |-> FALSE, contract |-> 1]
  /\ enforce \in BOOLEAN /\ queued = {1} /\ spc = AtRest
  /\ judged = [r \in SegRuns |-> FALSE] /\ segRestarts = 0

SegTypeOK ==
  /\ \A r \in SegRuns : /\ srun[r].status \in {"none", "queued", "sent"} \cup SegOver
                        /\ srun[r].source \in SegRuns \cup {0} /\ srun[r].by \in SegRuns \cup {0}
                        /\ srun[r].end \in {NotJudged, "turn_budget"} \cup Reasons
                        /\ sres[r].status \in {"none", "HELD", "SETTLED", "UNCERTAIN"}
                        /\ sres[r].reserved \in Nat /\ sres[r].actual \in Nat
  /\ stask.current \in SegRuns /\ stask.count \in 1 .. Cardinality(SegRuns) /\ stask.contract \in Contracts
  /\ queued \subseteq SegRuns /\ spc.step \in {"idle", "reserved", "judge", "capsule", "drain"}

-----------------------------------------------------------------------------
(* The ledger (context_budget/ledger.py).                                    *)

SumOver(S, f) == FoldSet(LAMBDA r, acc : acc + f[r], 0, S)
Counted(r) == IF sres[r].status = "SETTLED" THEN sres[r].actual ELSE sres[r].reserved

(* _budget_totals: what was settled and what is held, uncertain or not.      *)
Used == SumOver(SegRuns, [r \in SegRuns |-> Counted(r)])

Least(a, b) == IF a < b THEN a ELSE b
Most(a, b) == IF a > b THEN a ELSE b

(* What guard_dispatch asks for: the soft limit, or all that is left.        *)
Asked(limit) == IF Soft > 0 THEN Least(Soft, limit) ELSE Most(1, Least(limit, limit - Used))

Limit == IF hard # 0 THEN hard ELSE TaskHard   \* the budget keeps its first limit

Reservable(r) == sres[r] # NoReserve \/ Used + Asked(Limit) <= Limit

ReservedForSegments(r) ==   \* mutant: only a continuation is reserved for
  IF Limit = 0 \/ srun[r].source = 0 THEN sres ELSE [sres EXCEPT ![r] = [status |-> "HELD", reserved |-> Asked(Limit), actual |-> 0]]

ReservedNow(r) ==
  IF Limit = 0 \/ sres[r] # NoReserve THEN sres
  ELSE [sres EXCEPT ![r] = [status |-> "HELD", reserved |-> Asked(Limit), actual |-> 0]]

(* settle_run: once, from what the run reported; unknown keeps its amount.   *)
SettledBy(r, reported) ==
  IF sres[r].status # "HELD" THEN sres
  ELSE IF reported = UnknownUse THEN [sres EXCEPT ![r].status = "UNCERTAIN"]
  ELSE [sres EXCEPT ![r].status = "SETTLED", ![r].actual = reported]

-----------------------------------------------------------------------------
(* Dispatch of a queued run: _drain_queue, _dispatch_committed.              *)

Successor(s, r) == srun[r].source = s

(* guard_continuation: a lost marker is restored from the successor's key.   *)
MarkerHeld(r) ==
  LET s == srun[r].source IN /\ srun[s].status \in SegOver
                             /\ srun[s].by = r \/ (srun[s].by = 0 /\ Successor(s, r))

CapsuleFits(r) == srun[r].capsule = stask.contract

SegGuarded(r) ==
  srun[r].source # 0 =>
     /\ enforce /\ stask.count <= MaxPerTask /\ stask.current = r /\ MarkerHeld(r) /\ CapsuleFits(r)

Healed(r) ==
  LET s == srun[r].source IN
  IF s # 0 /\ srun[s].by = 0 THEN [srun EXCEPT ![s].end = "turn_budget", ![s].by = r] ELSE srun

SegDraining(r) == spc.step \in {"idle", "drain"} /\ r \in queued /\ ~stask.paused /\ srun[r].status = "queued" /\ stask.current = r

(* The restored marker is saved before the reservation; nothing is lost      *)
(* between the two.  Checks that fail end the run without a call; a reservation it holds from  *)
(* an earlier attempt becomes uncertain with it.                             *)
DispatchFails(r) ==
  /\ SegDraining(r) /\ ~(SegGuarded(r) /\ (enforce /\ Limit # 0 => Reservable(r)))
  /\ srun' = [srun EXCEPT ![r].status = "refused"] /\ sres' = SettledBy(r, UnknownUse)
  /\ queued' = queued \ {r}
  /\ UNCHANGED <<hard, stask, enforce, spc, judged, segRestarts>>

(* The reservation is a commit of its own ...                                *)
Reserve(r) ==
  /\ SegDraining(r) /\ SegGuarded(r) /\ (enforce /\ Limit # 0 => Reservable(r))
  /\ srun' = Healed(r)
  /\ sres' = IF enforce THEN ReservedNow(r) ELSE sres
  /\ hard' = IF enforce THEN Limit ELSE hard
  /\ queued' = queued \ {r} /\ spc' = [spc EXCEPT !.step = "reserved", !.next = r]
  /\ UNCHANGED <<stask, enforce, judged, segRestarts>>

(* ... before the run is marked and the backend called.                      *)
SendSegment ==
  /\ spc.step = "reserved"
  /\ srun' = [srun EXCEPT ![spc.next].status = "sent", ![spc.next].segment = @ \/ enforce]
  /\ spc' = IF spc.run = 0 THEN AtRest ELSE [spc EXCEPT !.step = "drain", !.next = 0]
  /\ UNCHANGED <<sres, hard, stask, enforce, queued, judged, segRestarts>>

-----------------------------------------------------------------------------
(* A result, its settlement and the decision on a successor.                 *)

(* The row, its operation and its settlement are one transaction.            *)
SegResult(r, kind, reported, presents) ==
  /\ spc = AtRest /\ srun[r].status = "sent"
  /\ srun' = [srun EXCEPT ![r].status = kind] /\ sres' = SettledBy(r, reported)
  /\ spc' = [AtRest EXCEPT !.step = IF srun[r].segment THEN "judge" ELSE "drain", !.run = r, !.stale = presents]
  /\ UNCHANGED <<hard, stask, enforce, queued, judged, segRestarts>>

Judging(r) == spc.step = "judge" /\ spc.run = r

Undecided(r) == srun[r].status # "limit" \/ srun[r].end = "disabled" \/ stask.paused \/ stask.current # r

(* segment_end(run) fails, it was already stopped, or a human owns the task. *)
JudgeNothing(r) ==
  /\ Judging(r) /\ Undecided(r)
  /\ spc' = [spc EXCEPT !.step = "drain"]
  /\ UNCHANGED <<srun, sres, hard, stask, enforce, queued, judged, segRestarts>>

(* The reasons of _continue_segment, in its order.                           *)
StopReason(r) ==
  CASE ~enforce -> "disabled"
    [] srun[r].index + 1 >= MaxSegments -> "max_segments"
    [] stask.count >= MaxPerTask -> "max_runs"
    [] hard # 0 /\ Soft > 0 /\ Used + Soft > hard -> "budget"
    [] OTHER -> NotJudged

Stopped(r, why) ==
  /\ srun' = [srun EXCEPT ![r].end = why, ![r].by = 0]
  /\ judged' = [judged EXCEPT ![r] = TRUE] /\ spc' = [spc EXCEPT !.step = "drain"]
  /\ UNCHANGED <<sres, hard, stask, enforce, queued, segRestarts>>

JudgeStops(r) ==
  /\ Judging(r) /\ ~Undecided(r) /\ StopReason(r) # NotJudged
  /\ Stopped(r, StopReason(r))

(* The capsule is written, by a commit of its own, or it is not ready.       *)
WriteCapsule(r) ==
  /\ Judging(r) /\ ~Undecided(r) /\ StopReason(r) = NotJudged
  /\ \/ /\ spc' = [spc EXCEPT !.step = "capsule"]
        /\ UNCHANGED <<srun, sres, hard, stask, enforce, queued, judged, segRestarts>>
     \/ Stopped(r, "capsule_not_ready")

FreshRun == {n \in SegRuns : srun[n] = NoRow /\ \A m \in 1 .. n - 1 : srun[m] # NoRow}

IntentOnly(r, n) ==   \* mutant: the task is pointed at its new run later
  /\ srun' = [srun EXCEPT ![n] = Row(r, srun[r].index + 1, stask.contract), ![r].end = "turn_budget", ![r].by = n]
  /\ stask' = [stask EXCEPT !.count = @ + 1]

(* commit_intent and the marker on the source, in one transaction.           *)
Continued(r, n) ==
  /\ srun' = [srun EXCEPT ![n] = Row(r, srun[r].index + 1, stask.contract), ![r].end = "turn_budget", ![r].by = n]
  /\ stask' = [stask EXCEPT !.count = @ + 1, !.current = n]

CommitSuccessor(r) ==
  /\ spc.step = "capsule" /\ spc.run = r
  /\ \/ /\ \E n \in FreshRun : Continued(r, n) /\ queued' = queued \cup {n}
        /\ spc' = [spc EXCEPT !.step = "drain"]
        /\ UNCHANGED <<sres, hard, enforce, judged, segRestarts>>
     \/ Stopped(r, "queue_full")

(* The queue is drained; then the row is saved as it was before it was       *)
(* judged, with the presentation of the project added.                       *)
PresentedRow(r) == [srun EXCEPT ![r].end = NotJudged, ![r].by = 0]

FinishResult ==
  /\ spc.step = "drain" /\ spc' = AtRest
  /\ srun' = IF spc.stale THEN PresentedRow(spc.run) ELSE srun
  /\ UNCHANGED <<sres, hard, stask, enforce, queued, judged, segRestarts>>

-----------------------------------------------------------------------------
(* Requests, between two results.                                            *)

PauseTask ==
  /\ spc = AtRest /\ ~stask.paused /\ stask' = [stask EXCEPT !.paused = TRUE]
  /\ UNCHANGED <<srun, sres, hard, enforce, queued, spc, judged, segRestarts>>

(* A resume judges an ended segment that was not judged.                     *)
Unjudged(r) == srun[r].status \in SegOver /\ srun[r].segment /\ srun[r].end = NotJudged

ResumeTask ==
  /\ spc = AtRest /\ stask.paused /\ stask' = [stask EXCEPT !.paused = FALSE]
  /\ spc' = IF Unjudged(stask.current) THEN [AtRest EXCEPT !.step = "judge", !.run = stask.current] ELSE spc
  /\ UNCHANGED <<srun, sres, hard, enforce, queued, judged, segRestarts>>

(* workflow.evaluate replaces the findings, also while a continuation waits; *)
(* workflow.repair needs an ended run.                                       *)
EvaluateTask(c) ==
  /\ spc = AtRest /\ stask' = [stask EXCEPT !.contract = c]
  /\ UNCHANGED <<srun, sres, hard, enforce, queued, spc, judged, segRestarts>>

RepairTask(c) ==
  /\ spc = AtRest /\ srun[stask.current].status \in SegOver /\ ~stask.paused /\ stask.count < MaxPerTask
  /\ \E n \in FreshRun :
       /\ srun' = [srun EXCEPT ![n] = Row(0, 0, 0)] /\ queued' = queued \cup {n}
       /\ stask' = [stask EXCEPT !.current = n, !.count = @ + 1, !.contract = c]
  /\ UNCHANGED <<sres, hard, enforce, spc, judged, segRestarts>>

RestoredQueue == AtRest   \* mutant: only undelivered intents are restored

(* The core dies anywhere and restores: an ended segment that was not judged *)
(* is judged again, an undelivered intent is queued again.                   *)
Restored == IF Unjudged(stask.current) THEN [AtRest EXCEPT !.step = "judge", !.run = stask.current] ELSE AtRest

RestartSegments(on) ==
  /\ segRestarts < MaxSegRestarts /\ segRestarts' = segRestarts + 1
  /\ enforce' = on
  /\ queued' = IF srun[stask.current].status = "queued" THEN {stask.current} ELSE {}
  /\ spc' = Restored
  /\ UNCHANGED <<srun, sres, hard, stask, judged>>

SegNext ==
  \/ \E r \in SegRuns : \/ DispatchFails(r) \/ Reserve(r)
                        \/ JudgeNothing(r) \/ JudgeStops(r) \/ WriteCapsule(r) \/ CommitSuccessor(r)
  \/ SendSegment \/ FinishResult
  \/ \E r \in SegRuns, kind \in {"limit", "done"}, t \in Amounts \cup {UnknownUse}, p \in {FALSE, Presents} :
       SegResult(r, kind, t, p)
  \/ PauseTask \/ ResumeTask
  \/ \E c \in Contracts : EvaluateTask(c) \/ RepairTask(c)
  \/ \E on \in BOOLEAN : RestartSegments(on)

SegSpec == SegInit /\ [][SegNext]_segVars

(* A core that runs gets on with what it began.                              *)
SegFairness == WF_segVars(SendSegment \/ FinishResult \/ \E r \in SegRuns : JudgeNothing(r) \/ JudgeStops(r) \/ WriteCapsule(r) \/ CommitSuccessor(r))

-----------------------------------------------------------------------------
(* Over all restarts, refusals and repairs, the budget is only exceeded by   *)
(* what runs reported beyond their own reservation.                          *)
BudgetAdmits ==
  LET held(r) == sres[r].status \in {"HELD", "UNCERTAIN"}
      over(r) == IF held(r) THEN 0 ELSE Most(0, sres[r].actual - sres[r].reserved)
  IN hard # 0 => SumOver(SegRuns, [r \in SegRuns |-> IF held(r) THEN sres[r].reserved ELSE sres[r].actual])
                   <= hard + SumOver(SegRuns, [r \in SegRuns |-> over(r)])

(* The segments form one chain: an end has one successor at most, the next   *)
(* in number and below the limit, though its marker may be overwritten by a  *)
(* late save of the row and be judged anew after a restart.                  *)
OneChain ==
  /\ \A s \in SegRuns : Cardinality({r \in SegRuns : s # 0 /\ Successor(s, r)}) <= 1
  /\ \A r \in SegRuns : srun[r].source # 0 =>
       srun[r].index = srun[srun[r].source].index + 1 /\ srun[r].index < MaxSegments
  /\ stask.count = Cardinality({r \in SegRuns : srun[r] # NoRow})

Sends(r) == srun[r].status # "sent" /\ srun'[r].status = "sent"

(* Under a budget no backend is called before its tokens are held, and they  *)
(* are held once, whatever crash lies between the two commits.               *)
CallsAreHeld ==
  [][\A r \in SegRuns : Sends(r) /\ enforce /\ hard # 0 =>
       sres[r].status = "HELD" /\ (Soft > 0 => sres[r].reserved = Least(Soft, hard))]_segVars

(* What a continuation is told is what the task asks now, from a source whose*)
(* consumption is accounted for.                                             *)
ContinuesWhatStands ==
  [][\A r \in SegRuns : Sends(r) /\ srun[r].source # 0 =>
       /\ srun[r].capsule = stask.contract /\ sres[srun[r].source].status # "HELD"
       /\ srun'[srun[r].source].by = r /\ enforce]_segVars

(* While a human owns the task nothing is continued and nothing sent.        *)
HumanIsNotOvertaken ==
  [][stask.paused /\ stask'.paused =>
       \A r \in SegRuns : ~Sends(r) /\ (srun[r] = NoRow => srun'[r] = NoRow)]_segVars

(* Refuted, see the README: an end that was judged to have no successor never *)
(* gets one.                                                                 *)
JudgedOnce ==
  [][\A s, r \in SegRuns : judged[s] /\ srun[r] = NoRow => srun'[r].source # s]_segVars

(* An ended segment is decided, also when the core died before it was.       *)
EndIsDecided ==
  \A r \in SegRuns : (srun[r].status = "limit" /\ srun[r].segment /\ stask.current = r) ~>
    (srun[r].end # NotJudged \/ stask.paused \/ stask.current # r)

(* Wherever the core dies and whatever is configured then: segments form one *)
(* chain of accounted runs within the budget, and wait for the human.        *)
SegSafety ==
  /\ [](SegTypeOK /\ BudgetAdmits /\ OneChain)
  /\ CallsAreHeld /\ ContinuesWhatStands /\ HumanIsNotOvertaken
=============================================================================
