------------------------- MODULE RunLifecycleProofs -------------------------
(***************************************************************************)
(* Proofs about RunLifecycle, for every value of its constants.             *)
(***************************************************************************)
EXTENDS RunLifecycle, FiniteSetTheorems, TLAPS

-----------------------------------------------------------------------------
(* The record of a run. *)

LEMMA WithOpType ==
  ASSUME NEW x \in RowType, NEW op \in OpStatuses \ {"absent", "intended"}
  PROVE  /\ WithOp(x, op) \in RowType
         /\ WithOp(x, op).op = "intended" => FALSE
         /\ WithOp(x, op).status = x.status
BY DEF WithOp, RowType, OpStatuses

LEMMA WithAnswerType ==
  ASSUME NEW x \in RowType, NEW d \in Decisions \cup {"none"}
  PROVE  /\ WithAnswer(x, d) \in RowType
         /\ WithAnswer(x, d).op = x.op
BY DEF WithAnswer, RowType, Decisions, ApprovalStates

LEMMA StatusOfType ==
  ASSUME NEW k \in Kinds
  PROVE  /\ StatusOf(k) \in Statuses \ {"unborn"}
         /\ OpFor(StatusOf(k)) \in OpStatuses \ {"absent", "intended"}
BY DEF StatusOf, Kinds, Statuses, Terminal, IsProgress, OpFor, OpStatuses

LEMMA LandedType ==
  ASSUME NEW x \in RowType, NEW k \in Kinds, NEW d \in Decisions \cup {"none"}
  PROVE  /\ Landed(x, k, d) \in RowType
         /\ Landed(x, k, d).op # "intended"
         /\ Landed(x, k, d).status = StatusOf(k)
<1> DEFINE e == IF d # "none" THEN d ELSE x.answer
           y == WithAnswer(x, e)
           z == [y EXCEPT !.status = StatusOf(k),
                          !.mark = IF k \in Terminal THEN "none" ELSE "held",
                          !.stash = "none", !.answer = "none",
                          !.approval = ApprovalAfter(y, k)]
<1>1. e \in Decisions \cup {"none"}
  BY DEF RowType
<1>2. y \in RowType
  BY <1>1, WithAnswerType
<1>3. ApprovalAfter(y, k) \in ApprovalStates
  BY <1>2 DEF ApprovalAfter, RowType, ApprovalStates
<1>4. StatusOf(k) \in Statuses /\ OpFor(StatusOf(k)) \in OpStatuses \ {"absent", "intended"}
  BY StatusOfType
<1> HIDE DEF y
<1>5. z \in RowType /\ z.status = StatusOf(k)
  BY <1>2, <1>3, <1>4 DEF RowType
<1>6. Landed(x, k, d) = WithOp(z, OpFor(StatusOf(k)))
  BY DEF Landed, y
<1> HIDE DEF z
<1> QED
  BY <1>4, <1>5, <1>6, WithOpType

LEMMA ProgressLandedType ==
  ASSUME NEW x \in RowType, NEW d \in Decisions \cup {"none"}
  PROVE  /\ ProgressLanded(x, d) \in RowType
         /\ ProgressLanded(x, d).op # "intended"
         /\ ProgressLanded(x, d).status = "pending_reconcile"
<1> DEFINE e == IF d # "none" THEN d ELSE x.answer
           y == WithAnswer(x, e)
           z == [y EXCEPT !.status = "pending_reconcile", !.mark = "released",
                          !.stash = "none", !.answer = "none"]
<1>1. e \in Decisions \cup {"none"}
  BY DEF RowType
<1>2. y \in RowType
  BY <1>1, WithAnswerType
<1> HIDE DEF y
<1>3. z \in RowType /\ z.status = "pending_reconcile"
  BY <1>2 DEF RowType, Statuses
<1>4. ProgressLanded(x, d) = WithOp(z, "unknown")
  BY DEF ProgressLanded, y
<1> HIDE DEF z
<1> QED
  BY <1>3, <1>4, WithOpType DEF OpStatuses

LEMMA PreservedType ==
  ASSUME NEW x \in RowType, NEW k \in Kinds, NEW d \in Decisions \cup {"none"}
  PROVE  /\ Preserved(x, k, d) \in RowType
         /\ Preserved(x, k, d).op # "intended"
         /\ Preserved(x, k, d).status = "pending_reconcile"
<1> DEFINE z == [x EXCEPT !.status = "pending_reconcile", !.mark = "released",
                   !.stash = IF Rich(@) /\ k = "fallback" THEN @ ELSE k,
                   !.answer = IF d # "none" THEN d ELSE @]
<1>1. z \in RowType /\ z.status = "pending_reconcile"
  BY DEF RowType, Statuses
<1>2. Preserved(x, k, d) = WithOp(z, "unknown")
  BY DEF Preserved
<1> HIDE DEF z
<1> QED
  BY <1>1, <1>2, WithOpType DEF OpStatuses

-----------------------------------------------------------------------------
(* The scheduler. *)

LEMMA StartType ==
  ASSUME NEW s \in SchedulerType, NEW r \in Runs
  PROVE  Start(s, r) \in SchedulerType
<1> DEFINE f == [s.inflight EXCEPT ![BackendOf[r]] = @ + 1]
<1>1. BackendOf[r] \in Backends
  BY SchedulerAssumption
<1>2. f \in [Backends -> Nat]
  BY <1>1 DEF SchedulerType
<1>3. CASE r \in s.runs
  BY <1>3 DEF Start
<1>4. CASE r \notin s.runs
  <2>1. Start(s, r) = [s EXCEPT !.inflight = f, !.runs = @ \cup {r}]
    BY <1>4 DEF Start, SchedulerType
  <2> QED
    BY ZenonT(40), <1>2, <2>1 DEF SchedulerType
<1> QED
  BY <1>3, <1>4

LEMMA FinishType ==
  ASSUME NEW s \in SchedulerType, NEW r \in Runs
  PROVE  Finish(s, r) \in SchedulerType
<1> DEFINE f == [s.inflight EXCEPT ![BackendOf[r]] = IF @ <= 1 THEN 0 ELSE @ - 1]
<1>1. BackendOf[r] \in Backends
  BY SchedulerAssumption
<1>2. f \in [Backends -> Nat]
  BY <1>1 DEF SchedulerType
<1>3. CASE r \notin s.runs
  BY <1>3 DEF Finish
<1>4. CASE r \in s.runs
  <2>1. Finish(s, r) = [s EXCEPT !.inflight = f, !.runs = @ \ {r}]
    BY <1>4 DEF Finish, SchedulerType
  <2> QED
    BY <1>2, <2>1 DEF SchedulerType
<1> QED
  BY <1>3, <1>4

LEMMA EnqueueType ==
  ASSUME NEW s \in SchedulerType, NEW r \in Runs
  PROVE  Enqueue(s, r) \in SchedulerType
<1>1. Append(s.queue, r) \in Seq(Runs)
  BY DEF SchedulerType
<1> QED
  BY <1>1 DEF Enqueue, SchedulerType

LEMMA RemoveType ==
  ASSUME NEW s \in SchedulerType, NEW r \in Runs
  PROVE  Remove(s, r) \in SchedulerType
<1>1. CASE \A i \in DOMAIN s.queue : s.queue[i] # r
  BY <1>1 DEF Remove
<1>2. CASE \E i \in DOMAIN s.queue : s.queue[i] = r
  <2> DEFINE q == s.queue
             i == Place(q, r)
  <2>1. q \in Seq(Runs)
    BY DEF SchedulerType
  <2>2. i \in 1 .. Len(q)
    BY <1>2, <2>1 DEF Place
  <2>3. SubSeq(q, 1, i - 1) \o SubSeq(q, i + 1, Len(q)) \in Seq(Runs)
    BY <2>1, <2>2
  <2>4. Remove(s, r) = [s EXCEPT !.queue = SubSeq(q, 1, i - 1) \o SubSeq(q, i + 1, Len(q))]
    BY <1>2 DEF Remove
  <2> QED
    BY <2>3, <2>4 DEF SchedulerType
<1> QED
  BY <1>1, <1>2

LEMMA ProjectType ==
  ASSUME NEW s \in SchedulerType, NEW r \in Runs, NEW x
  PROVE  Project(s, r, x) \in SchedulerType
BY StartType, FinishType DEF Project

LEMMA EmptyType == EmptyScheduler \in SchedulerType
BY DEF EmptyScheduler, SchedulerType

-----------------------------------------------------------------------------
(* The control state of the core. *)

LEMMA RaiseType ==
  ASSUME NEW c \in CoreType
  PROVE  /\ Raise(c) \in CoreType
         /\ Raise(c).pc = "raise" /\ Raise(c).todo = {} /\ Raise(c).cur = c.cur
         /\ Raise(c).phase = c.phase /\ Raise(c).ret = c.ret
<1>1. <<>> \in Seq(Runs)
  OBVIOUS
<1> QED
  BY <1>1 DEF Raise, CoreType, Pcs

LEMMA GotoType ==
  ASSUME NEW c \in CoreType, NEW p \in Pcs
  PROVE  /\ Goto(c, p) \in CoreType
         /\ Goto(c, p).pc = p /\ Goto(c, p).cur = c.cur /\ Goto(c, p).ret = c.ret
         /\ Goto(c, p).todo = c.todo /\ Goto(c, p).draining = c.draining
         /\ Goto(c, p).phase = c.phase
BY DEF Goto, CoreType

LEMMA BeginDrainType ==
  ASSUME NEW c \in CoreType, NEW q \in Seq(Runs), NEW p \in Returns
  PROVE  /\ BeginDrain(c, q, p) \in CoreType
         /\ BeginDrain(c, q, p).pc = "drain" /\ BeginDrain(c, q, p).cur = c.cur
         /\ BeginDrain(c, q, p).todo = c.todo /\ BeginDrain(c, q, p).phase = c.phase
         /\ BeginDrain(c, q, p).draining = TRUE /\ BeginDrain(c, q, p).ret = p
BY DEF BeginDrain, CoreType, Pcs

LEMMA RememberType ==
  ASSUME NEW m \in RetainedType, NEW k \in Kinds, NEW d \in Decisions \cup {"none"}
  PROVE  Remember(m, k, d) \in RetainedType
<1>1. m.failures + 1 \in Nat /\ BackoffGap(m.failures + 1) \in Nat
  BY RunLifecycleAssumption DEF RetainedType, BackoffGap
<1> QED
  BY <1>1 DEF Remember, RetainedType

LEMMA NothingType == Nothing \in RetainedType
BY DEF Nothing, RetainedType, Kinds, Terminal, Decisions

-----------------------------------------------------------------------------
(* Recording a result.                                                      *)

(* What a received result may make of the record of its run: it neither     *)
(* makes the operation an intent again nor reopens a run that ended.        *)
Advances(x, y) ==
  /\ y.op = "intended" => x.op = "intended"
  /\ y.status = "unborn" => x.status = "unborn"
  /\ x.status \in Terminal => y = x

OnlyAdvances(r) ==
  /\ row' \in [Runs -> RowType]
  /\ Advances(row[r], row'[r])
  /\ \A q \in Runs \ {r} : row'[q] = row[q]

MemoryTypes ==
  /\ sched' \in SchedulerType
  /\ retained' \in [Runs -> RetainedType]
  /\ core' \in CoreType
  /\ faults' \in 0 .. MaxFaults

(* Where the core is after a result: it keeps its run, its phase and what it *)
(* has still to visit, unless it raises.                                    *)
Resumes(c, p) ==
  /\ core'.pc = p /\ core'.todo = c.todo /\ core'.ret = c.ret
  /\ core'.draining = c.draining

AfterRecord(r, c, next, ended, onFail) ==
  /\ core'.cur = c.cur /\ core'.phase = c.phase
  /\ \/ Resumes(c, next) /\ row'[r].status \notin Terminal
     \/ Resumes(c, ended)
     \/ core'.pc = "drain" /\ core'.ret = ended /\ core'.todo = c.todo /\ c.phase = "serve"
     \/ core'.pc = "raise" /\ core'.todo = {} /\ core'.ret = c.ret /\ onFail = "raise"
     \/ Resumes(c, onFail) /\ onFail # "raise" /\ row'[r].status \notin Terminal

(* Whatever result reaches the core, on whichever path: see Record.         *)
LEMMA RecordStep ==
  ASSUME TypeOK,
         NEW r \in Runs, NEW k \in Kinds, NEW d \in Decisions \cup {"none"},
         NEW replay \in BOOLEAN, NEW s \in SchedulerType, NEW c \in CoreType,
         NEW next \in Pcs, NEW ended \in Returns, NEW onFail \in Pcs,
         Record(r, k, d, replay, s, c, next, ended, onFail)
  PROVE  OnlyAdvances(r) /\ MemoryTypes /\ AfterRecord(r, c, next, ended, onFail)
<1>0. /\ row \in [Runs -> RowType] /\ retained \in [Runs -> RetainedType]
      /\ faults \in 0 .. MaxFaults
  BY DEF TypeOK
<1>1. row[r] \in RowType /\ retained[r] \in RetainedType
  BY <1>0
<1>2. row' = row => OnlyAdvances(r)
  BY <1>0 DEF OnlyAdvances, Advances
<1>3. retained' = [retained EXCEPT ![r] = Nothing] => retained' \in [Runs -> RetainedType]
  BY <1>0, NothingType
<1>4. CASE RecordLands(r, k, d, replay, s, c, next, ended)
  <2> DEFINE x == IF replay /\ IsProgress(k) THEN ProgressLanded(row[r], d)
                                             ELSE Landed(row[r], k, d)
             t == Project(s, r, x)
  <2>1. /\ Open(row[r])
        /\ row' = [row EXCEPT ![r] = x] /\ sched' = t
        /\ core' = AfterResult(c, ~Open(x), t.queue, IF Open(x) THEN next ELSE ended)
        /\ retained' = [retained EXCEPT ![r] = Nothing] /\ faults' = faults
    BY <1>4 DEF RecordLands
  <2>2. /\ x \in RowType /\ x.op # "intended"
        /\ x.status \in Statuses \ {"unborn"}
    <3>1. CASE replay /\ IsProgress(k)
      BY <1>1, <3>1, ProgressLandedType DEF Statuses, Terminal
    <3>2. CASE ~(replay /\ IsProgress(k))
      BY <1>1, <3>2, LandedType, StatusOfType
    <3> QED
      BY <3>1, <3>2
  <2> HIDE DEF x
  <2>3. t \in SchedulerType /\ t.queue \in Seq(Runs)
    BY ProjectType DEF SchedulerType
  <2> HIDE DEF t
  <2>4. OnlyAdvances(r)
    BY <1>0, <2>1, <2>2 DEF OnlyAdvances, Advances, Open
  <2>5. row'[r] = x
    BY <1>0, <2>1
  <2>6. core' \in CoreType /\ AfterRecord(r, c, next, ended, onFail)
    <3>1. CASE Open(x)
      <4>1. core' = Goto(c, next)
        BY <2>1, <3>1 DEF AfterResult
      <4> QED
        BY <4>1, <2>5, <3>1, GotoType DEF AfterRecord, Resumes, Open
    <3>2. CASE ~Open(x)
      <4>1. CASE c.phase = "serve" /\ ~c.draining
        <5> DEFINE q == t.queue
        <5>1. core' = BeginDrain(c, q, ended) /\ q \in Seq(Runs)
          BY <2>1, <2>3, <3>2, <4>1 DEF AfterResult
        <5> HIDE DEF q
        <5>2. /\ core' \in CoreType /\ core'.pc = "drain" /\ core'.cur = c.cur
              /\ core'.ret = ended /\ core'.todo = c.todo /\ core'.phase = c.phase
          BY ZenonT(40), <5>1, BeginDrainType
        <5> QED
          BY <5>2, <4>1 DEF AfterRecord
      <4>2. CASE ~(c.phase = "serve" /\ ~c.draining)
        <5>1. core' = Goto(c, ended) /\ ended \in Pcs
          BY <2>1, <3>2, <4>2 DEF AfterResult, Returns
        <5> QED
          BY <5>1, GotoType DEF AfterRecord, Resumes
      <4> QED
        BY <4>1, <4>2
    <3> QED
      BY <3>1, <3>2
  <2> QED
    BY <1>0, <1>3, <2>1, <2>3, <2>4, <2>6 DEF MemoryTypes
<1>5. CASE RecordDropped(r, s, c, ended)
  <2>1. ended \in Pcs
    BY DEF Returns
  <2> QED
    BY <1>0, <1>2, <1>3, <1>5, <2>1, GotoType
       DEF RecordDropped, MemoryTypes, AfterRecord, Resumes
<1>6. CASE RecordIgnored(r, k, s, c, next)
  <2>1. row'[r].status \notin Terminal
    BY <1>6 DEF RecordIgnored, Open
  <2> QED
    BY <1>0, <1>2, <1>6, <2>1, GotoType DEF RecordIgnored, MemoryTypes, AfterRecord, Resumes
<1>7. CASE RecordFails(r, k, d, s, c, onFail)
  <2>1. Open(row[r])
    BY <1>7 DEF RecordFails
  <2>2. faults' \in 0 .. MaxFaults
    BY <1>0, <1>7, RunLifecycleAssumption DEF RecordFails
  <2>3. PICK preserved \in BOOLEAN :
          row' = IF preserved THEN [row EXCEPT ![r] = Preserved(@, k, d)] ELSE row
    BY <1>7 DEF RecordFails
  <2>4. OnlyAdvances(r) /\ row'[r].status \notin Terminal
    <3>1. CASE preserved
      <4>1. row' = [row EXCEPT ![r] = Preserved(row[r], k, d)]
        BY <2>3, <3>1
      <4>2. /\ Preserved(row[r], k, d) \in RowType
            /\ Preserved(row[r], k, d).op # "intended"
            /\ Preserved(row[r], k, d).status = "pending_reconcile"
        BY <1>1, PreservedType
      <4> QED
        BY <1>0, <2>1, <4>1, <4>2 DEF OnlyAdvances, Advances, Open, Terminal
    <3>2. CASE ~preserved
      BY <1>2, <2>1, <2>3, <3>2 DEF Open
    <3> QED
      BY <3>1, <3>2
  <2>5. retained' \in [Runs -> RetainedType]
    <3>1. retained' = [retained EXCEPT ![r] = Remember(retained[r], k, d)]
      BY <1>7 DEF RecordFails
    <3> QED
      BY <1>0, <1>1, <3>1, RememberType
  <2>6. sched' \in SchedulerType
    BY <1>7, FinishType DEF RecordFails
  <2>7. core' \in CoreType /\ AfterRecord(r, c, next, ended, onFail)
    <3>1. core' = IF onFail = "raise" THEN Raise(c) ELSE Goto(c, onFail)
      BY <1>7 DEF RecordFails
    <3> QED
      BY <2>4, <3>1, RaiseType, GotoType DEF AfterRecord, Resumes
  <2> QED
    BY <2>2, <2>4, <2>5, <2>6, <2>7 DEF MemoryTypes
<1> QED
  BY <1>4, <1>5, <1>6, <1>7 DEF Record

-----------------------------------------------------------------------------
(* The inductive invariant.                                                 *)

(* A thread that is about to publish has a result to publish. *)
WorkerHasResult == \A r \in Runs : worker[r].pc = "put" => worker[r].result # "none"

(* The durable operation tells whether the backend was called: this is what  *)
(* survives a crash when the history does not.                               *)
Untold(x) == x.status = "unborn" \/ x.op = "intended"

CallsFollowRows ==
  \A r \in Runs : calls[r] <= 1 /\ (Untold(row[r]) => calls[r] = 0)

BootPcs == {"bootRun", "recon", "reconTail", "reconRun"}
DispatchPcs ==
  {"drain", "check", "refused", "committing", "calling", "streaming", "broken"}

(* The run in hand has not ended where the next step assumes so, and         *)
(* nothing forbids its dispatch where the next step dispatches it.           *)
CurrentOpen ==
  core.pc \in BootPcs \cup {"accepted", "check", "committing", "calling"} =>
    \A r \in Runs : core.cur = r => row[r].status \notin Terminal

CurrentWanted ==
  \A r \in Runs : core.cur = r =>
    /\ core.pc \in {"accepted", "check"} => ~row[r].paused
    /\ At("committing") => /\ row[r].op = "intended" /\ row[r].status = "dispatching"
                           /\ ~row[r].paused /\ ~row[r].cancel

(* The runs to restore or to mark are unfinished; restoring visits each      *)
(* once, and dispatches only after the last.                                 *)
TodoOpen ==
  core.phase = "boot" \/ core.pc \in {"marking", "markOp"} =>
    \A r \in core.todo : row[r].status \notin Terminal

BootOrder ==
  core.phase = "boot" =>
    \/ core.pc \in {"down", "raise"} /\ core.todo = {}
    \/ core.pc = "boot"
    \/ core.pc = "bootRun" /\ core.cur \notin core.todo
    \/ core.pc \in BootPcs /\ core.cur \notin core.todo /\ core.ret = "boot"
    \/ core.pc \in DispatchPcs /\ core.todo = {} /\ core.draining
                                  /\ core.ret # "boot"

ServeOrder ==
  core.phase # "boot" => core.ret # "boot" /\ core.pc \notin {"down", "boot", "bootRun"}

IInv ==
  /\ TypeOK /\ WorkerHasResult /\ CallsFollowRows
  /\ CurrentOpen /\ CurrentWanted /\ TodoOpen /\ BootOrder /\ ServeOrder

-----------------------------------------------------------------------------
(* The steps that record a result preserve the invariant.                   *)

(* Where a step may go on while the core restores. *)
BootGoesOn(c, p) ==
  \/ p = "boot"
  \/ p = "bootRun" /\ c.cur \notin c.todo
  \/ p \in BootPcs /\ c.cur \notin c.todo /\ c.ret = "boot"
  \/ p \in DispatchPcs /\ c.todo = {} /\ c.draining /\ c.ret # "boot"

Midway == {"accepted", "check", "committing", "calling", "marking", "markOp"}

(* The control state c and the continuations a step hands to Record.        *)
RecordContext(r, c, next, ended, onFail) ==
  /\ c.phase = core.phase
  /\ next \notin Midway /\ onFail \notin Midway
  /\ next \in BootPcs \/ onFail \in BootPcs => c.cur = r
  /\ core.phase = "boot" =>
       /\ r \notin c.todo /\ c.todo \subseteq core.todo
       /\ BootGoesOn(c, next) /\ BootGoesOn(c, ended)
       /\ onFail # "raise" => BootGoesOn(c, onFail)
  /\ core.phase # "boot" =>
       c.ret # "boot" /\ {"down", "boot", "bootRun"} \cap {next, ended, onFail} = {}

LEMMA RecordKeeps ==
  ASSUME IInv,
         NEW r \in Runs, NEW k \in Kinds, NEW d \in Decisions \cup {"none"},
         NEW replay \in BOOLEAN, NEW s \in SchedulerType, NEW c \in CoreType,
         NEW next \in Pcs, NEW ended \in Returns, NEW onFail \in Pcs,
         Record(r, k, d, replay, s, c, next, ended, onFail),
         RecordContext(r, c, next, ended, onFail),
         worker' \in [Runs -> WorkerType], WorkerHasResult',
         updates' \in Seq([run : Runs, result : Kinds]),
         calls' = calls, crashes' = crashes
  PROVE  IInv'
<1>1. OnlyAdvances(r) /\ MemoryTypes /\ AfterRecord(r, c, next, ended, onFail)
  BY RecordStep DEF IInv
<1>2. TypeOK'
  BY <1>1 DEF IInv, TypeOK, OnlyAdvances, MemoryTypes
<1>3. CallsFollowRows'
  BY <1>1 DEF IInv, CallsFollowRows, Untold, OnlyAdvances, Advances
<1>4. CurrentOpen'
  BY <1>1 DEF CurrentOpen, AfterRecord, Resumes, RecordContext, Midway, BootPcs, Returns
<1>5. CurrentWanted'
  BY <1>1 DEF CurrentWanted, At, AfterRecord, Resumes, RecordContext, Midway, Returns
<1>6. TodoOpen'
  <2>1. core'.pc \notin {"marking", "markOp"}
    BY <1>1 DEF AfterRecord, Resumes, RecordContext, Midway, Returns
  <2>2. CASE core.phase = "boot"
    <3>1. core'.todo \subseteq core.todo /\ r \notin core'.todo
      BY <1>1, <2>2 DEF AfterRecord, Resumes, RecordContext
    <3>2. core.todo \subseteq Runs
      BY DEF IInv, TypeOK, CoreType
    <3> QED
      BY <1>1, <2>2, <3>1, <3>2 DEF IInv, TodoOpen, OnlyAdvances
  <2>3. CASE core.phase # "boot"
    BY <1>1, <2>1, <2>3 DEF TodoOpen, AfterRecord, RecordContext
  <2> QED
    BY <2>2, <2>3
<1>7. BootOrder'
  <2> SUFFICES ASSUME core'.phase = "boot"
               PROVE  \/ core'.pc \in {"down", "raise"} /\ core'.todo = {}
                      \/ BootGoesOn(core', core'.pc)
    BY DEF BootOrder, BootGoesOn
  <2>1. core'.phase = c.phase /\ core.phase = "boot" /\ core'.cur = c.cur
    BY <1>1 DEF AfterRecord, RecordContext
  <2>2. ASSUME NEW p, Resumes(c, p), BootGoesOn(c, p)
        PROVE  BootGoesOn(core', core'.pc)
    BY <2>1, <2>2, Zenon DEF Resumes, BootGoesOn
  <2>3. BootGoesOn(c, next) /\ BootGoesOn(c, ended)
    BY <2>1 DEF RecordContext
  <2>4. CASE Resumes(c, next) \/ Resumes(c, ended)
    BY <2>2, <2>3, <2>4
  <2>5. CASE core'.pc = "raise" /\ core'.todo = {}
    BY <2>5
  <2>6. CASE Resumes(c, onFail) /\ onFail # "raise"
    <3>1. BootGoesOn(c, onFail)
      BY <2>1, <2>6 DEF RecordContext
    <3> QED
      BY <2>2, <2>6, <3>1
  <2> QED
    BY <1>1, <2>1, <2>4, <2>5, <2>6 DEF AfterRecord
<1>8. ServeOrder'
  <2> SUFFICES ASSUME core'.phase # "boot"
               PROVE  core'.ret # "boot" /\ core'.pc \notin {"down", "boot", "bootRun"}
    BY DEF ServeOrder
  <2>1. core.phase # "boot"
    BY <1>1 DEF AfterRecord, RecordContext
  <2>2. /\ c.ret # "boot" /\ next \notin {"down", "boot", "bootRun"}
        /\ ended \notin {"down", "boot", "bootRun"} /\ onFail \notin {"down", "boot", "bootRun"}
    BY <2>1 DEF RecordContext
  <2> QED
    BY <1>1, <2>2 DEF AfterRecord, Resumes
<1> QED
  BY <1>2, <1>3, <1>4, <1>5, <1>6, <1>7, <1>8 DEF IInv

-----------------------------------------------------------------------------
(* Every step preserves the invariant, one lemma for each part of Next.     *)

LEMMA Types ==
  ASSUME IInv
  PROVE  /\ row \in [Runs -> RowType] /\ sched \in SchedulerType
         /\ retained \in [Runs -> RetainedType] /\ worker \in [Runs -> WorkerType]
         /\ updates \in Seq([run : Runs, result : Kinds]) /\ core \in CoreType
         /\ calls \in [Runs -> Nat] /\ faults \in 0 .. MaxFaults
         /\ crashes \in 0 .. MaxCrashes
BY DEF IInv, TypeOK

(* The threads, their queue and the history of calls. *)
ThreadsSound ==
  /\ worker' \in [Runs -> WorkerType] /\ WorkerHasResult'
  /\ updates' \in Seq([run : Runs, result : Kinds])
  /\ calls' = calls /\ crashes' \in 0 .. MaxCrashes

LEMMA UntouchedSound ==
  ASSUME IInv, Untouched
  PROVE  ThreadsSound /\ crashes' = crashes
BY Types DEF IInv, WorkerHasResult, Untouched, ThreadsSound

(* The record, the scheduler and the results kept in memory, after a step    *)
(* that calls no backend, and after one that ends no run either.             *)
RowsSound ==
  /\ row' \in [Runs -> RowType] /\ sched' \in SchedulerType
  /\ retained' \in [Runs -> RetainedType] /\ faults' \in 0 .. MaxFaults
  /\ \A q \in Runs : Untold(row'[q]) => Untold(row[q])

Harmless ==
  /\ RowsSound
  /\ \A q \in Runs : row'[q].status \in Terminal => row[q].status \in Terminal

LEMMA SameHarmless ==
  ASSUME IInv, UNCHANGED <<row, retained, faults>>, sched' \in SchedulerType
  PROVE  Harmless
BY Types DEF Harmless, RowsSound

(* A write to the record of one run. *)
LEMMA WriteHarmless ==
  ASSUME IInv, NEW r \in Runs, NEW x \in RowType,
         row' = [row EXCEPT ![r] = x], UNCHANGED <<retained, faults>>,
         sched' \in SchedulerType,
         Untold(x) => Untold(row[r]),
         x.status \in Terminal => row[r].status \in Terminal
  PROVE  Harmless
<1>1. row \in [Runs -> RowType] /\ retained \in [Runs -> RetainedType]
      /\ faults \in 0 .. MaxFaults
  BY Types
<1>2. row' \in [Runs -> RowType] /\ row'[r] = x /\ \A q \in Runs \ {r} : row'[q] = row[q]
  BY <1>1
<1> QED
  BY <1>1, <1>2 DEF Harmless, RowsSound

(* What a step that records nothing has to show. *)
LEMMA PlainKeeps ==
  ASSUME IInv, ThreadsSound, RowsSound, core' \in CoreType,
         CurrentOpen', CurrentWanted', TodoOpen', BootOrder', ServeOrder'
  PROVE  IInv'
BY DEF IInv, TypeOK, CallsFollowRows, ThreadsSound, RowsSound

LEMMA MoveKeeps ==
  ASSUME IInv, ThreadsSound, Harmless, core' \in CoreType,
         core'.pc \notin Midway,
         core'.pc \in BootPcs => core.pc \in BootPcs /\ core'.cur = core.cur,
         core'.phase = "boot" => core.phase = "boot" /\ core'.todo \subseteq core.todo,
         BootOrder', ServeOrder'
  PROVE  IInv'
<1>1. CurrentOpen'
  BY DEF IInv, Harmless, CurrentOpen, Midway
<1>2. CurrentWanted'
  BY DEF CurrentWanted, At, Midway
<1>3. TodoOpen'
  <2> SUFFICES ASSUME core'.phase = "boot", NEW q \in core'.todo
               PROVE  row'[q].status \notin Terminal
    BY DEF TodoOpen, Midway
  <2>1. q \in Runs /\ row[q].status \notin Terminal
    BY Types DEF IInv, TodoOpen, CoreType
  <2> QED
    BY <2>1 DEF Harmless
<1> QED
  BY <1>1, <1>2, <1>3, PlainKeeps DEF Harmless

(* The core goes on elsewhere with the same run, phase and runs to visit. *)
LEMMA GotoKeeps ==
  ASSUME IInv, ThreadsSound, Harmless, NEW p \in Pcs, core' = Goto(core, p),
         p \notin Midway, p \in BootPcs => core.pc \in BootPcs,
         core.phase = "boot" => BootGoesOn(core, p),
         core.phase # "boot" => p \notin {"down", "boot", "bootRun"}
  PROVE  IInv'
<1>1. /\ core' \in CoreType /\ core'.pc = p /\ core'.cur = core.cur /\ core'.ret = core.ret
      /\ core'.todo = core.todo /\ core'.draining = core.draining /\ core'.phase = core.phase
  BY Types, GotoType
<1>2. BootOrder'
  BY <1>1 DEF BootOrder, BootGoesOn
<1>3. ServeOrder'
  BY <1>1 DEF IInv, ServeOrder
<1> QED
  BY <1>1, <1>2, <1>3, MoveKeeps

(* A request, or a step of poll: the core serves before and after.          *)
LEMMA ServeKeeps ==
  ASSUME IInv, ThreadsSound, Harmless, core' \in CoreType,
         core.phase # "boot", core'.phase # "boot", core'.ret # "boot",
         core'.pc \notin Midway \cup BootPcs \cup {"down", "boot"}
  PROVE  IInv'
BY MoveKeeps DEF BootOrder, ServeOrder, BootPcs

LEMMA BootReplayKeeps ==
  ASSUME IInv, NEW r \in Runs, BootReplay(r)
  PROVE  IInv'
<1> DEFINE c == [core EXCEPT !.todo = @ \ {r}, !.cur = r]
<1>1. Untouched /\ At("boot") /\ r \in core.todo
  BY DEF BootReplay
<1>2. c \in CoreType /\ c.pc = core.pc /\ c.phase = core.phase /\ c.cur = r
      /\ c.todo = core.todo \ {r}
  BY Types DEF CoreType
<1> HIDE DEF c
<1>3. CASE row[r].stash = "none"
  <2>1. core' = Goto(c, "bootRun") /\ row' = row /\ sched' = sched
        /\ retained' = retained /\ faults' = faults
    BY <1>3 DEF BootReplay, c
  <2>2. core' \in CoreType /\ core'.pc = "bootRun" /\ core'.cur = r
        /\ core'.todo = core.todo \ {r} /\ core'.phase = core.phase
    BY <1>2, <2>1, GotoType DEF Pcs
  <2>3. core.phase = "boot" /\ core.todo \subseteq Runs
    BY <1>1, Types DEF IInv, ServeOrder, At, CoreType
  <2>4. CurrentOpen' /\ TodoOpen'
    BY <1>1, <2>1, <2>2, <2>3 DEF IInv, CurrentOpen, TodoOpen
  <2>5. CurrentWanted' /\ BootOrder' /\ ServeOrder'
    BY <2>2, <2>3 DEF CurrentWanted, BootOrder, ServeOrder, At, BootPcs, DispatchPcs
  <2> QED
    BY <1>1, <2>1, <2>2, <2>4, <2>5, PlainKeeps, SameHarmless, UntouchedSound, Types
     DEF Harmless
<1>4. CASE row[r].stash # "none"
  <2>1. Record(r, row[r].stash, row[r].answer, TRUE, sched, c, "bootRun", "boot", "bootRun")
    BY <1>4 DEF BootReplay, c
  <2>2. row[r].stash \in Kinds /\ row[r].answer \in Decisions \cup {"none"}
    BY <1>4, Types DEF RowType
  <2>3. RecordContext(r, c, "bootRun", "boot", "bootRun")
    BY <1>1, <1>2 DEF IInv, ServeOrder, At, RecordContext, Midway, BootGoesOn
  <2>4. "bootRun" \in Pcs /\ "boot" \in Returns /\ TRUE \in BOOLEAN
    BY DEF Pcs, Returns
  <2>5. /\ worker' \in [Runs -> WorkerType] /\ WorkerHasResult'
        /\ updates' \in Seq([run : Runs, result : Kinds])
        /\ calls' = calls /\ crashes' = crashes /\ sched \in SchedulerType
    BY <1>1, UntouchedSound, Types DEF ThreadsSound
  <2> QED
    BY <1>2, <2>1, <2>2, <2>3, <2>4, <2>5, RecordKeeps
<1> QED
  BY <1>3, <1>4

(* The steps of the core while it restores, and of a reconciliation later.  *)
LEMMA RestoreKeeps ==
  ASSUME IInv, Restore
  PROVE  IInv'
<1>0. core \in CoreType /\ sched \in SchedulerType /\ row \in [Runs -> RowType]
  BY Types
<1>p. /\ "boot" \in Pcs /\ "bootRun" \in Pcs /\ "recon" \in Pcs /\ "reconTail" \in Pcs
      /\ "reconRun" \in Pcs /\ "idle" \in Pcs /\ "raise" \in Pcs /\ Returns \subseteq Pcs
      /\ "boot" \in Returns /\ "idle" \in Returns
  BY DEF Pcs, Returns
<1>1. \A r \in Runs : Project(sched, r, row[r]) \in SchedulerType
                    /\ Enqueue(Finish(sched, r), r) \in SchedulerType
  BY <1>0, ProjectType, FinishType, EnqueueType
<1>2. CASE OpenProcess
  <2> DEFINE T == {r \in Runs : Open(row[r])}
  <2>1. /\ core' = [core EXCEPT !.pc = "boot", !.todo = T] /\ Untouched
        /\ row' = row /\ sched' = sched /\ retained' = retained /\ faults' = faults
    BY <1>2 DEF OpenProcess
  <2>2. \A r \in T : row'[r].status \notin Terminal
    BY <2>1 DEF Open
  <2> HIDE DEF T
  <2>3. T \subseteq Runs
    BY DEF T
  <2>4. core' \in CoreType /\ core'.pc = "boot" /\ core'.todo = T
        /\ core'.phase = core.phase /\ core'.ret = core.ret
    BY ZenonT(40), <1>p, <1>0, <2>1, <2>3 DEF CoreType
  <2>5. CurrentOpen' /\ CurrentWanted' /\ TodoOpen' /\ BootOrder'
    BY <2>2, <2>4 DEF CurrentOpen, CurrentWanted, TodoOpen, BootOrder, At, BootPcs
  <2>6. ServeOrder'
    BY <1>2, <2>4 DEF IInv, BootOrder, ServeOrder, OpenProcess, At
  <2> QED
    BY <1>0, <2>1, <2>4, <2>5, <2>6, PlainKeeps, SameHarmless, UntouchedSound
     DEF Harmless
<1>3. CASE BootEnd
  <2>1. /\ Untouched /\ row' = row /\ sched' = sched /\ retained' = retained
        /\ faults' = faults /\ core.todo = {}
    BY <1>3 DEF BootEnd
  <2>2. core.phase = "boot"
    BY <1>3 DEF IInv, ServeOrder, BootEnd, At
  <2>3. CASE Background
    <3> DEFINE q == sched.queue
    <3>1. core' = BeginDrain(core, q, "idle") /\ q \in Seq(Runs) /\ "idle" \in Returns
      BY <1>p, <1>0, <1>3, <2>3 DEF BootEnd, SchedulerType
    <3> HIDE DEF q
    <3>a. core' \in CoreType /\ core'.pc = "drain" /\ core'.draining = TRUE
      BY ZenonT(40), <1>0, <3>1, BeginDrainType
    <3>b. /\ core'.cur = core.cur /\ core'.todo = core.todo
          /\ core'.ret = "idle" /\ core'.phase = core.phase
      BY ZenonT(40), <1>0, <3>1, BeginDrainType
    <3>2. /\ core' \in CoreType /\ core'.pc = "drain" /\ core'.cur = core.cur
          /\ core'.ret = "idle" /\ core'.todo = core.todo /\ core'.phase = core.phase
          /\ core'.draining = TRUE
      BY <3>a, <3>b
    <3>3. BootOrder' /\ ServeOrder'
      BY <2>1, <2>2, <3>2 DEF BootOrder, ServeOrder, DispatchPcs
    <3> QED
      BY <1>0, <2>1, <2>2, <3>2, <3>3, MoveKeeps, SameHarmless, UntouchedSound
         DEF Midway, BootPcs
  <2>4. CASE ~Background
    <3>1. core' = [core EXCEPT !.pc = "idle", !.ret = "idle", !.phase = "serve"]
      BY <1>3, <2>4 DEF BootEnd
    <3>2. core' \in CoreType /\ core'.pc = "idle" /\ core'.ret = "idle" /\ core'.phase = "serve"
      BY <1>p, <1>0, <3>1 DEF CoreType
    <3> QED
      BY <1>0, <2>1, <3>2, MoveKeeps, SameHarmless, UntouchedSound
         DEF Midway, BootPcs, BootOrder, ServeOrder
  <2> QED
    BY <2>3, <2>4
<1>4. ASSUME NEW r \in Runs, BootEnqueue(r) PROVE IInv'
  <2>1. /\ Untouched /\ core' = Goto(core, "boot") /\ sched' = Enqueue(Finish(sched, r), r)
        /\ row' = row /\ retained' = retained /\ faults' = faults /\ core.phase = "boot"
    BY <1>4 DEF BootEnqueue, IInv, ServeOrder, At
  <2> QED
    BY <1>p, <1>1, <2>1, GotoKeeps, SameHarmless, UntouchedSound DEF Midway, BootPcs, BootGoesOn
<1>5. ASSUME NEW r \in Runs, BootLost(r) PROVE IInv'
  <2> DEFINE k == IF row[r].cancel THEN "cancelled" ELSE "failed"
  <2>1. /\ Untouched /\ core.cur = r /\ At("bootRun")
        /\ Record(r, k, "none", FALSE, sched, core, "boot", "boot", "raise")
    BY <1>5 DEF BootLost
  <2>2. k \in Kinds /\ "none" \in Decisions \cup {"none"} /\ FALSE \in BOOLEAN
        /\ {"boot", "raise"} \subseteq Pcs /\ "boot" \in Returns
    BY <1>p DEF Kinds, Terminal
  <2> HIDE DEF k
  <2>3. RecordContext(r, core, "boot", "boot", "raise")
    BY <2>1 DEF RecordContext, Midway, BootPcs, BootGoesOn, IInv, BootOrder, ServeOrder, At,
                DispatchPcs
  <2> QED
    BY ZenonT(40), <1>0, <2>1, <2>2, <2>3, RecordKeeps, UntouchedSound DEF ThreadsSound
<1>6. ASSUME NEW r \in Runs, BootProject(r) PROVE IInv'
  <2>1. /\ Untouched /\ row' = row /\ retained' = retained /\ faults' = faults
        /\ core' = [core EXCEPT !.pc = "recon", !.ret = "boot"] /\ At("bootRun")
    BY <1>6 DEF BootProject
  <2>2. sched' \in SchedulerType
    BY <1>0, <1>1, <1>6 DEF BootProject
  <2>3. core' \in CoreType /\ core'.pc = "recon" /\ core'.ret = "boot"
        /\ core'.cur = core.cur /\ core'.todo = core.todo /\ core'.phase = core.phase
    BY <1>p, <1>0, <2>1 DEF CoreType
  <2>4. core.phase = "boot"
    BY <2>1 DEF IInv, ServeOrder, At
  <2>5. BootOrder' /\ ServeOrder'
    BY <2>1, <2>3, <2>4 DEF IInv, BootOrder, ServeOrder, At, BootPcs, DispatchPcs
  <2> QED
    BY <2>1, <2>2, <2>3, <2>5, MoveKeeps, SameHarmless, UntouchedSound DEF Midway, BootPcs, At
<1>7. /\ core.pc \in {"recon", "reconTail", "reconRun"} => BootGoesOn(core, core.ret)
                                                        \/ core.phase # "boot"
      /\ core.phase # "boot" => core.ret \notin {"down", "boot", "bootRun"}
      /\ core.ret \in Returns /\ core.ret \notin Midway \cup BootPcs
  <2>1. core.ret \in Returns
    BY <1>0 DEF CoreType
  <2>2. core.ret \notin Midway \cup BootPcs
    BY <2>1 DEF Midway, BootPcs, Pcs, Returns
  <2> QED
    BY <2>1, <2>2 DEF IInv, BootOrder, ServeOrder, BootGoesOn, BootPcs, DispatchPcs, Pcs, Returns
<1>8. ASSUME NEW r \in Runs, ReconReplay(r) PROVE IInv'
  <2>1. Untouched /\ At("recon") /\ core.cur = r
    BY <1>8 DEF ReconReplay
  <2>2. core.phase = "boot" => BootGoesOn(core, "reconTail") /\ core.cur \notin core.todo
    BY <2>1 DEF IInv, BootOrder, BootGoesOn, BootPcs, DispatchPcs, At
  <2>3. CASE row[r].stash = "none" \/ WorkerAlive(r)
    <3>1. core' = Goto(core, "reconTail") /\ UNCHANGED <<row, sched, retained, faults>>
      BY <1>8, <2>3 DEF ReconReplay
    <3> QED
      BY <1>p, <1>0, <2>1, <2>2, <3>1, GotoKeeps, SameHarmless, UntouchedSound DEF Midway, BootPcs, At
  <2>4. CASE ~(row[r].stash = "none" \/ WorkerAlive(r))
    <3>1. Record(r, row[r].stash, row[r].answer, TRUE, sched, core,
                 "reconTail", core.ret, "reconTail")
      BY <1>8, <2>4 DEF ReconReplay
    <3>2. row[r].stash \in Kinds /\ row[r].answer \in Decisions \cup {"none"}
      BY <1>0, <2>4 DEF RowType
    <3>3. RecordContext(r, core, "reconTail", core.ret, "reconTail")
      BY <1>7, <2>1, <2>2 DEF RecordContext, Midway, BootPcs, IInv, ServeOrder, At
    <3> QED
      BY ZenonT(40), <1>p, <1>0, <1>7, <2>1, <3>1, <3>2, <3>3, RecordKeeps, UntouchedSound DEF ThreadsSound
  <2> QED
    BY <2>3, <2>4
<1>9. ASSUME NEW r \in Runs, ReconUntracked(r) PROVE IInv'
  <2> DEFINE x == [row[r] EXCEPT !.mark = "released", !.status = "pending_reconcile"]
  <2>1. /\ Untouched /\ core' = Goto(core, core.ret) /\ At("reconTail")
        /\ retained' = retained /\ faults' = faults /\ sched' = Project(sched, r, row'[r])
        /\ row' = [row EXCEPT ![r].mark = "released", ![r].status = "pending_reconcile"]
        /\ row[r].op = "absent"
    BY <1>9 DEF ReconUntracked
  <2>2. row' = [row EXCEPT ![r] = x]
    BY <1>0, <2>1
  <2>3. x \in RowType /\ x.status = "pending_reconcile" /\ x.op = "absent"
    BY ZenonT(40), <1>0, <2>1 DEF RowType, Statuses
  <2> HIDE DEF x
  <2>4. Harmless
    BY <1>0, <2>1, <2>2, <2>3, WriteHarmless, ProjectType DEF Untold, Terminal
  <2> QED
    BY <1>p, <1>0, <1>7, <2>1, <2>4, GotoKeeps, UntouchedSound DEF At
<1>10. ASSUME NEW r \in Runs, ReconObserved(r) PROVE IInv'
  <2>1. /\ Untouched /\ core' = Goto(core, core.ret) /\ At("reconTail")
        /\ UNCHANGED <<row, sched, retained, faults>>
    BY <1>10 DEF ReconObserved
  <2> QED
    BY <1>p, <1>0, <1>7, <2>1, GotoKeeps, SameHarmless, UntouchedSound DEF At
<1>11. ASSUME NEW r \in Runs, ReconUnknownOp(r) PROVE IInv'
  <2> DEFINE x == [row[r] EXCEPT !.op = "unknown"]
             p == IF row[r].status = "pending_reconcile" THEN core.ret ELSE "reconRun"
  <2>1. /\ Untouched /\ core' = Goto(core, p) /\ At("reconTail")
        /\ UNCHANGED <<sched, retained, faults>> /\ row' = [row EXCEPT ![r].op = "unknown"]
    BY <1>11 DEF ReconUnknownOp
  <2>2. row' = [row EXCEPT ![r] = x]
    BY <1>0, <2>1
  <2>3. x \in RowType /\ x.status = row[r].status /\ x.op = "unknown"
    BY <1>0 DEF RowType, OpStatuses
  <2> HIDE DEF x
  <2>4. Harmless
    BY <1>0, <2>1, <2>2, <2>3, WriteHarmless DEF Untold
  <2>5. core.phase = "boot" => BootGoesOn(core, "reconRun")
    BY <2>1 DEF IInv, BootOrder, BootGoesOn, BootPcs, DispatchPcs, At
  <2>6. p \in Pcs /\ p \notin Midway /\ (core.phase = "boot" => BootGoesOn(core, p))
        /\ (core.phase # "boot" => p \notin {"down", "boot", "bootRun"})
    BY <1>p, <1>7, <2>1, <2>5 DEF At, Midway
  <2> HIDE DEF p
  <2> QED
    BY <2>1, <2>4, <2>6, GotoKeeps, UntouchedSound DEF At, BootPcs
<1>12. ASSUME NEW r \in Runs, ReconUnknownRun(r) PROVE IInv'
  <2> DEFINE x == [row[r] EXCEPT !.status = "pending_reconcile"]
  <2>1. /\ Untouched /\ core' = Goto(core, core.ret) /\ At("reconRun")
        /\ UNCHANGED <<sched, retained, faults>>
        /\ row' = [row EXCEPT ![r].status = "pending_reconcile"]
    BY <1>12 DEF ReconUnknownRun
  <2>2. row' = [row EXCEPT ![r] = x]
    BY <1>0, <2>1
  <2>3. x \in RowType /\ x.status = "pending_reconcile" /\ x.op = row[r].op
    BY <1>0 DEF RowType, Statuses
  <2> HIDE DEF x
  <2>4. Harmless
    BY <1>0, <2>1, <2>2, <2>3, WriteHarmless DEF Untold, Terminal
  <2> QED
    BY <1>p, <1>0, <1>7, <2>1, <2>4, GotoKeeps, UntouchedSound DEF At
<1> QED
  BY <1>2, <1>3, <1>4, <1>5, <1>6, <1>8, <1>9, <1>10, <1>11, <1>12, BootReplayKeeps
     DEF Restore

(* The core serves wherever it is not on the path of a restart. *)
LEMMA Serving ==
  ASSUME IInv, core.pc \notin {"down", "boot", "raise"} \cup BootPcs \cup DispatchPcs
  PROVE  core.phase # "boot" /\ core.ret # "boot"
BY DEF IInv, BootOrder, ServeOrder, BootPcs

(* A result that a request received. *)
LEMMA RequestRecordKeeps ==
  ASSUME IInv, Untouched, core.phase # "boot", core.ret # "boot",
         NEW r \in Runs, NEW k \in Kinds, NEW d \in Decisions \cup {"none"},
         NEW s \in SchedulerType,
         Record(r, k, d, FALSE, s, core, "idle", "idle", "raise")
  PROVE  IInv'
<1>1. core \in CoreType /\ {"idle", "raise"} \subseteq Pcs /\ "idle" \in Returns
  BY Types DEF Pcs, Returns
<1>2. RecordContext(r, core, "idle", "idle", "raise")
  BY DEF RecordContext, Midway, BootPcs
<1> QED
  BY <1>1, <1>2, RecordKeeps, UntouchedSound DEF ThreadsSound

LEMMA PollKeeps ==
  ASSUME IInv, Poll
  PROVE  IInv'
<1>0. /\ core \in CoreType /\ sched \in SchedulerType /\ row \in [Runs -> RowType]
      /\ retained \in [Runs -> RetainedType] /\ worker \in [Runs -> WorkerType]
      /\ updates \in Seq([run : Runs, result : Kinds])
      /\ sched.queue \in Seq(Runs)
  BY Types DEF SchedulerType
<1>1. CASE PollBegin
  <2> DEFINE m == [r \in Runs |-> [retained[r] EXCEPT !.wait = IF @ = 0 THEN 0 ELSE @ - 1]]
             T == {r \in Runs : retained[r].result # "none" /\ m[r].wait = 0}
  <2>1. /\ Untouched /\ row' = row /\ sched' = sched /\ faults' = faults /\ At("idle")
        /\ retained' = m /\ core' = [core EXCEPT !.pc = "retry", !.todo = T]
    BY <1>1 DEF PollBegin
  <2>2. m \in [Runs -> RetainedType] /\ T \subseteq Runs
    <3>1. ASSUME NEW r \in Runs PROVE m[r] \in RetainedType
      <4> DEFINE w == IF retained[r].wait = 0 THEN 0 ELSE retained[r].wait - 1
      <4>1. retained[r] \in RetainedType /\ w \in Nat
        BY <1>0 DEF RetainedType
      <4>2. m[r] = [retained[r] EXCEPT !.wait = w]
        OBVIOUS
      <4> HIDE DEF w, m
      <4> QED
        BY <4>1, <4>2 DEF RetainedType
    <3>2. m = [r \in Runs |-> m[r]]
      OBVIOUS
    <3> HIDE DEF m
    <3> QED
      BY <3>1, <3>2
  <2> HIDE DEF m, T
  <2>3. core.phase # "boot" /\ core.ret # "boot"
    BY <2>1, Serving DEF At, BootPcs, DispatchPcs
  <2>4. /\ core' \in CoreType /\ core'.pc = "retry" /\ core'.phase = core.phase
        /\ core'.ret = core.ret
    BY <1>0, <2>1, <2>2 DEF CoreType, Pcs
  <2>5. Harmless
    BY <2>1, <2>2, Types DEF Harmless, RowsSound
  <2> QED
    BY <2>1, <2>3, <2>4, <2>5, ServeKeeps, UntouchedSound DEF Midway, BootPcs
<1>2. CASE RetryEnd
  <2>1. /\ Untouched /\ UNCHANGED <<row, sched, retained, faults>> /\ At("retry")
    BY <1>2 DEF RetryEnd
  <2>2. core.phase # "boot" /\ core.ret # "boot"
    BY <2>1, Serving DEF At, BootPcs, DispatchPcs
  <2>3. CASE Background
    <3>1. core' = Goto(core, "updates")
      BY <1>2, <2>3 DEF RetryEnd
    <3> QED
      BY <1>0, <2>1, <2>2, <3>1, GotoKeeps, SameHarmless, UntouchedSound DEF Midway, BootPcs, Pcs
  <2>4. CASE ~Background
    <3> DEFINE q == sched.queue
    <3>1. core' = BeginDrain(core, q, "ready") /\ q \in Seq(Runs) /\ "ready" \in Returns
      BY <1>0, <1>2, <2>4 DEF RetryEnd, Returns, Pcs
    <3> HIDE DEF q
    <3>2. /\ core' \in CoreType /\ core'.pc = "drain" /\ core'.ret = "ready"
          /\ core'.phase = core.phase
      BY ZenonT(40), <1>0, <3>1, BeginDrainType
    <3> QED
      BY <1>0, <2>1, <2>2, <3>2, ServeKeeps, SameHarmless, UntouchedSound DEF Midway, BootPcs
  <2> QED
    BY <2>3, <2>4
<1>3. CASE UpdatesEnd
  <2> DEFINE q == sched.queue
  <2>1. /\ UNCHANGED <<row, sched, retained, faults>> /\ At("updates")
        /\ UNCHANGED <<updates, calls, crashes>> /\ worker' = Pruned
        /\ core' = BeginDrain(core, q, "ready") /\ q \in Seq(Runs) /\ "ready" \in Returns
    BY <1>0, <1>3 DEF UpdatesEnd, Returns, Pcs
  <2>2. core.phase # "boot" /\ core.ret # "boot"
    BY <2>1, Serving DEF At, BootPcs, DispatchPcs
  <2>3. NoWorker \in WorkerType /\ NoWorker.pc = "none"
    BY DEF NoWorker, WorkerType
  <2>4. worker' \in [Runs -> WorkerType] /\ WorkerHasResult'
    BY <1>0, <2>1, <2>3 DEF Pruned, IInv, WorkerHasResult
  <2>5. ThreadsSound
    BY <2>1, <2>4, Types DEF ThreadsSound
  <2> HIDE DEF q
  <2>6. /\ core' \in CoreType /\ core'.pc = "drain" /\ core'.ret = "ready"
        /\ core'.phase = core.phase
    BY ZenonT(40), <1>0, <2>1, BeginDrainType
  <2> QED
    BY <1>0, <2>1, <2>2, <2>5, <2>6, ServeKeeps, SameHarmless DEF Midway, BootPcs
<1>4. CASE PollEnd
  <2>1. /\ Untouched /\ UNCHANGED <<row, sched, retained, faults>> /\ At("ready")
        /\ core' = Goto(core, "idle")
    BY <1>4 DEF PollEnd
  <2>2. core.phase # "boot" /\ core.ret # "boot"
    BY <2>1, Serving DEF At, BootPcs, DispatchPcs
  <2> QED
    BY <1>0, <2>1, <2>2, GotoKeeps, SameHarmless, UntouchedSound DEF Midway, BootPcs, Pcs
<1>5. ASSUME NEW r \in Runs, RetryOne(r) PROVE IInv'
  <2> DEFINE c == [core EXCEPT !.todo = @ \ {r}]
             k == retained[r].result
             d == retained[r].answer
  <2>1. /\ Untouched /\ At("retry") /\ k # "none"
        /\ Record(r, k, d, TRUE, sched, c, "retry", "retry", "retry")
    BY <1>5 DEF RetryOne
  <2>2. core.phase # "boot" /\ core.ret # "boot"
    BY <2>1, Serving DEF At, BootPcs, DispatchPcs
  <2>3. c \in CoreType /\ c.phase = core.phase /\ c.ret = core.ret
    BY <1>0 DEF CoreType
  <2>4. /\ k \in Kinds /\ d \in Decisions \cup {"none"}
        /\ "retry" \in Pcs /\ "retry" \in Returns
    BY <1>0, <2>1 DEF RetainedType, Pcs, Returns
  <2> HIDE DEF c, k, d
  <2>5. RecordContext(r, c, "retry", "retry", "retry")
    BY <2>2, <2>3 DEF RecordContext, Midway, BootPcs
  <2> QED
    BY <1>0, <2>1, <2>3, <2>4, <2>5, RecordKeeps, UntouchedSound DEF ThreadsSound
<1>6. ASSUME NEW r \in Runs, ApplyUpdate(r) PROVE IInv'
  <2> DEFINE k == Head(updates).result
             p == core.pc
  <2>1. /\ p \in {"updates", "closing"} /\ updates # <<>> /\ updates' = Tail(updates)
        /\ Record(r, k, "none", FALSE, sched, core, p, p, "raise")
        /\ calls' = calls /\ crashes' = crashes
        /\ worker' = IF worker[r].pc # "ack" THEN worker
                     ELSE [worker EXCEPT ![r].pc = "acked", ![r].error = (core'.pc = "raise")]
    BY <1>6 DEF ApplyUpdate, At
  <2>2. core.phase # "boot" /\ core.ret # "boot"
    BY <2>1, Serving DEF BootPcs, DispatchPcs
  <2>3. k \in Kinds /\ updates' \in Seq([run : Runs, result : Kinds])
    <3> DEFINE U == [run : Runs, result : Kinds]
    <3>1. \A u \in U : u.result \in Kinds
      OBVIOUS
    <3> HIDE DEF U
    <3>2. updates \in Seq(U)
      BY <1>0 DEF U
    <3>3. Head(updates) \in U /\ Tail(updates) \in Seq(U)
      BY <2>1, <3>2
    <3> QED
      BY <2>1, <3>1, <3>3 DEF U
  <2>4. /\ "none" \in Decisions \cup {"none"} /\ FALSE \in BOOLEAN
        /\ p \in Pcs /\ p \in Returns /\ "raise" \in Pcs
    BY <2>1 DEF Pcs, Returns
  <2>5. RecordContext(r, core, p, p, "raise")
    BY <2>1, <2>2 DEF RecordContext, Midway, BootPcs
  <2>6. worker' \in [Runs -> WorkerType] /\ WorkerHasResult'
    <3> DEFINE w == [worker[r] EXCEPT !.pc = "acked", !.error = (core'.pc = "raise")]
    <3>1. worker' = worker \/ worker' = [worker EXCEPT ![r] = w]
      BY <1>0, <2>1
    <3>2. w \in WorkerType /\ w.pc = "acked"
      BY <1>0 DEF WorkerType
    <3> HIDE DEF w
    <3> QED
      BY <1>0, <3>1, <3>2 DEF IInv, WorkerHasResult
  <2> HIDE DEF k, p
  <2> QED
    BY <1>0, <2>1, <2>3, <2>4, <2>5, <2>6, RecordKeeps
<1> QED
  BY <1>1, <1>2, <1>3, <1>4, <1>5, <1>6 DEF Poll

(* Committed dispatch is the one step that calls a backend. *)
LEMMA CallBackendKeeps ==
  ASSUME IInv, NEW r \in Runs, CallBackend(r)
  PROVE  IInv'
<1> DEFINE x == [row[r] EXCEPT !.op = "dispatched"]
           p == IF Background THEN AfterDispatch ELSE "calling"
           w == [NoWorker EXCEPT !.pc = "act"]
<1>0. /\ row \in [Runs -> RowType] /\ sched \in SchedulerType /\ core \in CoreType
      /\ worker \in [Runs -> WorkerType] /\ calls \in [Runs -> Nat]
  BY Types
<1>1. /\ core.pc = "committing" /\ core.cur = r /\ row' = [row EXCEPT ![r] = x]
      /\ sched' = Project(sched, r, row'[r]) /\ calls' = [calls EXCEPT ![r] = calls[r] + 1]
      /\ core' = Goto(core, p) /\ worker' \in {worker, [worker EXCEPT ![r] = w]}
      /\ UNCHANGED <<retained, updates, faults, crashes>>
  BY <1>0 DEF CallBackend, At
<1>2. row[r].op = "intended" /\ row[r].status = "dispatching" /\ calls[r] = 0
  BY <1>1 DEF IInv, CurrentWanted, CallsFollowRows, Untold, At
<1>3. x \in RowType /\ x.op = "dispatched" /\ x.status = "dispatching"
  BY <1>0, <1>2 DEF RowType, OpStatuses
<1> HIDE DEF x
<1>4. row' \in [Runs -> RowType] /\ row'[r] = x /\ \A q \in Runs \ {r} : row'[q] = row[q]
  BY <1>0, <1>1, <1>3
<1>5. w \in WorkerType /\ w.pc = "act"
  BY DEF NoWorker, WorkerType
<1> HIDE DEF w
<1>6. worker' \in [Runs -> WorkerType] /\ WorkerHasResult'
  BY <1>0, <1>1, <1>5 DEF IInv, WorkerHasResult
<1>7. CallsFollowRows' /\ calls' \in [Runs -> Nat]
  BY <1>0, <1>1, <1>2, <1>3, <1>4 DEF IInv, CallsFollowRows, Untold
<1>8. p \in {"drain", "idle", "calling"} /\ (p = "idle" => ~core.draining)
  BY DEF AfterDispatch
<1> HIDE DEF p
<1>9. /\ core' \in CoreType /\ core'.pc = p /\ core'.cur = r /\ core'.ret = core.ret
      /\ core'.todo = core.todo /\ core'.draining = core.draining
      /\ core'.phase = core.phase
  BY <1>0, <1>1, <1>8, GotoType DEF Pcs
<1>10. CurrentOpen' /\ CurrentWanted'
  BY <1>3, <1>4, <1>8, <1>9 DEF CurrentOpen, CurrentWanted, At, Terminal, BootPcs
<1>11. core.phase = "boot" => core.todo = {} /\ core.draining /\ core.ret # "boot"
  BY <1>1 DEF IInv, BootOrder, BootPcs
<1>12. TodoOpen' /\ BootOrder'
  BY <1>8, <1>9, <1>11 DEF TodoOpen, BootOrder, DispatchPcs
<1>13. ServeOrder'
  BY <1>8, <1>9 DEF IInv, ServeOrder
<1>14. TypeOK'
  BY <1>0, <1>1, <1>4, <1>6, <1>7, <1>9, ProjectType DEF IInv, TypeOK
<1> QED
  BY <1>6, <1>7, <1>10, <1>12, <1>13, <1>14 DEF IInv

LEMMA DispatchKeeps ==
  ASSUME IInv, Dispatch
  PROVE  IInv'
<1>0. /\ core \in CoreType /\ sched \in SchedulerType /\ row \in [Runs -> RowType]
      /\ \A r \in Runs : Remove(sched, r) \in SchedulerType
  BY Types, RemoveType
<1>1. ASSUME core.pc \in DispatchPcs, core.phase = "boot"
      PROVE  core.todo = {} /\ core.draining /\ core.ret # "boot"
  BY <1>1 DEF IInv, BootOrder, BootPcs, DispatchPcs
<1>2. core.items # <<>> =>
        /\ PastItem \in CoreType /\ PastItem.pc = core.pc /\ PastItem.cur = core.cur
        /\ PastItem.ret = core.ret /\ PastItem.todo = core.todo
        /\ PastItem.draining = core.draining /\ PastItem.phase = core.phase
  <2> SUFFICES ASSUME core.items # <<>>
               PROVE  PastItem \in CoreType /\ PastItem = [core EXCEPT !.items = Tail(core.items)]
    BY <1>0 DEF CoreType
  <2> DEFINE q == Tail(core.items)
  <2>1. core.items \in Seq(Runs)
    BY <1>0 DEF CoreType
  <2>2. q \in Seq(Runs)
    BY <2>1
  <2>3. PastItem = [core EXCEPT !.items = q]
    BY DEF PastItem
  <2> HIDE DEF q
  <2>4. PastItem \in CoreType
    BY <1>0, <2>2, <2>3 DEF CoreType
  <2> QED
    BY <2>3, <2>4 DEF q
<1>3. ASSUME core.pc \in DispatchPcs
      PROVE  /\ AfterDispatch \in {"drain", "idle"}
             /\ core.phase = "boot" => BootGoesOn(core, AfterDispatch)
  BY <1>1, <1>3 DEF AfterDispatch, BootGoesOn, DispatchPcs
<1>4. CASE DrainEnd
  <2>1. /\ Untouched /\ UNCHANGED <<row, sched, retained, faults>> /\ At("drain")
        /\ core' = [core EXCEPT !.pc = core.ret, !.draining = FALSE, !.phase = "serve"]
    BY <1>4 DEF DrainEnd
  <2>2. core.ret \in Returns /\ core.ret # "boot"
    BY <1>0, <1>1, <2>1 DEF CoreType, IInv, ServeOrder, At, DispatchPcs
  <2>3. /\ core' \in CoreType /\ core'.pc = core.ret /\ core'.ret = core.ret
        /\ core'.phase = "serve"
    BY <1>0, <2>1, <2>2 DEF CoreType, Returns
  <2>4. core'.pc \notin Midway \cup BootPcs \cup {"down"}
    BY <2>2, <2>3 DEF Returns, Midway, BootPcs
  <2>5. BootOrder' /\ ServeOrder'
    BY <2>2, <2>3, <2>4 DEF BootOrder, ServeOrder, BootPcs
  <2> QED
    BY <1>0, <2>1, <2>3, <2>4, <2>5, MoveKeeps, SameHarmless, UntouchedSound
<1>5. ASSUME NEW r \in Runs, DrainSkip(r) PROVE IInv'
  <2>1. /\ Untouched /\ UNCHANGED <<row, retained, faults>> /\ At("drain")
        /\ core.items # <<>> /\ core' = PastItem
    BY <1>5 DEF DrainSkip, NextItem
  <2>2. sched' \in SchedulerType
    BY <1>0, <1>5 DEF DrainSkip
  <2>3. /\ core' \in CoreType /\ core'.pc = "drain" /\ core'.cur = core.cur
        /\ core'.ret = core.ret /\ core'.todo = core.todo
        /\ core'.draining = core.draining /\ core'.phase = core.phase
    BY <1>2, <2>1 DEF At
  <2>4. BootOrder' /\ ServeOrder'
    BY <1>1, <2>1, <2>3 DEF BootOrder, IInv, ServeOrder, DispatchPcs, At
  <2> QED
    BY <2>1, <2>2, <2>3, <2>4, MoveKeeps, SameHarmless, UntouchedSound DEF Midway, BootPcs
<1>6. ASSUME NEW r \in Runs, DrainTake(r) PROVE IInv'
  <2>1. /\ Untouched /\ UNCHANGED <<row, retained, faults>> /\ At("drain")
        /\ core.items # <<>> /\ core' = [PastItem EXCEPT !.pc = "check", !.cur = r]
        /\ sched' \in SchedulerType /\ row[r].status \notin Terminal /\ ~row[r].paused
    BY <1>0, <1>6 DEF DrainTake, NextItem, Dispatchable
  <2>2. /\ core' \in CoreType /\ core'.pc = "check" /\ core'.cur = r
        /\ core'.ret = core.ret /\ core'.todo = core.todo
        /\ core'.draining = core.draining /\ core'.phase = core.phase
    BY <1>2, <2>1 DEF CoreType, Pcs
  <2>3. CurrentOpen' /\ CurrentWanted'
    BY <2>1, <2>2 DEF CurrentOpen, CurrentWanted, At
  <2>4. TodoOpen' /\ BootOrder' /\ ServeOrder'
    BY <1>1, <2>1, <2>2 DEF TodoOpen, BootOrder, IInv, ServeOrder, DispatchPcs, At
  <2> QED
    BY <2>1, <2>2, <2>3, <2>4, PlainKeeps, SameHarmless, UntouchedSound DEF Harmless
<1>7. ASSUME NEW r \in Runs, CheckRefuses(r) PROVE IInv'
  <2>1. Untouched /\ At("check") /\ UNCHANGED <<sched, retained, faults>>
    BY <1>7 DEF CheckRefuses
  <2>2. CASE core.draining
    <3> DEFINE x == [row[r] EXCEPT !.status = "failed"]
    <3>1. core' = Goto(core, "refused") /\ row' = [row EXCEPT ![r] = x]
      BY <1>0, <1>7, <2>2 DEF CheckRefuses
    <3>2. x \in RowType /\ x.op = row[r].op /\ x.status = "failed"
      BY <1>0 DEF RowType, Statuses, Terminal
    <3> HIDE DEF x
    <3>3. /\ core' \in CoreType /\ core'.pc = "refused" /\ core'.ret = core.ret
          /\ core'.todo = core.todo /\ core'.draining = core.draining
          /\ core'.phase = core.phase
      BY <1>0, <3>1, GotoType DEF Pcs
    <3>4. RowsSound
      <4>1. row' \in [Runs -> RowType] /\ \A q \in Runs : Untold(row'[q]) => Untold(row[q])
        BY <1>0, <3>1, <3>2 DEF Untold
      <4> QED
        BY <2>1, <4>1, Types DEF RowsSound
    <3>5. CurrentOpen' /\ CurrentWanted'
      BY <3>3 DEF CurrentOpen, CurrentWanted, At, BootPcs
    <3>6. TodoOpen' /\ BootOrder' /\ ServeOrder'
      BY <1>1, <2>1, <3>3 DEF TodoOpen, BootOrder, IInv, ServeOrder, DispatchPcs, At
    <3> QED
      BY <2>1, <3>3, <3>4, <3>5, <3>6, PlainKeeps, UntouchedSound
  <2>3. CASE ~core.draining
    <3>1. core' = Goto(core, "idle") /\ row' = row
      BY <1>7, <2>3 DEF CheckRefuses
    <3>2. core.phase # "boot"
      BY <1>1, <2>1, <2>3 DEF At, DispatchPcs
    <3> QED
      BY <1>0, <2>1, <3>1, <3>2, GotoKeeps, SameHarmless, UntouchedSound
         DEF Midway, BootPcs, Pcs
  <2> QED
    BY <2>2, <2>3
<1>8. ASSUME NEW r \in Runs, RefusedOp(r) PROVE IInv'
  <2> DEFINE x == [row[r] EXCEPT !.op = "failed"]
  <2>1. /\ Untouched /\ At("refused") /\ UNCHANGED <<sched, retained, faults>>
        /\ core' = Goto(core, "drain") /\ row' = [row EXCEPT ![r] = x]
    BY <1>0, <1>8 DEF RefusedOp
  <2>2. x \in RowType /\ x.op = "failed" /\ x.status = row[r].status
    BY <1>0 DEF RowType, OpStatuses
  <2> HIDE DEF x
  <2>3. Harmless
    BY <1>0, <2>1, <2>2, WriteHarmless DEF Untold
  <2>4. core.phase = "boot" => BootGoesOn(core, "drain")
    BY <1>1, <2>1 DEF BootGoesOn, DispatchPcs, At
  <2> QED
    BY <2>1, <2>3, <2>4, GotoKeeps, UntouchedSound DEF Midway, BootPcs, Pcs
<1>9. ASSUME NEW r \in Runs, CommitDispatching(r) PROVE IInv'
  <2> DEFINE x == [row[r] EXCEPT !.status = "dispatching", !.mark = "held"]
  <2>1. /\ Untouched /\ At("check") /\ core.cur = r /\ UNCHANGED <<sched, retained, faults>>
        /\ core' = Goto(core, "committing") /\ row' = [row EXCEPT ![r] = x]
        /\ row[r].op = "intended" /\ ~row[r].cancel
    BY <1>0, <1>9 DEF CommitDispatching, StillIntended
  <2>2. ~row[r].paused
    BY <2>1 DEF IInv, CurrentWanted, At
  <2>3. /\ x \in RowType /\ x.op = "intended" /\ x.status = "dispatching"
        /\ x.paused = row[r].paused /\ x.cancel = row[r].cancel
    <3>1. row[r] \in RowType
      BY <1>0
    <3>2. x \in RowType /\ x.op = row[r].op /\ x.status = "dispatching"
      BY <3>1 DEF RowType, Statuses
    <3>3. x.paused = row[r].paused /\ x.cancel = row[r].cancel
      BY <3>1, Zenon DEF RowType
    <3> QED
      BY <2>1, <3>2, <3>3
  <2> HIDE DEF x
  <2>4. Harmless
    BY <1>0, <2>1, <2>3, WriteHarmless DEF Untold, Terminal
  <2>5. /\ core' \in CoreType /\ core'.pc = "committing" /\ core'.cur = r
        /\ core'.ret = core.ret /\ core'.todo = core.todo
        /\ core'.draining = core.draining /\ core'.phase = core.phase
    BY <1>0, <2>1, GotoType DEF Pcs
  <2>6. row'[r] = x
    BY <1>0, <2>1
  <2>7. CurrentOpen' /\ CurrentWanted'
    BY <2>1, <2>2, <2>3, <2>5, <2>6 DEF CurrentOpen, CurrentWanted, At, Terminal
  <2>8. TodoOpen' /\ BootOrder' /\ ServeOrder'
    BY <1>1, <2>1, <2>5 DEF TodoOpen, BootOrder, IInv, ServeOrder, DispatchPcs, At
  <2> QED
    BY <2>1, <2>4, <2>5, <2>7, <2>8, PlainKeeps, UntouchedSound DEF Harmless
<1>10. ASSUME NEW r \in Runs, StreamPublishes(r) PROVE IInv'
  <2>1. /\ Untouched /\ core.pc \in {"calling", "streaming"}
        /\ Record(r, "progress", "none", FALSE, sched, core,
                  "streaming", "streaming", "broken")
    BY <1>10 DEF StreamPublishes
  <2>2. /\ "progress" \in Kinds /\ "none" \in Decisions \cup {"none"} /\ FALSE \in BOOLEAN
        /\ {"streaming", "broken"} \subseteq Pcs /\ "streaming" \in Returns
    BY DEF Kinds, Pcs, Returns
  <2>3. core.phase = "boot" => core.todo = {} /\ core.draining /\ core.ret # "boot"
    BY <1>1, <2>1 DEF DispatchPcs
  <2>4. RecordContext(r, core, "streaming", "streaming", "broken")
    BY <2>3 DEF RecordContext, Midway, BootPcs, BootGoesOn, DispatchPcs, IInv, ServeOrder
  <2> QED
    BY <1>0, <2>1, <2>2, <2>4, RecordKeeps, UntouchedSound DEF ThreadsSound
<1>11. ASSUME NEW r \in Runs, CallRaises(r) PROVE IInv'
  <2> DEFINE x == [row[r] EXCEPT !.status = "pending_reconcile", !.op = "unknown"]
             p == AfterDispatch
  <2>1. /\ Untouched /\ At("calling") /\ UNCHANGED <<sched, retained, faults>>
        /\ core' = Goto(core, p) /\ row' = [row EXCEPT ![r] = x]
    BY <1>0, <1>11 DEF CallRaises
  <2>2. x \in RowType /\ x.op = "unknown" /\ x.status = "pending_reconcile"
    BY ZenonT(40), <1>0 DEF RowType, OpStatuses, Statuses
  <2> HIDE DEF x
  <2>3. Harmless
    BY <1>0, <2>1, <2>2, WriteHarmless DEF Untold, Terminal
  <2>4. p \in {"drain", "idle"} /\ (core.phase = "boot" => BootGoesOn(core, p))
    BY <1>3, <2>1 DEF DispatchPcs, At
  <2> HIDE DEF p
  <2> QED
    BY <2>1, <2>3, <2>4, GotoKeeps, UntouchedSound DEF Midway, BootPcs, Pcs
<1>12. ASSUME NEW r \in Runs, NEW k \in FinalKinds, CallReturns(r, k) PROVE IInv'
  <2> DEFINE p == AfterDispatch
  <2>1. /\ Untouched /\ core.pc \in {"calling", "streaming", "broken"}
        /\ Record(r, k, "none", FALSE, sched, core, p, p, "raise")
    BY <1>12 DEF CallReturns
  <2>2. p \in {"drain", "idle"} /\ (core.phase = "boot" => BootGoesOn(core, p))
    BY <1>3, <2>1 DEF DispatchPcs
  <2> HIDE DEF p
  <2>3. /\ k \in Kinds /\ "none" \in Decisions \cup {"none"} /\ FALSE \in BOOLEAN
        /\ p \in Pcs /\ "raise" \in Pcs /\ p \in Returns
    BY <2>2, RunLifecycleAssumption DEF Pcs, Returns
  <2>4. core.phase = "boot" => core.todo = {}
    BY <1>1, <2>1 DEF DispatchPcs
  <2>5. RecordContext(r, core, p, p, "raise")
    BY <2>2, <2>4 DEF RecordContext, Midway, BootPcs, IInv, ServeOrder
  <2> QED
    BY <1>0, <2>1, <2>3, <2>5, RecordKeeps, UntouchedSound DEF ThreadsSound
<1> QED
  BY <1>4, <1>5, <1>6, <1>7, <1>8, <1>9, <1>10, <1>11, <1>12, CallBackendKeeps DEF Dispatch

(* A request that only goes on to its next step, or is answered. *)
LEMMA RequestGoesOn ==
  ASSUME IInv, Untouched, Harmless, core.phase # "boot", core.ret # "boot",
         NEW q \in Runs \cup {NoRun}, NEW p \in Pcs,
         p \notin Midway \cup BootPcs \cup {"down", "boot"},
         core' = [core EXCEPT !.pc = p, !.cur = q]
  PROVE  IInv'
<1>1. core' \in CoreType /\ core'.pc = p /\ core'.phase = core.phase /\ core'.ret = core.ret
  BY Types DEF CoreType
<1> QED
  BY <1>1, ServeKeeps, UntouchedSound

LEMMA SubmitKeeps ==
  ASSUME IInv, NEW r \in Runs, TaskSubmit(r) \/ Admit(r)
  PROVE  IInv'
<1>0. core \in CoreType /\ sched \in SchedulerType /\ row \in [Runs -> RowType]
  BY Types
<1>1. core.phase # "boot" /\ core.ret # "boot" /\ Untouched
  BY Serving DEF TaskSubmit, Admit, Asked, At, BootPcs, DispatchPcs
<1>2. CASE TaskSubmit(r)
  <2>1. /\ row[r].status = "unborn" /\ row' = [row EXCEPT ![r] = Intended]
        /\ core' = [core EXCEPT !.pc = "accepted", !.cur = r]
        /\ UNCHANGED <<sched, retained, faults>>
    BY <1>2 DEF TaskSubmit
  <2>2. Intended \in RowType /\ Intended.status = "queued" /\ Intended.paused = FALSE
    BY DEF Intended, Unborn, RowType, Statuses, OpStatuses, ApprovalStates
  <2>3. Harmless
    BY <1>0, <2>1, <2>2, WriteHarmless DEF Untold, Terminal
  <2>4. /\ core' \in CoreType /\ core'.pc = "accepted" /\ core'.cur = r
        /\ core'.phase = core.phase /\ core'.ret = core.ret
    BY <1>0, <2>1 DEF CoreType, Pcs
  <2>5. row'[r] = Intended
    BY <1>0, <2>1
  <2>6. CurrentOpen' /\ CurrentWanted'
    BY <2>2, <2>4, <2>5 DEF CurrentOpen, CurrentWanted, At, Terminal
  <2>7. TodoOpen' /\ BootOrder' /\ ServeOrder'
    BY <1>1, <2>4 DEF TodoOpen, BootOrder, ServeOrder
  <2> QED
    BY <1>1, <2>3, <2>4, <2>6, <2>7, PlainKeeps, UntouchedSound DEF Harmless
<1>3. CASE Admit(r)
  <2>1. At("accepted") /\ core.cur = r /\ UNCHANGED <<row, retained, faults>>
    BY <1>3 DEF Admit
  <2>2. CASE CanStart(sched, r)
    <3>1. core' = Goto(core, "check") /\ sched' = sched
      BY <1>3, <2>2 DEF Admit
    <3>2. /\ core' \in CoreType /\ core'.pc = "check" /\ core'.cur = r
          /\ core'.phase = core.phase /\ core'.ret = core.ret
      BY <1>0, <2>1, <3>1, GotoType DEF Pcs
    <3>3. row[r].status \notin Terminal /\ ~row[r].paused
      BY <2>1 DEF IInv, CurrentOpen, CurrentWanted, At
    <3>4. CurrentOpen' /\ CurrentWanted'
      BY <2>1, <3>2, <3>3 DEF CurrentOpen, CurrentWanted, At
    <3>5. TodoOpen' /\ BootOrder' /\ ServeOrder'
      BY <1>1, <3>2 DEF TodoOpen, BootOrder, ServeOrder
    <3> QED
      BY <1>0, <1>1, <2>1, <3>1, <3>2, <3>4, <3>5, PlainKeeps, SameHarmless, UntouchedSound
         DEF Harmless
  <2>3. CASE ~CanStart(sched, r)
    <3>1. core' = Goto(core, "idle") /\ sched' = Enqueue(sched, r)
      BY <1>3, <2>3 DEF Admit
    <3>2. Harmless
      BY <1>0, <2>1, <3>1, SameHarmless, EnqueueType
    <3> QED
      BY <1>1, <3>1, <3>2, GotoKeeps, UntouchedSound DEF Midway, BootPcs, Pcs
  <2> QED
    BY <2>2, <2>3
<1> QED
  BY <1>2, <1>3

LEMMA CancelKeeps ==
  ASSUME IInv, NEW r \in Runs,
         \/ CancelIntent(r) \/ CancelQueued(r) \/ CancelUnconfirmed(r)
         \/ \E k \in {"cancelled", "succeeded"} : CancelConfirmed(r, k)
         \/ TerminateIntent(r) \/ TerminateSave(r) \/ TerminateRecord(r)
  PROVE  IInv'
<1>0. /\ core \in CoreType /\ sched \in SchedulerType /\ row \in [Runs -> RowType]
      /\ Remove(sched, r) \in SchedulerType
  BY Types, RemoveType
<1>1. core.phase # "boot" /\ core.ret # "boot" /\ Untouched
  BY Serving DEF CancelIntent, CancelQueued, CancelUnconfirmed, CancelConfirmed,
                 TerminateIntent, TerminateSave, TerminateRecord, Asked, At, BootPcs, DispatchPcs
<1>2. {"cancelled", "succeeded"} \subseteq Kinds /\ "none" \in Decisions \cup {"none"}
  BY DEF Kinds, Terminal
<1>3. CASE CancelIntent(r) \/ TerminateSave(r)
  <2> DEFINE x == [row[r] EXCEPT !.cancel = TRUE]
  <2>1. row' = [row EXCEPT ![r] = x] /\ UNCHANGED <<sched, retained, faults>>
    BY <1>0, <1>3 DEF CancelIntent, TerminateSave
  <2>2. x \in RowType /\ x.status = row[r].status /\ x.op = row[r].op
    BY <1>0 DEF RowType
  <2> HIDE DEF x
  <2>3. Harmless
    BY <1>0, <2>1, <2>2, WriteHarmless DEF Untold
  <2>4. \/ core' = [core EXCEPT !.pc = "cancelling", !.cur = r]
        \/ core' = Goto(core, "terminating")
    BY <1>3 DEF CancelIntent, TerminateSave
  <2> QED
    BY <1>1, <2>3, <2>4, RequestGoesOn, GotoKeeps, UntouchedSound DEF Midway, BootPcs, Pcs
<1>4. CASE CancelUnconfirmed(r)
  BY <1>0, <1>1, <1>4, GotoKeeps, SameHarmless, UntouchedSound
     DEF CancelUnconfirmed, Midway, BootPcs, Pcs
<1>5. CASE CancelQueued(r)
  BY <1>0, <1>1, <1>2, <1>5, RequestRecordKeeps DEF CancelQueued
<1>6. ASSUME NEW k \in {"cancelled", "succeeded"}, CancelConfirmed(r, k) PROVE IInv'
  BY <1>0, <1>1, <1>2, <1>6, RequestRecordKeeps DEF CancelConfirmed
<1>7. CASE TerminateIntent(r)
  <2>1. /\ sched' \in SchedulerType /\ UNCHANGED <<row, retained, faults>>
        /\ core' = [core EXCEPT !.pc = "terminate", !.cur = r]
    BY <1>0, <1>7 DEF TerminateIntent
  <2> QED
    BY <1>1, <2>1, RequestGoesOn, SameHarmless DEF Midway, BootPcs, Pcs
<1>8. CASE TerminateRecord(r)
  BY <1>0, <1>1, <1>2, <1>8, RequestRecordKeeps DEF TerminateRecord
<1> QED
  BY <1>3, <1>4, <1>5, <1>6, <1>7, <1>8

LEMMA HandoffKeeps ==
  ASSUME IInv, NEW r \in Runs,
         PauseRun(r) \/ PauseTask(r) \/ ResumeRun(r) \/ ResumeTask(r)
  PROVE  IInv'
<1>0. /\ core \in CoreType /\ sched \in SchedulerType /\ row \in [Runs -> RowType]
      /\ row[r] \in RowType
  BY Types
<1>1. core.phase # "boot" /\ core.ret # "boot" /\ Untouched
  BY Serving DEF PauseRun, PauseTask, ResumeRun, ResumeTask, Asked, At, BootPcs, DispatchPcs
<1>2. CASE PauseRun(r)
  <2> DEFINE x == [row[r] EXCEPT !.status = "paused"]
  <2>1. /\ row' = row \/ row' = [row EXCEPT ![r] = x]
        /\ UNCHANGED <<sched, retained, faults>>
        /\ core' = [core EXCEPT !.pc = "pausing", !.cur = r]
    BY <1>0, <1>2 DEF PauseRun
  <2>2. x \in RowType /\ x.status = "paused" /\ x.op = row[r].op
    BY <1>0 DEF RowType, Statuses
  <2> HIDE DEF x
  <2>3. Harmless
    BY <1>0, <2>1, <2>2, WriteHarmless, SameHarmless DEF Untold, Terminal
  <2> QED
    BY <1>1, <2>1, <2>3, RequestGoesOn DEF Midway, BootPcs, Pcs
<1>3. CASE PauseTask(r)
  <2> DEFINE x == [row[r] EXCEPT !.paused = TRUE]
  <2>1. /\ row' = [row EXCEPT ![r] = x] /\ UNCHANGED <<sched, retained, faults>>
        /\ core' = Goto(core, "idle")
    BY <1>0, <1>3 DEF PauseTask
  <2>2. x \in RowType /\ x.status = row[r].status /\ x.op = row[r].op
    BY <1>0 DEF RowType
  <2> HIDE DEF x
  <2>3. Harmless
    BY <1>0, <2>1, <2>2, WriteHarmless DEF Untold
  <2> QED
    BY <1>1, <2>1, <2>3, GotoKeeps, UntouchedSound DEF Midway, BootPcs, Pcs
<1>4. CASE ResumeRun(r)
  <2> DEFINE x == [row[r] EXCEPT !.status = ResumedStatus(row[r])]
  <2>1. /\ row' = row \/ (row' = [row EXCEPT ![r] = x] /\ row[r].status = "paused")
        /\ UNCHANGED <<sched, retained, faults>>
        /\ core' = [core EXCEPT !.pc = "resuming", !.cur = r]
    BY <1>0, <1>4 DEF ResumeRun
  <2>2. ResumedStatus(row[r]) \in Statuses \ (Terminal \cup {"unborn"})
    BY DEF ResumedStatus, Statuses, Terminal
  <2>3. x \in RowType /\ x.status = ResumedStatus(row[r]) /\ x.op = row[r].op
    BY <1>0, <2>2 DEF RowType
  <2> HIDE DEF x
  <2>4. Harmless
    BY <1>0, <2>1, <2>2, <2>3, WriteHarmless, SameHarmless DEF Untold
  <2> QED
    BY <1>1, <2>1, <2>4, RequestGoesOn DEF Midway, BootPcs, Pcs
<1>5. CASE ResumeTask(r)
  <2> DEFINE x == [row[r] EXCEPT !.paused = FALSE]
             q == sched.queue
  <2>1. /\ row' = [row EXCEPT ![r] = x] /\ UNCHANGED <<sched, retained, faults>>
        /\ core' = BeginDrain(core, q, "idle") /\ q \in Seq(Runs) /\ "idle" \in Returns
    BY <1>0, <1>5 DEF ResumeTask, SchedulerType, Returns, Pcs
  <2>2. x \in RowType /\ x.status = row[r].status /\ x.op = row[r].op
    BY <1>0 DEF RowType
  <2> HIDE DEF x, q
  <2>3. Harmless
    BY <1>0, <2>1, <2>2, WriteHarmless DEF Untold
  <2>4. /\ core' \in CoreType /\ core'.pc = "drain" /\ core'.ret = "idle"
        /\ core'.phase = core.phase
    BY <1>0, <2>1, BeginDrainType
  <2> QED
    BY <1>1, <2>3, <2>4, ServeKeeps, UntouchedSound DEF Midway, BootPcs
<1> QED
  BY <1>2, <1>3, <1>4, <1>5

LEMMA ReconcileKeeps ==
  ASSUME IInv, NEW r \in Runs,
         \/ ReconcileOnly(r)
         \/ \E k \in ReconcileKinds \cup {"failed", "cancelled"} : ReconcileRecord(r, k)
  PROVE  IInv'
<1> DEFINE c == [core EXCEPT !.cur = r, !.ret = "idle"]
<1>0. core \in CoreType /\ sched \in SchedulerType
  BY Types
<1>1. core.phase # "boot" /\ core.ret # "boot" /\ Untouched
  BY Serving DEF ReconcileOnly, ReconcileRecord, Asked, At, BootPcs, DispatchPcs
<1>2. "idle" \in Returns /\ {"recon", "raise"} \subseteq Pcs
  BY DEF Returns, Pcs
<1>3. c \in CoreType /\ c.cur = r /\ c.ret = "idle" /\ c.phase = core.phase
  BY <1>0, <1>2 DEF CoreType
<1>4. CASE ReconcileOnly(r)
  <2>1. /\ UNCHANGED <<row, sched, retained, faults>> /\ row[r].status \notin Terminal
        /\ core' = [core EXCEPT !.pc = "recon", !.cur = r, !.ret = "idle"]
    BY <1>4 DEF ReconcileOnly, Open
  <2>2. /\ core' \in CoreType /\ core'.pc = "recon" /\ core'.cur = r
        /\ core'.ret = "idle" /\ core'.phase = core.phase
    BY <1>0, <1>2, <2>1 DEF CoreType
  <2>3. CurrentOpen' /\ CurrentWanted'
    BY <2>1, <2>2 DEF CurrentOpen, CurrentWanted, At
  <2>4. TodoOpen' /\ BootOrder' /\ ServeOrder'
    BY <1>1, <2>2 DEF TodoOpen, BootOrder, ServeOrder
  <2> QED
    BY <1>0, <1>1, <2>1, <2>2, <2>3, <2>4, PlainKeeps, SameHarmless, UntouchedSound
       DEF Harmless
<1>5. ASSUME NEW k \in ReconcileKinds \cup {"failed", "cancelled"}, ReconcileRecord(r, k)
      PROVE  IInv'
  <2>1. Record(r, k, "none", FALSE, sched, c, "recon", "idle", "raise")
    BY <1>5 DEF ReconcileRecord
  <2>2. k \in Kinds /\ "none" \in Decisions \cup {"none"} /\ FALSE \in BOOLEAN
    BY RunLifecycleAssumption DEF Kinds, Terminal
  <2> HIDE DEF c
  <2>3. RecordContext(r, c, "recon", "idle", "raise")
    BY <1>1, <1>3 DEF RecordContext, Midway, BootPcs
  <2> QED
    BY <1>0, <1>1, <1>2, <1>3, <2>1, <2>2, <2>3, RecordKeeps, UntouchedSound DEF ThreadsSound
<1> QED
  BY <1>4, <1>5

LEMMA RespondKeeps ==
  ASSUME IInv, NEW r \in Runs,
         \/ RespondIntent(r) \/ RespondUnknown(r)
         \/ \E k \in {"progress"} \cup (FinalKinds \cap Terminal), d \in Decisions :
              RespondAnswered(r, k, d)
  PROVE  IInv'
<1>0. core \in CoreType /\ sched \in SchedulerType /\ row \in [Runs -> RowType]
  BY Types
<1>1. core.phase # "boot" /\ core.ret # "boot" /\ Untouched
  BY Serving DEF RespondIntent, RespondUnknown, RespondAnswered, Asked, At, BootPcs, DispatchPcs
<1>2. CASE RespondIntent(r)
  <2> DEFINE x == [row[r] EXCEPT !.approval = "forwarding", !.attempted = TRUE]
  <2>1. /\ row' = [row EXCEPT ![r] = x] /\ UNCHANGED <<sched, retained, faults>>
        /\ core' = [core EXCEPT !.pc = "forwarding", !.cur = r]
    BY <1>0, <1>2 DEF RespondIntent
  <2>2. x \in RowType /\ x.status = row[r].status /\ x.op = row[r].op
    BY ZenonT(40), <1>0 DEF RowType, ApprovalStates
  <2> HIDE DEF x
  <2>3. Harmless
    BY <1>0, <2>1, <2>2, WriteHarmless DEF Untold
  <2> QED
    BY <1>1, <2>1, <2>3, RequestGoesOn DEF Midway, BootPcs, Pcs
<1>3. CASE RespondUnknown(r)
  BY <1>0, <1>1, <1>3, GotoKeeps, SameHarmless, UntouchedSound
     DEF RespondUnknown, Midway, BootPcs, Pcs
<1>4. ASSUME NEW k \in {"progress"} \cup (FinalKinds \cap Terminal), NEW d \in Decisions,
             RespondAnswered(r, k, d)
      PROVE  IInv'
  <2>1. Record(r, k, d, FALSE, sched, core, "idle", "idle", "raise")
    BY <1>4 DEF RespondAnswered
  <2>2. k \in Kinds
    BY DEF Kinds
  <2> QED
    BY <1>0, <1>1, <2>1, <2>2, RequestRecordKeeps
<1> QED
  BY <1>2, <1>3, <1>4

LEMMA RequestKeeps ==
  ASSUME IInv, Request
  PROVE  IInv'
BY SubmitKeeps, CancelKeeps, HandoffKeeps, ReconcileKeeps, RespondKeeps DEF Request

(* A crash and an orderly end leave the same: the rows. *)
LEMMA ProcessEndsKeeps ==
  ASSUME IInv, ProcessEnds, crashes' \in 0 .. MaxCrashes
  PROVE  IInv'
<1>1. <<>> \in Seq(Runs) /\ <<>> \in Seq([run : Runs, result : Kinds])
  OBVIOUS
<1>2. /\ core' \in CoreType /\ core'.pc = "down" /\ core'.phase = "boot"
      /\ core'.todo = {} /\ core'.ret = "idle"
  BY <1>1 DEF ProcessEnds, CoreDown, CoreType, Pcs, Returns
<1>3. NoWorker \in WorkerType /\ NoWorker.pc = "none"
  BY DEF NoWorker, WorkerType
<1>4. ThreadsSound
  BY <1>1, <1>3 DEF ProcessEnds, ThreadsSound, WorkerHasResult
<1>5. Harmless
  BY Types, EmptyType, NothingType DEF ProcessEnds, Harmless, RowsSound
<1>6. CurrentOpen' /\ CurrentWanted' /\ TodoOpen' /\ BootOrder' /\ ServeOrder'
  BY <1>2 DEF CurrentOpen, CurrentWanted, TodoOpen, BootOrder, ServeOrder, At, BootPcs
<1> QED
  BY <1>2, <1>4, <1>5, <1>6, PlainKeeps DEF Harmless

LEMMA CloseMarkKeeps ==
  ASSUME IInv, NEW r \in Runs, CloseMarkRun(r) \/ CloseMarkOp(r)
  PROVE  IInv'
<1>0. core \in CoreType /\ sched \in SchedulerType /\ row \in [Runs -> RowType]
  BY Types
<1>1. /\ core.phase # "boot" /\ core.ret # "boot" /\ Untouched
      /\ core.pc \in {"marking", "markOp"} /\ UNCHANGED <<sched, retained, faults>>
  BY Serving DEF CloseMarkRun, CloseMarkOp, At, BootPcs, DispatchPcs
<1>2. PICK x \in RowType :
        /\ row' = [row EXCEPT ![r] = x]
        /\ Untold(x) => Untold(row[r])
        /\ x.status \in Terminal => row[r].status \in Terminal
  <2>1. CASE CloseMarkRun(r)
    <3> DEFINE y == [row[r] EXCEPT !.status = "pending_reconcile"]
    <3>1. row' = [row EXCEPT ![r] = y]
      BY <1>0, <2>1 DEF CloseMarkRun
    <3>2. y \in RowType /\ y.status = "pending_reconcile" /\ y.op = row[r].op
      BY <1>0 DEF RowType, Statuses
    <3> HIDE DEF y
    <3> QED
      BY <3>1, <3>2 DEF Untold, Terminal
  <2>2. CASE CloseMarkOp(r)
    <3> DEFINE y == [row[r] EXCEPT !.op = "unknown"]
    <3>1. row' = [row EXCEPT ![r] = y]
      BY <1>0, <2>2 DEF CloseMarkOp
    <3>2. y \in RowType /\ y.status = row[r].status /\ y.op = "unknown"
      BY <1>0 DEF RowType, OpStatuses
    <3> HIDE DEF y
    <3> QED
      BY <3>1, <3>2 DEF Untold
  <2> QED
    BY <2>1, <2>2
<1>3. Harmless
  BY <1>0, <1>1, <1>2, WriteHarmless
<1>4. /\ core' \in CoreType /\ core'.pc \in {"marking", "markOp"}
      /\ core'.todo \subseteq core.todo /\ core'.phase = core.phase /\ core'.ret = core.ret
  BY ZenonT(40), <1>0 DEF CloseMarkRun, CloseMarkOp, Goto, CoreType, Pcs
<1>5. CurrentOpen' /\ CurrentWanted'
  BY <1>4 DEF CurrentOpen, CurrentWanted, At, BootPcs
<1>6. TodoOpen'
  <2> SUFFICES ASSUME NEW q \in core'.todo PROVE row'[q].status \notin Terminal
    BY DEF TodoOpen
  <2>1. q \in Runs /\ row[q].status \notin Terminal
    BY <1>0, <1>1, <1>4 DEF IInv, TodoOpen, CoreType
  <2> QED
    BY <1>3, <2>1 DEF Harmless
<1>7. BootOrder' /\ ServeOrder'
  BY <1>1, <1>4 DEF BootOrder, ServeOrder
<1> QED
  BY <1>1, <1>3, <1>4, <1>5, <1>6, <1>7, PlainKeeps, UntouchedSound DEF Harmless

LEMMA ShutdownKeeps ==
  ASSUME IInv, Shutdown
  PROVE  IInv'
<1>0. core \in CoreType /\ sched \in SchedulerType /\ row \in [Runs -> RowType]
  BY Types
<1>1. CASE CommitFails
  <2>1. /\ faults < MaxFaults /\ faults' = faults + 1 /\ core' = Raise(core)
        /\ UNCHANGED <<row, sched, retained, worker, updates, calls, crashes>>
    BY <1>1 DEF CommitFails, StoreFails
  <2>2. faults' \in 0 .. MaxFaults
    BY <2>1, Types, RunLifecycleAssumption
  <2>3. Harmless
    BY <2>1, <2>2, Types DEF Harmless, RowsSound
  <2>4. /\ core' \in CoreType /\ core'.pc = "raise" /\ core'.todo = {}
        /\ core'.phase = core.phase /\ core'.ret = core.ret
    BY <1>0, <2>1, RaiseType
  <2>5. BootOrder' /\ ServeOrder'
    BY <2>4 DEF BootOrder, IInv, ServeOrder
  <2> QED
    BY <2>1, <2>3, <2>4, <2>5, MoveKeeps, UntouchedSound DEF Midway, BootPcs, Untouched
<1>2. CASE HandleRaise
  <2>1. crashes' = crashes
    BY <1>2 DEF HandleRaise
  <2>2. CASE core.phase = "serve"
    <3> DEFINE p == IF HostSurvives THEN "idle" ELSE "close"
    <3>1. /\ core' = Goto(core, p) /\ UNCHANGED <<row, sched, retained, faults>>
          /\ Untouched
      BY <1>2, <2>1, <2>2 DEF HandleRaise, Untouched
    <3>2. p \in {"idle", "close"}
      OBVIOUS
    <3> HIDE DEF p
    <3> QED
      BY <1>0, <2>2, <3>1, <3>2, GotoKeeps, SameHarmless, UntouchedSound
         DEF Midway, BootPcs, Pcs
  <2>3. CASE core.phase # "serve"
    BY <1>2, <2>1, <2>3, ProcessEndsKeeps, Types DEF HandleRaise
  <2> QED
    BY <2>2, <2>3
<1>3. CASE StopRequested
  <2>1. core.phase # "boot"
    BY <1>3, Serving DEF StopRequested, At, BootPcs, DispatchPcs
  <2> QED
    BY <1>0, <1>3, <2>1, GotoKeeps, SameHarmless, UntouchedSound
       DEF StopRequested, Midway, BootPcs, Pcs
<1>4. CASE CloseBegin
  <2>1. crashes' = crashes /\ core.phase # "boot" /\ core.ret # "boot"
    BY <1>4, Serving DEF CloseBegin, At, BootPcs, DispatchPcs
  <2>2. CASE Background
    <3>1. /\ core' = [core EXCEPT !.pc = "closing", !.phase = "close"]
          /\ UNCHANGED <<row, sched, retained, faults>> /\ Untouched
      BY <1>4, <2>1, <2>2 DEF CloseBegin, Untouched
    <3>2. core' \in CoreType /\ core'.pc = "closing" /\ core'.phase = "close"
          /\ core'.ret = core.ret
      BY <1>0, <3>1 DEF CoreType, Pcs
    <3> QED
      BY <1>0, <2>1, <3>1, <3>2, ServeKeeps, SameHarmless, UntouchedSound DEF Midway, BootPcs
  <2>3. CASE ~Background
    BY <1>4, <2>1, <2>3, ProcessEndsKeeps, Types DEF CloseBegin
  <2> QED
    BY <2>2, <2>3
<1>5. CASE CloseDrained
  <2> DEFINE T == {r \in Runs : Open(row[r]) /\ row[r].op \notin {"absent", "intended"}}
  <2>1. /\ UNCHANGED <<row, sched, retained, faults>> /\ Untouched /\ At("closing")
        /\ core' = [core EXCEPT !.pc = "marking", !.todo = T]
    BY <1>5 DEF CloseDrained
  <2>2. T \subseteq Runs /\ \A r \in T : row'[r].status \notin Terminal
    BY <2>1 DEF Open
  <2> HIDE DEF T
  <2>3. /\ core' \in CoreType /\ core'.pc = "marking" /\ core'.todo = T
        /\ core'.phase = core.phase /\ core'.ret = core.ret
    BY <1>0, <2>1, <2>2 DEF CoreType, Pcs
  <2>4. core.phase # "boot" /\ core.ret # "boot"
    BY <2>1, Serving DEF At, BootPcs, DispatchPcs
  <2>5. CurrentOpen' /\ CurrentWanted' /\ TodoOpen'
    BY <2>2, <2>3 DEF CurrentOpen, CurrentWanted, TodoOpen, At, BootPcs
  <2>6. BootOrder' /\ ServeOrder'
    BY <2>3, <2>4 DEF BootOrder, ServeOrder
  <2> QED
    BY <1>0, <2>1, <2>3, <2>5, <2>6, PlainKeeps, SameHarmless, UntouchedSound DEF Harmless
<1>6. CASE CloseEnd
  BY <1>6, ProcessEndsKeeps, Types DEF CloseEnd
<1> QED
  BY <1>1, <1>2, <1>3, <1>4, <1>5, <1>6, CloseMarkKeeps DEF Shutdown

LEMMA WorkerKeeps ==
  ASSUME IInv, NEW r \in Runs, Worker(r)
  PROVE  IInv'
<1>0. /\ worker \in [Runs -> WorkerType] /\ worker[r] \in WorkerType
      /\ updates \in Seq([run : Runs, result : Kinds])
  BY Types
<1>1. CoreStands
  BY DEF Worker, WorkerPublishes, WorkerReturns, WorkerPuts, WorkerGoesOn, WorkerFallsBack,
         WorkerEnds, WorkerStops
<1>2. PICK w \in WorkerType : /\ worker' = [worker EXCEPT ![r] = w]
                              /\ w.pc = "put" => w.result # "none"
  <2> DEFINE Becomes(w) == /\ worker' = [worker EXCEPT ![r] = w]
                           /\ w.pc = "put" => w.result # "none"
  <2> SUFFICES \E w \in WorkerType : Becomes(w)
    OBVIOUS
  <2>1. ASSUME NEW k \in ProgressKinds, WorkerPublishes(r, k)
        PROVE  \E w \in WorkerType : Becomes(w)
    <3> DEFINE w == [worker[r] EXCEPT !.pc = "put", !.result = k]
    <3>1. worker' = [worker EXCEPT ![r] = w]
      BY <1>0, <2>1 DEF WorkerPublishes
    <3>2. k \in Kinds /\ k # "none"
      BY RunLifecycleAssumption DEF Kinds
    <3>3. w \in WorkerType /\ w.result = k
      BY <1>0, <3>2 DEF WorkerType
    <3> HIDE DEF w
    <3> QED
      BY <3>1, <3>2, <3>3
  <2>2. ASSUME NEW k \in FinalKinds, WorkerReturns(r, k)
        PROVE  \E w \in WorkerType : Becomes(w)
    <3> DEFINE w == [worker[r] EXCEPT !.pc = "put", !.result = k, !.final = TRUE]
    <3>1. worker' = [worker EXCEPT ![r] = w]
      BY <1>0, <2>2 DEF WorkerReturns
    <3>2. k \in Kinds /\ k # "none"
      BY RunLifecycleAssumption DEF Kinds, Terminal
    <3>3. w \in WorkerType /\ w.result = k
      BY <1>0, <3>2 DEF WorkerType
    <3> HIDE DEF w
    <3> QED
      BY <3>1, <3>2, <3>3
  <2>3. ASSUME NEW k \in {"fallback"} \cup (FinalKinds \cap {"unknown"}), WorkerFallsBack(r, k)
        PROVE  \E w \in WorkerType : Becomes(w)
    <3> DEFINE w == [worker[r] EXCEPT !.pc = "put", !.result = k, !.final = TRUE, !.error = FALSE]
    <3>1. worker' = [worker EXCEPT ![r] = w]
      BY <1>0, <2>3 DEF WorkerFallsBack
    <3>2. k \in Kinds /\ k # "none"
      BY DEF Kinds
    <3>3. w \in WorkerType /\ w.result = k
      BY <1>0, <3>2 DEF WorkerType
    <3> HIDE DEF w
    <3> QED
      BY <3>1, <3>2, <3>3
  <2>4. ASSUME NEW p \in {"ack", "act", "dead"},
               worker' = [worker EXCEPT ![r].pc = p]
        PROVE  \E w \in WorkerType : Becomes(w)
    <3> DEFINE w == [worker[r] EXCEPT !.pc = p]
    <3>1. worker' = [worker EXCEPT ![r] = w]
      BY <1>0, <2>4
    <3>2. w \in WorkerType /\ w.pc = p
      BY <1>0 DEF WorkerType
    <3> HIDE DEF w
    <3> QED
      BY <3>1, <3>2
  <2>5. CASE WorkerPuts(r) \/ WorkerGoesOn(r)
    <3>1. \/ worker' = [worker EXCEPT ![r].pc = "ack"]
          \/ worker' = [worker EXCEPT ![r].pc = "act"]
      BY <2>5 DEF WorkerPuts, WorkerGoesOn
    <3> HIDE DEF Becomes
    <3> QED
      BY <2>4, <3>1
  <2>6. CASE WorkerEnds(r) \/ WorkerStops(r)
    <3> DEFINE w == [NoWorker EXCEPT !.pc = "dead"]
    <3>1. worker' = [worker EXCEPT ![r] = w]
      BY <2>6 DEF WorkerEnds, WorkerStops
    <3>2. w \in WorkerType /\ w.pc = "dead"
      BY DEF NoWorker, WorkerType
    <3> HIDE DEF w
    <3> QED
      BY <3>1, <3>2
  <2> HIDE DEF Becomes
  <2> QED
    BY <2>1, <2>2, <2>3, <2>5, <2>6 DEF Worker
<1>3. worker' \in [Runs -> WorkerType] /\ WorkerHasResult'
  BY <1>0, <1>2 DEF IInv, WorkerHasResult
<1>4. updates' \in Seq([run : Runs, result : Kinds])
  <2>1. CASE WorkerPuts(r)
    <3> DEFINE u == [run |-> r, result |-> worker[r].result]
               U == [run : Runs, result : Kinds]
    <3>1. worker[r].result \in Kinds
      BY <1>0, <2>1 DEF IInv, WorkerHasResult, WorkerPuts, WorkerType
    <3>2. u \in U /\ updates \in Seq(U) /\ updates' = Append(updates, u)
      BY <1>0, <2>1, <3>1 DEF WorkerPuts
    <3> HIDE DEF u, U
    <3>3. updates' \in Seq(U)
      BY <3>2
    <3> QED
      BY <3>3 DEF U
  <2>2. CASE ~WorkerPuts(r)
    BY <1>0, <2>2 DEF Worker, WorkerPublishes, WorkerReturns, WorkerGoesOn, WorkerFallsBack,
                      WorkerEnds, WorkerStops
  <2> QED
    BY <2>1, <2>2
<1>5. ThreadsSound
  BY <1>1, <1>3, <1>4, Types DEF CoreStands, ThreadsSound
<1>6. Harmless /\ core' \in CoreType
  BY <1>1, SameHarmless, Types DEF CoreStands
<1>7. CurrentOpen' /\ CurrentWanted' /\ TodoOpen' /\ BootOrder' /\ ServeOrder'
  BY <1>1 DEF CoreStands, IInv, CurrentOpen, CurrentWanted, TodoOpen, BootOrder, ServeOrder, At
<1> QED
  BY <1>5, <1>6, <1>7, PlainKeeps DEF Harmless

LEMMA CrashKeeps ==
  ASSUME IInv, Crash
  PROVE  IInv'
<1>1. crashes' \in 0 .. MaxCrashes
  BY Types, RunLifecycleAssumption DEF Crash
<1> QED
  BY <1>1, ProcessEndsKeeps DEF Crash

LEMMA InitKeeps == Init => IInv
<1> SUFFICES ASSUME Init PROVE IInv
  OBVIOUS
<1>1. LegacyRows \cup {Unborn} \subseteq RowType
  <2>1. Unborn \in RowType
    BY DEF Unborn, RowType, Statuses, OpStatuses, ApprovalStates
  <2>2. ASSUME NEW op \in {"absent", "dispatched"}
        PROVE  [Unborn EXCEPT !.status = "running", !.op = op] \in RowType
    BY <2>1 DEF RowType, Statuses, OpStatuses
  <2> QED
    BY <2>1, <2>2 DEF LegacyRows
<1>2. \A x \in LegacyRows : x.op # "intended" /\ x.status = "running"
  BY DEF LegacyRows, Unborn
<1>3. <<>> \in Seq(Runs) /\ <<>> \in Seq([run : Runs, result : Kinds])
  OBVIOUS
<1>4. /\ core \in CoreType /\ core.pc = "down" /\ core.phase = "boot" /\ core.todo = {}
  BY <1>3 DEF Init, CoreDown, CoreType, Pcs, Returns
<1>5. row \in [Runs -> RowType] /\ calls \in [Runs -> Nat]
  BY <1>1 DEF Init
<1>6. CallsFollowRows
  <2> SUFFICES ASSUME NEW r \in Runs
               PROVE  calls[r] <= 1 /\ (Untold(row[r]) => calls[r] = 0)
    BY DEF CallsFollowRows
  <2>1. r \in LegacyRuns => row[r] \in LegacyRows
    BY DEF Init
  <2>2. calls[r] = IF r \in LegacyRuns THEN 1 ELSE 0
    BY DEF Init
  <2> QED
    BY <1>2, <2>1, <2>2 DEF Untold
<1>7. NoWorker \in WorkerType /\ NoWorker.pc = "none"
  BY DEF NoWorker, WorkerType
<1>8. worker \in [Runs -> WorkerType] /\ WorkerHasResult
  BY <1>7 DEF Init, WorkerHasResult
<1>9. faults \in 0 .. MaxFaults /\ crashes \in 0 .. MaxCrashes
  BY RunLifecycleAssumption DEF Init
<1>10. TypeOK
  BY <1>3, <1>4, <1>5, <1>8, <1>9, EmptyType, NothingType DEF Init, TypeOK
<1>11. CurrentOpen /\ CurrentWanted /\ TodoOpen /\ BootOrder /\ ServeOrder
  BY <1>4 DEF CurrentOpen, CurrentWanted, TodoOpen, BootOrder, ServeOrder, At, BootPcs
<1> QED
  BY <1>6, <1>8, <1>10, <1>11 DEF IInv

LEMMA StepKeeps == IInv /\ [Next]_vars => IInv'
<1> SUFFICES ASSUME IInv, [Next]_vars PROVE IInv'
  OBVIOUS
<1>1. CASE UNCHANGED vars
  BY <1>1 DEF vars, IInv, TypeOK, WorkerHasResult, CallsFollowRows, CurrentOpen,
              CurrentWanted, TodoOpen, BootOrder, ServeOrder, At
<1>2. CASE Next
  BY <1>2, RestoreKeeps, PollKeeps, DispatchKeeps, RequestKeeps, ShutdownKeeps, WorkerKeeps,
     CrashKeeps DEF Next, CoreThread
<1> QED
  BY <1>1, <1>2

(* IInv holds in every reachable state. *)
THEOREM Invariance == Spec => []IInv
BY InitKeeps, StepKeeps, PTL DEF Spec

(* Every variable keeps its shape: no write of application.py, executor.py   *)
(* or scheduler.py puts a status, a result or a count out of its range.      *)
THEOREM TypeCorrect == Spec => []TypeOK
<1>1. IInv => TypeOK
  BY DEF IInv
<1> QED
  BY <1>1, Invariance, PTL

(* operation.status is enough to dispatch every run at most once: the calls  *)
(* made are bounded by the durable operation row, whatever crashes, failed   *)
(* writes, replays and reconciliations come in between.                      *)
THEOREM OneDispatch == Spec => []AtMostOneDispatch
<1>1. IInv => AtMostOneDispatch
  BY DEF IInv, CallsFollowRows, AtMostOneDispatch
<1> QED
  BY <1>1, Invariance, PTL

-----------------------------------------------------------------------------
(* What a step may do to a run that ended. *)

LEMMA RecordIsFinal ==
  ASSUME row \in [Runs -> RowType], NEW r \in Runs,
         NEW k, NEW d, NEW replay, NEW s, NEW c, NEW next, NEW ended, NEW onFail,
         Record(r, k, d, replay, s, c, next, ended, onFail)
  PROVE  \A q \in Runs : row[q].status \in Terminal => row'[q].status = row[q].status
<1>1. row' = row \/ (Open(row[r]) /\ \E x : row' = [row EXCEPT ![r] = x])
  <2>1. CASE RecordFails(r, k, d, s, c, onFail)
    <3>1. PICK preserved \in BOOLEAN :
            row' = IF preserved THEN [row EXCEPT ![r] = Preserved(@, k, d)] ELSE row
      BY <2>1 DEF RecordFails
    <3>2. Open(row[r])
      BY <2>1 DEF RecordFails
    <3> QED
      BY <3>1, <3>2
  <2>2. CASE RecordLands(r, k, d, replay, s, c, next, ended)
    BY <2>2 DEF RecordLands
  <2>3. CASE RecordDropped(r, s, c, ended) \/ RecordIgnored(r, k, s, c, next)
    BY <2>3 DEF RecordDropped, RecordIgnored
  <2> QED
    BY <2>1, <2>2, <2>3 DEF Record
<1> QED
  BY <1>1 DEF Open

LEMMA WriteIsFinal ==
  ASSUME row \in [Runs -> RowType], NEW r \in Runs, NEW x,
         row' = [row EXCEPT ![r] = x],
         row[r].status \notin Terminal \/ x.status = row[r].status
  PROVE  \A q \in Runs : row[q].status \in Terminal => row'[q].status = row[q].status
OBVIOUS

LEMMA StepIsFinal ==
  ASSUME IInv, Next
  PROVE  \A q \in Runs : row[q].status \in Terminal => row'[q].status = row[q].status
<1>0. row \in [Runs -> RowType]
  BY Types
<1>1. row' = row => \A q \in Runs : row[q].status \in Terminal => row'[q].status = row[q].status
  OBVIOUS
<1>2. CASE Restore
  <2>1. CASE OpenProcess \/ BootEnd
    BY <1>1, <2>1 DEF OpenProcess, BootEnd
  <2>2. ASSUME NEW r \in Runs, BootReplay(r) \/ BootLost(r) \/ ReconReplay(r)
        PROVE  \A q \in Runs : row[q].status \in Terminal => row'[q].status = row[q].status
    BY <1>0, <1>1, <2>2, RecordIsFinal DEF BootReplay, BootLost, ReconReplay
  <2>3. ASSUME NEW r \in Runs, BootEnqueue(r) \/ BootProject(r) \/ ReconObserved(r)
        PROVE  \A q \in Runs : row[q].status \in Terminal => row'[q].status = row[q].status
    BY <1>1, <2>3 DEF BootEnqueue, BootProject, ReconObserved
  <2>4. ASSUME NEW r \in Runs, ReconUntracked(r) \/ ReconUnknownOp(r) \/ ReconUnknownRun(r)
        PROVE  \A q \in Runs : row[q].status \in Terminal => row'[q].status = row[q].status
    <3>1. row[r].status \notin Terminal /\ \E x : row' = [row EXCEPT ![r] = x]
      BY <2>4 DEF ReconUntracked, ReconUnknownOp, ReconUnknownRun, IInv, CurrentOpen, BootPcs, At
    <3> QED
      BY <1>0, <3>1, WriteIsFinal
  <2> QED
    BY <1>2, <2>1, <2>2, <2>3, <2>4 DEF Restore
<1>3. CASE Poll
  <2>1. CASE PollBegin \/ RetryEnd \/ UpdatesEnd \/ PollEnd
    BY <1>1, <2>1 DEF PollBegin, RetryEnd, UpdatesEnd, PollEnd
  <2>2. ASSUME NEW r \in Runs, RetryOne(r) \/ ApplyUpdate(r)
        PROVE  \A q \in Runs : row[q].status \in Terminal => row'[q].status = row[q].status
    BY <1>0, <2>2, RecordIsFinal DEF RetryOne, ApplyUpdate
  <2> QED
    BY <1>3, <2>1, <2>2 DEF Poll
<1>4. CASE Dispatch
  <2>1. ASSUME NEW r \in Runs, DrainEnd \/ DrainSkip(r) \/ DrainTake(r)
        PROVE  \A q \in Runs : row[q].status \in Terminal => row'[q].status = row[q].status
    BY <1>1, <2>1 DEF DrainEnd, DrainSkip, DrainTake
  <2>2. ASSUME NEW r \in Runs, CheckRefuses(r) \/ CommitDispatching(r) \/ CallRaises(r)
        PROVE  \A q \in Runs : row[q].status \in Terminal => row'[q].status = row[q].status
    <3>1. row[r].status \notin Terminal
      BY <2>2 DEF CheckRefuses, CommitDispatching, CallRaises, IInv, CurrentOpen, At
    <3>2. row' = row \/ \E x : row' = [row EXCEPT ![r] = x]
      BY <2>2 DEF CheckRefuses, CommitDispatching, CallRaises
    <3> QED
      BY <1>0, <1>1, <3>1, <3>2, WriteIsFinal
  <2>3. ASSUME NEW r \in Runs, RefusedOp(r) \/ CallBackend(r)
        PROVE  \A q \in Runs : row[q].status \in Terminal => row'[q].status = row[q].status
    BY <1>0, <2>3 DEF RefusedOp, CallBackend, RowType
  <2>4. ASSUME NEW r \in Runs,
               StreamPublishes(r) \/ \E k \in FinalKinds : CallReturns(r, k)
        PROVE  \A q \in Runs : row[q].status \in Terminal => row'[q].status = row[q].status
    BY <1>0, <2>4, RecordIsFinal DEF StreamPublishes, CallReturns
  <2> QED
    BY <1>4, <2>1, <2>2, <2>3, <2>4 DEF Dispatch
<1>5. ASSUME NEW r \in Runs,
             \/ TaskSubmit(r) \/ Admit(r) \/ CancelUnconfirmed(r) \/ TerminateIntent(r)
             \/ PauseRun(r) \/ ResumeRun(r) \/ ReconcileOnly(r) \/ RespondUnknown(r)
      PROVE  \A q \in Runs : row[q].status \in Terminal => row'[q].status = row[q].status
  <2>1. row' = row \/ (row[r].status \notin Terminal /\ \E x : row' = [row EXCEPT ![r] = x])
    BY <1>5 DEF TaskSubmit, Admit, CancelUnconfirmed, TerminateIntent, PauseRun, ResumeRun,
                ReconcileOnly, RespondUnknown, Open, Terminal
  <2> QED
    BY <1>0, <1>1, <2>1, WriteIsFinal
<1>6. ASSUME NEW r \in Runs,
             \/ CancelIntent(r) \/ TerminateSave(r) \/ PauseTask(r) \/ ResumeTask(r)
             \/ RespondIntent(r)
      PROVE  \A q \in Runs : row[q].status \in Terminal => row'[q].status = row[q].status
  BY <1>0, <1>6 DEF CancelIntent, TerminateSave, PauseTask, ResumeTask, RespondIntent, RowType
<1>7. ASSUME NEW r \in Runs,
             \/ CancelQueued(r) \/ TerminateRecord(r) \/ (\E k : CancelConfirmed(r, k))
             \/ (\E k : ReconcileRecord(r, k)) \/ (\E k, d : RespondAnswered(r, k, d))
      PROVE  \A q \in Runs : row[q].status \in Terminal => row'[q].status = row[q].status
  BY <1>0, <1>7, RecordIsFinal DEF CancelQueued, TerminateRecord, CancelConfirmed,
                                   ReconcileRecord, RespondAnswered
<1>8. CASE Shutdown
  <2>1. CASE CommitFails \/ HandleRaise \/ StopRequested \/ CloseBegin \/ CloseDrained \/ CloseEnd
    BY <1>1, <2>1 DEF CommitFails, StoreFails, HandleRaise, StopRequested, CloseBegin,
                      CloseDrained, CloseEnd, ProcessEnds
  <2>2. ASSUME NEW r \in Runs, CloseMarkRun(r)
        PROVE  \A q \in Runs : row[q].status \in Terminal => row'[q].status = row[q].status
    <3>1. row[r].status \notin Terminal /\ \E x : row' = [row EXCEPT ![r] = x]
      BY <2>2 DEF CloseMarkRun, IInv, TodoOpen, At
    <3> QED
      BY <1>0, <3>1, WriteIsFinal
  <2>3. ASSUME NEW r \in Runs, CloseMarkOp(r)
        PROVE  \A q \in Runs : row[q].status \in Terminal => row'[q].status = row[q].status
    BY <1>0, <2>3 DEF CloseMarkOp, RowType
  <2> QED
    BY <1>8, <2>1, <2>2, <2>3 DEF Shutdown
<1>9. CASE Crash \/ \E r \in Runs : Worker(r)
  BY <1>1, <1>9 DEF Crash, ProcessEnds, Worker, WorkerPublishes, WorkerReturns, WorkerPuts,
     WorkerGoesOn, WorkerFallsBack, WorkerEnds, WorkerStops, CoreStands
<1>10. CASE Request
  BY <1>5, <1>6, <1>7, <1>10 DEF Request
<1> QED
  BY <1>2, <1>3, <1>4, <1>8, <1>9, <1>10 DEF Next, CoreThread

(* A run that ended keeps its outcome: late results, replays of kept         *)
(* results, cancellations, reconciliation and shutdown leave it alone.       *)
THEOREM OutcomeIsFinal == Spec => TerminalIsFinal
<1>1. IInv /\ [Next]_vars =>
        [\A r \in Runs : row[r].status \in Terminal => row'[r].status = row[r].status]_vars
  BY StepIsFinal
<1> QED
  BY <1>1, Invariance, PTL DEF Spec, TerminalIsFinal

-----------------------------------------------------------------------------
(* What a step that calls a backend has checked. *)

LEMMA CallsOnlyDispatch ==
  ASSUME Next, calls' # calls
  PROVE  \E r \in Runs : CallBackend(r)
<1>1. ~Restore
  BY DEF Restore, OpenProcess, BootEnd, BootReplay, BootEnqueue, BootLost, BootProject,
         ReconReplay, ReconUntracked, ReconObserved, ReconUnknownOp, ReconUnknownRun, Untouched
<1>2. ~Poll
  BY ZenonT(60) DEF Poll, PollBegin, RetryEnd, UpdatesEnd, PollEnd, RetryOne, ApplyUpdate, Untouched
<1>3. ~Request
  BY ZenonT(60) DEF Request, TaskSubmit, Admit, CancelIntent, CancelQueued, CancelUnconfirmed,
         CancelConfirmed, TerminateIntent, TerminateSave, TerminateRecord, PauseRun, PauseTask,
         ResumeRun, ResumeTask, ReconcileOnly, ReconcileRecord, RespondIntent, RespondUnknown,
         RespondAnswered, Untouched
<1>4. ~Shutdown
  BY DEF Shutdown, CommitFails, StoreFails, HandleRaise, StopRequested, CloseBegin,
         CloseDrained, CloseEnd, CloseMarkRun, CloseMarkOp, ProcessEnds, Untouched
<1>5. ~Crash /\ \A r \in Runs : ~Worker(r)
  BY DEF Crash, ProcessEnds, Worker, WorkerPublishes, WorkerReturns, WorkerPuts,
         WorkerGoesOn, WorkerFallsBack, WorkerEnds, WorkerStops, CoreStands
<1> QED
  BY <1>1, <1>2, <1>3, <1>4, <1>5
     DEF Next, CoreThread, Dispatch, DrainEnd, DrainSkip, DrainTake, CheckRefuses, RefusedOp,
         CommitDispatching, StreamPublishes, CallRaises, CallReturns, Untouched

(* Between the checks of _dispatch_committed and the call of the backend     *)
(* nothing hands the task to a human or accepts a cancellation, and no       *)
(* restart forgets either.                                                   *)
THEOREM UnwantedNotDispatched == Spec => NoUnwantedDispatch
<1>1. ASSUME IInv, [Next]_vars
      PROVE  [\A r \in Runs : Called(r) => ~row[r].paused /\ ~row[r].cancel]_vars
  <2> SUFFICES ASSUME Next, NEW r \in Runs, calls'[r] # calls[r]
               PROVE  ~row[r].paused /\ ~row[r].cancel
    BY <1>1 DEF Called
  <2>1. PICK q \in Runs : CallBackend(q)
    BY CallsOnlyDispatch
  <2>2. calls' = [calls EXCEPT ![q] = calls[q] + 1]
    BY <2>1 DEF CallBackend
  <2>3. r = q
    BY <1>1, <2>2, Types
  <2> QED
    BY <1>1, <2>1, <2>3 DEF CallBackend, IInv, CurrentWanted, At
<1> QED
  BY <1>1, Invariance, PTL DEF Spec, NoUnwantedDispatch
=============================================================================
