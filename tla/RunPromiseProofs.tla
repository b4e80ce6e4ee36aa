-------------------------- MODULE RunPromiseProofs --------------------------
(***************************************************************************)
(* What RunLifecycle promises of the effects of a run, for every value of   *)
(* the constants: that an answer to an approval lands once (AnswersLand),   *)
(* that the runs move as RunPromise says (PromiseKept), and that the marks  *)
(* of the rows govern the slots of the scheduler (MarksGovernSlots).        *)
(***************************************************************************)
EXTENDS RunQueueProofs

-----------------------------------------------------------------------------
(* Approvals: the inductive invariant. *)

(* The row x of a run and the approval outcome a that is kept in memory for  *)
(* it: an attempt is recorded before there is an outcome, the two places     *)
(* that may hold one agree, and what was attempted is not offered again.     *)
Consistent(x, a) ==
  /\ x.attempted => x.approval \notin {"none", "pending"}
  /\ x.answer # "none" \/ a # "none" => x.attempted
  /\ x.answer # "none" /\ a # "none" => x.answer = a
  /\ x.status = "unborn" => ~x.attempted

(* No outcome is kept anywhere yet. *)
Unheard(x, a) == x.attempted /\ x.answer = "none" /\ a = "none"

(* While approval.respond waits for the backend, no outcome is kept: the one *)
(* it will record contradicts nothing.                                       *)
Forwarding ==
  At("forwarding") => \A r \in Runs : core.cur = r => Unheard(row[r], retained[r].answer)

Approvals == (\A r \in Runs : Consistent(row[r], retained[r].answer)) /\ Forwarding

(* A stashed outcome stays or becomes the state of the approval. *)
Lands(x, y) == x.answer # "none" => y.answer = x.answer \/ y.approval = x.answer

AnswersKept == Approvals' /\ \A r \in Runs : Lands(row[r], row'[r])

-----------------------------------------------------------------------------
(* What a result does to the approval of its run. *)

(* The outcome d may be recorded where x and a are kept. *)
MayTell(x, a, d) == d # "none" => x.attempted /\ x.answer \in {"none", d} /\ a \in {"none", d}

(* The operation status is no matter of the approval. *)
LEMMA WithOpAnswers ==
  ASSUME NEW x \in RowType, NEW op \in OpStatuses
  PROVE  /\ WithOp(x, op).answer = x.answer /\ WithOp(x, op).approval = x.approval
         /\ WithOp(x, op).attempted = x.attempted /\ WithOp(x, op).status = x.status
BY DEF WithOp, RowType

(* An outcome that is written is the state of the approval. *)
LEMMA WithAnswerAnswers ==
  ASSUME NEW x \in RowType, NEW d \in Decisions \cup {"none"}
  PROVE  /\ WithAnswer(x, d).approval = IF d = "none" THEN x.approval ELSE d
         /\ WithAnswer(x, d).attempted = x.attempted
BY DEF WithAnswer, RowType

(* _record_result_once applies the outcome it is given, or the stashed one,  *)
(* before it looks at the approvals the result lists.                        *)
LEMMA LandedAnswers ==
  ASSUME NEW x \in RowType, NEW k \in Kinds, NEW d \in Decisions \cup {"none"}
  PROVE  LET e == IF d # "none" THEN d ELSE x.answer
         IN  /\ Landed(x, k, d).answer = "none" /\ Landed(x, k, d).attempted = x.attempted
             /\ x.attempted => \/ e # "none" /\ Landed(x, k, d).approval = e
                               \/ /\ e = "none"
                                  /\ Landed(x, k, d).approval \in {x.approval, "invalidated"}
<1> DEFINE e == IF d # "none" THEN d ELSE x.answer
           y == WithAnswer(x, e)
           v == ApprovalAfter(y, k)
           z == [y EXCEPT !.status = StatusOf(k),
                          !.mark = IF k \in Terminal THEN "none" ELSE "held",
                          !.stash = "none", !.answer = "none",
                          !.approval = v]
<1>1. e \in Decisions \cup {"none"}
  BY DEF RowType
<1>2. /\ y \in RowType /\ y.attempted = x.attempted
      /\ y.approval = IF e = "none" THEN x.approval ELSE e
  BY <1>1, WithAnswerType, WithAnswerAnswers
<1> HIDE DEF y, e
<1>3. v \in ApprovalStates
  BY <1>2 DEF ApprovalAfter, RowType, ApprovalStates
<1>4. x.attempted => \/ e # "none" /\ v = e
                     \/ e = "none" /\ v \in {x.approval, "invalidated"}
  BY <1>1, <1>2 DEF ApprovalAfter, Decisions
<1>5. StatusOf(k) \in Statuses /\ OpFor(StatusOf(k)) \in OpStatuses
  BY StatusOfType
<1> HIDE DEF v
<1>6. /\ z \in RowType /\ z.answer = "none" /\ z.attempted = x.attempted /\ z.approval = v
  BY <1>2, <1>3, <1>5 DEF RowType
<1>7. Landed(x, k, d) = WithOp(z, OpFor(StatusOf(k)))
  BY DEF Landed, y, v, e
<1> HIDE DEF z
<1>8. /\ Landed(x, k, d).answer = "none" /\ Landed(x, k, d).attempted = x.attempted
      /\ Landed(x, k, d).approval = v
  BY <1>5, <1>6, <1>7, WithOpAnswers
<1> QED
  BY <1>4, <1>8 DEF e

(* _commit_retained_progress applies it as well. *)
LEMMA ProgressLandedAnswers ==
  ASSUME NEW x \in RowType, NEW d \in Decisions \cup {"none"}
  PROVE  LET e == IF d # "none" THEN d ELSE x.answer
         IN  /\ ProgressLanded(x, d).answer = "none"
             /\ ProgressLanded(x, d).attempted = x.attempted
             /\ ProgressLanded(x, d).approval = IF e = "none" THEN x.approval ELSE e
<1> DEFINE e == IF d # "none" THEN d ELSE x.answer
           y == WithAnswer(x, e)
           z == [y EXCEPT !.status = "pending_reconcile", !.mark = "released",
                          !.stash = "none", !.answer = "none"]
<1>1. e \in Decisions \cup {"none"}
  BY DEF RowType
<1>2. /\ y \in RowType /\ y.attempted = x.attempted
      /\ y.approval = IF e = "none" THEN x.approval ELSE e
  BY <1>1, WithAnswerType, WithAnswerAnswers
<1> HIDE DEF y, e
<1>3. z \in RowType /\ z.answer = "none" /\ z.attempted = y.attempted /\ z.approval = y.approval
  BY <1>2 DEF RowType, Statuses
<1>4. ProgressLanded(x, d) = WithOp(z, "unknown")
  BY DEF ProgressLanded, y, e
<1> HIDE DEF z
<1>5. /\ ProgressLanded(x, d).answer = "none" /\ ProgressLanded(x, d).attempted = y.attempted
      /\ ProgressLanded(x, d).approval = y.approval
  BY <1>3, <1>4, WithOpAnswers DEF OpStatuses
<1> QED
  BY <1>2, <1>5 DEF e

(* _preserve_failed_result stashes the outcome it is given, and keeps the    *)
(* one that is stashed otherwise.                                            *)
LEMMA PreservedAnswers ==
  ASSUME NEW x \in RowType, NEW k \in Kinds, NEW d \in Decisions \cup {"none"}
  PROVE  /\ Preserved(x, k, d).answer = IF d # "none" THEN d ELSE x.answer
         /\ Preserved(x, k, d).attempted = x.attempted
         /\ Preserved(x, k, d).approval = x.approval
<1> DEFINE z == [x EXCEPT !.status = "pending_reconcile", !.mark = "released",
                   !.stash = IF Rich(@) /\ k = "fallback" THEN @ ELSE k,
                   !.answer = IF d # "none" THEN d ELSE @]
<1>1. /\ z \in RowType /\ z.answer = IF d # "none" THEN d ELSE x.answer
      /\ z.attempted = x.attempted /\ z.approval = x.approval
  BY DEF RowType, Statuses
<1>2. Preserved(x, k, d) = WithOp(z, "unknown")
  BY DEF Preserved
<1> HIDE DEF z
<1> QED
  BY <1>1, <1>2, WithOpAnswers DEF OpStatuses

(* Memory keeps the outcome it is given, or what it has. *)
LEMMA RememberAnswers ==
  ASSUME NEW m \in RetainedType, NEW k, NEW d \in Decisions \cup {"none"}
  PROVE  Remember(m, k, d).answer \in {m.answer, IF d # "none" THEN d ELSE m.answer}
BY DEF Remember, RetainedType

(* A result that may be recorded keeps the run consistent, wherever it ends  *)
(* up, and a stashed outcome lands.                                          *)
LEMMA LandedConsistent ==
  ASSUME NEW x \in RowType, NEW k \in Kinds, NEW a \in Decisions \cup {"none"},
         NEW d \in Decisions \cup {"none"}, Consistent(x, a), MayTell(x, a, d)
  PROVE  /\ Consistent(Landed(x, k, d), "none") /\ Lands(x, Landed(x, k, d))
         /\ Consistent(ProgressLanded(x, d), "none") /\ Lands(x, ProgressLanded(x, d))
<1> DEFINE e == IF d # "none" THEN d ELSE x.answer
<1>1. /\ e \in Decisions \cup {"none"}
      /\ x.answer # "none" => x.attempted /\ e = x.answer
      /\ x.attempted => x.approval \notin {"none", "pending"}
  BY DEF Consistent, MayTell, RowType
<1>2. e # "none" => e \notin {"none", "pending"}
  BY <1>1 DEF Decisions
<1> DEFINE y == Landed(x, k, d)
           z == ProgressLanded(x, d)
<1>3. /\ y.answer = "none" /\ y.attempted = x.attempted
      /\ x.attempted => \/ e # "none" /\ y.approval = e
                        \/ e = "none" /\ y.approval \in {x.approval, "invalidated"}
  BY LandedAnswers
<1>4. /\ z.answer = "none" /\ z.attempted = x.attempted
      /\ z.approval = IF e = "none" THEN x.approval ELSE e
  BY ProgressLandedAnswers
<1>5. y.status # "unborn" /\ z.status # "unborn"
  BY LandedType, ProgressLandedType, StatusOfType
<1> HIDE DEF y, z, e
<1>6. Consistent(y, "none") /\ Lands(x, y)
  BY <1>1, <1>2, <1>3, <1>5 DEF Consistent, Lands
<1>7. Consistent(z, "none") /\ Lands(x, z)
  BY <1>1, <1>2, <1>4, <1>5 DEF Consistent, Lands
<1> QED
  BY <1>6, <1>7 DEF y, z

(* So does a result that can only be kept. *)
LEMMA KeptConsistent ==
  ASSUME NEW x \in RowType, NEW k \in Kinds, NEW m \in RetainedType,
         NEW d \in Decisions \cup {"none"}, Consistent(x, m.answer), MayTell(x, m.answer, d)
  PROVE  /\ Consistent(x, Remember(m, k, d).answer)
         /\ Consistent(Preserved(x, k, d), Remember(m, k, d).answer)
         /\ Lands(x, Preserved(x, k, d))
<1> DEFINE a == Remember(m, k, d).answer
           y == Preserved(x, k, d)
<1>1. a \in {m.answer, IF d # "none" THEN d ELSE m.answer}
  BY RememberAnswers
<1>2. /\ y.answer = IF d # "none" THEN d ELSE x.answer
      /\ y.attempted = x.attempted /\ y.approval = x.approval
  BY PreservedAnswers
<1>3. y.status # "unborn"
  BY PreservedType
<1> HIDE DEF a, y
<1>4. Consistent(x, a)
  BY <1>1 DEF Consistent, MayTell
<1>5. Consistent(y, a)
  BY <1>1, <1>2, <1>3 DEF Consistent, MayTell
<1>6. Lands(x, y)
  BY <1>2 DEF Lands, MayTell
<1> QED
  BY <1>4, <1>5, <1>6 DEF a, y

(* An outcome that is forgotten in memory, and one that is kept already.     *)
LEMMA ForgetConsistent ==
  ASSUME NEW x, NEW a, Consistent(x, a)
  PROVE  /\ Consistent(x, "none")
         /\ MayTell(x, a, "none") /\ MayTell(x, a, a) /\ MayTell(x, a, x.answer)
BY DEF Consistent, MayTell

-----------------------------------------------------------------------------
(* The steps of the core. *)

(* _record_result, whatever the caller goes on with. *)
LEMMA RecordAnswers ==
  ASSUME IInv, Approvals,
         NEW r \in Runs, NEW k \in Kinds, NEW d \in Decisions \cup {"none"},
         NEW replay \in BOOLEAN, NEW s \in SchedulerType, NEW c \in CoreType,
         NEW next \in Pcs, NEW ended \in Returns, NEW onFail \in Pcs,
         Record(r, k, d, replay, s, c, next, ended, onFail),
         MayTell(row[r], retained[r].answer, d),
         next # "forwarding", ended # "forwarding", onFail # "forwarding"
  PROVE  AnswersKept
<1>1. /\ row \in [Runs -> RowType] /\ retained \in [Runs -> RetainedType]
      /\ row[r] \in RowType /\ retained[r] \in RetainedType
      /\ retained[r].answer \in Decisions \cup {"none"}
  BY Types DEF RetainedType
<1>2. AfterRecord(r, c, next, ended, onFail)
  BY RecordStep DEF IInv
<1>3. core'.pc # "forwarding"
  BY <1>2 DEF AfterRecord, Resumes
<1>4. Consistent(row[r], retained[r].answer) /\ Consistent(row[r], "none")
  BY ForgetConsistent DEF Approvals
<1> DEFINE Told(x, a) == Consistent(x, a) /\ Lands(row[r], x)
<1>5. Told(row'[r], retained'[r].answer)
      /\ \A q \in Runs \ {r} : row'[q] = row[q] /\ retained'[q] = retained[q]
  <2>0. Lands(row[r], row[r])
    BY DEF Lands
  <2>1. CASE RecordLands(r, k, d, replay, s, c, next, ended)
    <3> DEFINE x == IF replay /\ IsProgress(k) THEN ProgressLanded(row[r], d)
                                               ELSE Landed(row[r], k, d)
    <3>1. row' = [row EXCEPT ![r] = x] /\ retained' = [retained EXCEPT ![r] = Nothing]
      BY <2>1 DEF RecordLands
    <3>2. Told(x, "none")
      BY <1>1, <1>4, LandedConsistent
    <3> HIDE DEF x, Told
    <3>3. row'[r] = x /\ retained'[r] = Nothing /\ Nothing.answer = "none"
      BY <1>1, <3>1 DEF Nothing
    <3>4. \A q \in Runs \ {r} : row'[q] = row[q] /\ retained'[q] = retained[q]
      BY <1>1, <3>1
    <3> QED
      BY <3>2, <3>3, <3>4
  <2>2. CASE RecordDropped(r, s, c, ended)
    <3>1. row' = row /\ retained' = [retained EXCEPT ![r] = Nothing]
      BY <2>2 DEF RecordDropped
    <3>2. retained'[r] = Nothing /\ Nothing.answer = "none"
      BY <1>1, <3>1 DEF Nothing
    <3> QED
      BY <1>1, <1>4, <2>0, <3>1, <3>2
  <2>3. CASE RecordIgnored(r, k, s, c, next)
    BY <1>4, <2>0, <2>3 DEF RecordIgnored
  <2>4. CASE RecordFails(r, k, d, s, c, onFail)
    <3> DEFINE x == Preserved(row[r], k, d)
               m == Remember(retained[r], k, d)
    <3>1. row' \in {row, [row EXCEPT ![r] = x]} /\ retained' = [retained EXCEPT ![r] = m]
      BY <2>4 DEF RecordFails
    <3>2. Told(x, m.answer) /\ Told(row[r], m.answer)
      BY <1>1, <1>4, <2>0, KeptConsistent
    <3> HIDE DEF x, m, Told
    <3>3. row'[r] \in {row[r], x} /\ retained'[r] = m
      BY <1>1, <3>1
    <3>4. \A q \in Runs \ {r} : row'[q] = row[q] /\ retained'[q] = retained[q]
      BY <1>1, <3>1
    <3> QED
      BY <3>2, <3>3, <3>4
  <2> QED
    BY <2>1, <2>2, <2>3, <2>4 DEF Record
<1> QED
  BY <1>3, <1>5 DEF AnswersKept, Approvals, Forwarding, At, Lands

(* A step that has nothing to do with approvals. *)
AnswersStand ==
  /\ \A q \in Runs : /\ row'[q].answer = row[q].answer /\ row'[q].approval = row[q].approval
                     /\ row'[q].attempted = row[q].attempted
                     /\ row'[q].status = "unborn" => row[q].status = "unborn"
                     /\ retained'[q].answer \in {"none", retained[q].answer}
  /\ core'.pc = "forwarding" => core' = core

(* Such a step keeps the invariant. *)
LEMMA StandAnswers ==
  ASSUME Approvals, AnswersStand
  PROVE  AnswersKept
<1>1. \A q \in Runs : Consistent(row'[q], retained'[q].answer) /\ Lands(row[q], row'[q])
  BY DEF Approvals, AnswersStand, Consistent, Lands
<1>2. Forwarding'
  BY DEF Approvals, AnswersStand, Forwarding, Unheard, At
<1> QED
  BY <1>1, <1>2 DEF AnswersKept, Approvals

(* No row is written, and nothing is kept that was not.                      *)
LEMMA SameStand ==
  ASSUME row' = row, retained' = retained, core'.pc # "forwarding"
  PROVE  AnswersStand
BY DEF AnswersStand

(* A write of the row of one run that leaves its approval alone. *)
LEMMA WriteStand ==
  ASSUME IInv, NEW r \in Runs, NEW x, row' = [row EXCEPT ![r] = x],
         x.answer = row[r].answer, x.approval = row[r].approval,
         x.attempted = row[r].attempted, x.status = "unborn" => row[r].status = "unborn",
         retained' = retained, core'.pc # "forwarding"
  PROVE  AnswersStand
<1>1. row \in [Runs -> RowType]
  BY Types
<1>2. \A q \in Runs : row'[q] = row[q] \/ (q = r /\ row'[q] = x)
  BY <1>1
<1> QED
  BY <1>2 DEF AnswersStand

(* The core goes on somewhere else. *)
LEMMA GotoAside ==
  ASSUME NEW c \in CoreType, NEW p, p # "forwarding", core' = Goto(c, p)
  PROVE  core'.pc # "forwarding"
BY DEF Goto, CoreType

(* So does a core that begins to drain the queue. *)
LEMMA DrainAside ==
  ASSUME NEW c \in CoreType, NEW q, NEW p, core' = BeginDrain(c, q, p)
  PROVE  core'.pc # "forwarding"
BY DEF BeginDrain, CoreType

(* The replays of the restore record the outcome that is stashed. *)
LEMMA RestoreAnswers ==
  ASSUME IInv, QInv, Approvals, Restore
  PROVE  AnswersKept
<1>0. /\ core \in CoreType /\ sched \in SchedulerType /\ row \in [Runs -> RowType]
      /\ core.ret # "forwarding" /\ core.ret \in Returns /\ core.ret \in Pcs
      /\ {"bootRun", "boot", "raise", "reconTail"} \subseteq Pcs /\ "boot" \in Returns
      /\ TRUE \in BOOLEAN /\ FALSE \in BOOLEAN
      /\ "none" \in Decisions \cup {"none"} /\ {"failed", "cancelled"} \subseteq Kinds
  BY Types DEF QInv, InHand, InHandPcs, CoreType, Returns, Pcs, Kinds, Terminal
<1>1. CASE OpenProcess
  <2>1. row' = row /\ retained' = retained /\ core'.pc # "forwarding"
    BY <1>0, <1>1 DEF OpenProcess, CoreType
  <2> QED
    BY <2>1, SameStand, StandAnswers
<1>2. CASE BootEnd
  <2>1. row' = row /\ retained' = retained /\ core'.pc # "forwarding"
    BY <1>0, <1>2, DrainAside DEF BootEnd, CoreType
  <2> QED
    BY <2>1, SameStand, StandAnswers
<1>3. ASSUME NEW r \in Runs, BootReplay(r) PROVE AnswersKept
  <2> DEFINE c == [core EXCEPT !.todo = @ \ {r}, !.cur = r]
  <2>1. c \in CoreType
    BY <1>0 DEF CoreType
  <2>2. CASE row[r].stash = "none"
    <3>1. row' = row /\ retained' = retained /\ core' = Goto(c, "bootRun")
      BY <1>3, <2>2 DEF BootReplay
    <3> HIDE DEF c
    <3> QED
      BY <2>1, <3>1, GotoAside, SameStand, StandAnswers
  <2>3. CASE row[r].stash # "none"
    <3>1. Record(r, row[r].stash, row[r].answer, TRUE, sched, c, "bootRun", "boot", "bootRun")
      BY <1>3, <2>3 DEF BootReplay
    <3>2. row[r].stash \in Kinds /\ row[r].answer \in Decisions \cup {"none"}
      BY <1>0, <2>3 DEF RowType
    <3>3. MayTell(row[r], retained[r].answer, row[r].answer)
      BY ForgetConsistent DEF Approvals
    <3> HIDE DEF c
    <3> QED
      BY <1>0, <2>1, <3>1, <3>2, <3>3, RecordAnswers
  <2> QED
    BY <2>2, <2>3
<1>4. ASSUME NEW r \in Runs, BootEnqueue(r) \/ BootProject(r) \/ ReconObserved(r)
      PROVE  AnswersKept
  <2>1. row' = row /\ retained' = retained
    BY <1>4 DEF BootEnqueue, BootProject, ReconObserved
  <2>2. core'.pc # "forwarding"
    BY <1>0, <1>4 DEF BootEnqueue, BootProject, ReconObserved, Goto, CoreType
  <2> QED
    BY <2>1, <2>2, SameStand, StandAnswers
<1>5. ASSUME NEW r \in Runs, BootLost(r) PROVE AnswersKept
  <2> DEFINE k == IF row[r].cancel THEN "cancelled" ELSE "failed"
  <2>1. Record(r, k, "none", FALSE, sched, core, "boot", "boot", "raise") /\ k \in Kinds
    BY <1>0, <1>5 DEF BootLost
  <2>2. MayTell(row[r], retained[r].answer, "none")
    BY DEF MayTell
  <2> HIDE DEF k
  <2> QED
    BY <1>0, <2>1, <2>2, RecordAnswers
<1>6. ASSUME NEW r \in Runs, ReconReplay(r) PROVE AnswersKept
  <2>1. CASE row[r].stash = "none" \/ WorkerAlive(r)
    <3>1. row' = row /\ retained' = retained /\ core' = Goto(core, "reconTail")
      BY <1>6, <2>1 DEF ReconReplay
    <3> QED
      BY <1>0, <3>1, GotoAside, SameStand, StandAnswers
  <2>2. CASE ~(row[r].stash = "none" \/ WorkerAlive(r))
    <3>1. Record(r, row[r].stash, row[r].answer, TRUE, sched, core, "reconTail", core.ret,
                 "reconTail")
      BY <1>6, <2>2 DEF ReconReplay
    <3>2. row[r].stash \in Kinds /\ row[r].answer \in Decisions \cup {"none"}
      BY <1>0, <2>2 DEF RowType
    <3>3. MayTell(row[r], retained[r].answer, row[r].answer)
      BY ForgetConsistent DEF Approvals
    <3> QED
      BY <1>0, <3>1, <3>2, <3>3, RecordAnswers
  <2> QED
    BY <2>1, <2>2
<1>7. ASSUME NEW r \in Runs, ReconUntracked(r) \/ ReconUnknownOp(r) \/ ReconUnknownRun(r)
      PROVE  AnswersKept
  <2>1. /\ \/ row' = [row EXCEPT ![r] = [row[r] EXCEPT !.mark = "released",
                                                      !.status = "pending_reconcile"]]
           \/ row' = [row EXCEPT ![r] = [row[r] EXCEPT !.op = "unknown"]]
           \/ row' = [row EXCEPT ![r] = [row[r] EXCEPT !.status = "pending_reconcile"]]
        /\ retained' = retained
    BY <1>7 DEF ReconUntracked, ReconUnknownOp, ReconUnknownRun
  <2>2. core'.pc # "forwarding"
    BY <1>0, <1>7 DEF ReconUntracked, ReconUnknownOp, ReconUnknownRun, Goto, CoreType
  <2> DEFINE u == [row[r] EXCEPT !.mark = "released", !.status = "pending_reconcile"]
             v == [row[r] EXCEPT !.op = "unknown"]
             w == [row[r] EXCEPT !.status = "pending_reconcile"]
  <2>3. ASSUME NEW x, x \in {u, v, w}
        PROVE  /\ x.answer = row[r].answer /\ x.approval = row[r].approval
               /\ x.attempted = row[r].attempted
               /\ (x.status = "unborn" => row[r].status = "unborn")
    BY <1>0, <2>3 DEF RowType
  <2>4. PICK x \in {u, v, w} : row' = [row EXCEPT ![r] = x]
    BY <2>1
  <2> HIDE DEF u, v, w
  <2> QED
    BY <2>1, <2>2, <2>3, <2>4, WriteStand, StandAnswers
<1> QED
  BY <1>1, <1>2, <1>3, <1>4, <1>5, <1>6, <1>7 DEF Restore

(* A result that is retried records the outcome that is kept with it. *)
LEMMA PollAnswers ==
  ASSUME IInv, QInv, Approvals, Poll
  PROVE  AnswersKept
<1>0. /\ core \in CoreType /\ sched \in SchedulerType /\ row \in [Runs -> RowType]
      /\ retained \in [Runs -> RetainedType] /\ updates \in Seq([run : Runs, result : Kinds])
      /\ {"retry", "updates", "closing", "raise"} \subseteq Pcs
      /\ {"retry", "updates", "closing"} \subseteq Returns
      /\ TRUE \in BOOLEAN /\ FALSE \in BOOLEAN /\ "none" \in Decisions \cup {"none"}
  BY Types DEF Returns, Pcs
<1>1. CASE PollBegin
  <2>1. row' = row /\ core'.pc # "forwarding"
    BY <1>0, <1>1 DEF PollBegin, CoreType
  <2>2. \A q \in Runs : retained'[q].answer = retained[q].answer
    BY <1>0, <1>1 DEF PollBegin, RetainedType
  <2> QED
    BY <2>1, <2>2, StandAnswers DEF AnswersStand
<1>2. CASE RetryEnd \/ UpdatesEnd \/ PollEnd
  <2>1. row' = row /\ retained' = retained
    BY <1>2 DEF RetryEnd, UpdatesEnd, PollEnd
  <2>2. core'.pc # "forwarding"
    BY <1>0, <1>2 DEF RetryEnd, UpdatesEnd, PollEnd, Goto, BeginDrain, CoreType
  <2> QED
    BY <2>1, <2>2, SameStand, StandAnswers
<1>3. ASSUME NEW r \in Runs, RetryOne(r) PROVE AnswersKept
  <2> DEFINE c == [core EXCEPT !.todo = @ \ {r}]
  <2>1. c \in CoreType
    BY <1>0 DEF CoreType
  <2>2. Record(r, retained[r].result, retained[r].answer, TRUE, sched, c,
               "retry", "retry", "retry")
    BY <1>3 DEF RetryOne
  <2>3. retained[r].result \in Kinds /\ retained[r].answer \in Decisions \cup {"none"}
    BY <1>0, <1>3 DEF RetryOne, RetainedType
  <2>4. MayTell(row[r], retained[r].answer, retained[r].answer)
    BY ForgetConsistent DEF Approvals
  <2> HIDE DEF c
  <2> QED
    BY <1>0, <2>1, <2>2, <2>3, <2>4, RecordAnswers
<1>4. ASSUME NEW r \in Runs, ApplyUpdate(r) PROVE AnswersKept
  <2> DEFINE k == Head(updates).result
             p == core.pc
  <2>1. /\ Record(r, k, "none", FALSE, sched, core, p, p, "raise")
        /\ p \in {"updates", "closing"} /\ updates # <<>>
    BY <1>4 DEF ApplyUpdate, At
  <2>2. k \in Kinds
    <3> DEFINE U == [run : Runs, result : Kinds]
    <3>1. \A u \in U : u.result \in Kinds
      OBVIOUS
    <3> HIDE DEF U
    <3>2. updates \in Seq(U) /\ updates # <<>>
      BY <1>0, <2>1 DEF U
    <3>3. Head(updates) \in U
      BY <3>2
    <3> QED
      BY <3>1, <3>3
  <2>3. MayTell(row[r], retained[r].answer, "none")
    BY DEF MayTell
  <2>4. p \in Pcs /\ p \in Returns /\ p # "forwarding"
    BY <1>0, <2>1
  <2> HIDE DEF k, p
  <2> QED
    BY <1>0, <2>1, <2>2, <2>3, <2>4, RecordAnswers
<1> QED
  BY <1>1, <1>2, <1>3, <1>4 DEF Poll

(* A dispatch has nothing to say of an approval. *)
LEMMA DispatchAnswers ==
  ASSUME IInv, QInv, Approvals, Dispatch
  PROVE  AnswersKept
<1>0. /\ core \in CoreType /\ sched \in SchedulerType /\ row \in [Runs -> RowType]
      /\ core.ret # "forwarding"
      /\ {"streaming", "broken", "raise", "drain", "idle"} \subseteq Pcs
      /\ {"streaming", "drain", "idle"} \subseteq Returns
      /\ FALSE \in BOOLEAN /\ "none" \in Decisions \cup {"none"} /\ "progress" \in Kinds
      /\ FinalKinds \subseteq Kinds
  BY Types, RunLifecycleAssumption DEF QInv, InHand, InHandPcs, Returns, Pcs, Kinds
<1>1. CASE DrainEnd
  <2>1. row' = row /\ retained' = retained /\ core'.pc # "forwarding"
    BY <1>0, <1>1 DEF DrainEnd, CoreType
  <2> QED
    BY <2>1, SameStand, StandAnswers
<1>2. AfterDispatch \in {"drain", "idle"}
  BY DEF AfterDispatch
<1>3. ASSUME NEW r \in Runs, DrainSkip(r) \/ DrainTake(r) PROVE AnswersKept
  <2>1. row' = row /\ retained' = retained
    BY <1>3 DEF DrainSkip, DrainTake
  <2>2. core'.pc # "forwarding"
    BY <1>0, <1>3 DEF DrainSkip, DrainTake, NextItem, PastItem, At, CoreType
  <2> QED
    BY <2>1, <2>2, SameStand, StandAnswers
<1>4. ASSUME NEW r \in Runs,
             \/ CheckRefuses(r) \/ RefusedOp(r) \/ CommitDispatching(r) \/ CallBackend(r)
             \/ CallRaises(r)
      PROVE  AnswersKept
  <2> DEFINE a == [row[r] EXCEPT !.status = "failed"]
             b == [row[r] EXCEPT !.op = "failed"]
             u == [row[r] EXCEPT !.status = "dispatching", !.mark = "held"]
             v == [row[r] EXCEPT !.op = "dispatched"]
             w == [row[r] EXCEPT !.status = "pending_reconcile", !.op = "unknown"]
  <2>1. /\ row' = row \/ \E x \in {a, b, u, v, w} : row' = [row EXCEPT ![r] = x]
        /\ retained' = retained
    BY <1>4 DEF CheckRefuses, RefusedOp, CommitDispatching, CallBackend, CallRaises
  <2>2. ASSUME NEW x, x \in {a, b, u, v, w}
        PROVE  /\ x.answer = row[r].answer /\ x.approval = row[r].approval
               /\ x.attempted = row[r].attempted
               /\ (x.status = "unborn" => row[r].status = "unborn")
    BY <1>0, <2>2 DEF RowType
  <2>3. \E p \in {"refused", "idle", "drain", "committing", "calling"} : core' = Goto(core, p)
    BY <1>2, <1>4 DEF CheckRefuses, RefusedOp, CommitDispatching, CallBackend, CallRaises
  <2>4. core'.pc # "forwarding"
    BY <1>0, <2>3, GotoAside
  <2> HIDE DEF a, b, u, v, w
  <2>5. AnswersStand
    BY <2>1, <2>2, <2>4, SameStand, WriteStand
  <2> QED
    BY <2>5, StandAnswers
<1>5. ASSUME NEW r \in Runs, StreamPublishes(r) PROVE AnswersKept
  <2>1. Record(r, "progress", "none", FALSE, sched, core, "streaming", "streaming", "broken")
    BY <1>5 DEF StreamPublishes
  <2>2. MayTell(row[r], retained[r].answer, "none")
    BY DEF MayTell
  <2> QED
    BY <1>0, <2>1, <2>2, RecordAnswers
<1>6. ASSUME NEW r \in Runs, NEW k \in FinalKinds, CallReturns(r, k) PROVE AnswersKept
  <2> DEFINE p == AfterDispatch
  <2>1. Record(r, k, "none", FALSE, sched, core, p, p, "raise") /\ k \in Kinds
    BY <1>0, <1>6 DEF CallReturns
  <2>2. MayTell(row[r], retained[r].answer, "none")
    BY DEF MayTell
  <2>3. p \in Pcs /\ p \in Returns /\ p # "forwarding"
    BY <1>0, <1>2
  <2> HIDE DEF p
  <2> QED
    BY <1>0, <2>1, <2>2, <2>3, RecordAnswers
<1> QED
  BY <1>1, <1>3, <1>4, <1>5, <1>6 DEF Dispatch

(* A confirmed outcome is recorded while nothing else is kept of one.        *)
LEMMA RequestAnswers ==
  ASSUME IInv, QInv, Approvals, Request
  PROVE  AnswersKept
<1>0. /\ core \in CoreType /\ sched \in SchedulerType /\ row \in [Runs -> RowType]
      /\ retained \in [Runs -> RetainedType]
      /\ {"idle", "raise", "recon"} \subseteq Pcs /\ "idle" \in Returns
      /\ FALSE \in BOOLEAN /\ "none" \in Decisions \cup {"none"}
      /\ Terminal \cup {"progress"} \cup ReconcileKinds \subseteq Kinds
  BY Types, RunLifecycleAssumption DEF Returns, Pcs, Kinds
<1>1. ASSUME NEW r \in Runs, TaskSubmit(r) PROVE AnswersKept
  <2>1. /\ row' = [row EXCEPT ![r] = Intended] /\ retained' = retained
        /\ row[r].status = "unborn" /\ core'.pc # "forwarding"
    BY <1>0, <1>1 DEF TaskSubmit, CoreType
  <2>2. Consistent(row[r], retained[r].answer)
    BY DEF Approvals
  <2>3. Consistent(Intended, retained[r].answer) /\ Lands(row[r], Intended)
    BY <2>1, <2>2 DEF Consistent, Lands, Intended, Unborn
  <2>4. row'[r] = Intended /\ \A q \in Runs \ {r} : row'[q] = row[q]
    BY <1>0, <2>1
  <2> HIDE DEF Intended
  <2> QED
    BY <2>1, <2>3, <2>4 DEF AnswersKept, Approvals, Forwarding, At, Lands
<1>2. ASSUME NEW r \in Runs,
             \/ Admit(r) \/ CancelUnconfirmed(r) \/ TerminateIntent(r) \/ ReconcileOnly(r)
             \/ RespondUnknown(r)
      PROVE  AnswersKept
  <2>1. row' = row /\ retained' = retained
    BY <1>2 DEF Admit, CancelUnconfirmed, TerminateIntent, ReconcileOnly, RespondUnknown
  <2>2. core'.pc # "forwarding"
    BY <1>0, <1>2 DEF Admit, CancelUnconfirmed, TerminateIntent, ReconcileOnly, RespondUnknown,
                      Goto, CoreType
  <2> QED
    BY <2>1, <2>2, SameStand, StandAnswers
<1>3. ASSUME NEW r \in Runs,
             \/ CancelIntent(r) \/ TerminateSave(r) \/ PauseRun(r) \/ PauseTask(r)
             \/ ResumeRun(r) \/ ResumeTask(r)
      PROVE  AnswersKept
  <2> DEFINE a == [row[r] EXCEPT !.cancel = TRUE]
             b == [row[r] EXCEPT !.status = "paused"]
             u == [row[r] EXCEPT !.paused = TRUE]
             v == [row[r] EXCEPT !.status = ResumedStatus(row[r])]
             w == [row[r] EXCEPT !.paused = FALSE]
  <2>1. /\ row' = row \/ \E x \in {a, b, u, v, w} : row' = [row EXCEPT ![r] = x]
        /\ retained' = retained
    BY <1>3 DEF CancelIntent, TerminateSave, PauseRun, PauseTask, ResumeRun, ResumeTask
  <2>2. ResumedStatus(row[r]) # "unborn"
    BY DEF ResumedStatus
  <2>3. ASSUME NEW x, x \in {a, b, u, v, w}
        PROVE  /\ x.answer = row[r].answer /\ x.approval = row[r].approval
               /\ x.attempted = row[r].attempted
               /\ (x.status = "unborn" => row[r].status = "unborn")
    BY <1>0, <2>2, <2>3 DEF RowType
  <2>4. core'.pc # "forwarding"
    BY <1>0, <1>3 DEF CancelIntent, TerminateSave, PauseRun, PauseTask, ResumeRun, ResumeTask,
                      Goto, BeginDrain, CoreType
  <2> HIDE DEF a, b, u, v, w
  <2>5. AnswersStand
    BY <2>1, <2>3, <2>4, SameStand, WriteStand
  <2> QED
    BY <2>5, StandAnswers
<1>4. ASSUME NEW r \in Runs, NEW k \in Kinds, NEW d \in Decisions \cup {"none"},
             NEW s \in SchedulerType,
             Record(r, k, d, FALSE, s, core, "idle", "idle", "raise"),
             MayTell(row[r], retained[r].answer, d)
      PROVE  AnswersKept
  BY <1>0, <1>4, RecordAnswers
<1>5. \A r \in Runs : MayTell(row[r], retained[r].answer, "none")
  BY DEF MayTell
<1>6. ASSUME NEW r \in Runs, CancelQueued(r) \/ TerminateRecord(r) PROVE AnswersKept
  <2>1. \E s \in {sched, Remove(sched, r)} :
          Record(r, "cancelled", "none", FALSE, s, core, "idle", "idle", "raise")
    BY <1>6 DEF CancelQueued, TerminateRecord
  <2>2. Remove(sched, r) \in SchedulerType /\ "cancelled" \in Kinds
    BY <1>0, RemoveType DEF Kinds, Terminal
  <2> QED
    BY <1>0, <1>4, <1>5, <2>1, <2>2
<1>7. ASSUME NEW r \in Runs, NEW k \in {"cancelled", "succeeded"}, CancelConfirmed(r, k)
      PROVE  AnswersKept
  <2>1. Record(r, k, "none", FALSE, sched, core, "idle", "idle", "raise") /\ k \in Kinds
    BY <1>7 DEF CancelConfirmed, Kinds, Terminal
  <2> QED
    BY <1>0, <1>4, <1>5, <2>1
<1>8. ASSUME NEW r \in Runs, NEW k \in ReconcileKinds \cup {"failed", "cancelled"},
             ReconcileRecord(r, k)
      PROVE  AnswersKept
  <2> DEFINE c == [core EXCEPT !.cur = r, !.ret = "idle"]
  <2>1. c \in CoreType
    BY <1>0 DEF CoreType
  <2>2. Record(r, k, "none", FALSE, sched, c, "recon", "idle", "raise") /\ k \in Kinds
    BY <1>0, <1>8 DEF ReconcileRecord, Terminal
  <2> HIDE DEF c
  <2> QED
    BY <1>0, <1>5, <2>1, <2>2, RecordAnswers
<1>9. ASSUME NEW r \in Runs, RespondIntent(r) PROVE AnswersKept
  <2> DEFINE x == [row[r] EXCEPT !.approval = "forwarding", !.attempted = TRUE]
  <2>1. /\ row' = [row EXCEPT ![r] = x] /\ retained' = retained /\ ~row[r].attempted
        /\ row[r].status = "waiting_input" /\ core'.cur = r
    BY <1>0, <1>9 DEF RespondIntent, CoreType
  <2>2. row[r].answer = "none" /\ retained[r].answer = "none"
    BY <2>1 DEF Approvals, Consistent
  <2>3. /\ x.answer = row[r].answer /\ x.approval = "forwarding" /\ x.attempted = TRUE
        /\ x.status = row[r].status
    BY <1>0 DEF RowType
  <2>4. row'[r] = x /\ \A q \in Runs \ {r} : row'[q] = row[q]
    BY <1>0, <2>1
  <2> HIDE DEF x
  <2>5. Consistent(x, retained[r].answer) /\ Unheard(x, retained[r].answer) /\ Lands(row[r], x)
    BY <2>1, <2>2, <2>3 DEF Consistent, Unheard, Lands
  <2> QED
    BY <2>1, <2>4, <2>5 DEF AnswersKept, Approvals, Forwarding, At, Lands
<1>10. ASSUME NEW r \in Runs, NEW k \in {"progress"} \cup (FinalKinds \cap Terminal),
              NEW d \in Decisions, RespondAnswered(r, k, d)
       PROVE  AnswersKept
  <2>1. /\ Record(r, k, d, FALSE, sched, core, "idle", "idle", "raise") /\ k \in Kinds
        /\ At("forwarding") /\ core.cur = r
    BY <1>0, <1>10 DEF RespondAnswered
  <2>2. MayTell(row[r], retained[r].answer, d)
    BY <2>1 DEF Approvals, Forwarding, Unheard, MayTell
  <2> QED
    BY <1>0, <1>4, <2>1, <2>2
<1> QED
  BY <1>1, <1>2, <1>3, <1>6, <1>7, <1>8, <1>9, <1>10 DEF Request

(* A process that ends forgets what only its memory had. *)
LEMMA ShutdownAnswers ==
  ASSUME IInv, QInv, Approvals, Shutdown \/ Crash
  PROVE  AnswersKept
<1>0. core \in CoreType /\ row \in [Runs -> RowType]
  BY Types
<1>1. ASSUME ProcessEnds PROVE AnswersKept
  <2>1. /\ row' = row /\ core'.pc # "forwarding"
        /\ \A q \in Runs : retained'[q].answer = "none"
    BY <1>1 DEF ProcessEnds, CoreDown, Nothing
  <2> QED
    BY <2>1, StandAnswers DEF AnswersStand
<1>2. ASSUME UNCHANGED <<row, retained>>,
             \/ core' = Raise(core) \/ core' = Goto(core, "idle") \/ core' = Goto(core, "close")
             \/ \E T : core' = [core EXCEPT !.pc = "marking", !.todo = T]
             \/ core' = [core EXCEPT !.pc = "closing", !.phase = "close"]
      PROVE  AnswersKept
  <2>1. core'.pc # "forwarding"
    BY <1>0, <1>2 DEF Raise, Goto, CoreType
  <2> QED
    BY <1>2, <2>1, SameStand, StandAnswers
<1>3. CASE CommitFails
  BY <1>2, <1>3 DEF CommitFails, StoreFails
<1>4. CASE HandleRaise
  BY <1>1, <1>2, <1>4 DEF HandleRaise
<1>5. CASE StopRequested \/ CloseDrained
  BY <1>2, <1>5 DEF StopRequested, CloseDrained
<1>6. CASE CloseBegin
  BY <1>1, <1>2, <1>6 DEF CloseBegin
<1>7. CASE CloseEnd \/ Crash
  BY <1>1, <1>7 DEF CloseEnd, Crash
<1>8. ASSUME NEW r \in Runs, CloseMarkRun(r) \/ CloseMarkOp(r) PROVE AnswersKept
  <2> DEFINE a == [row[r] EXCEPT !.status = "pending_reconcile"]
             b == [row[r] EXCEPT !.op = "unknown"]
  <2>1. /\ \E x \in {a, b} : row' = [row EXCEPT ![r] = x]
        /\ retained' = retained
    BY <1>8 DEF CloseMarkRun, CloseMarkOp
  <2>2. ASSUME NEW x, x \in {a, b}
        PROVE  /\ x.answer = row[r].answer /\ x.approval = row[r].approval
               /\ x.attempted = row[r].attempted
               /\ (x.status = "unborn" => row[r].status = "unborn")
    BY <1>0, <2>2 DEF RowType
  <2>3. core'.pc # "forwarding"
    BY <1>0, <1>8 DEF CloseMarkRun, CloseMarkOp, Goto, CoreType
  <2> HIDE DEF a, b
  <2>4. AnswersStand
    BY ZenonT(40), <2>1, <2>2, <2>3, WriteStand
  <2> QED
    BY <2>4, StandAnswers
<1> QED
  BY <1>3, <1>4, <1>5, <1>6, <1>7, <1>8 DEF Shutdown

-----------------------------------------------------------------------------
(* The theorem. *)

(* Every step keeps the invariant, and every stashed outcome lands. *)
LEMMA StepAnswers == IInv /\ QInv /\ Approvals /\ Next => AnswersKept
<1> SUFFICES ASSUME IInv, QInv, Approvals, Next PROVE AnswersKept
  OBVIOUS
<1>1. ASSUME NEW r \in Runs, Worker(r) PROVE AnswersKept
  <2>1. UNCHANGED <<row, retained, core>>
    BY <1>1 DEF Worker, WorkerPublishes, WorkerReturns, WorkerPuts, WorkerGoesOn,
                WorkerFallsBack, WorkerEnds, WorkerStops, CoreStands
  <2> QED
    BY <2>1, StandAnswers DEF AnswersStand
<1> QED
  BY <1>1, RestoreAnswers, PollAnswers, DispatchAnswers, RequestAnswers, ShutdownAnswers
     DEF Next, CoreThread

(* At all times: an attempt is recorded before its outcome, and the two      *)
(* places that keep an outcome agree.                                        *)
THEOREM ApprovalInvariance == Spec => []Approvals
<1>1. Init => Approvals
  <2> SUFFICES ASSUME Init PROVE Approvals
    OBVIOUS
  <2>1. \A r \in Runs : ~row[r].attempted /\ row[r].answer = "none" /\ retained[r].answer = "none"
    <3>1. \A x \in LegacyRows \cup {Unborn} : x.attempted = FALSE /\ x.answer = "none"
      <4>1. Unborn.attempted = FALSE /\ Unborn.answer = "none"
        BY DEF Unborn
      <4>2. ASSUME NEW op, NEW x, x = [Unborn EXCEPT !.status = "running", !.op = op]
            PROVE  x.attempted = FALSE /\ x.answer = "none"
        BY <4>2 DEF Unborn
      <4> QED
        BY <4>1, <4>2 DEF LegacyRows
    <3>2. row \in [Runs -> LegacyRows \cup {Unborn}] /\ retained = [r \in Runs |-> Nothing]
      BY DEF Init
    <3>3. Nothing.answer = "none"
      BY DEF Nothing
    <3>4. \A r \in Runs : row[r] \in LegacyRows \cup {Unborn} /\ retained[r] = Nothing
      BY <3>2
    <3> QED
      BY <3>1, <3>3, <3>4
  <2>2. core.pc # "forwarding"
    BY DEF Init, CoreDown
  <2> QED
    BY <2>1, <2>2 DEF Approvals, Consistent, Forwarding, At
<1>2. IInv /\ QInv /\ Approvals /\ [Next]_vars => Approvals'
  <2>1. IInv /\ QInv /\ Approvals /\ Next => Approvals'
    BY StepAnswers DEF AnswersKept
  <2>2. Approvals /\ UNCHANGED vars => Approvals'
    BY DEF Approvals, Forwarding, At, vars
  <2> QED
    BY <2>1, <2>2
<1> QED
  BY <1>1, <1>2, Invariance, QueueInvariance, PTL DEF Spec

(* AnswersLand, whatever fails, crashes or is replayed: a stashed outcome    *)
(* stays until it is the state of the approval, and an approval that was     *)
(* forwarded once is never pending again.                                    *)
THEOREM AnswersAlwaysLand == Spec => AnswersLand
<1>1. Approvals => AttemptNotRenewed
  BY DEF Approvals, Consistent, AttemptNotRenewed
<1>2. IInv /\ QInv /\ Approvals /\ [Next]_vars =>
        [\A r \in Runs : row[r].answer # "none" =>
           row'[r].answer = row[r].answer \/ row'[r].approval = row[r].answer]_vars
  <2>1. AnswersKept => \A r \in Runs : row[r].answer # "none" =>
                         row'[r].answer = row[r].answer \/ row'[r].approval = row[r].answer
    BY DEF AnswersKept, Lands
  <2> QED
    BY <2>1, StepAnswers
<1> QED
  BY <1>1, <1>2, Invariance, QueueInvariance, ApprovalInvariance, PTL
     DEF Spec, AnswersLand, StashedAnswerLands

-----------------------------------------------------------------------------
(* The promise: the inductive invariant. *)

(* The row x of a run that was called n times: the run has no operation row, *)
(* or its backend was never told of it.                                      *)
Mute(x, n) == x.op = "absent" \/ n = 0

(* What may be kept of such a run, on the row or as k in memory: no success  *)
(* of a run that was never called, no running snapshot of one that has no    *)
(* operation row, no approval of either.                                     *)
Hushed(x, n, k) ==
  /\ Mute(x, n) => x.approval = "none" /\ x.attempted = FALSE
  /\ x.op = "absent" => {x.stash, k} \subseteq Terminal \cup {"none"} /\ x.mark # "held"
  /\ n = 0 => {x.stash, k} \subseteq Ignorance \cup {"none"}

Silence == \A r \in Runs : Hushed(row[r], calls[r], retained[r].result)

(* There is no thread for the run and no update of one. *)
Threadless(r) == worker[r].pc = "none" /\ \A i \in DOMAIN updates : updates[i].run # r

ThreadsWereCalled == \A r \in Runs : Mute(row[r], calls[r]) => Threadless(r)

(* What the core relies on of the run it has in hand. *)
Grasp(r) ==
  /\ core.pc \in {"calling", "streaming", "broken"} => ~Mute(row[r], calls[r])
  /\ core.pc \in BootPcs => row[r].status # "unborn"
  /\ At("check") => row[r].op = "intended"
  /\ At("refused") => row[r].status \in Terminal
  /\ At("markOp") => row[r].op \notin {"absent", "intended"}

HandFacts == \A r \in Runs : core.cur = r => Grasp(r)

(* What is left to mark at shutdown has a row and was dispatched. *)
MarkBorn ==
  core.pc \in {"marking", "markOp"} =>
    \A r \in core.todo : row[r].status # "unborn" /\ row[r].op \notin {"absent", "intended"}

PInv == Silence /\ ThreadsWereCalled /\ HandFacts /\ MarkBorn

(* How far one step may take a run. *)
Progresses(r) ==
  /\ row'[r].status = "unborn" => row[r].status = "unborn"
  /\ row[r].status = "unborn" => row'[r].status \in {"unborn", "queued"}
  /\ \/ calls'[r] = calls[r]
     \/ /\ calls'[r] = calls[r] + 1
        /\ row[r].status = "dispatching" /\ row'[r].status = "dispatching"
  /\ row'[r].status = "succeeded" => row[r].status = "succeeded" \/ calls[r] # 0

(* A step that touches the row of run r and no other row. *)
Moves(r) == Progresses(r) /\ \A q \in Runs \ {r} : row'[q] = row[q] /\ calls'[q] = calls[q]

(* A step moves one run, or none. *)
OneMoves ==
  \/ row' = row /\ calls' = calls
  \/ \E r \in Runs : Moves(r)

-----------------------------------------------------------------------------
(* What a result does to a run that is hushed. *)

(* Nobody creates the operation row but commit_intent. *)
LEMMA WithOpFields ==
  ASSUME NEW x \in RowType, NEW op \in OpStatuses \ {"absent"}
  PROVE  /\ WithOp(x, op).op = "absent" <=> x.op = "absent"
         /\ WithOp(x, op).mark = x.mark /\ WithOp(x, op).stash = x.stash
BY DEF WithOp, RowType

LEMMA WithAnswerFields ==
  ASSUME NEW x \in RowType, NEW d \in Decisions \cup {"none"}
  PROVE  /\ WithAnswer(x, d).mark = x.mark /\ WithAnswer(x, d).op = x.op
BY DEF WithAnswer, RowType

(* The columns of a result that landed. *)
LEMMA LandedFields ==
  ASSUME NEW x \in RowType, NEW k \in Kinds, NEW d \in Decisions \cup {"none"}
  PROVE  /\ Landed(x, k, d).stash = "none"
         /\ Landed(x, k, d).mark = IF k \in Terminal THEN "none" ELSE "held"
         /\ Landed(x, k, d).op = "absent" <=> x.op = "absent"
         /\ d = "none" /\ x.answer = "none" /\ x.approval = "none" /\ k # "waiting" =>
              Landed(x, k, d).approval = "none"
<1> DEFINE e == IF d # "none" THEN d ELSE x.answer
           y == WithAnswer(x, e)
           v == ApprovalAfter(y, k)
           z == [y EXCEPT !.status = StatusOf(k),
                          !.mark = IF k \in Terminal THEN "none" ELSE "held",
                          !.stash = "none", !.answer = "none",
                          !.approval = v]
<1>1. e \in Decisions \cup {"none"}
  BY DEF RowType
<1>2. /\ y \in RowType /\ y.op = x.op
      /\ y.approval = IF e = "none" THEN x.approval ELSE e
  BY <1>1, WithAnswerType, WithAnswerAnswers, WithAnswerFields
<1>3. d = "none" /\ x.answer = "none" => e = "none"
  OBVIOUS
<1> HIDE DEF y, e
<1>4. v \in ApprovalStates
  BY <1>2 DEF ApprovalAfter, RowType, ApprovalStates
<1>5. e = "none" /\ x.approval = "none" /\ k # "waiting" => v = "none"
  BY <1>2 DEF ApprovalAfter
<1>6. StatusOf(k) \in Statuses /\ OpFor(StatusOf(k)) \in OpStatuses \ {"absent"}
  BY StatusOfType
<1> HIDE DEF v
<1>7. /\ z \in RowType /\ z.stash = "none" /\ z.approval = v /\ z.op = y.op
      /\ z.mark = IF k \in Terminal THEN "none" ELSE "held"
  BY <1>2, <1>4, <1>6 DEF RowType
<1>8. Landed(x, k, d) = WithOp(z, OpFor(StatusOf(k)))
  BY DEF Landed, y, v, e
<1> HIDE DEF z
<1>9. /\ Landed(x, k, d).stash = z.stash /\ Landed(x, k, d).mark = z.mark
      /\ Landed(x, k, d).op = "absent" <=> z.op = "absent"
      /\ Landed(x, k, d).approval = z.approval
  BY <1>6, <1>7, <1>8, WithOpFields, WithOpAnswers
<1> QED
  BY <1>2, <1>3, <1>5, <1>7, <1>9

(* The columns of a running snapshot that could not be written in time. *)
LEMMA ProgressLandedFields ==
  ASSUME NEW x \in RowType, NEW d \in Decisions \cup {"none"}
  PROVE  /\ ProgressLanded(x, d).stash = "none" /\ ProgressLanded(x, d).mark = "released"
         /\ ProgressLanded(x, d).op = "absent" <=> x.op = "absent"
<1> DEFINE e == IF d # "none" THEN d ELSE x.answer
           y == WithAnswer(x, e)
           z == [y EXCEPT !.status = "pending_reconcile", !.mark = "released",
                          !.stash = "none", !.answer = "none"]
<1>1. e \in Decisions \cup {"none"}
  BY DEF RowType
<1>2. y \in RowType /\ y.op = x.op
  BY <1>1, WithAnswerType
<1> HIDE DEF y, e
<1>3. z \in RowType /\ z.stash = "none" /\ z.mark = "released" /\ z.op = y.op
  BY <1>2 DEF RowType, Statuses
<1>4. ProgressLanded(x, d) = WithOp(z, "unknown")
  BY DEF ProgressLanded, y, e
<1> HIDE DEF z
<1>5. "unknown" \in OpStatuses \ {"absent"}
  BY DEF OpStatuses
<1> QED
  BY <1>2, <1>3, <1>4, <1>5, WithOpFields

(* The columns of a result that could only be kept. *)
LEMMA PreservedFields ==
  ASSUME NEW x \in RowType, NEW k \in Kinds, NEW d \in Decisions \cup {"none"}
  PROVE  /\ Preserved(x, k, d).stash \in {x.stash, k} /\ Preserved(x, k, d).mark = "released"
         /\ Preserved(x, k, d).op = "absent" <=> x.op = "absent"
<1> DEFINE z == [x EXCEPT !.status = "pending_reconcile", !.mark = "released",
                   !.stash = IF Rich(@) /\ k = "fallback" THEN @ ELSE k,
                   !.answer = IF d # "none" THEN d ELSE @]
<1>1. /\ z \in RowType /\ z.stash \in {x.stash, k} /\ z.mark = "released" /\ z.op = x.op
  BY DEF RowType, Statuses
<1>2. Preserved(x, k, d) = WithOp(z, "unknown")
  BY DEF Preserved
<1> HIDE DEF z
<1>3. "unknown" \in OpStatuses \ {"absent"}
  BY DEF OpStatuses
<1> QED
  BY <1>1, <1>2, <1>3, WithOpFields

(* What memory keeps of a result. *)
LEMMA RememberFields ==
  ASSUME NEW m \in RetainedType, NEW k \in Kinds, NEW d
  PROVE  Remember(m, k, d).result \in {m.result, k}
BY DEF Remember, RetainedType

(* The result k may be heard of a run that is hushed. *)
MayHear(x, n, k) == (x.op = "absent" => k \in Terminal) /\ (n = 0 => k \in Ignorance)

(* A run without an operation row, or never called, stays hushed when such a *)
(* result lands, is dropped or is kept.                                      *)
LEMMA StaysHushed ==
  ASSUME NEW x \in RowType, NEW n, NEW k \in Kinds, NEW m \in RetainedType,
         NEW d \in Decisions \cup {"none"},
         Hushed(x, n, m.result), Consistent(x, m.answer), MayTell(x, m.answer, d),
         MayHear(x, n, k)
  PROVE  /\ Hushed(x, n, "none")
         /\ Hushed(Landed(x, k, d), n, "none")
         /\ IsProgress(k) => Hushed(ProgressLanded(x, d), n, "none")
         /\ Hushed(x, n, Remember(m, k, d).result)
         /\ Hushed(Preserved(x, k, d), n, Remember(m, k, d).result)
<1> DEFINE b == Remember(m, k, d).result
           y == Landed(x, k, d)
           z == ProgressLanded(x, d)
           p == Preserved(x, k, d)
<1>1. Mute(x, n) => d = "none" /\ x.answer = "none" /\ x.approval = "none"
                    /\ x.attempted = FALSE
  BY DEF Hushed, Consistent, MayTell
<1>2. Mute(x, n) => k # "waiting" /\ ~IsProgress(k)
  BY DEF MayHear, Mute, Terminal, Ignorance, IsProgress
<1>3. b \in {m.result, k}
  BY RememberFields
<1>4. /\ y.stash = "none" /\ y.attempted = x.attempted
      /\ y.mark = IF k \in Terminal THEN "none" ELSE "held"
      /\ y.op = "absent" <=> x.op = "absent"
      /\ d = "none" /\ x.answer = "none" /\ x.approval = "none" /\ k # "waiting" =>
           y.approval = "none"
  BY LandedFields, LandedAnswers
<1>5. z.op = "absent" <=> x.op = "absent"
  BY ProgressLandedFields
<1>6. /\ p.stash \in {x.stash, k} /\ p.mark = "released"
      /\ p.op = "absent" <=> x.op = "absent"
      /\ p.attempted = x.attempted /\ p.approval = x.approval
  BY PreservedFields, PreservedAnswers
<1> HIDE DEF b, y, z, p
<1>7. Hushed(x, n, "none") /\ Hushed(x, n, b)
  BY <1>3 DEF Hushed, MayHear
<1>8. Hushed(y, n, "none")
  BY <1>1, <1>2, <1>4 DEF Hushed, Mute, MayHear
<1>9. IsProgress(k) => Hushed(z, n, "none")
  BY <1>2, <1>5 DEF Hushed, Mute
<1>10. Hushed(p, n, b)
  <2>1. p.op = "absent" <=> x.op = "absent"
    BY <1>6
  <2>2. Mute(p, n) => Mute(x, n)
    BY <2>1 DEF Mute
  <2>3. x.op = "absent" => {p.stash, b} \subseteq Terminal \cup {"none"}
    BY <1>3, <1>6 DEF Hushed, MayHear
  <2>4. n = 0 => {p.stash, b} \subseteq Ignorance \cup {"none"}
    BY <1>3, <1>6 DEF Hushed, MayHear
  <2> QED
    BY <1>1, <1>6, <2>1, <2>2, <2>3, <2>4 DEF Hushed
<1> QED
  BY <1>7, <1>8, <1>9, <1>10 DEF b, y, z, p

-----------------------------------------------------------------------------
(* The steps that record a result. *)

(* What every step is shown to do; threads are looked at by themselves. *)
Faithful ==
  /\ (Silence /\ HandFacts /\ MarkBorn)' /\ OneMoves
  /\ \A q \in Runs : Mute(row'[q], calls'[q]) => Mute(row[q], calls[q])

(* The steps at which the core relies on something of its run. *)
GraspPcs ==
  {"calling", "streaming", "broken", "check", "refused", "marking", "markOp"} \cup BootPcs

(* It lets go of the run. *)
LEMMA LetsGo ==
  ASSUME core'.pc \notin GraspPcs
  PROVE  HandFacts' /\ MarkBorn'
BY DEF GraspPcs, HandFacts, Grasp, MarkBorn, At

(* Where a caller stands that records a result for run r. *)
PromisePlace(r, c, next, ended, onFail) ==
  /\ {next, ended, onFail} \cap {"calling", "check", "refused", "marking", "markOp"} = {}
  /\ {next, ended, onFail} \cap GraspPcs # {} => c.cur = r
  /\ {next, ended, onFail} \cap BootPcs # {} => row[r].status # "unborn"
  /\ {next, ended, onFail} \cap {"streaming", "broken"} # {} => ~Mute(row[r], calls[r])

(* _record_result: a result that may be heard of the run moves it as far as  *)
(* the promise allows.                                                       *)
LEMMA RecordFaithful ==
  ASSUME IInv, Approvals, PInv,
         NEW r \in Runs, NEW k \in Kinds, NEW d \in Decisions \cup {"none"},
         NEW replay \in BOOLEAN, NEW s \in SchedulerType, NEW c \in CoreType,
         NEW next \in Pcs, NEW ended \in Returns, NEW onFail \in Pcs,
         Record(r, k, d, replay, s, c, next, ended, onFail), calls' = calls,
         MayTell(row[r], retained[r].answer, d), MayHear(row[r], calls[r], k),
         PromisePlace(r, c, next, ended, onFail)
  PROVE  Faithful
<1>1. /\ row \in [Runs -> RowType] /\ retained \in [Runs -> RetainedType]
      /\ row[r] \in RowType /\ retained[r] \in RetainedType /\ calls \in [Runs -> Nat]
  BY Types
<1>2. OnlyAdvances(r) /\ AfterRecord(r, c, next, ended, onFail)
  BY RecordStep DEF IInv
<1>3. Hushed(row[r], calls[r], retained[r].result) /\ Consistent(row[r], retained[r].answer)
  BY DEF PInv, Silence, Approvals
<1> DEFINE y == IF replay /\ IsProgress(k) THEN ProgressLanded(row[r], d) ELSE Landed(row[r], k, d)
           p == Preserved(row[r], k, d)
           m == Remember(retained[r], k, d)
           n == calls[r]
<1>4. /\ Hushed(row[r], n, "none") /\ Hushed(y, n, "none")
      /\ Hushed(row[r], n, m.result) /\ Hushed(p, n, m.result)
  BY <1>1, <1>3, StaysHushed
<1>5. /\ y.op = "absent" => row[r].op = "absent"
      /\ p.op = "absent" => row[r].op = "absent"
  BY <1>1, LandedFields, ProgressLandedFields, PreservedFields
<1>6. /\ y.status = "succeeded" => n # 0
      /\ p.status # "succeeded"
  <2>1. StatusOf(k) = "succeeded" => k = "succeeded"
    BY DEF StatusOf, Kinds, Terminal, IsProgress
  <2>2. k = "succeeded" => n # 0
    BY DEF MayHear, Ignorance
  <2> QED
    BY <1>1, <2>1, <2>2, LandedType, ProgressLandedType, PreservedType
<1> DEFINE Step(x, b) ==
             /\ Hushed(x, n, b) /\ (x.op = "absent" => row[r].op = "absent")
             /\ x.status = "succeeded" => row[r].status = "succeeded" \/ n # 0
             /\ row[r].status = "unborn" => x = row[r]
<1>7. Step(row'[r], retained'[r].result) /\ \A q \in Runs \ {r} : retained'[q] = retained[q]
  <2>0. Step(row[r], "none") /\ Step(row[r], m.result)
    BY <1>4
  <2>1. CASE RecordLands(r, k, d, replay, s, c, next, ended)
    <3>1. /\ row' = [row EXCEPT ![r] = y] /\ retained' = [retained EXCEPT ![r] = Nothing]
          /\ Open(row[r])
      BY <2>1 DEF RecordLands
    <3>2. Step(y, "none")
      BY <1>4, <1>5, <1>6, <3>1 DEF Open
    <3> HIDE DEF y, Step
    <3>3. row'[r] = y /\ retained'[r] = Nothing /\ Nothing.result = "none"
      BY <1>1, <3>1 DEF Nothing
    <3>4. \A q \in Runs \ {r} : retained'[q] = retained[q]
      BY <1>1, <3>1
    <3> QED
      BY <3>2, <3>3, <3>4
  <2>2. CASE RecordDropped(r, s, c, ended)
    <3>1. row' = row /\ retained' = [retained EXCEPT ![r] = Nothing]
      BY <2>2 DEF RecordDropped
    <3>2. retained'[r] = Nothing /\ Nothing.result = "none"
      BY <1>1, <3>1 DEF Nothing
    <3> HIDE DEF Step
    <3> QED
      BY <1>1, <2>0, <3>1, <3>2
  <2>3. CASE RecordIgnored(r, k, s, c, next)
    <3>1. row' = row /\ retained' = retained
      BY <2>3 DEF RecordIgnored
    <3> QED
      BY <1>3, <3>1
  <2>4. CASE RecordFails(r, k, d, s, c, onFail)
    <3>1. /\ row' \in {row, [row EXCEPT ![r] = p]} /\ retained' = [retained EXCEPT ![r] = m]
          /\ Open(row[r])
      BY <2>4 DEF RecordFails
    <3>2. Step(p, m.result)
      BY <1>4, <1>5, <1>6, <3>1 DEF Open
    <3> HIDE DEF p, m, Step
    <3>3. row'[r] \in {row[r], p} /\ retained'[r] = m
      BY <1>1, <3>1
    <3>4. \A q \in Runs \ {r} : retained'[q] = retained[q]
      BY <1>1, <3>1
    <3> QED
      BY <2>0, <3>2, <3>3, <3>4
  <2> QED
    BY <2>1, <2>2, <2>3, <2>4 DEF Record
<1> HIDE DEF y, p, m
<1>8. /\ Hushed(row'[r], n, retained'[r].result) /\ (row'[r].op = "absent" => row[r].op = "absent")
      /\ row'[r].status = "succeeded" => row[r].status = "succeeded" \/ n # 0
      /\ row[r].status = "unborn" => row'[r] = row[r]
  BY <1>7
<1> HIDE DEF Step
<1>9. \A q \in Runs \ {r} : row'[q] = row[q] /\ retained'[q] = retained[q]
  BY <1>2, <1>7 DEF OnlyAdvances
<1>10. Silence'
  BY <1>8, <1>9 DEF PInv, Silence
<1>11. OneMoves
  <2>1. Progresses(r)
    BY <1>2, <1>8 DEF Progresses, OnlyAdvances, Advances
  <2> QED
    BY <1>9, <2>1 DEF OneMoves, Moves
<1>12. \A q \in Runs : Mute(row'[q], calls'[q]) => Mute(row[q], calls[q])
  BY <1>8, <1>9 DEF Mute
<1>13. HandFacts' /\ MarkBorn'
  <2>1. core'.cur = c.cur /\ core'.pc \in {next, ended, onFail, "drain", "raise"}
    BY <1>2 DEF AfterRecord, Resumes
  <2>2. CASE core'.pc \notin GraspPcs
    BY <2>2, LetsGo
  <2>3. CASE core'.pc \in GraspPcs
    <3>1. core'.pc \in {next, ended, onFail} \cap GraspPcs
      BY <2>1, <2>3 DEF GraspPcs, BootPcs
    <3>2. core'.cur = r /\ core'.pc \notin {"calling", "check", "refused", "marking", "markOp"}
      BY <2>1, <3>1 DEF PromisePlace
    <3>3. core'.pc \in BootPcs => row'[r].status # "unborn"
      BY <1>2, <3>1 DEF PromisePlace, OnlyAdvances, Advances
    <3>4. core'.pc \in {"streaming", "broken"} => ~Mute(row'[r], calls'[r])
      BY <1>12, <3>1 DEF PromisePlace
    <3>5. Grasp(r)'
      BY <3>2, <3>3, <3>4 DEF Grasp, At
    <3> QED
      BY <3>2, <3>5 DEF HandFacts, MarkBorn
  <2> QED
    BY <2>2, <2>3
<1> QED
  BY <1>10, <1>11, <1>12, <1>13 DEF Faithful

-----------------------------------------------------------------------------
(* The steps that record none. *)

(* Memory keeps nothing new. *)
KeepsNoMore == \A q \in Runs : retained'[q].result \in {retained[q].result, "none"}

(* No row is written. *)
LEMMA SameFaithful ==
  ASSUME PInv, row' = row, calls' = calls, KeepsNoMore, HandFacts', MarkBorn'
  PROVE  Faithful
<1>1. ASSUME NEW q \in Runs PROVE Hushed(row[q], calls[q], retained'[q].result)
  <2>1. Hushed(row[q], calls[q], retained[q].result)
    BY DEF PInv, Silence
  <2>2. retained'[q].result \in {retained[q].result, "none"}
    BY DEF KeepsNoMore
  <2> QED
    BY <2>1, <2>2 DEF Hushed
<1>2. Silence'
  BY <1>1 DEF Silence
<1> QED
  BY <1>2 DEF Faithful, OneMoves

(* What a write of the row of run r may change. *)
Plain(r, x) ==
  /\ x.approval = row[r].approval /\ x.attempted = row[r].attempted /\ x.stash = row[r].stash
  /\ x.op = "absent" => row[r].op = "absent" /\ x.mark \in {row[r].mark, "released"}
  /\ (x.status = "unborn") = (row[r].status = "unborn")
  /\ x.status = "succeeded" => row[r].status = "succeeded"

(* One row is written, and no result recorded. *)
LEMMA WriteFaithful ==
  ASSUME IInv, PInv, NEW r \in Runs, NEW x, row' = [row EXCEPT ![r] = x], Plain(r, x),
         calls' = calls, retained' = retained, HandFacts', MarkBorn'
  PROVE  Faithful
<1>1. row'[r] = x /\ \A q \in Runs \ {r} : row'[q] = row[q]
  BY Types
<1>2. \A q \in Runs : Hushed(row[q], calls[q], retained[q].result)
  BY DEF PInv, Silence
<1>3. Hushed(x, calls[r], retained[r].result)
  BY <1>2 DEF Plain, Hushed, Mute
<1>4. Silence'
  BY <1>1, <1>2, <1>3 DEF Silence
<1>5. Progresses(r)
  BY <1>1 DEF Plain, Progresses
<1>6. \A q \in Runs : Mute(row'[q], calls'[q]) => Mute(row[q], calls[q])
  BY <1>1 DEF Plain, Mute
<1> QED
  BY <1>1, <1>4, <1>5, <1>6 DEF Faithful, OneMoves, Moves

-----------------------------------------------------------------------------
(* Every step is faithful, one lemma for each part of Next.                  *)

(* The core goes on to a step that relies on nothing of its run. *)
LEMMA GotoLetsGo ==
  ASSUME IInv, NEW c \in CoreType, NEW p \in Pcs, p \notin GraspPcs, core' = Goto(c, p)
  PROVE  HandFacts' /\ MarkBorn'
BY GotoType, LetsGo

(* Where the drain and a reconciliation lead back is no such step. *)
LEMMA ReturnLetsGo ==
  ASSUME IInv, QInv
  PROVE  core.ret \in Pcs /\ core.ret \in Returns /\ core.ret \notin GraspPcs
<1>1. core.ret \in Returns
  BY Types DEF CoreType
<1>2. core.ret \notin InHandPcs
  BY DEF QInv, InHand
<1> QED
  BY <1>1, <1>2 DEF Returns, InHandPcs, GraspPcs, BootPcs

(* The core reaches step p with the run r in hand that it had before. *)
LEMMA GotoHolds ==
  ASSUME IInv, NEW r \in Runs, core.cur = r, NEW p \in Pcs \ {"marking", "markOp"},
         core' = Goto(core, p),
         p \in {"calling", "streaming", "broken"} => ~Mute(row'[r], calls'[r]),
         p \in BootPcs => row'[r].status # "unborn",
         p = "check" => row'[r].op = "intended",
         p = "refused" => row'[r].status \in Terminal
  PROVE  HandFacts' /\ MarkBorn'
<1>1. core'.pc = p /\ core'.cur = r
  BY Types, GotoType
<1> QED
  BY <1>1 DEF HandFacts, Grasp, MarkBorn, At

LEMMA RestoreFaithful ==
  ASSUME IInv, QInv, Approvals, PInv, Restore
  PROVE  Faithful
<1>0. /\ core \in CoreType /\ sched \in SchedulerType /\ row \in [Runs -> RowType]
      /\ {"boot", "bootRun", "recon", "reconTail", "reconRun", "raise", "idle"} \subseteq Pcs
      /\ "boot" \in Returns /\ TRUE \in BOOLEAN /\ FALSE \in BOOLEAN
      /\ "none" \in Decisions \cup {"none"} /\ {"failed", "cancelled"} \subseteq Kinds
      /\ {"boot", "idle", "drain", "raise"} \cap GraspPcs = {}
  BY Types DEF CoreType, Returns, Pcs, Kinds, Terminal, GraspPcs, BootPcs
<1>1. core.ret \in Pcs /\ core.ret \in Returns /\ core.ret \notin GraspPcs
  BY ReturnLetsGo
<1>2. \A q \in Runs : Hushed(row[q], calls[q], retained[q].result)
  BY DEF PInv, Silence
<1>3. retained' = retained => KeepsNoMore
  BY DEF KeepsNoMore
<1>4. CASE OpenProcess
  <2>1. row' = row /\ retained' = retained /\ calls' = calls /\ core'.pc = "boot"
    BY <1>0, <1>4 DEF OpenProcess, CoreType, Untouched
  <2> QED
    BY <1>0, <1>3, <2>1, LetsGo, SameFaithful
<1>5. CASE BootEnd
  <2>1. row' = row /\ retained' = retained /\ calls' = calls /\ core'.pc \in {"drain", "idle"}
    BY <1>0, <1>5 DEF BootEnd, BeginDrain, CoreType, Untouched
  <2> QED
    BY <1>0, <1>3, <2>1, LetsGo, SameFaithful
<1>6. ASSUME NEW r \in Runs, BootReplay(r) PROVE Faithful
  <2> DEFINE c == [core EXCEPT !.todo = @ \ {r}, !.cur = r]
  <2>1. c \in CoreType /\ c.cur = r /\ calls' = calls
    BY <1>0, <1>6 DEF CoreType, BootReplay, Untouched
  <2>2. row[r].status # "unborn"
    BY <1>6 DEF BootReplay, At, IInv, ServeOrder, QInv, VisitsBorn
  <2>3. CASE row[r].stash = "none"
    <3>1. row' = row /\ retained' = retained /\ core' = Goto(c, "bootRun")
      BY <1>6, <2>3 DEF BootReplay
    <3> HIDE DEF c
    <3>2. core'.pc = "bootRun" /\ core'.cur = r
      BY <1>0, <2>1, <3>1, GotoType
    <3>3. HandFacts' /\ MarkBorn'
      BY <2>2, <3>1, <3>2 DEF HandFacts, Grasp, MarkBorn, At
    <3> QED
      BY <1>3, <2>1, <3>1, <3>3, SameFaithful
  <2>4. CASE row[r].stash # "none"
    <3>1. Record(r, row[r].stash, row[r].answer, TRUE, sched, c, "bootRun", "boot", "bootRun")
      BY <1>6, <2>4 DEF BootReplay
    <3>2. row[r].stash \in Kinds /\ row[r].answer \in Decisions \cup {"none"}
      BY <1>0, <2>4 DEF RowType
    <3>3. MayTell(row[r], retained[r].answer, row[r].answer)
      BY ForgetConsistent DEF Approvals
    <3>4. MayHear(row[r], calls[r], row[r].stash)
      BY <1>2, <2>4 DEF Hushed, MayHear
    <3>5. PromisePlace(r, c, "bootRun", "boot", "bootRun")
      BY <2>1, <2>2 DEF PromisePlace
    <3> HIDE DEF c
    <3> QED
      BY <1>0, <2>1, <3>1, <3>2, <3>3, <3>4, <3>5, RecordFaithful
  <2> QED
    BY <2>3, <2>4
<1>7. ASSUME NEW r \in Runs, BootEnqueue(r) PROVE Faithful
  <2>1. row' = row /\ retained' = retained /\ calls' = calls /\ core' = Goto(core, "boot")
    BY <1>7 DEF BootEnqueue, Untouched
  <2> QED
    BY <1>0, <1>3, <2>1, GotoLetsGo, SameFaithful
<1>8. ASSUME NEW r \in Runs, BootLost(r) PROVE Faithful
  <2> DEFINE k == IF row[r].cancel THEN "cancelled" ELSE "failed"
  <2>1. /\ Record(r, k, "none", FALSE, sched, core, "boot", "boot", "raise") /\ k \in Kinds
        /\ calls' = calls /\ row[r].op # "absent" /\ k \in Ignorance
    BY <1>0, <1>8 DEF BootLost, Untouched, Ignorance
  <2>2. MayTell(row[r], retained[r].answer, "none") /\ MayHear(row[r], calls[r], k)
    BY <2>1 DEF MayTell, MayHear
  <2>3. PromisePlace(r, core, "boot", "boot", "raise")
    BY DEF PromisePlace, GraspPcs, BootPcs
  <2> HIDE DEF k
  <2> QED
    BY <1>0, <2>1, <2>2, <2>3, RecordFaithful
<1>9. ASSUME NEW r \in Runs, BootProject(r) PROVE Faithful
  <2>1. /\ row' = row /\ retained' = retained /\ calls' = calls
        /\ core'.pc = "recon" /\ core'.cur = r /\ core.cur = r /\ At("bootRun")
    BY <1>0, <1>9 DEF BootProject, Untouched, CoreType
  <2>2. row[r].status # "unborn"
    BY <2>1 DEF PInv, HandFacts, Grasp, BootPcs, At
  <2>3. HandFacts' /\ MarkBorn'
    BY <2>1, <2>2 DEF HandFacts, Grasp, MarkBorn, At
  <2> QED
    BY <1>3, <2>1, <2>3, SameFaithful
<1>10. ASSUME NEW r \in Runs, core.pc \in BootPcs, core.cur = r PROVE row[r].status # "unborn"
  BY <1>10 DEF PInv, HandFacts, Grasp
<1>11. ASSUME NEW r \in Runs, ReconReplay(r) PROVE Faithful
  <2>1. core.cur = r /\ row[r].status # "unborn" /\ calls' = calls
    BY <1>10, <1>11 DEF ReconReplay, At, BootPcs, Untouched
  <2>2. CASE row[r].stash = "none" \/ WorkerAlive(r)
    <3>1. row' = row /\ retained' = retained /\ core' = Goto(core, "reconTail")
      BY <1>11, <2>2 DEF ReconReplay
    <3>2. HandFacts' /\ MarkBorn'
      BY <1>0, <2>1, <3>1, GotoHolds
    <3> QED
      BY <1>3, <2>1, <3>1, <3>2, SameFaithful
  <2>3. CASE ~(row[r].stash = "none" \/ WorkerAlive(r))
    <3> DEFINE p == core.ret
    <3>1. Record(r, row[r].stash, row[r].answer, TRUE, sched, core, "reconTail", p, "reconTail")
      BY <1>11, <2>3 DEF ReconReplay
    <3>2. row[r].stash \in Kinds /\ row[r].answer \in Decisions \cup {"none"}
      BY <1>0, <2>3 DEF RowType
    <3>3. MayTell(row[r], retained[r].answer, row[r].answer)
      BY ForgetConsistent DEF Approvals
    <3>4. MayHear(row[r], calls[r], row[r].stash)
      BY <1>2, <2>3 DEF Hushed, MayHear
    <3>5. p \in Pcs /\ p \in Returns /\ p \notin GraspPcs
      BY <1>1
    <3> HIDE DEF p
    <3>6. PromisePlace(r, core, "reconTail", p, "reconTail")
      BY <2>1, <3>5 DEF PromisePlace, GraspPcs, BootPcs
    <3> QED
      BY <1>0, <2>1, <3>1, <3>2, <3>3, <3>4, <3>5, <3>6, RecordFaithful
  <2> QED
    BY <2>2, <2>3
<1>12. ASSUME NEW r \in Runs, ReconUntracked(r) \/ ReconUnknownOp(r) \/ ReconUnknownRun(r)
       PROVE  Faithful
  <2> DEFINE u == [row[r] EXCEPT !.mark = "released", !.status = "pending_reconcile"]
             v == [row[r] EXCEPT !.op = "unknown"]
             w == [row[r] EXCEPT !.status = "pending_reconcile"]
  <2>1. core.cur = r /\ row[r].status # "unborn"
    BY <1>10, <1>12 DEF ReconUntracked, ReconUnknownOp, ReconUnknownRun, At, BootPcs
  <2>2. \E x \in {u, v, w} : row' = [row EXCEPT ![r] = x]
    BY <1>12 DEF ReconUntracked, ReconUnknownOp, ReconUnknownRun
  <2>3. retained' = retained /\ calls' = calls
    BY <1>12 DEF ReconUntracked, ReconUnknownOp, ReconUnknownRun, Untouched
  <2>4. \E p \in {core.ret, "reconRun"} : core' = Goto(core, p)
    BY <1>12 DEF ReconUntracked, ReconUnknownOp, ReconUnknownRun
  <2>5. ASSUME NEW x, x \in {u, v, w} PROVE Plain(r, x) /\ x.status # "unborn"
    <3>0. row[r] \in RowType
      BY <1>0
    <3>1. Plain(r, u) /\ u.status # "unborn"
      BY <2>1, <3>0 DEF RowType, Plain
    <3>2. Plain(r, v) /\ v.status # "unborn"
      BY <2>1, <3>0 DEF RowType, Plain
    <3>3. Plain(r, w) /\ w.status # "unborn"
      BY <2>1, <3>0 DEF RowType, Plain
    <3> QED
      BY <2>5, <3>1, <3>2, <3>3
  <2>6. PICK x \in {u, v, w} : row' = [row EXCEPT ![r] = x]
    BY <2>2
  <2>7. Plain(r, x) /\ x.status # "unborn"
    BY <2>5
  <2> HIDE DEF u, v, w
  <2>8. row'[r].status # "unborn"
    BY <1>0, <2>6, <2>7
  <2>9. HandFacts' /\ MarkBorn'
    <3>1. CASE core' = Goto(core, core.ret)
      BY <1>0, <1>1, <3>1, GotoLetsGo
    <3>2. CASE core' = Goto(core, "reconRun")
      BY <1>0, <2>1, <2>8, <3>2, GotoHolds
    <3> QED
      BY <2>4, <3>1, <3>2
  <2> QED
    BY <2>3, <2>6, <2>7, <2>9, WriteFaithful
<1>13. ASSUME NEW r \in Runs, ReconObserved(r) PROVE Faithful
  <2>1. row' = row /\ retained' = retained /\ calls' = calls /\ core' = Goto(core, core.ret)
    BY <1>13 DEF ReconObserved, Untouched
  <2> QED
    BY <1>0, <1>1, <1>3, <2>1, GotoLetsGo, SameFaithful
<1> QED
  BY <1>4, <1>5, <1>6, <1>7, <1>8, <1>9, <1>11, <1>12, <1>13 DEF Restore

LEMMA PollFaithful ==
  ASSUME IInv, QInv, Approvals, PInv, Poll
  PROVE  Faithful
<1>0. /\ core \in CoreType /\ sched \in SchedulerType /\ row \in [Runs -> RowType]
      /\ retained \in [Runs -> RetainedType] /\ updates \in Seq([run : Runs, result : Kinds])
      /\ {"retry", "updates", "closing", "raise"} \subseteq Pcs
      /\ {"retry", "updates", "closing"} \subseteq Returns
      /\ TRUE \in BOOLEAN /\ FALSE \in BOOLEAN /\ "none" \in Decisions \cup {"none"}
      /\ {"retry", "updates", "closing", "raise", "drain", "ready", "idle"} \cap GraspPcs = {}
  BY Types DEF Returns, Pcs, GraspPcs, BootPcs
<1>1. CASE PollBegin
  <2>1. row' = row /\ calls' = calls /\ core'.pc = "retry"
    BY <1>0, <1>1 DEF PollBegin, CoreType, Untouched
  <2>2. KeepsNoMore
    BY <1>0, <1>1 DEF PollBegin, RetainedType, KeepsNoMore
  <2> QED
    BY <1>0, <2>1, <2>2, LetsGo, SameFaithful
<1>2. CASE RetryEnd \/ UpdatesEnd \/ PollEnd
  <2>1. row' = row /\ retained' = retained /\ calls' = calls
    BY <1>2 DEF RetryEnd, UpdatesEnd, PollEnd, Untouched
  <2>2. core'.pc \in {"updates", "drain", "idle"}
    BY <1>0, <1>2 DEF RetryEnd, UpdatesEnd, PollEnd, Goto, BeginDrain, CoreType
  <2> QED
    BY <1>0, <2>1, <2>2, LetsGo, SameFaithful DEF KeepsNoMore
<1>3. ASSUME NEW r \in Runs, RetryOne(r) PROVE Faithful
  <2> DEFINE c == [core EXCEPT !.todo = @ \ {r}]
  <2>1. c \in CoreType
    BY <1>0 DEF CoreType
  <2>2. /\ Record(r, retained[r].result, retained[r].answer, TRUE, sched, c,
                  "retry", "retry", "retry")
        /\ calls' = calls /\ retained[r].result # "none"
    BY <1>3 DEF RetryOne, Untouched
  <2>3. retained[r].result \in Kinds /\ retained[r].answer \in Decisions \cup {"none"}
    BY <1>0, <2>2 DEF RetainedType
  <2>4. MayTell(row[r], retained[r].answer, retained[r].answer)
    BY ForgetConsistent DEF Approvals
  <2>5. MayHear(row[r], calls[r], retained[r].result)
    BY <2>2 DEF PInv, Silence, Hushed, MayHear
  <2> HIDE DEF c
  <2>6. PromisePlace(r, c, "retry", "retry", "retry")
    BY DEF PromisePlace, GraspPcs, BootPcs
  <2> QED
    BY <1>0, <2>1, <2>2, <2>3, <2>4, <2>5, <2>6, RecordFaithful
<1>4. ASSUME NEW r \in Runs, ApplyUpdate(r) PROVE Faithful
  <2> DEFINE k == Head(updates).result
             p == core.pc
  <2>1. /\ Record(r, k, "none", FALSE, sched, core, p, p, "raise") /\ calls' = calls
        /\ p \in {"updates", "closing"} /\ updates # <<>> /\ Head(updates).run = r
    BY <1>4 DEF ApplyUpdate, At
  <2>2. k \in Kinds /\ ~Threadless(r)
    <3> DEFINE U == [run : Runs, result : Kinds]
    <3>1. \A u \in U : u.result \in Kinds
      OBVIOUS
    <3> HIDE DEF U
    <3>2. updates \in Seq(U) /\ updates # <<>>
      BY <1>0, <2>1 DEF U
    <3>3. Head(updates) \in U /\ Head(updates) = updates[1] /\ 1 \in DOMAIN updates
      BY <3>2
    <3> QED
      BY <2>1, <3>1, <3>3 DEF Threadless
  <2>3. MayTell(row[r], retained[r].answer, "none")
    BY DEF MayTell
  <2>4. MayHear(row[r], calls[r], k)
    BY <2>2 DEF PInv, ThreadsWereCalled, Mute, MayHear
  <2>5. p \in Pcs /\ p \in Returns /\ p \notin GraspPcs
    BY <1>0, <2>1
  <2> HIDE DEF k, p
  <2>6. PromisePlace(r, core, p, p, "raise")
    BY <2>5 DEF PromisePlace, GraspPcs, BootPcs
  <2> QED
    BY <1>0, <2>1, <2>2, <2>3, <2>4, <2>5, <2>6, RecordFaithful
<1> QED
  BY <1>1, <1>2, <1>3, <1>4 DEF Poll

(* The second commit of a dispatch is the only call there is. *)
LEMMA CallFaithful ==
  ASSUME IInv, QInv, PInv, NEW r \in Runs, CallBackend(r)
  PROVE  Faithful
<1> DEFINE x == [row[r] EXCEPT !.op = "dispatched"]
<1>0. /\ core \in CoreType /\ row \in [Runs -> RowType] /\ calls \in [Runs -> Nat]
      /\ row[r] \in RowType /\ {"drain", "idle", "calling"} \subseteq Pcs
      /\ {"drain", "idle"} \cap GraspPcs = {}
  BY Types DEF Pcs, GraspPcs, BootPcs
<1>1. /\ core.cur = r /\ row' = [row EXCEPT ![r] = x] /\ retained' = retained
      /\ calls' = [calls EXCEPT ![r] = @ + 1] /\ At("committing")
      /\ core' = Goto(core, AfterDispatch) \/ core' = Goto(core, "calling")
  BY DEF CallBackend
<1>2. row[r].op = "intended" /\ row[r].status = "dispatching"
  BY <1>1 DEF IInv, CurrentWanted
<1>3. /\ x.op = "dispatched" /\ x.status = "dispatching" /\ x.approval = row[r].approval
      /\ x.attempted = row[r].attempted /\ x.stash = row[r].stash
  BY <1>0, <1>2 DEF RowType
<1> HIDE DEF x
<1>4. /\ row'[r] = x /\ calls'[r] = calls[r] + 1 /\ calls'[r] # 0
      /\ \A q \in Runs \ {r} : row'[q] = row[q] /\ calls'[q] = calls[q]
  BY <1>0, <1>1
<1>5. ~Mute(row'[r], calls'[r])
  BY <1>3, <1>4 DEF Mute
<1>6. Silence'
  BY <1>1, <1>3, <1>4, <1>5 DEF PInv, Silence, Hushed
<1>7. HandFacts' /\ MarkBorn'
  <2>1. AfterDispatch \in {"drain", "idle"}
    BY DEF AfterDispatch
  <2> DEFINE p == AfterDispatch
  <2>2. CASE core' = Goto(core, p)
    <3>1. p \in Pcs /\ p \notin GraspPcs
      BY <1>0, <2>1
    <3> HIDE DEF p
    <3> QED
      BY <1>0, <2>2, <3>1, GotoLetsGo
  <2>3. CASE core' = Goto(core, "calling")
    BY <1>0, <1>1, <1>5, <2>3, GotoHolds DEF BootPcs
  <2> QED
    BY <1>1, <2>2, <2>3
<1>8. Progresses(r)
  BY <1>2, <1>3, <1>4 DEF Progresses
<1>9. \A q \in Runs : Mute(row'[q], calls'[q]) => Mute(row[q], calls[q])
  BY <1>4, <1>5
<1> QED
  BY <1>4, <1>6, <1>7, <1>8, <1>9 DEF Faithful, OneMoves, Moves

LEMMA DispatchFaithful ==
  ASSUME IInv, QInv, Approvals, PInv, Dispatch
  PROVE  Faithful
<1>0. /\ core \in CoreType /\ sched \in SchedulerType /\ row \in [Runs -> RowType]
      /\ {"streaming", "broken", "raise", "drain", "idle", "refused", "committing"} \subseteq Pcs
      /\ {"streaming", "drain", "idle"} \subseteq Returns
      /\ FALSE \in BOOLEAN /\ "none" \in Decisions \cup {"none"} /\ "progress" \in Kinds
      /\ FinalKinds \subseteq Kinds
      /\ {"drain", "idle", "committing", "raise"} \cap GraspPcs = {}
  BY Types, RunLifecycleAssumption DEF Returns, Pcs, Kinds, GraspPcs, BootPcs
<1>1. AfterDispatch \in {"drain", "idle"}
  BY DEF AfterDispatch
<1>2. CASE DrainEnd
  <2>1. row' = row /\ retained' = retained /\ calls' = calls /\ core'.pc = core.ret
    BY <1>0, <1>2 DEF DrainEnd, CoreType, Untouched
  <2> QED
    BY <2>1, ReturnLetsGo, LetsGo, SameFaithful DEF KeepsNoMore
<1>3. ASSUME NEW r \in Runs, DrainSkip(r) PROVE Faithful
  <2>1. row' = row /\ retained' = retained /\ calls' = calls /\ core'.pc = "drain"
    BY <1>0, <1>3 DEF DrainSkip, NextItem, PastItem, At, CoreType, Untouched
  <2> QED
    BY <1>0, <2>1, LetsGo, SameFaithful DEF KeepsNoMore
<1>4. ASSUME NEW r \in Runs, DrainTake(r) PROVE Faithful
  <2>1. /\ row' = row /\ retained' = retained /\ calls' = calls /\ core'.pc = "check"
        /\ core'.cur = r /\ row[r].op = "intended"
    BY <1>0, <1>4 DEF DrainTake, Dispatchable, PastItem, CoreType, Untouched
  <2>2. HandFacts' /\ MarkBorn'
    BY <2>1 DEF HandFacts, Grasp, MarkBorn, At, BootPcs
  <2> QED
    BY <2>1, <2>2, SameFaithful DEF KeepsNoMore
<1>5. ASSUME NEW r \in Runs, At("check"), core.cur = r
      PROVE  row[r].op = "intended" /\ row[r].status # "unborn"
  BY <1>5 DEF PInv, HandFacts, Grasp, QInv, Intents
<1>6. ASSUME NEW r \in Runs, core.pc \in {"calling", "streaming", "broken"}, core.cur = r
      PROVE  ~Mute(row[r], calls[r]) /\ row[r].status # "unborn"
  <2>1. ~Mute(row[r], calls[r])
    BY <1>6 DEF PInv, HandFacts, Grasp
  <2> QED
    BY <2>1 DEF Mute, IInv, CallsFollowRows, Untold
<1>7. ASSUME NEW r \in Runs, CheckRefuses(r) PROVE Faithful
  <2>1. /\ core.cur = r /\ row[r].op = "intended" /\ row[r].status # "unborn"
        /\ retained' = retained /\ calls' = calls
    BY <1>5, <1>7 DEF CheckRefuses, Untouched
  <2>2. CASE core.draining
    <3> DEFINE x == [row[r] EXCEPT !.status = "failed"]
    <3>1. row' = [row EXCEPT ![r] = x] /\ core' = Goto(core, "refused")
      BY <1>7, <2>2 DEF CheckRefuses
    <3>2. Plain(r, x) /\ x.status = "failed"
      BY <1>0, <2>1 DEF Plain, RowType
    <3> HIDE DEF x
    <3>3. row'[r].status \in Terminal
      BY <1>0, <3>1, <3>2 DEF Terminal
    <3>4. HandFacts' /\ MarkBorn'
      BY <1>0, <2>1, <3>1, <3>3, GotoHolds DEF BootPcs
    <3> QED
      BY <2>1, <3>1, <3>2, <3>4, WriteFaithful
  <2>3. CASE ~core.draining
    <3>1. row' = row /\ core' = Goto(core, "idle")
      BY <1>7, <2>3 DEF CheckRefuses
    <3> QED
      BY <1>0, <2>1, <3>1, GotoLetsGo, SameFaithful DEF KeepsNoMore
  <2> QED
    BY <2>2, <2>3
<1>8. ASSUME NEW r \in Runs, RefusedOp(r) PROVE Faithful
  <2> DEFINE x == [row[r] EXCEPT !.op = "failed"]
  <2>1. /\ row' = [row EXCEPT ![r] = x] /\ retained' = retained /\ calls' = calls
        /\ core' = Goto(core, "drain")
    BY <1>8 DEF RefusedOp, Untouched
  <2>2. Plain(r, x)
    BY <1>0 DEF Plain, RowType
  <2> HIDE DEF x
  <2> QED
    BY <1>0, <2>1, <2>2, GotoLetsGo, WriteFaithful
<1>9. ASSUME NEW r \in Runs, CommitDispatching(r) PROVE Faithful
  <2> DEFINE x == [row[r] EXCEPT !.status = "dispatching", !.mark = "held"]
  <2>1. /\ row' = [row EXCEPT ![r] = x] /\ retained' = retained /\ calls' = calls
        /\ core' = Goto(core, "committing")
        /\ row[r].op = "intended" /\ row[r].status # "unborn"
    BY <1>5, <1>9 DEF CommitDispatching, Untouched
  <2>2. Plain(r, x)
    BY <1>0, <2>1 DEF Plain, RowType
  <2> HIDE DEF x
  <2> QED
    BY <1>0, <2>1, <2>2, GotoLetsGo, WriteFaithful
<1>10. ASSUME NEW r \in Runs, StreamPublishes(r) PROVE Faithful
  <2>1. /\ Record(r, "progress", "none", FALSE, sched, core, "streaming", "streaming", "broken")
        /\ core.cur = r /\ calls' = calls /\ ~Mute(row[r], calls[r])
    BY <1>6, <1>10 DEF StreamPublishes, Untouched
  <2>2. MayTell(row[r], retained[r].answer, "none") /\ MayHear(row[r], calls[r], "progress")
    BY <2>1 DEF MayTell, MayHear, Mute
  <2>3. PromisePlace(r, core, "streaming", "streaming", "broken")
    BY <2>1 DEF PromisePlace, BootPcs
  <2> QED
    BY <1>0, <2>1, <2>2, <2>3, RecordFaithful
<1>11. ASSUME NEW r \in Runs, NEW k \in FinalKinds, CallReturns(r, k) PROVE Faithful
  <2> DEFINE p == AfterDispatch
  <2>1. /\ Record(r, k, "none", FALSE, sched, core, p, p, "raise") /\ k \in Kinds
        /\ calls' = calls /\ ~Mute(row[r], calls[r])
    BY <1>0, <1>6, <1>11 DEF CallReturns, Untouched
  <2>2. MayTell(row[r], retained[r].answer, "none") /\ MayHear(row[r], calls[r], k)
    BY <2>1 DEF MayTell, MayHear, Mute
  <2>3. p \in Pcs /\ p \in Returns /\ p \in {"drain", "idle"}
    BY <1>0, <1>1
  <2> HIDE DEF p
  <2>4. PromisePlace(r, core, p, p, "raise")
    BY <2>3 DEF PromisePlace, GraspPcs, BootPcs
  <2> QED
    BY <1>0, <2>1, <2>2, <2>3, <2>4, RecordFaithful
<1>12. ASSUME NEW r \in Runs, CallRaises(r) PROVE Faithful
  <2> DEFINE x == [row[r] EXCEPT !.status = "pending_reconcile", !.op = "unknown"]
             p == AfterDispatch
  <2>1. /\ row' = [row EXCEPT ![r] = x] /\ retained' = retained /\ calls' = calls
        /\ core' = Goto(core, p) /\ row[r].status # "unborn"
    BY <1>6, <1>12 DEF CallRaises, Untouched, At
  <2>2. Plain(r, x)
    BY <1>0, <2>1 DEF Plain, RowType
  <2>3. p \in Pcs /\ p \notin GraspPcs
    BY <1>0, <1>1
  <2> HIDE DEF x, p
  <2> QED
    BY <1>0, <2>1, <2>2, <2>3, GotoLetsGo, WriteFaithful
<1> QED
  BY <1>2, <1>3, <1>4, <1>7, <1>8, <1>9, <1>10, <1>11, <1>12, CallFaithful DEF Dispatch

(* A new run has nothing behind it. *)
LEMMA SubmitFaithful ==
  ASSUME IInv, QInv, PInv, NEW r \in Runs, TaskSubmit(r)
  PROVE  Faithful
<1>0. core \in CoreType /\ row \in [Runs -> RowType] /\ calls \in [Runs -> Nat]
  BY Types
<1>1. /\ row' = [row EXCEPT ![r] = Intended] /\ retained' = retained /\ calls' = calls
      /\ row[r].status = "unborn" /\ core'.pc = "accepted"
  BY <1>0 DEF TaskSubmit, CoreType, Untouched
<1>2. calls[r] = 0 /\ retained[r].result = "none"
  BY <1>1 DEF IInv, CallsFollowRows, Untold, QInv, NotStarted, Unstarted, Clean
<1>3. /\ Intended.op = "intended" /\ Intended.stash = "none" /\ Intended.status = "queued"
      /\ Intended.approval = "none" /\ Intended.attempted = FALSE
  BY DEF Intended, Unborn
<1>4. row'[r] = Intended /\ \A q \in Runs \ {r} : row'[q] = row[q]
  BY <1>0, <1>1
<1>5. Silence'
  BY <1>1, <1>2, <1>3, <1>4 DEF PInv, Silence, Hushed
<1>6. Progresses(r)
  BY <1>1, <1>3, <1>4 DEF Progresses
<1>7. \A q \in Runs : Mute(row'[q], calls'[q]) => Mute(row[q], calls[q])
  BY <1>1, <1>2, <1>4 DEF Mute
<1>8. HandFacts' /\ MarkBorn'
  BY <1>1, LetsGo DEF GraspPcs, BootPcs
<1> QED
  BY <1>1, <1>4, <1>5, <1>6, <1>7, <1>8 DEF Faithful, OneMoves, Moves

(* The requests that write a row and record no result. *)
LEMMA WriteRequestFaithful ==
  ASSUME IInv, QInv, PInv, NEW r \in Runs,
         \/ CancelIntent(r) \/ TerminateSave(r) \/ PauseRun(r) \/ PauseTask(r)
         \/ ResumeRun(r) \/ ResumeTask(r)
  PROVE  Faithful
<1>0. core \in CoreType /\ row \in [Runs -> RowType] /\ row[r] \in RowType
  BY Types
<1> DEFINE a == [row[r] EXCEPT !.cancel = TRUE]
           b == [row[r] EXCEPT !.status = "paused"]
           u == [row[r] EXCEPT !.paused = TRUE]
           v == [row[r] EXCEPT !.status = ResumedStatus(row[r])]
           w == [row[r] EXCEPT !.paused = FALSE]
<1>1. \/ row' = row
      \/ \E x \in {a, u, w} : row' = [row EXCEPT ![r] = x]
      \/ row' = [row EXCEPT ![r] = b] /\ row[r].status # "unborn"
      \/ row' = [row EXCEPT ![r] = v] /\ row[r].status # "unborn"
  BY DEF CancelIntent, TerminateSave, PauseRun, PauseTask, ResumeRun, ResumeTask
<1>2. retained' = retained /\ calls' = calls
  BY DEF CancelIntent, TerminateSave, PauseRun, PauseTask, ResumeRun, ResumeTask, Untouched
<1>3. core'.pc \in {"cancelling", "terminating", "pausing", "idle", "resuming", "drain"}
  BY <1>0 DEF CancelIntent, TerminateSave, PauseRun, PauseTask, ResumeRun, ResumeTask, Goto,
              BeginDrain, CoreType
<1>4. HandFacts' /\ MarkBorn'
  BY <1>3, LetsGo DEF GraspPcs, BootPcs
<1>5. ResumedStatus(row[r]) # "unborn" /\ ResumedStatus(row[r]) # "succeeded"
  BY DEF ResumedStatus
<1>6. Plain(r, a) /\ Plain(r, u) /\ Plain(r, w)
  BY <1>0 DEF Plain, RowType
<1>7. row[r].status # "unborn" => Plain(r, b) /\ Plain(r, v)
  BY <1>0, <1>5 DEF Plain, RowType
<1> HIDE DEF a, b, u, v, w
<1>8. CASE row' = row
  BY <1>2, <1>4, <1>8, SameFaithful DEF KeepsNoMore
<1>9. ASSUME NEW x, row' = [row EXCEPT ![r] = x], Plain(r, x) PROVE Faithful
  BY <1>2, <1>4, <1>9, WriteFaithful
<1> QED
  BY <1>1, <1>6, <1>7, <1>8, <1>9

(* The requests that write nothing. *)
LEMMA ReadRequestFaithful ==
  ASSUME IInv, QInv, PInv, NEW r \in Runs,
         \/ Admit(r) \/ CancelUnconfirmed(r) \/ TerminateIntent(r) \/ ReconcileOnly(r)
         \/ RespondUnknown(r)
  PROVE  Faithful
<1>0. core \in CoreType /\ "check" \in Pcs
  BY Types DEF Pcs
<1>1. row' = row /\ retained' = retained /\ calls' = calls
  BY DEF Admit, CancelUnconfirmed, TerminateIntent, ReconcileOnly, RespondUnknown, Untouched
<1>2. CASE ReconcileOnly(r)
  <2>1. core'.pc = "recon" /\ core'.cur = r /\ row[r].status # "unborn"
    BY <1>0, <1>2 DEF ReconcileOnly, CoreType, Open
  <2>2. HandFacts' /\ MarkBorn'
    BY <1>1, <2>1 DEF HandFacts, Grasp, MarkBorn, At
  <2> QED
    BY <1>1, <2>2, SameFaithful DEF KeepsNoMore
<1>3. CASE Admit(r) /\ core'.pc = "check"
  <2>1. core'.pc = "check" /\ core'.cur = core.cur /\ core.cur = r /\ row[r].op = "intended"
    BY <1>0, <1>3, GotoType DEF Admit, Goto, CoreType, QInv, AcceptedIsIntent, Accepting
  <2>2. HandFacts' /\ MarkBorn'
    BY <1>1, <2>1 DEF HandFacts, Grasp, MarkBorn, At, BootPcs
  <2> QED
    BY <1>1, <2>2, SameFaithful DEF KeepsNoMore
<1>4. CASE ~ReconcileOnly(r) /\ core'.pc # "check"
  <2>1. core'.pc \in {"idle", "terminate"}
    BY <1>0, <1>4 DEF Admit, CancelUnconfirmed, TerminateIntent, RespondUnknown, Goto, CoreType
  <2>2. HandFacts' /\ MarkBorn'
    BY <2>1, LetsGo DEF GraspPcs, BootPcs
  <2> QED
    BY <1>1, <2>2, SameFaithful DEF KeepsNoMore
<1>5. core'.pc = "check" => Admit(r)
  BY <1>0 DEF CancelUnconfirmed, TerminateIntent, ReconcileOnly, RespondUnknown, Goto, CoreType
<1> QED
  BY <1>2, <1>3, <1>4, <1>5

LEMMA RequestFaithful ==
  ASSUME IInv, QInv, Approvals, PInv, Request
  PROVE  Faithful
<1>0. /\ core \in CoreType /\ sched \in SchedulerType /\ row \in [Runs -> RowType]
      /\ retained \in [Runs -> RetainedType]
      /\ {"idle", "raise", "recon"} \subseteq Pcs /\ "idle" \in Returns
      /\ FALSE \in BOOLEAN /\ "none" \in Decisions \cup {"none"}
      /\ Terminal \cup {"progress"} \cup ReconcileKinds \subseteq Kinds
      /\ {"idle", "raise"} \cap GraspPcs = {}
  BY Types, RunLifecycleAssumption DEF Returns, Pcs, Kinds, GraspPcs, BootPcs
<1>1. ASSUME NEW r \in Runs, NEW k \in Kinds, NEW d \in Decisions \cup {"none"},
             NEW s \in SchedulerType,
             Record(r, k, d, FALSE, s, core, "idle", "idle", "raise"), calls' = calls,
             MayTell(row[r], retained[r].answer, d), MayHear(row[r], calls[r], k)
      PROVE  Faithful
  <2>1. PromisePlace(r, core, "idle", "idle", "raise")
    BY DEF PromisePlace, GraspPcs, BootPcs
  <2> QED
    BY <1>0, <1>1, <2>1, RecordFaithful
<1>2. \A r \in Runs : MayTell(row[r], retained[r].answer, "none")
  BY DEF MayTell
<1>3. \A r \in Runs : MayHear(row[r], calls[r], "cancelled")
  BY DEF MayHear, Terminal, Ignorance
<1>4. ASSUME NEW r \in Runs, CancelQueued(r) \/ TerminateRecord(r) PROVE Faithful
  <2>1. /\ \E s \in {sched, Remove(sched, r)} :
             Record(r, "cancelled", "none", FALSE, s, core, "idle", "idle", "raise")
        /\ calls' = calls
    BY <1>4 DEF CancelQueued, TerminateRecord, Untouched
  <2>2. Remove(sched, r) \in SchedulerType /\ "cancelled" \in Kinds
    BY <1>0, RemoveType DEF Kinds, Terminal
  <2> QED
    BY <1>0, <1>1, <1>2, <1>3, <2>1, <2>2
<1>5. ASSUME NEW r \in Runs, NEW k \in {"cancelled", "succeeded"}, CancelConfirmed(r, k)
      PROVE  Faithful
  <2>1. /\ Record(r, k, "none", FALSE, sched, core, "idle", "idle", "raise") /\ calls' = calls
        /\ k \in Terminal /\ k \in Kinds /\ (k = "cancelled" \/ Answerable(r, k))
    BY <1>5 DEF CancelConfirmed, Untouched, Kinds, Terminal
  <2>2. MayHear(row[r], calls[r], k)
    BY <2>1 DEF MayHear, Answerable, Ignorance
  <2> QED
    BY <1>0, <1>1, <1>2, <2>1, <2>2
<1>6. ASSUME NEW r \in Runs, NEW k \in ReconcileKinds \cup {"failed", "cancelled"},
             ReconcileRecord(r, k)
      PROVE  Faithful
  <2> DEFINE c == [core EXCEPT !.cur = r, !.ret = "idle"]
  <2>1. c \in CoreType /\ c.cur = r
    BY <1>0 DEF CoreType
  <2>2. /\ Record(r, k, "none", FALSE, sched, c, "recon", "idle", "raise") /\ k \in Kinds
        /\ calls' = calls
    BY <1>0, <1>6 DEF ReconcileRecord, Terminal, Untouched
  <2>3. row[r].op # "absent" /\ row[r].status # "unborn"
    BY <1>6 DEF ReconcileRecord, Open
  <2>4. calls[r] = 0 => k \in Ignorance
    BY <1>6 DEF ReconcileRecord, Truthful, Answerable, Ignorance
  <2>5. MayHear(row[r], calls[r], k)
    BY <2>3, <2>4 DEF MayHear
  <2>6. PromisePlace(r, c, "recon", "idle", "raise")
    BY <2>1, <2>3 DEF PromisePlace
  <2> HIDE DEF c
  <2> QED
    BY <1>0, <1>2, <2>1, <2>2, <2>5, <2>6, RecordFaithful
<1>7. ASSUME NEW r \in Runs, RespondIntent(r) PROVE Faithful
  <2> DEFINE x == [row[r] EXCEPT !.approval = "forwarding", !.attempted = TRUE]
  <2>1. /\ row' = [row EXCEPT ![r] = x] /\ retained' = retained /\ calls' = calls
        /\ row[r].approval = "pending" /\ core'.pc = "forwarding"
    BY <1>0, <1>7 DEF RespondIntent, CoreType, Untouched
  <2>2. ~Mute(row[r], calls[r])
    BY <2>1 DEF PInv, Silence, Hushed
  <2>3. x.op = row[r].op /\ x.status = row[r].status
    BY <1>0 DEF RowType
  <2>4. row'[r] = x /\ \A q \in Runs \ {r} : row'[q] = row[q]
    BY <1>0, <2>1
  <2> HIDE DEF x
  <2>5. Silence'
    BY <2>1, <2>2, <2>3, <2>4 DEF PInv, Silence, Hushed, Mute
  <2>6. Progresses(r)
    <3>1. row[r].status = "waiting_input"
      BY <1>7 DEF RespondIntent
    <3> QED
      BY <2>1, <2>3, <2>4, <3>1 DEF Progresses
  <2>7. HandFacts' /\ MarkBorn'
    BY <2>1, LetsGo DEF GraspPcs, BootPcs
  <2>8. \A q \in Runs : Mute(row'[q], calls'[q]) => Mute(row[q], calls[q])
    BY <2>1, <2>3, <2>4 DEF Mute
  <2> QED
    BY <2>1, <2>4, <2>5, <2>6, <2>7, <2>8 DEF Faithful, OneMoves, Moves
<1>8. ASSUME NEW r \in Runs, NEW k \in {"progress"} \cup (FinalKinds \cap Terminal),
             NEW d \in Decisions, RespondAnswered(r, k, d)
      PROVE  Faithful
  <2>1. /\ Record(r, k, d, FALSE, sched, core, "idle", "idle", "raise") /\ k \in Kinds
        /\ At("forwarding") /\ core.cur = r /\ calls' = calls
    BY <1>0, <1>8 DEF RespondAnswered, Untouched
  <2>2. MayTell(row[r], retained[r].answer, d) /\ row[r].attempted
    BY <2>1 DEF Approvals, Forwarding, Unheard, MayTell
  <2>3. MayHear(row[r], calls[r], k)
    BY <2>2 DEF PInv, Silence, Hushed, Mute, MayHear
  <2> QED
    BY <1>0, <1>1, <2>1, <2>2, <2>3
<1> QED
  BY <1>4, <1>5, <1>6, <1>7, <1>8, SubmitFaithful, WriteRequestFaithful, ReadRequestFaithful
     DEF Request

LEMMA ShutdownFaithful ==
  ASSUME IInv, QInv, PInv, Shutdown \/ Crash
  PROVE  Faithful
<1>0. /\ core \in CoreType /\ row \in [Runs -> RowType]
      /\ {"idle", "close", "raise", "closing", "down"} \cap GraspPcs = {}
  BY Types DEF GraspPcs, BootPcs
<1>1. ASSUME ProcessEnds PROVE Faithful
  <2>1. /\ row' = row /\ calls' = calls /\ core'.pc = "down"
        /\ \A q \in Runs : retained'[q].result = "none"
    BY <1>1 DEF ProcessEnds, CoreDown, Nothing
  <2>2. HandFacts' /\ MarkBorn'
    BY <1>0, <2>1, LetsGo
  <2> QED
    BY <2>1, <2>2, SameFaithful DEF KeepsNoMore
<1>2. ASSUME UNCHANGED <<row, retained, calls>>,
             \/ core' = Raise(core) \/ core' = Goto(core, "idle") \/ core' = Goto(core, "close")
             \/ core' = [core EXCEPT !.pc = "closing", !.phase = "close"]
      PROVE  Faithful
  <2>1. core'.pc \in {"raise", "idle", "close", "closing"}
    BY <1>0, <1>2 DEF Raise, Goto, CoreType
  <2>2. HandFacts' /\ MarkBorn'
    BY <1>0, <2>1, LetsGo
  <2> QED
    BY <1>2, <2>2, SameFaithful DEF KeepsNoMore
<1>3. CASE CommitFails
  BY <1>2, <1>3 DEF CommitFails, StoreFails
<1>4. CASE HandleRaise
  BY <1>1, <1>2, <1>4 DEF HandleRaise
<1>5. CASE StopRequested
  BY <1>2, <1>5 DEF StopRequested, Untouched
<1>6. CASE CloseBegin
  BY <1>1, <1>2, <1>6 DEF CloseBegin
<1>7. CASE CloseEnd \/ Crash
  BY <1>1, <1>7 DEF CloseEnd, Crash
<1>8. CASE CloseDrained
  <2>1. /\ UNCHANGED <<row, retained, calls>> /\ core'.pc = "marking"
        /\ \A r \in core'.todo : row[r].status # "unborn" /\ row[r].op \notin {"absent", "intended"}
    BY <1>0, <1>8 DEF CloseDrained, CoreType, Untouched, Open
  <2>2. HandFacts' /\ MarkBorn'
    BY <2>1 DEF HandFacts, Grasp, MarkBorn, At, BootPcs
  <2> QED
    BY <2>1, <2>2, SameFaithful DEF KeepsNoMore
<1>9. ASSUME NEW r \in Runs, NEW x, row' = [row EXCEPT ![r] = x], Plain(r, x),
             x.op \in {row[r].op, "unknown"}, retained' = retained, calls' = calls,
             core.pc \in {"marking", "markOp"}, core'.todo \subseteq core.todo,
             core'.pc = "marking" \/ (core'.pc = "markOp" /\ core'.cur = r /\ r \in core.todo)
      PROVE  Faithful
  <2>1. \A q \in Runs : row'[q] = row[q] \/ (q = r /\ row'[q] = x)
    BY <1>0, <1>9
  <2>2. \A q \in Runs :
          /\ row'[q].status = "unborn" => row[q].status = "unborn"
          /\ row'[q].op \in {row[q].op, "unknown"}
    BY <1>9, <2>1 DEF Plain
  <2>3. core.todo \subseteq Runs
    BY <1>0 DEF CoreType
  <2>4. MarkBorn'
    BY <1>9, <2>2, <2>3 DEF PInv, MarkBorn
  <2>5. HandFacts'
    BY <1>9, <2>2 DEF PInv, MarkBorn, HandFacts, Grasp, At, BootPcs
  <2> QED
    BY <1>9, <2>4, <2>5, WriteFaithful
<1>10. ASSUME NEW r \in Runs, CloseMarkRun(r) PROVE Faithful
  <2> DEFINE x == [row[r] EXCEPT !.status = "pending_reconcile"]
  <2>1. /\ row' = [row EXCEPT ![r] = x] /\ retained' = retained /\ calls' = calls
        /\ core.pc = "marking" /\ r \in core.todo /\ core'.pc = "markOp" /\ core'.cur = r
        /\ core'.todo \subseteq core.todo
    BY <1>0, <1>10 DEF CloseMarkRun, At, CoreType, Untouched
  <2>2. row[r].status # "unborn"
    BY <2>1 DEF PInv, MarkBorn
  <2>3. Plain(r, x) /\ x.op = row[r].op
    BY <1>0, <2>2 DEF Plain, RowType
  <2> HIDE DEF x
  <2> QED
    BY <1>9, <2>1, <2>3
<1>11. ASSUME NEW r \in Runs, CloseMarkOp(r) PROVE Faithful
  <2> DEFINE x == [row[r] EXCEPT !.op = "unknown"]
  <2>1. /\ row' = [row EXCEPT ![r] = x] /\ retained' = retained /\ calls' = calls
        /\ core.pc = "markOp" /\ core'.pc = "marking" /\ core'.todo \subseteq core.todo
    BY <1>0, <1>11 DEF CloseMarkOp, Goto, At, CoreType, Untouched
  <2>2. Plain(r, x) /\ x.op = "unknown"
    BY <1>0 DEF Plain, RowType
  <2> HIDE DEF x
  <2> QED
    BY <1>9, <2>1, <2>2
<1> QED
  BY <1>3, <1>4, <1>5, <1>6, <1>7, <1>8, <1>10, <1>11 DEF Shutdown

(* What the threads and their updates do: a run gets its first by a call. *)
ThreadsFollowCalls ==
  \A q \in Runs : Threadless(q) => Threadless(q)' \/ ~Mute(row'[q], calls'[q])

LEMMA StillThreads ==
  ASSUME UNCHANGED <<worker, updates>>
  PROVE  ThreadsFollowCalls
BY DEF ThreadsFollowCalls, Threadless

LEMMA NoThreads ==
  ASSUME ProcessEnds
  PROVE  ThreadsFollowCalls
BY DEF ProcessEnds, ThreadsFollowCalls, Threadless, NoWorker

(* A thread works for its own run only. *)
LEMMA WorkerThreads ==
  ASSUME IInv, NEW r \in Runs, Worker(r)
  PROVE  ThreadsFollowCalls
<1>0. /\ worker \in [Runs -> WorkerType] /\ worker[r] \in WorkerType
      /\ updates \in Seq([run : Runs, result : Kinds])
  BY Types
<1>1. worker[r].pc # "none"
  BY DEF Worker, WorkerPublishes, WorkerReturns, WorkerPuts, WorkerGoesOn, WorkerFallsBack,
         WorkerEnds, WorkerStops, WorkerAlive
<1>2. \A q \in Runs \ {r} : worker'[q] = worker[q]
  BY <1>0 DEF Worker, WorkerPublishes, WorkerReturns, WorkerPuts, WorkerGoesOn,
              WorkerFallsBack, WorkerEnds, WorkerStops
<1>3. \A i \in DOMAIN updates' :
        updates'[i].run = r \/ (i \in DOMAIN updates /\ updates'[i] = updates[i])
  <2>1. CASE WorkerPuts(r)
    <3> DEFINE u == [run |-> r, result |-> worker[r].result]
               U == [run : Runs, result : Kinds]
    <3>1. worker[r].result \in Kinds
      BY <1>0, <2>1 DEF IInv, WorkerHasResult, WorkerPuts, WorkerType
    <3>2. u \in U /\ u.run = r /\ updates \in Seq(U) /\ updates' = Append(updates, u)
      BY <1>0, <2>1, <3>1 DEF WorkerPuts
    <3> HIDE DEF u, U
    <3> QED
      BY <3>2
  <2>2. CASE ~WorkerPuts(r)
    BY <2>2 DEF Worker, WorkerPublishes, WorkerReturns, WorkerGoesOn, WorkerFallsBack,
                WorkerEnds, WorkerStops
  <2> QED
    BY <2>1, <2>2
<1> QED
  BY <1>1, <1>2, <1>3 DEF ThreadsFollowCalls, Threadless

(* The core takes an update off the queue and answers the thread it is of. *)
LEMMA PollThreads ==
  ASSUME IInv, Poll
  PROVE  ThreadsFollowCalls
<1> DEFINE U == [run : Runs, result : Kinds]
<1>0. worker \in [Runs -> WorkerType] /\ updates \in Seq(U)
  BY Types
<1>1. CASE UpdatesEnd
  BY <1>0, <1>1 DEF UpdatesEnd, Pruned, ThreadsFollowCalls, Threadless
<1>2. ASSUME NEW r \in Runs, ApplyUpdate(r) PROVE ThreadsFollowCalls
  <2>1. \A q \in Runs : worker[q].pc = "none" => worker'[q].pc = "none"
    BY <1>0, <1>2 DEF ApplyUpdate, WorkerType
  <2>2. updates # <<>> /\ updates' = Tail(updates)
    BY <1>2 DEF ApplyUpdate
  <2> HIDE DEF U
  <2>3. \A i \in DOMAIN updates' : i + 1 \in DOMAIN updates /\ updates'[i] = updates[i + 1]
    BY <1>0, <2>2
  <2> QED
    BY <2>1, <2>3 DEF ThreadsFollowCalls, Threadless
<1>3. CASE PollBegin \/ RetryEnd \/ PollEnd \/ \E r \in Runs : RetryOne(r)
  BY <1>3, StillThreads DEF PollBegin, RetryEnd, PollEnd, RetryOne, Untouched
<1> QED
  BY <1>1, <1>2, <1>3 DEF Poll

LEMMA StepThreads ==
  ASSUME IInv, Next
  PROVE  ThreadsFollowCalls
<1>1. CASE Restore
  BY <1>1, StillThreads DEF Restore, OpenProcess, BootEnd, BootReplay, BootEnqueue, BootLost,
                            BootProject, ReconReplay, ReconUntracked, ReconObserved,
                            ReconUnknownOp, ReconUnknownRun, Untouched
<1>2. CASE Request
  BY <1>2, StillThreads DEF Request, TaskSubmit, Admit, CancelIntent, CancelQueued,
       CancelUnconfirmed, CancelConfirmed, TerminateIntent, TerminateSave, TerminateRecord,
       PauseRun, PauseTask, ResumeRun, ResumeTask, ReconcileOnly, ReconcileRecord,
       RespondIntent, RespondUnknown, RespondAnswered, Untouched
<1>3. CASE Dispatch
  <2>1. ASSUME NEW r \in Runs, CallBackend(r) PROVE ThreadsFollowCalls
    <3>1. /\ row \in [Runs -> RowType] /\ worker \in [Runs -> WorkerType]
          /\ calls \in [Runs -> Nat]
      BY Types
    <3>2. row'[r].op = "dispatched" /\ calls'[r] # 0
      BY <2>1, <3>1 DEF CallBackend, RowType
    <3>3. updates' = updates /\ \A q \in Runs \ {r} : worker'[q] = worker[q]
      BY <2>1, <3>1 DEF CallBackend
    <3> QED
      BY <3>2, <3>3 DEF ThreadsFollowCalls, Threadless, Mute
  <2>2. CASE ~\E r \in Runs : CallBackend(r)
    BY <1>3, <2>2, StillThreads DEF Dispatch, DrainEnd, DrainSkip, DrainTake, CheckRefuses,
         RefusedOp, CommitDispatching, StreamPublishes, CallRaises, CallReturns, Untouched
  <2> QED
    BY <2>1, <2>2
<1>4. CASE Shutdown
  <2>1. CASE ProcessEnds
    BY <2>1, NoThreads
  <2>2. CASE ~ProcessEnds
    BY <1>4, <2>2, StillThreads DEF Shutdown, CommitFails, StoreFails, HandleRaise,
         StopRequested, CloseBegin, CloseDrained, CloseEnd, CloseMarkRun, CloseMarkOp, Untouched
  <2> QED
    BY <2>1, <2>2
<1>5. CASE Crash
  BY <1>5, NoThreads DEF Crash
<1> QED
  BY <1>1, <1>2, <1>3, <1>4, <1>5, PollThreads, WorkerThreads DEF Next, CoreThread

-----------------------------------------------------------------------------
(* The theorems. *)

LEMMA StepFaithful ==
  ASSUME IInv, QInv, Approvals, PInv, Next
  PROVE  Faithful
<1>1. ASSUME NEW r \in Runs, Worker(r) PROVE Faithful
  <2>1. UNCHANGED <<row, retained, core, calls>>
    BY <1>1 DEF Worker, WorkerPublishes, WorkerReturns, WorkerPuts, WorkerGoesOn,
                WorkerFallsBack, WorkerEnds, WorkerStops, CoreStands
  <2>2. HandFacts' /\ MarkBorn'
    BY <2>1 DEF PInv, HandFacts, Grasp, MarkBorn, At, Mute
  <2> QED
    BY <2>1, <2>2, SameFaithful DEF KeepsNoMore
<1> QED
  BY <1>1, RestoreFaithful, PollFaithful, DispatchFaithful, RequestFaithful, ShutdownFaithful
     DEF Next, CoreThread

LEMMA StepPromise == IInv /\ QInv /\ Approvals /\ PInv /\ [Next]_vars => PInv'
<1> SUFFICES ASSUME IInv, QInv, Approvals, PInv, [Next]_vars PROVE PInv'
  OBVIOUS
<1>1. CASE Next
  <2>1. Faithful /\ ThreadsFollowCalls
    BY <1>1, StepFaithful, StepThreads
  <2>2. ThreadsWereCalled'
    BY <2>1 DEF Faithful, ThreadsFollowCalls, PInv, ThreadsWereCalled
  <2> QED
    BY <2>1, <2>2 DEF Faithful, PInv
<1>2. CASE UNCHANGED vars
  BY <1>2 DEF vars, PInv, Silence, ThreadsWereCalled, Threadless, HandFacts, Grasp, MarkBorn,
              At, Mute
<1> QED
  BY <1>1, <1>2

(* A run that an earlier version of the program left was called by it. *)
LEMMA InitPromise == Init => PInv
<1> SUFFICES ASSUME Init PROVE PInv
  OBVIOUS
<1>1. \A x \in LegacyRows \cup {Unborn} :
        x.approval = "none" /\ x.attempted = FALSE /\ x.stash = "none" /\ x.mark # "held"
  <2>1. /\ Unborn.approval = "none" /\ Unborn.attempted = FALSE /\ Unborn.stash = "none"
        /\ Unborn.mark # "held"
    BY DEF Unborn
  <2>2. ASSUME NEW op, NEW x, x = [Unborn EXCEPT !.status = "running", !.op = op]
        PROVE  /\ x.approval = "none" /\ x.attempted = FALSE /\ x.stash = "none"
               /\ x.mark # "held"
    BY <2>2 DEF Unborn
  <2>3. \A x \in LegacyRows :
          x.approval = "none" /\ x.attempted = FALSE /\ x.stash = "none" /\ x.mark # "held"
    BY <2>2 DEF LegacyRows
  <2> QED
    BY <2>1, <2>3
<1>2. \A r \in Runs : /\ row[r] \in LegacyRows \cup {Unborn} /\ retained[r].result = "none"
                      /\ worker[r].pc = "none"
  BY DEF Init, Nothing, NoWorker
<1>3. updates = <<>> /\ core.pc = "down"
  BY DEF Init, CoreDown
<1>4. Silence
  BY <1>1, <1>2 DEF Silence, Hushed
<1>5. ThreadsWereCalled
  BY <1>2, <1>3 DEF ThreadsWereCalled, Threadless
<1>6. HandFacts /\ MarkBorn
  BY <1>3 DEF HandFacts, Grasp, MarkBorn, At, BootPcs
<1> QED
  BY <1>4, <1>5, <1>6 DEF PInv

(* At all times: of a run whose backend was not called nothing is known or   *)
(* kept but that it failed, was cancelled or is unknown.                     *)
THEOREM PromiseInvariance == Spec => []PInv
<1>1. Init => PInv
  BY InitPromise
<1>2. IInv /\ QInv /\ Approvals /\ PInv /\ [Next]_vars => PInv'
  BY StepPromise
<1> QED
  BY <1>1, <1>2, Invariance, QueueInvariance, ApprovalInvariance, PTL DEF Spec

(* What one step of the core is in the specification of the promise. *)
LEMMA MovesKeepPromise ==
  ASSUME IInv, IInv', Next, NEW r \in Runs, Moves(r)
  PROVE  [Promise!Next]_[q \in Runs |-> Standing(q)]
<1> DEFINE P == [q \in Runs |-> Standing(q)]
<1>0. /\ calls \in [Runs -> Nat] /\ calls[r] <= 1 /\ calls'[r] <= 1
      /\ calls[r] \in Nat /\ calls'[r] \in Nat
      /\ row[r].status = "unborn" => calls[r] = 0
      /\ row[r].status \in Terminal => row'[r].status = row[r].status
  BY Types, StepIsFinal DEF IInv, CallsFollowRows, Untold, TypeOK
<1>1. \A q \in Runs \ {r} : Standing(q)' = Standing(q)
  BY DEF Moves, Standing
<1>2. P' = [P EXCEPT ![r] = Standing(r)'] /\ P[r] = Standing(r)
  BY <1>1
<1>3. ASSUME NEW v, Standing(r)' = v PROVE P' = [P EXCEPT ![r] = v]
  BY <1>2, <1>3
<1>4. CASE Standing(r)' = Standing(r)
  <2>1. P' = P
    BY <1>1, <1>4
  <2> QED
    BY <2>1
<1>5. CASE row[r].status = "unborn" /\ row'[r].status # "unborn"
  <2>1. Standing(r) = "absent" /\ Standing(r)' = "accepted"
    BY <1>0, <1>5 DEF Moves, Progresses, Standing, Terminal
  <2>2. Promise!Accept(r)
    BY <1>2, <1>3, <2>1 DEF Promise!Accept, Promise!Move
  <2> QED
    BY <2>2 DEF Promise!Next
<1>6. CASE calls'[r] # calls[r]
  <2>1. Standing(r) = "accepted" /\ Standing(r)' = "called"
    BY <1>0, <1>6 DEF Moves, Progresses, Standing, Terminal
  <2>2. Promise!Call(r)
    BY <1>2, <1>3, <2>1 DEF Promise!Call, Promise!Move
  <2> QED
    BY <2>2 DEF Promise!Next
<1>7. CASE /\ row[r].status # "unborn" /\ calls'[r] = calls[r] /\ Standing(r)' # Standing(r)
  <2> DEFINE o == row'[r].status
  <2>1. /\ row[r].status \notin Terminal /\ o \in Terminal /\ Standing(r)' = o
        /\ Standing(r) = IF calls[r] = 0 THEN "accepted" ELSE "called"
        /\ o = "succeeded" => calls[r] # 0
    BY <1>0, <1>7 DEF Moves, Progresses, Standing, Terminal
  <2>2. o \in Promise!Outcomes
    BY <2>1 DEF Terminal, Promise!Outcomes
  <2>3. P' = [P EXCEPT ![r] = o]
    BY <1>3, <2>1
  <2>4. Promise!Settle(r, o) \/ Promise!Refuse(r, o)
    BY <1>2, <2>1, <2>3 DEF Promise!Settle, Promise!Refuse, Promise!Move
  <2> QED
    BY <2>2, <2>4 DEF Promise!Next
<1>8. CASE row[r].status = "unborn" /\ row'[r].status = "unborn"
  BY <1>4, <1>8 DEF Standing, Terminal
<1> QED
  BY <1>4, <1>5, <1>6, <1>7, <1>8

(* A run moves through accepted, called and one outcome in that order: its   *)
(* backend is told at most once, is not told of a run that was refused, and  *)
(* alone reports success, through failed writes, replays of kept results,    *)
(* reconciliation, crashes and shutdown.                                     *)
THEOREM CoreKeepsPromise == Spec => PromiseKept
<1>1. Init => Promise!Init
  <2> SUFFICES ASSUME Init PROVE Promise!Init
    OBVIOUS
  <2>1. Unborn.status = "unborn" /\ \A x \in LegacyRows : x.status = "running"
    <3>1. ASSUME NEW op, NEW x, x = [Unborn EXCEPT !.status = "running", !.op = op]
          PROVE  x.status = "running"
      BY <3>1 DEF Unborn
    <3> QED
      BY <3>1 DEF LegacyRows, Unborn
  <2>2. ASSUME NEW r \in Runs
        PROVE  Standing(r) = IF r \in LegacyRuns THEN "called" ELSE "absent"
    <3>1. /\ row[r] \in LegacyRows \cup {Unborn} /\ (row[r] = Unborn <=> r \notin LegacyRuns)
          /\ calls[r] = IF r \in LegacyRuns THEN 1 ELSE 0
      BY DEF Init
    <3> QED
      BY <2>1, <3>1 DEF Standing, Terminal
  <2> QED
    BY <2>2 DEF Promise!Init
<1>2. ASSUME IInv, IInv', QInv, Approvals, PInv, [Next]_vars
      PROVE  [Promise!Next]_[r \in Runs |-> Standing(r)]
  <2>1. CASE row' = row /\ calls' = calls
    BY <2>1 DEF Standing
  <2>2. CASE Next
    <3>1. OneMoves
      BY <1>2, <2>2, StepFaithful DEF Faithful
    <3> QED
      BY <1>2, <2>1, <2>2, <3>1, MovesKeepPromise DEF OneMoves
  <2> QED
    BY <1>2, <2>1, <2>2 DEF vars
<1>3. Spec => []IInv /\ []QInv /\ []Approvals /\ []PInv
  BY Invariance, QueueInvariance, ApprovalInvariance, PromiseInvariance
<1> QED
  BY <1>1, <1>2, <1>3, PTL DEF Spec, PromiseKept, Promise!Spec

-----------------------------------------------------------------------------
(* Marks and slots: the inductive invariant. *)

Tracked(r) == r \in sched.runs

(* The scheduler tracks the run when its row holds the slot.  Two rows are   *)
(* ahead of the scheduler: an intent whose dispatch is half committed, and   *)
(* one whose last write failed.                                              *)
SlotAgrees(r) ==
  \/ row[r].op = "intended" \/ retained[r].result # "none"
  \/ Tracked(r) <=> row[r].status # "unborn" /\ SlotHeld(row[r])

(* Nothing is tracked that was not dispatched, or has ended. *)
Slotless(r) ==
  row[r].op \in {"absent", "intended"} \/ row[r].status \in Terminal => ~Tracked(r)

(* The slot of the run is not projected yet, or no longer: the core restores *)
(* and has not come to it, or closes and marks what it leaves.               *)
Unprojected(r) ==
  \/ core.phase = "close"
  \/ core.phase = "boot" /\ \/ core.pc \in {"down", "raise"} \/ r \in core.todo
                            \/ At("bootRun") /\ core.cur = r

(* Where the core is when it closes, and in which build it calls a backend   *)
(* itself: only a worker thread runs a dispatch of the restoring core.       *)
CorePlaces ==
  /\ core.phase = "close" => core.pc \in {"closing", "marking", "markOp", "raise"}
  /\ core.phase = "boot" /\ core.pc \in DispatchPcs => Background
  /\ core.pc \in {"calling", "streaming", "broken"} => ~Background

MInv ==
  /\ \A r \in Runs : Slotless(r) /\ (Unprojected(r) \/ SlotAgrees(r))
  /\ CorePlaces

-----------------------------------------------------------------------------
(* What every step is shown to do. *)

(* A step leaves the run, or settles its slot. *)
Rests(r) ==
  /\ row'[r] = row[r] /\ retained'[r].result = retained[r].result
  /\ Tracked(r)' <=> Tracked(r)

Settles(r) == Slotless(r)' /\ (Unprojected(r)' \/ SlotAgrees(r)')

SlotsKept ==
  \A r \in Runs : Settles(r) \/ (Rests(r) /\ (Unprojected(r) => Unprojected(r)'))

(* A slot that is taken while the core restores. *)
MayTake(r) ==
  /\ row[r].op # "absent"
  /\ row[r].mark = "released" => row[r].stash # "none" /\ row'[r].stash = "none"

RestoreTakes ==
  core.phase = "boot" => \A r \in Runs : Tracked(r)' /\ ~Tracked(r) => MayTake(r)

MarksKept == SlotsKept /\ CorePlaces' /\ RestoreTakes

LEMMA MarksStay ==
  ASSUME MInv, MarksKept
  PROVE  MInv'
<1>1. ASSUME NEW r \in Runs PROVE Slotless(r)' /\ (Unprojected(r)' \/ SlotAgrees(r)')
  <2>1. Slotless(r) /\ (Unprojected(r) \/ SlotAgrees(r))
    BY DEF MInv
  <2>2. Rests(r) => Slotless(r)' /\ (SlotAgrees(r) => SlotAgrees(r)')
    BY <2>1 DEF Rests, Slotless, SlotAgrees
  <2> QED
    BY <2>1, <2>2 DEF MarksKept, SlotsKept, Settles
<1> QED
  BY <1>1 DEF MInv, MarksKept

-----------------------------------------------------------------------------
(* The steps that record a result. *)

(* _record_result: what is written is projected, what is kept frees the slot. *)
LEMMA RecordSlots ==
  ASSUME IInv, QInv, MInv,
         NEW r \in Runs, NEW k \in Kinds, NEW d \in Decisions \cup {"none"},
         NEW replay \in BOOLEAN, NEW s, Sound(s), s.runs = sched.runs,
         NEW c, NEW next, NEW ended, NEW onFail,
         Record(r, k, d, replay, s, c, next, ended, onFail),
         MayHear(row[r], calls[r], k)
  PROVE  /\ \A q \in Runs \ {r} : Rests(q)
         /\ \/ Slotless(r)' /\ SlotAgrees(r)'
            \/ Rests(r) /\ k = "fallback" /\ core' = Goto(c, next)
         /\ Tracked(r)' /\ ~Tracked(r) =>
              k \notin Terminal /\ row'[r].stash = "none" /\ row[r].op # "absent"
<1>1. /\ row \in [Runs -> RowType] /\ retained \in [Runs -> RetainedType]
      /\ row[r] \in RowType /\ retained[r] \in RetainedType
  BY Types
<1>2. Slotless(r) /\ Nothing.result = "none"
  BY DEF MInv, Nothing
<1>3. CASE RecordLands(r, k, d, replay, s, c, next, ended)
  <2> DEFINE x == IF replay /\ IsProgress(k) THEN ProgressLanded(row[r], d) ELSE Landed(row[r], k, d)
             t == Project(s, r, x)
  <2>1. /\ row' = [row EXCEPT ![r] = x] /\ sched' = t
        /\ retained' = [retained EXCEPT ![r] = Nothing]
    BY <1>3 DEF RecordLands
  <2>2. /\ x.op # "intended" /\ (x.op = "absent" <=> row[r].op = "absent")
        /\ x.status # "unborn" /\ x.stash = "none"
        /\ x.status \in Terminal => k \in Terminal
        /\ k \in Terminal => x.status \in Terminal
    <3>1. StatusOf(k) # "unborn" /\ (StatusOf(k) \in Terminal <=> k \in Terminal)
      BY DEF StatusOf, Kinds, Terminal, IsProgress
    <3>2. IsProgress(k) => k \notin Terminal
      BY DEF IsProgress, Terminal
    <3> QED
      BY <1>1, <3>1, <3>2, LandedType, ProgressLandedType, LandedFields, ProgressLandedFields
         DEF Terminal
  <2> HIDE DEF x
  <2>3. t.runs = IF SlotHeld(x) THEN s.runs \cup {r} ELSE s.runs \ {r}
    BY ProjectSound
  <2> HIDE DEF t
  <2>4. row'[r] = x /\ retained'[r].result = "none"
    BY <1>1, <1>2, <2>1
  <2>5. \A q \in Runs \ {r} : row'[q] = row[q] /\ retained'[q] = retained[q]
    BY <1>1, <2>1
  <2>6. \A q \in Runs : Tracked(q)' <=> (IF q = r THEN SlotHeld(x) ELSE Tracked(q))
    BY <2>1, <2>3 DEF Tracked
  <2>7. SlotHeld(x) => x.status \notin Terminal /\ k \notin Terminal
    BY <2>2 DEF SlotHeld
  <2>8. row[r].op = "absent" => k \in Terminal
    BY DEF MayHear
  <2>9. Slotless(r)' /\ SlotAgrees(r)'
    BY <2>2, <2>4, <2>6, <2>7, <2>8 DEF Slotless, SlotAgrees
  <2> QED
    BY <2>2, <2>4, <2>5, <2>6, <2>7, <2>8, <2>9 DEF Rests
<1>4. CASE RecordDropped(r, s, c, ended)
  <2>1. /\ row' = row /\ sched' = s /\ retained' = [retained EXCEPT ![r] = Nothing]
        /\ row[r].status \in Terminal \cup {"unborn"}
    BY <1>4 DEF RecordDropped, Open
  <2>2. ~Tracked(r)
    BY <1>2, <2>1 DEF Slotless, Tracked, QInv, NotStarted, Unstarted, Clean
  <2>3. \A q \in Runs : row'[q] = row[q] /\ (Tracked(q)' <=> Tracked(q))
    BY <2>1 DEF Tracked
  <2>4. \A q \in Runs \ {r} : retained'[q] = retained[q]
    BY <1>1, <2>1
  <2>5. Slotless(r)' /\ SlotAgrees(r)'
    BY <2>1, <2>2, <2>3 DEF Slotless, SlotAgrees, SlotHeld
  <2> QED
    BY <2>2, <2>3, <2>4, <2>5 DEF Rests
<1>5. CASE RecordIgnored(r, k, s, c, next)
  <2>1. row' = row /\ retained' = retained /\ sched' = s /\ core' = Goto(c, next) /\ k = "fallback"
    BY <1>5 DEF RecordIgnored, IgnoredFallback
  <2> QED
    BY <2>1 DEF Rests, Tracked
<1>6. CASE RecordFails(r, k, d, s, c, onFail)
  <2> DEFINE p == Preserved(row[r], k, d)
             m == Remember(retained[r], k, d)
             t == Finish(s, r)
  <2>1. /\ row' \in {row, [row EXCEPT ![r] = p]} /\ sched' = t
        /\ retained' = [retained EXCEPT ![r] = m]
    BY <1>6 DEF RecordFails
  <2>2. m.result # "none"
    BY <1>1 DEF Remember, Rich, Kinds, Terminal, RetainedType
  <2>3. t.runs = s.runs \ {r}
    BY FinishSound
  <2> HIDE DEF p, m, t
  <2>4. retained'[r] = m /\ \A q \in Runs \ {r} : row'[q] = row[q] /\ retained'[q] = retained[q]
    BY <1>1, <2>1
  <2>5. ~Tracked(r)' /\ \A q \in Runs \ {r} : Tracked(q)' <=> Tracked(q)
    BY <2>1, <2>3 DEF Tracked
  <2> QED
    BY <2>2, <2>4, <2>5 DEF Rests, Slotless, SlotAgrees
<1> QED
  BY <1>3, <1>4, <1>5, <1>6 DEF Record

(* Where a caller stands that records a result and does not restore. *)
ServingPlace(next, ended, onFail) ==
  /\ {next, ended, onFail} \cap {"calling", "streaming", "broken"} # {} => ~Background
  /\ core.phase = "close" => {next, ended, onFail} \subseteq {"closing", "raise"}

LEMMA RecordServes ==
  ASSUME IInv, QInv, MInv, core.phase # "boot",
         NEW r \in Runs, NEW k \in Kinds, NEW d \in Decisions \cup {"none"},
         NEW replay \in BOOLEAN, NEW s, Sound(s), s.runs = sched.runs,
         NEW c \in CoreType, c.phase = core.phase,
         NEW next \in Pcs, NEW ended \in Returns, NEW onFail \in Pcs,
         Record(r, k, d, replay, s, c, next, ended, onFail),
         MayHear(row[r], calls[r], k), ServingPlace(next, ended, onFail)
  PROVE  MarksKept
<1>1. /\ \A q \in Runs \ {r} : Rests(q)
      /\ (Slotless(r)' /\ SlotAgrees(r)') \/ Rests(r)
  BY RecordSlots
<1>2. s \in SchedulerType /\ TypeOK
  BY DEF Sound, IInv
<1>3. AfterRecord(r, c, next, ended, onFail)
  BY <1>2, RecordStep
<1>4. /\ core'.phase = core.phase
      /\ core'.pc \in {next, ended, onFail, "raise"} \/ (core'.pc = "drain" /\ core.phase = "serve")
      /\ core'.pc = "raise" => core.phase # "boot"
  BY <1>3 DEF AfterRecord, Resumes
<1>5. SlotsKept
  BY <1>1, <1>4 DEF SlotsKept, Settles, Unprojected
<1>6. CorePlaces'
  BY <1>4 DEF CorePlaces, ServingPlace
<1> QED
  BY <1>5, <1>6 DEF MarksKept, RestoreTakes

-----------------------------------------------------------------------------
(* The steps that record none. *)

(* No row, no memory and no slot changes, and what is unprojected stays so. *)
LEMMA SameMarks ==
  ASSUME row' = row, \A q \in Runs : retained'[q].result = retained[q].result,
         sched'.runs = sched.runs, CorePlaces',
         \A q \in Runs : Unprojected(q) => Unprojected(q)'
  PROVE  MarksKept
BY DEF MarksKept, SlotsKept, Rests, Tracked, RestoreTakes

(* The core goes on outside of the restore. *)
KeepsServing ==
  /\ core.phase # "boot" /\ core'.phase = core.phase
  /\ core'.pc \in {"calling", "streaming", "broken"} => ~Background
  /\ core.phase = "close" => core'.pc \in {"closing", "marking", "markOp", "raise"}

LEMMA ServingMarks ==
  ASSUME row' = row, \A q \in Runs : retained'[q].result = retained[q].result,
         sched'.runs = sched.runs, KeepsServing
  PROVE  MarksKept
BY SameMarks DEF KeepsServing, CorePlaces, Unprojected

(* What a write of the row of run r may change without touching its slot. *)
Unslotting(r, x) ==
  /\ x.op \in {"absent", "intended"} \/ x.status \in Terminal => ~Tracked(r)
  /\ \/ x.op = "intended"
     \/ SlotAgrees(r) =>
          \/ retained[r].result # "none"
          \/ Tracked(r) <=> x.status # "unborn" /\ SlotHeld(x)

LEMMA WriteMarks ==
  ASSUME IInv, MInv, NEW r \in Runs, NEW x, row' = [row EXCEPT ![r] = x], Unslotting(r, x),
         retained' = retained, sched'.runs = sched.runs, CorePlaces',
         \A q \in Runs : Unprojected(q) => Unprojected(q)'
  PROVE  MarksKept
<1>1. row'[r] = x /\ \A q \in Runs \ {r} : row'[q] = row[q]
  BY Types
<1>2. Tracked(r)' <=> Tracked(r)
  BY DEF Tracked
<1>3. Slotless(r)'
  BY <1>1, <1>2 DEF Unslotting, Slotless
<1>4. SlotAgrees(r) => SlotAgrees(r)'
  BY <1>1, <1>2 DEF Unslotting, SlotAgrees
<1>5. Settles(r)
  BY <1>3, <1>4 DEF Settles, MInv
<1>6. \A q \in Runs \ {r} : Rests(q)
  BY <1>1 DEF Rests, Tracked
<1>7. SlotsKept
  BY <1>5, <1>6 DEF SlotsKept
<1> QED
  BY <1>7 DEF MarksKept, RestoreTakes, Tracked

-----------------------------------------------------------------------------
(* Every step keeps the marks, one lemma for each part of Next. *)

(* The next step of a reconciliation, or the step it leads back to. *)
LEMMA ReconcileGoesOn ==
  ASSUME IInv, QInv, MInv, core.pc \in {"recon", "reconTail", "reconRun"},
         core'.pc \in {core.ret, "reconTail", "reconRun"}, core'.phase = core.phase,
         core'.todo = core.todo
  PROVE  CorePlaces' /\ \A q \in Runs : Unprojected(q) => Unprojected(q)'
<1>1. core.phase # "close"
  BY DEF MInv, CorePlaces
<1>2. core.phase = "boot" => core.ret = "boot"
  BY DEF IInv, BootOrder, BootPcs, DispatchPcs
<1>3. core.ret \notin {"calling", "streaming", "broken"}
  BY ReturnLetsGo DEF GraspPcs
<1> QED
  BY <1>1, <1>2, <1>3 DEF CorePlaces, Unprojected, At, DispatchPcs

(* What is being restored is unfinished, has a row and waits for its slot. *)
LEMMA BootRunFacts ==
  ASSUME IInv, PInv, NEW r \in Runs, At("bootRun"), core.cur = r
  PROVE  /\ core.phase = "boot" /\ row[r].status \notin Terminal \cup {"unborn"}
         /\ r \notin core.todo
BY DEF IInv, ServeOrder, BootOrder, CurrentOpen, BootPcs, DispatchPcs, PInv, HandFacts, Grasp, At

LEMMA OpenMarks ==
  ASSUME IInv, QInv, MInv, OpenProcess
  PROVE  MarksKept
<1>1. core \in CoreType /\ core.phase = "boot"
  BY Types DEF OpenProcess, At, IInv, ServeOrder
<1>2. /\ core'.pc = "boot" /\ core'.phase = "boot" /\ core'.todo = {r \in Runs : Open(row[r])}
      /\ row' = row /\ sched' = sched /\ retained' = retained
  BY <1>1 DEF OpenProcess, CoreType
<1>3. ASSUME NEW r \in Runs PROVE Settles(r)
  <2>1. CASE Open(row[r])
    BY <1>2, <2>1 DEF Settles, Unprojected, MInv, Slotless, Tracked
  <2>2. CASE ~Open(row[r])
    <3>1. ~Tracked(r)
      BY <2>2 DEF Open, MInv, Slotless, Tracked, QInv, NotStarted, Unstarted, Clean
    <3> QED
      BY <1>2, <2>2, <3>1 DEF Settles, Slotless, SlotAgrees, Tracked, Open, SlotHeld
  <2> QED
    BY <2>1, <2>2
<1> QED
  BY <1>2, <1>3 DEF MarksKept, SlotsKept, CorePlaces, RestoreTakes, Tracked, DispatchPcs

(* _restore_scheduler: a stashed result, or the branch of the run. *)
LEMMA ReplayMarks ==
  ASSUME IInv, QInv, PInv, MInv, NEW r \in Runs, BootReplay(r)
  PROVE  MarksKept
<1> DEFINE c == [core EXCEPT !.todo = @ \ {r}, !.cur = r]
<1>1. core \in CoreType /\ row[r] \in RowType /\ core.pc = "boot" /\ core.phase = "boot"
  BY Types DEF BootReplay, At, IInv, ServeOrder
<1>2. c \in CoreType /\ c.cur = r /\ c.todo = core.todo \ {r} /\ c.phase = "boot"
  BY <1>1 DEF CoreType
<1>3. {"boot", "bootRun"} \subseteq Pcs /\ "boot" \in Returns /\ TRUE \in BOOLEAN
  BY DEF Pcs, Returns
<1>4. CASE row[r].stash = "none"
  <2>1. row' = row /\ sched' = sched /\ retained' = retained /\ core' = Goto(c, "bootRun")
    BY <1>4 DEF BootReplay
  <2> HIDE DEF c
  <2>2. core'.pc = "bootRun" /\ core'.cur = r /\ core'.todo = core.todo \ {r} /\ core'.phase = "boot"
    BY <1>2, <1>3, <2>1, GotoType
  <2> QED
    BY <1>1, <2>1, <2>2, SameMarks DEF CorePlaces, Unprojected, At, DispatchPcs
<1>5. CASE row[r].stash # "none"
  <2>1. Record(r, row[r].stash, row[r].answer, TRUE, sched, c, "bootRun", "boot", "bootRun")
    BY <1>5 DEF BootReplay
  <2>2. row[r].stash \in Kinds /\ row[r].answer \in Decisions \cup {"none"}
    BY <1>1, <1>5 DEF RowType
  <2>3. MayHear(row[r], calls[r], row[r].stash)
    BY <1>5 DEF PInv, Silence, Hushed, MayHear
  <2> HIDE DEF c
  <2>4. AfterRecord(r, c, "bootRun", "boot", "bootRun")
    BY <1>2, <1>3, <2>1, <2>2, RecordStep DEF IInv, QInv, Sound
  <2>5. /\ core'.cur = r /\ core'.todo = core.todo \ {r} /\ core'.phase = "boot"
        /\ core'.pc \in {"boot", "bootRun"}
    BY <1>2, <2>4 DEF AfterRecord, Resumes
  <2>6. /\ \A q \in Runs \ {r} : Rests(q)
        /\ \/ Slotless(r)' /\ SlotAgrees(r)'
           \/ Rests(r) /\ core' = Goto(c, "bootRun")
        /\ Tracked(r)' /\ ~Tracked(r) => row'[r].stash = "none" /\ row[r].op # "absent"
    BY ZenonT(40), <1>3, <2>1, <2>2, <2>3, RecordSlots DEF QInv
  <2>7. core' = Goto(c, "bootRun") => core'.pc = "bootRun"
    BY <1>2, <1>3, GotoType
  <2>8. \A q \in Runs \ {r} : Unprojected(q) => Unprojected(q)'
    BY <1>1, <2>5 DEF Unprojected, At
  <2>9. SlotsKept
    BY <2>5, <2>6, <2>7, <2>8 DEF SlotsKept, Settles, Unprojected, At
  <2>10. RestoreTakes
    BY <1>5, <2>6 DEF RestoreTakes, MayTake, Rests
  <2> QED
    BY <2>5, <2>9, <2>10 DEF MarksKept, CorePlaces, DispatchPcs
<1> QED
  BY <1>4, <1>5

LEMMA BootRunMarks ==
  ASSUME IInv, QInv, PInv, MInv, NEW r \in Runs,
         BootEnqueue(r) \/ BootLost(r) \/ BootProject(r)
  PROVE  MarksKept
<1>1. /\ core \in CoreType /\ sched \in SchedulerType /\ row[r] \in RowType
      /\ {"boot", "raise"} \subseteq Pcs /\ "boot" \in Returns /\ FALSE \in BOOLEAN
      /\ "none" \in Decisions \cup {"none"} /\ {"failed", "cancelled"} \subseteq Kinds
  BY Types DEF Pcs, Returns, Kinds, Terminal
<1>2. /\ core.pc = "bootRun" /\ core.cur = r /\ core.phase = "boot" /\ r \notin core.todo
      /\ row[r].status \notin Terminal \cup {"unborn"}
  BY BootRunFacts DEF BootEnqueue, BootLost, BootProject, At
<1>3. CASE BootEnqueue(r)
  <2> DEFINE t == Finish(sched, r)
  <2>1. /\ row' = row /\ retained' = retained /\ sched' = Enqueue(t, r)
        /\ core' = Goto(core, "boot") /\ row[r].op = "intended"
    BY <1>3 DEF BootEnqueue
  <2>2. Sound(t) /\ t.runs = sched.runs \ {r}
    BY FinishSound DEF QInv
  <2> HIDE DEF t
  <2>3. sched'.runs = sched.runs \ {r}
    BY <2>1, <2>2 DEF Sound, SchedulerType, Enqueue
  <2>4. core'.pc = "boot" /\ core'.todo = core.todo /\ core'.phase = "boot"
    BY <1>1, <1>2, <2>1, GotoType
  <2>5. Settles(r)
    BY <2>1, <2>3 DEF Settles, Slotless, SlotAgrees, Tracked
  <2>6. \A q \in Runs \ {r} : Rests(q) /\ (Unprojected(q) => Unprojected(q)')
    BY <1>2, <2>1, <2>3, <2>4 DEF Rests, Tracked, Unprojected, At
  <2>7. SlotsKept /\ RestoreTakes
    BY <2>3, <2>5, <2>6 DEF SlotsKept, RestoreTakes, Tracked
  <2> QED
    BY <2>4, <2>7 DEF MarksKept, CorePlaces, DispatchPcs
<1>4. CASE BootLost(r)
  <2> DEFINE k == IF row[r].cancel THEN "cancelled" ELSE "failed"
  <2>1. Record(r, k, "none", FALSE, sched, core, "boot", "boot", "raise")
    BY <1>4 DEF BootLost
  <2>2. k \in Kinds /\ k \in Terminal /\ k # "fallback" /\ MayHear(row[r], calls[r], k)
    BY <1>1, <1>4 DEF BootLost, MayHear, Terminal, Ignorance
  <2> HIDE DEF k
  <2>3. AfterRecord(r, core, "boot", "boot", "raise")
    BY <1>1, <2>1, <2>2, RecordStep DEF IInv
  <2>4. /\ core'.phase = "boot"
        /\ (core'.pc = "boot" /\ core'.todo = core.todo) \/ core'.pc = "raise"
    BY <1>2, <2>3 DEF AfterRecord, Resumes
  <2>5. /\ \A q \in Runs \ {r} : Rests(q)
        /\ Slotless(r)' /\ SlotAgrees(r)' /\ ~(Tracked(r)' /\ ~Tracked(r))
    BY <1>1, <2>1, <2>2, RecordSlots DEF QInv
  <2>6. \A q \in Runs \ {r} : Unprojected(q) => Unprojected(q)'
    BY <1>2, <2>4 DEF Unprojected, At
  <2>7. SlotsKept /\ RestoreTakes
    BY <2>5, <2>6 DEF SlotsKept, Settles, RestoreTakes, Rests
  <2> QED
    BY <2>4, <2>7 DEF MarksKept, CorePlaces, DispatchPcs
<1>5. CASE BootProject(r)
  <2> DEFINE t == Project(sched, r, row[r])
  <2>1. /\ row' = row /\ retained' = retained /\ row[r].op # "intended"
        /\ sched' = IF row[r].op = "absent" THEN sched ELSE t
        /\ core'.pc = "recon" /\ core'.todo = core.todo /\ core'.phase = "boot"
    BY <1>1, <1>2, <1>5 DEF BootProject, CoreType
  <2>2. t.runs = IF SlotHeld(row[r]) THEN sched.runs \cup {r} ELSE sched.runs \ {r}
    BY ProjectSound DEF QInv
  <2> HIDE DEF t
  <2>3. row[r].op = "absent" => ~SlotHeld(row[r]) /\ ~Tracked(r)
    BY DEF SlotHeld, PInv, Silence, Hushed, Mute, MInv, Slotless
  <2>4. Tracked(r)' <=> SlotHeld(row[r])
    BY <2>1, <2>2, <2>3 DEF Tracked
  <2>5. Slotless(r)' /\ SlotAgrees(r)'
    BY <1>2, <2>1, <2>3, <2>4 DEF Slotless, SlotAgrees
  <2>6. \A q \in Runs \ {r} : Rests(q) /\ (Unprojected(q) => Unprojected(q)')
    BY <1>2, <2>1, <2>2 DEF Rests, Tracked, Unprojected, At
  <2>7. SlotsKept
    BY <2>5, <2>6 DEF SlotsKept, Settles
  <2>8. RestoreTakes
    BY <2>3, <2>4, <2>6 DEF RestoreTakes, MayTake, SlotHeld, Rests
  <2> QED
    BY <2>1, <2>7, <2>8 DEF MarksKept, CorePlaces, DispatchPcs
<1> QED
  BY <1>3, <1>4, <1>5

(* _reconcile_one, of the restore or of task.reconcile. *)
LEMMA ReconReplayMarks ==
  ASSUME IInv, QInv, PInv, MInv, NEW r \in Runs, ReconReplay(r)
  PROVE  MarksKept
<1> DEFINE p == core.ret
<1>1. /\ core \in CoreType /\ row[r] \in RowType /\ core.pc = "recon" /\ core.cur = r
      /\ "reconTail" \in Pcs /\ TRUE \in BOOLEAN
  BY Types DEF ReconReplay, At, Pcs
<1>2. p \in Pcs /\ p \in Returns /\ p \notin GraspPcs /\ (core.phase = "boot" => p = "boot")
  BY <1>1, ReturnLetsGo DEF IInv, BootOrder, BootPcs, DispatchPcs
<1>3. CASE row[r].stash = "none" \/ WorkerAlive(r)
  <2>1. row' = row /\ sched' = sched /\ retained' = retained /\ core' = Goto(core, "reconTail")
    BY <1>3 DEF ReconReplay
  <2> QED
    BY <1>1, <2>1, GotoType, ReconcileGoesOn, SameMarks
<1>4. CASE ~(row[r].stash = "none" \/ WorkerAlive(r))
  <2>1. Record(r, row[r].stash, row[r].answer, TRUE, sched, core, "reconTail", p, "reconTail")
    BY <1>4 DEF ReconReplay
  <2>2. row[r].stash \in Kinds /\ row[r].answer \in Decisions \cup {"none"}
    BY <1>1, <1>4 DEF RowType
  <2>3. MayHear(row[r], calls[r], row[r].stash)
    BY <1>4 DEF PInv, Silence, Hushed, MayHear
  <2> HIDE DEF p
  <2>4. CASE core.phase = "boot"
    <3>1. AfterRecord(r, core, "reconTail", p, "reconTail")
      BY <1>1, <1>2, <2>1, <2>2, RecordStep DEF IInv, QInv, Sound
    <3>2. /\ core'.todo = core.todo /\ core'.phase = core.phase
          /\ core'.pc \in {"boot", "reconTail"}
      BY <1>2, <2>4, <3>1 DEF AfterRecord, Resumes
    <3>3. CorePlaces' /\ \A q \in Runs : Unprojected(q) => Unprojected(q)'
      BY <1>1, <1>2, <2>4, <3>2, ReconcileGoesOn DEF p
    <3>4. /\ \A q \in Runs \ {r} : Rests(q)
          /\ (Slotless(r)' /\ SlotAgrees(r)') \/ Rests(r)
          /\ Tracked(r)' /\ ~Tracked(r) => row'[r].stash = "none" /\ row[r].op # "absent"
      BY <1>1, <2>1, <2>2, <2>3, RecordSlots DEF QInv
    <3>5. SlotsKept
      BY <3>3, <3>4 DEF SlotsKept, Settles
    <3>6. RestoreTakes
      BY <1>4, <3>4 DEF RestoreTakes, MayTake, Rests
    <3> QED
      BY <3>3, <3>5, <3>6 DEF MarksKept
  <2>5. CASE core.phase # "boot"
    <3>1. core.phase # "close" /\ ServingPlace("reconTail", p, "reconTail")
      BY <1>1, <1>2 DEF MInv, CorePlaces, ServingPlace, GraspPcs
    <3> QED
      BY <1>1, <1>2, <2>1, <2>2, <2>3, <2>5, <3>1, RecordServes DEF QInv
  <2> QED
    BY <2>4, <2>5
<1> QED
  BY <1>3, <1>4

LEMMA ReconTailMarks ==
  ASSUME IInv, QInv, PInv, MInv, NEW r \in Runs,
         ReconUntracked(r) \/ ReconObserved(r) \/ ReconUnknownOp(r) \/ ReconUnknownRun(r)
  PROVE  MarksKept
<1>1. /\ core \in CoreType /\ row \in [Runs -> RowType] /\ row[r] \in RowType
      /\ core.pc \in {"reconTail", "reconRun"} /\ core.cur = r /\ "reconRun" \in Pcs
  BY Types DEF ReconUntracked, ReconObserved, ReconUnknownOp, ReconUnknownRun, At, Pcs
<1>2. core.ret \in Pcs
  BY ReturnLetsGo
<1>3. row[r].status \notin Terminal \cup {"unborn"}
  BY <1>1 DEF IInv, CurrentOpen, BootPcs, PInv, HandFacts, Grasp
<1>4. core' = Goto(core, core.ret) \/ core' = Goto(core, "reconRun")
  BY DEF ReconUntracked, ReconObserved, ReconUnknownOp, ReconUnknownRun
<1>5. CorePlaces' /\ \A q \in Runs : Unprojected(q) => Unprojected(q)'
  BY <1>1, <1>2, <1>4, GotoType, ReconcileGoesOn
<1>6. retained' = retained
  BY DEF ReconUntracked, ReconObserved, ReconUnknownOp, ReconUnknownRun
<1>7. CASE ReconUntracked(r)
  <2> DEFINE x == [row[r] EXCEPT !.mark = "released", !.status = "pending_reconcile"]
             t == Project(sched, r, row'[r])
  <2>1. row' = [row EXCEPT ![r] = x] /\ sched' = t
    BY <1>7 DEF ReconUntracked
  <2>2. x.mark = "released"
    BY <1>1 DEF RowType
  <2> HIDE DEF x
  <2>3. row'[r] = x /\ \A q \in Runs \ {r} : row'[q] = row[q]
    BY <1>1, <2>1
  <2>4. ~SlotHeld(row'[r])
    BY <2>2, <2>3 DEF SlotHeld
  <2>5. t.runs = sched.runs \ {r}
    BY <2>4, ProjectSound DEF QInv
  <2> HIDE DEF t
  <2>6. Settles(r)
    BY <2>1, <2>4, <2>5 DEF Settles, Slotless, SlotAgrees, Tracked
  <2>7. \A q \in Runs \ {r} : Rests(q)
    BY <1>6, <2>1, <2>3, <2>5 DEF Rests, Tracked
  <2>8. SlotsKept
    BY <1>5, <2>6, <2>7 DEF SlotsKept
  <2>9. RestoreTakes
    BY <2>1, <2>5 DEF RestoreTakes, Tracked
  <2> QED
    BY <1>5, <2>8, <2>9 DEF MarksKept
<1>8. CASE ReconObserved(r)
  <2>1. row' = row /\ sched' = sched
    BY <1>8 DEF ReconObserved
  <2> QED
    BY <1>5, <1>6, <2>1, SameMarks
<1>9. CASE ReconUnknownOp(r)
  <2> DEFINE x == [row[r] EXCEPT !.op = "unknown"]
  <2>1. row' = [row EXCEPT ![r] = x] /\ sched' = sched /\ row[r].op = "dispatched"
    BY <1>9 DEF ReconUnknownOp
  <2>2. x.op = "unknown" /\ x.status = row[r].status /\ x.mark = row[r].mark
    BY <1>1 DEF RowType
  <2> HIDE DEF x
  <2>3. Unslotting(r, x)
    BY <1>3, <2>1, <2>2 DEF Unslotting, SlotAgrees, SlotHeld
  <2> QED
    BY <1>5, <1>6, <2>1, <2>3, WriteMarks
<1>10. CASE ReconUnknownRun(r)
  <2> DEFINE x == [row[r] EXCEPT !.status = "pending_reconcile"]
  <2>1. row' = [row EXCEPT ![r] = x] /\ sched' = sched
    BY <1>10 DEF ReconUnknownRun
  <2>2. x.op = row[r].op /\ x.status = "pending_reconcile" /\ x.mark = row[r].mark
    BY <1>1 DEF RowType
  <2> HIDE DEF x
  <2>3. Slotless(r)
    BY DEF MInv
  <2>4. Unslotting(r, x)
    BY <1>3, <2>2, <2>3 DEF Unslotting, Slotless, SlotAgrees, SlotHeld, Terminal
  <2> QED
    BY <1>5, <1>6, <2>1, <2>4, WriteMarks
<1> QED
  BY <1>7, <1>8, <1>9, <1>10

LEMMA RestoreMarks ==
  ASSUME IInv, QInv, PInv, MInv, Restore
  PROVE  MarksKept
<1>1. CASE BootEnd
  <2>1. core \in CoreType /\ core.pc = "boot" /\ core.phase = "boot" /\ core.todo = {}
    BY <1>1, Types DEF BootEnd, At, IInv, ServeOrder
  <2>2. row' = row /\ sched' = sched /\ retained' = retained
    BY <1>1 DEF BootEnd
  <2>3. /\ core'.pc = "drain" => Background
        /\ core'.pc \in {"drain", "idle"} /\ core'.phase \in {"boot", "serve"}
        /\ core'.phase = "boot" => core'.pc = "drain"
    BY <1>1, <2>1 DEF BootEnd, BeginDrain, CoreType
  <2> QED
    BY <2>1, <2>2, <2>3, SameMarks DEF CorePlaces, Unprojected, At, DispatchPcs
<1> QED
  BY <1>1, OpenMarks, ReplayMarks, BootRunMarks, ReconReplayMarks, ReconTailMarks DEF Restore

(* poll and the workers' updates. *)
LEMMA PollMarks ==
  ASSUME IInv, QInv, PInv, MInv, Poll
  PROVE  MarksKept
<1>0. /\ core \in CoreType /\ sched \in SchedulerType
      /\ {"updates", "ready", "idle", "retry", "closing", "raise"} \subseteq Pcs
      /\ {"ready", "retry", "updates", "closing"} \subseteq Returns
      /\ "none" \in Decisions \cup {"none"} /\ TRUE \in BOOLEAN /\ FALSE \in BOOLEAN
  BY Types DEF Pcs, Returns
<1>1. core.pc \in {"idle", "retry", "updates", "closing", "ready"}
  BY DEF Poll, PollBegin, RetryEnd, UpdatesEnd, PollEnd, RetryOne, ApplyUpdate, At
<1>2. core.phase # "boot" /\ (core.phase = "close" => At("closing"))
  BY <1>1, Serving DEF BootPcs, DispatchPcs, MInv, CorePlaces, At
<1>3. CASE PollBegin \/ RetryEnd \/ UpdatesEnd \/ PollEnd
  <2>1. /\ row' = row /\ sched' = sched /\ core'.phase = core.phase /\ ~At("closing")
        /\ core'.pc \in {"retry", "updates", "drain", "idle"}
    BY <1>0, <1>3 DEF PollBegin, RetryEnd, UpdatesEnd, PollEnd, BeginDrain, Goto, CoreType, At
  <2>2. \A q \in Runs : retained'[q].result = retained[q].result
    BY <1>3, Types DEF PollBegin, RetryEnd, UpdatesEnd, PollEnd, RetainedType
  <2> QED
    BY <1>2, <2>1, <2>2, ServingMarks DEF KeepsServing
<1>4. ASSUME NEW r \in Runs, RetryOne(r) PROVE MarksKept
  <2> DEFINE c == [core EXCEPT !.todo = @ \ {r}]
  <2>1. c \in CoreType /\ c.phase = core.phase
    BY <1>0 DEF CoreType
  <2>2. /\ Record(r, retained[r].result, retained[r].answer, TRUE, sched, c,
                  "retry", "retry", "retry")
        /\ ~At("closing")
    BY <1>4 DEF RetryOne, At
  <2>3. retained[r] \in RetainedType /\ retained[r].result # "none"
    BY <1>4, Types DEF RetryOne
  <2>4. retained[r].result \in Kinds /\ retained[r].answer \in Decisions \cup {"none"}
    BY <2>3 DEF RetainedType
  <2>5. MayHear(row[r], calls[r], retained[r].result)
    BY <2>3 DEF PInv, Silence, Hushed, MayHear
  <2>6. ServingPlace("retry", "retry", "retry")
    BY <1>2, <2>2 DEF ServingPlace
  <2> HIDE DEF c
  <2> QED
    BY <1>0, <1>2, <2>1, <2>2, <2>4, <2>5, <2>6, RecordServes DEF QInv
<1>5. ASSUME NEW r \in Runs, ApplyUpdate(r) PROVE MarksKept
  <2> DEFINE k == Head(updates).result
             p == core.pc
             U == [run : Runs, result : Kinds]
  <2>1. /\ Record(r, k, "none", FALSE, sched, core, p, p, "raise")
        /\ updates # <<>> /\ Head(updates).run = r /\ p \in {"updates", "closing"}
    BY <1>5 DEF ApplyUpdate, At
  <2>2. updates \in Seq(U)
    BY Types
  <2>3. Head(updates) = updates[1] /\ 1 \in DOMAIN updates /\ Head(updates) \in U
    <3> HIDE DEF U
    <3> QED
      BY <2>1, <2>2
  <2>4. k \in Kinds
    BY <2>3
  <2>5. ~Mute(row[r], calls[r])
    BY <2>1, <2>3 DEF PInv, ThreadsWereCalled, Threadless
  <2>6. MayHear(row[r], calls[r], k)
    BY <2>5 DEF MayHear, Mute
  <2>7. ServingPlace(p, p, "raise")
    BY <1>2, <2>1 DEF ServingPlace, At
  <2> HIDE DEF k, p
  <2> QED
    BY <1>0, <1>2, <2>1, <2>4, <2>6, <2>7, RecordServes DEF QInv
<1> QED
  BY <1>3, <1>4, <1>5 DEF Poll

(* _drain_queue and _dispatch_committed: what is dispatched is projected. *)
LEMMA DispatchGoesOn ==
  ASSUME IInv, MInv, core.pc \in DispatchPcs
  PROVE  /\ core.phase # "close" /\ (core.phase = "boot" => Background)
         /\ \A q \in Runs : ~Unprojected(q)
         /\ /\ core'.phase = core.phase /\ core'.pc \in DispatchPcs \cup {"idle"}
            /\ core'.pc \in {"calling", "streaming", "broken"} => ~Background
            => CorePlaces'
<1>1. core.phase # "close" /\ (core.phase = "boot" => Background)
  BY DEF MInv, CorePlaces, DispatchPcs
<1>2. core.phase = "boot" => core.todo = {}
  BY DEF IInv, BootOrder, BootPcs, DispatchPcs
<1>3. \A q \in Runs : ~Unprojected(q)
  BY <1>1, <1>2 DEF Unprojected, At, DispatchPcs
<1> QED
  BY <1>1, <1>3 DEF CorePlaces

LEMMA CallMarks ==
  ASSUME IInv, QInv, MInv, NEW r \in Runs, CallBackend(r)
  PROVE  MarksKept
<1> DEFINE x == [row[r] EXCEPT !.op = "dispatched"]
           t == Project(sched, r, row'[r])
<1>1. /\ core \in CoreType /\ row \in [Runs -> RowType] /\ row[r] \in RowType
      /\ core.pc = "committing" /\ core.cur = r /\ {"drain", "idle", "calling"} \subseteq Pcs
  BY Types DEF CallBackend, At, Pcs
<1>2. row[r].op = "intended" /\ row[r].status = "dispatching"
  BY <1>1 DEF IInv, CurrentWanted, At
<1>3. /\ row' = [row EXCEPT ![r] = x] /\ sched' = t /\ retained' = retained
      /\ \/ core' \in {Goto(core, "drain"), Goto(core, "idle")}
         \/ core' = Goto(core, "calling") /\ ~Background
  BY DEF CallBackend, AfterDispatch
<1>4. x.op = "dispatched" /\ x.status = "dispatching" /\ x.mark = row[r].mark
  BY <1>1, <1>2 DEF RowType
<1> HIDE DEF x
<1>5. row'[r] = x /\ \A q \in Runs \ {r} : row'[q] = row[q]
  BY <1>1, <1>3
<1>6. t.runs = IF SlotHeld(x) THEN sched.runs \cup {r} ELSE sched.runs \ {r}
  BY <1>5, ProjectSound DEF QInv
<1> HIDE DEF t
<1>7. Slotless(r)' /\ SlotAgrees(r)'
  BY <1>3, <1>4, <1>5, <1>6 DEF Slotless, SlotAgrees, Tracked, Terminal
<1>8. \A q \in Runs \ {r} : Rests(q)
  BY <1>3, <1>5, <1>6 DEF Rests, Tracked
<1>9. /\ core'.phase = core.phase /\ core'.pc \in {"drain", "idle", "calling"}
      /\ core'.pc = "calling" => ~Background
  BY <1>1, <1>3, GotoType
<1>10. CorePlaces' /\ \A q \in Runs : ~Unprojected(q)
  BY <1>1, <1>9, DispatchGoesOn DEF DispatchPcs
<1>11. SlotsKept
  BY <1>7, <1>8, <1>10 DEF SlotsKept, Settles
<1>12. Tracked(r)' => x.mark # "released"
  BY <1>3, <1>6 DEF Tracked, SlotHeld
<1>13. RestoreTakes
  BY <1>2, <1>4, <1>8, <1>12 DEF RestoreTakes, MayTake, Rests
<1> QED
  BY <1>10, <1>11, <1>13 DEF MarksKept

(* The steps of a dispatch that write a row and record no result. *)
LEMMA DispatchWrites ==
  ASSUME IInv, QInv, PInv, MInv, NEW r \in Runs,
         CheckRefuses(r) \/ RefusedOp(r) \/ CommitDispatching(r) \/ CallRaises(r)
  PROVE  MarksKept
<1>0. /\ core \in CoreType /\ row[r] \in RowType
      /\ {"refused", "idle", "drain", "committing"} \subseteq Pcs
      /\ AfterDispatch \in {"drain", "idle"}
  BY Types DEF Pcs, AfterDispatch
<1>1. core.cur = r /\ core.pc \in {"check", "refused", "calling"}
  BY DEF CheckRefuses, RefusedOp, CommitDispatching, CallRaises, At
<1>2. \A q \in Runs : ~Unprojected(q)
  BY <1>1, DispatchGoesOn DEF DispatchPcs
<1>3. retained' = retained /\ sched' = sched /\ Slotless(r)
  BY DEF CheckRefuses, RefusedOp, CommitDispatching, CallRaises, MInv
<1>4. \E p \in {"refused", "idle", "drain", "committing"} : core' = Goto(core, p)
  BY <1>0 DEF CheckRefuses, RefusedOp, CommitDispatching, CallRaises
<1>5. core'.phase = core.phase /\ core'.pc \in {"refused", "idle", "drain", "committing"}
  BY SMTT(30), <1>0, <1>4, GotoType
<1>6. CorePlaces'
  BY <1>1, <1>5, DispatchGoesOn DEF DispatchPcs
<1>7. At("check") => row[r].op = "intended" /\ ~Tracked(r)
  BY <1>1, <1>3 DEF PInv, HandFacts, Grasp, Slotless
<1>8. CASE CheckRefuses(r)
  <2> DEFINE x == [row[r] EXCEPT !.status = "failed"]
  <2>1. row' = row \/ row' = [row EXCEPT ![r] = x]
    BY <1>8 DEF CheckRefuses
  <2>2. x.op = "intended" /\ ~Tracked(r)
    BY <1>0, <1>7, <1>8 DEF CheckRefuses, RowType
  <2> HIDE DEF x
  <2>3. Unslotting(r, x)
    BY <2>2 DEF Unslotting
  <2> QED
    BY <1>2, <1>3, <1>6, <2>1, <2>3, SameMarks, WriteMarks
<1>9. CASE RefusedOp(r)
  <2> DEFINE x == [row[r] EXCEPT !.op = "failed"]
  <2>1. row' = [row EXCEPT ![r] = x]
    BY <1>9 DEF RefusedOp
  <2>2. row[r].status \in Terminal /\ x.status = row[r].status
    BY <1>0, <1>1, <1>9 DEF RefusedOp, PInv, HandFacts, Grasp, RowType
  <2> HIDE DEF x
  <2>3. Unslotting(r, x)
    BY <1>3, <2>2 DEF Unslotting, Slotless, SlotHeld
  <2> QED
    BY <1>2, <1>3, <1>6, <2>1, <2>3, WriteMarks
<1>10. CASE CommitDispatching(r)
  <2> DEFINE x == [row[r] EXCEPT !.status = "dispatching", !.mark = "held"]
  <2>1. row' = [row EXCEPT ![r] = x]
    BY <1>10 DEF CommitDispatching
  <2>2. x.op = "intended" /\ ~Tracked(r)
    BY <1>0, <1>7, <1>10 DEF CommitDispatching, RowType
  <2> HIDE DEF x
  <2>3. Unslotting(r, x)
    BY <2>2 DEF Unslotting
  <2> QED
    BY <1>2, <1>3, <1>6, <2>1, <2>3, WriteMarks
<1>11. CASE CallRaises(r)
  <2> DEFINE x == [row[r] EXCEPT !.status = "pending_reconcile", !.op = "unknown"]
  <2>1. row' = [row EXCEPT ![r] = x] /\ At("calling")
    BY <1>11 DEF CallRaises
  <2>2. row[r].op \notin {"absent", "intended"} /\ row[r].status \notin Terminal \cup {"unborn"}
    <3>1. ~Mute(row[r], calls[r])
      BY <1>1, <2>1 DEF PInv, HandFacts, Grasp, At
    <3>2. ~Untold(row[r])
      BY <3>1 DEF Mute, IInv, CallsFollowRows
    <3> QED
      BY <1>1, <2>1, <3>1, <3>2 DEF Mute, Untold, IInv, CurrentOpen, At
  <2>3. x.op = "unknown" /\ x.status = "pending_reconcile" /\ x.mark = row[r].mark
    BY <1>0 DEF RowType
  <2> HIDE DEF x
  <2>4. Unslotting(r, x)
    BY <2>2, <2>3 DEF Unslotting, SlotAgrees, SlotHeld, Terminal
  <2> QED
    BY <1>2, <1>3, <1>6, <2>1, <2>4, WriteMarks
<1> QED
  BY <1>8, <1>9, <1>10, <1>11

LEMMA DispatchMarks ==
  ASSUME IInv, QInv, PInv, MInv, Dispatch
  PROVE  MarksKept
<1>0. /\ core \in CoreType /\ {"streaming", "broken", "raise", "drain", "idle"} \subseteq Pcs
      /\ {"streaming", "drain", "idle"} \subseteq Returns
      /\ FALSE \in BOOLEAN /\ "none" \in Decisions \cup {"none"} /\ "progress" \in Kinds
      /\ FinalKinds \subseteq Kinds /\ AfterDispatch \in {"drain", "idle"}
  BY Types, RunLifecycleAssumption DEF Returns, Pcs, Kinds, AfterDispatch
<1>1. ASSUME core.pc \in DispatchPcs
      PROVE  /\ core.phase # "close" /\ (core.phase = "boot" => Background)
             /\ \A q \in Runs : ~Unprojected(q)
  BY <1>1, DispatchGoesOn
<1>2. CASE DrainEnd
  <2>1. /\ row' = row /\ sched' = sched /\ retained' = retained /\ core'.pc = core.ret
        /\ core'.phase = "serve" /\ core.pc = "drain"
    BY <1>0, <1>2 DEF DrainEnd, CoreType, At
  <2>2. CorePlaces'
    BY <2>1, ReturnLetsGo DEF CorePlaces, GraspPcs
  <2> QED
    BY <1>1, <2>1, <2>2, SameMarks DEF DispatchPcs
<1>3. ASSUME NEW r \in Runs, DrainSkip(r) \/ DrainTake(r) PROVE MarksKept
  <2>1. /\ row' = row /\ retained' = retained /\ sched' \in {sched, Remove(sched, r)}
        /\ core.pc = "drain" /\ core'.pc \in {"drain", "check"} /\ core'.phase = core.phase
    BY <1>0, <1>3 DEF DrainSkip, DrainTake, NextItem, PastItem, At, CoreType
  <2>2. sched'.runs = sched.runs
    BY <2>1, RemoveSound DEF QInv
  <2>3. CorePlaces'
    BY <2>1, DispatchGoesOn DEF DispatchPcs
  <2> QED
    BY <1>1, <2>1, <2>2, <2>3, SameMarks DEF DispatchPcs
<1>4. ASSUME NEW r \in Runs, core.pc \in {"calling", "streaming", "broken"}, core.cur = r
      PROVE  /\ ~Mute(row[r], calls[r]) /\ ~Background
             /\ core.phase # "boot" /\ core.phase # "close"
  BY <1>1, <1>4 DEF PInv, HandFacts, Grasp, MInv, CorePlaces, DispatchPcs
<1>5. ASSUME NEW r \in Runs, StreamPublishes(r) PROVE MarksKept
  <2>1. /\ Record(r, "progress", "none", FALSE, sched, core, "streaming", "streaming", "broken")
        /\ core.pc \in {"calling", "streaming", "broken"} /\ core.cur = r
    BY <1>5 DEF StreamPublishes
  <2>2. MayHear(row[r], calls[r], "progress") /\ ServingPlace("streaming", "streaming", "broken")
    BY <1>4, <2>1 DEF MayHear, Mute, ServingPlace
  <2> QED
    BY <1>0, <1>4, <2>1, <2>2, RecordServes DEF QInv
<1>6. ASSUME NEW r \in Runs, NEW k \in FinalKinds, CallReturns(r, k) PROVE MarksKept
  <2> DEFINE p == AfterDispatch
  <2>1. /\ Record(r, k, "none", FALSE, sched, core, p, p, "raise") /\ k \in Kinds
        /\ core.pc \in {"calling", "streaming", "broken"} /\ core.cur = r
    BY <1>0, <1>6 DEF CallReturns
  <2>2. p \in Pcs /\ p \in Returns /\ p \in {"drain", "idle"}
    BY <1>0
  <2> HIDE DEF p
  <2>3. MayHear(row[r], calls[r], k) /\ ServingPlace(p, p, "raise")
    BY <1>4, <2>1, <2>2 DEF MayHear, Mute, ServingPlace
  <2> QED
    BY <1>0, <1>4, <2>1, <2>2, <2>3, RecordServes DEF QInv
<1> QED
  BY <1>2, <1>3, <1>5, <1>6, CallMarks, DispatchWrites DEF Dispatch

(* A write that leaves the operation and the mark, and ends no run. *)
LEMMA ColumnsUnslotting ==
  ASSUME MInv, NEW r \in Runs, NEW x, x.op = row[r].op, x.mark = row[r].mark,
         \/ x.status = row[r].status
         \/ {x.status, row[r].status} \cap (Terminal \cup {"unborn"}) = {}
  PROVE  Unslotting(r, x)
<1>1. Slotless(r)
  BY DEF MInv
<1> QED
  BY <1>1 DEF Unslotting, Slotless, SlotAgrees, SlotHeld

(* A request runs after the restore and before the close. *)
LEMMA RequestPlace ==
  ASSUME IInv, MInv, Request
  PROVE  /\ core.phase # "boot" /\ core.phase # "close"
         /\ core'.phase = core.phase /\ core'.pc \notin {"calling", "streaming", "broken"} =>
              KeepsServing
<1>1. core.pc \in {"ready", "accepted", "cancelling", "terminate", "terminating", "pausing",
                   "resuming", "forwarding"}
  BY ZenonT(40) DEF Request, TaskSubmit, Admit, CancelIntent, CancelQueued, CancelUnconfirmed,
         CancelConfirmed, TerminateIntent, TerminateSave, TerminateRecord, PauseRun, PauseTask,
         ResumeRun, ResumeTask, ReconcileOnly, ReconcileRecord, RespondIntent, RespondUnknown,
         RespondAnswered, Asked, At
<1>2. core.phase # "boot" /\ core.phase # "close"
  BY <1>1, Serving DEF BootPcs, DispatchPcs, MInv, CorePlaces
<1> QED
  BY <1>2 DEF KeepsServing

(* The requests that write a row and record no result. *)
LEMMA WriteRequestMarks ==
  ASSUME IInv, QInv, MInv, Request, NEW r \in Runs,
         \/ TaskSubmit(r) \/ CancelIntent(r) \/ TerminateSave(r) \/ PauseRun(r) \/ PauseTask(r)
         \/ ResumeRun(r) \/ ResumeTask(r) \/ RespondIntent(r)
  PROVE  MarksKept
<1>0. core \in CoreType /\ row[r] \in RowType
  BY Types
<1> DEFINE a == [row[r] EXCEPT !.cancel = TRUE]
           b == [row[r] EXCEPT !.status = "paused"]
           u == [row[r] EXCEPT !.paused = TRUE]
           v == [row[r] EXCEPT !.status = ResumedStatus(row[r])]
           w == [row[r] EXCEPT !.paused = FALSE]
           f == [row[r] EXCEPT !.approval = "forwarding", !.attempted = TRUE]
<1>1. \/ row' = row
      \/ \E x \in {a, u, w, f} : row' = [row EXCEPT ![r] = x]
      \/ row' = [row EXCEPT ![r] = b] /\ Open(row[r])
      \/ row' = [row EXCEPT ![r] = v] /\ row[r].status = "paused"
      \/ row' = [row EXCEPT ![r] = Intended] /\ row[r].status = "unborn"
  BY DEF TaskSubmit, CancelIntent, TerminateSave, PauseRun, PauseTask, ResumeRun, ResumeTask,
         RespondIntent
<1>2. retained' = retained /\ sched' = sched
  BY DEF TaskSubmit, CancelIntent, TerminateSave, PauseRun, PauseTask, ResumeRun, ResumeTask,
         RespondIntent
<1>3. /\ core'.pc \in {"accepted", "cancelling", "terminating", "pausing", "idle", "resuming",
                       "drain", "forwarding"}
      /\ core'.phase = core.phase
  BY <1>0 DEF TaskSubmit, CancelIntent, TerminateSave, PauseRun, PauseTask, ResumeRun, ResumeTask,
              RespondIntent, Goto, BeginDrain, CoreType
<1>4. core.phase # "boot" /\ core.phase # "close" /\ KeepsServing
  BY <1>3, RequestPlace
<1>5. CorePlaces' /\ \A q \in Runs : Unprojected(q) => Unprojected(q)'
  BY <1>4 DEF KeepsServing, CorePlaces, Unprojected
<1>6. ResumedStatus(row[r]) \notin Terminal \cup {"unborn"}
  BY DEF ResumedStatus, Terminal
<1>7. /\ \A x \in {a, u, w, f} :
           x.op = row[r].op /\ x.mark = row[r].mark /\ x.status = row[r].status
  <2>1. a.op = row[r].op /\ a.mark = row[r].mark /\ a.status = row[r].status
    BY <1>0 DEF RowType
  <2>2. u.op = row[r].op /\ u.mark = row[r].mark /\ u.status = row[r].status
    BY <1>0 DEF RowType
  <2>3. w.op = row[r].op /\ w.mark = row[r].mark /\ w.status = row[r].status
    BY <1>0 DEF RowType
  <2>4. f.op = row[r].op /\ f.mark = row[r].mark /\ f.status = row[r].status
    BY <1>0 DEF RowType
  <2> HIDE DEF a, u, w, f
  <2> QED
    BY <2>1, <2>2, <2>3, <2>4
<1>8. b.op = row[r].op /\ b.mark = row[r].mark /\ b.status = "paused"
  BY <1>0 DEF RowType
<1>9. v.op = row[r].op /\ v.mark = row[r].mark /\ v.status = ResumedStatus(row[r])
  BY <1>0 DEF RowType
<1>10. Intended.op = "intended"
  BY DEF Intended, Unborn
<1> HIDE DEF a, b, u, v, w, f
<1>11. \A x \in {a, u, w, f} : Unslotting(r, x)
  BY <1>7, ColumnsUnslotting
<1>12. Open(row[r]) => Unslotting(r, b)
  BY <1>8, ColumnsUnslotting DEF Open, Terminal
<1>13. row[r].status = "paused" => Unslotting(r, v)
  BY <1>6, <1>9, ColumnsUnslotting DEF Terminal
<1>14. row[r].status = "unborn" => Unslotting(r, Intended)
  BY <1>10 DEF Unslotting, Tracked, QInv, NotStarted, Unstarted, Clean
<1> QED
  BY <1>1, <1>2, <1>5, <1>11, <1>12, <1>13, <1>14, SameMarks, WriteMarks

(* The requests that write no row. *)
LEMMA ReadRequestMarks ==
  ASSUME IInv, QInv, MInv, Request, NEW r \in Runs,
         \/ Admit(r) \/ CancelUnconfirmed(r) \/ TerminateIntent(r) \/ ReconcileOnly(r)
         \/ RespondUnknown(r)
  PROVE  MarksKept
<1>0. core \in CoreType /\ sched \in SchedulerType
  BY Types
<1>1. /\ row' = row /\ retained' = retained
      /\ core'.pc \in {"check", "idle", "terminate", "recon"} /\ core'.phase = core.phase
  BY <1>0 DEF Admit, CancelUnconfirmed, TerminateIntent, ReconcileOnly, RespondUnknown, Goto,
              CoreType
<1>2. sched' \in {sched, Enqueue(sched, r), Remove(sched, r)}
  BY DEF Admit, CancelUnconfirmed, TerminateIntent, ReconcileOnly, RespondUnknown
<1>3. Enqueue(sched, r).runs = sched.runs /\ Remove(sched, r).runs = sched.runs
  BY <1>0, RemoveSound DEF QInv, Enqueue, SchedulerType
<1> QED
  BY <1>1, <1>2, <1>3, RequestPlace, ServingMarks

(* The requests that record a result. *)
LEMMA RecordRequestMarks ==
  ASSUME IInv, QInv, Approvals, PInv, MInv, Request, NEW r \in Runs,
         \/ CancelQueued(r) \/ TerminateRecord(r)
         \/ \E k \in {"cancelled", "succeeded"} : CancelConfirmed(r, k)
         \/ \E k \in ReconcileKinds \cup {"failed", "cancelled"} : ReconcileRecord(r, k)
         \/ \E k \in {"progress"} \cup (FinalKinds \cap Terminal), d \in Decisions :
              RespondAnswered(r, k, d)
  PROVE  MarksKept
<1>0. /\ core \in CoreType /\ {"idle", "raise", "recon"} \subseteq Pcs /\ "idle" \in Returns
      /\ FALSE \in BOOLEAN /\ "none" \in Decisions \cup {"none"}
      /\ Terminal \cup {"progress"} \cup ReconcileKinds \subseteq Kinds
  BY Types, RunLifecycleAssumption DEF Returns, Pcs, Kinds
<1>1. core.phase # "boot" /\ core.phase # "close"
  BY RequestPlace
<1>2. ServingPlace("idle", "idle", "raise") /\ ServingPlace("recon", "idle", "raise")
  BY <1>1 DEF ServingPlace
<1>3. ASSUME NEW k \in Kinds, NEW d \in Decisions \cup {"none"}, NEW s, Sound(s),
             s.runs = sched.runs, MayHear(row[r], calls[r], k),
             Record(r, k, d, FALSE, s, core, "idle", "idle", "raise")
      PROVE  MarksKept
  BY <1>0, <1>1, <1>2, <1>3, RecordServes
<1>4. Sound(sched) /\ Sound(Remove(sched, r)) /\ Remove(sched, r).runs = sched.runs
  BY RemoveSound DEF QInv
<1>5. MayHear(row[r], calls[r], "cancelled") /\ "cancelled" \in Kinds
  BY <1>0 DEF MayHear, Terminal, Ignorance
<1>6. CASE CancelQueued(r) \/ TerminateRecord(r)
  <2>1. \E s \in {sched, Remove(sched, r)} :
          Record(r, "cancelled", "none", FALSE, s, core, "idle", "idle", "raise")
    BY <1>6 DEF CancelQueued, TerminateRecord
  <2> QED
    BY <1>0, <1>3, <1>4, <1>5, <2>1
<1>7. ASSUME NEW k \in {"cancelled", "succeeded"}, CancelConfirmed(r, k) PROVE MarksKept
  <2>1. /\ Record(r, k, "none", FALSE, sched, core, "idle", "idle", "raise")
        /\ k \in Terminal /\ k \in Kinds /\ (k = "cancelled" \/ Answerable(r, k))
    BY <1>7 DEF CancelConfirmed, Kinds, Terminal
  <2>2. MayHear(row[r], calls[r], k)
    BY <2>1 DEF MayHear, Answerable, Ignorance
  <2> QED
    BY <1>0, <1>3, <1>4, <2>1, <2>2
<1>8. ASSUME NEW k \in ReconcileKinds \cup {"failed", "cancelled"}, ReconcileRecord(r, k)
      PROVE  MarksKept
  <2> DEFINE c == [core EXCEPT !.cur = r, !.ret = "idle"]
  <2>1. c \in CoreType /\ c.phase = core.phase
    BY <1>0 DEF CoreType
  <2>2. /\ Record(r, k, "none", FALSE, sched, c, "recon", "idle", "raise") /\ k \in Kinds
        /\ row[r].op # "absent"
    BY <1>0, <1>8 DEF ReconcileRecord, Terminal
  <2>3. calls[r] = 0 => k \in Ignorance
    BY <1>8 DEF ReconcileRecord, Truthful, Answerable, Ignorance
  <2>4. MayHear(row[r], calls[r], k)
    BY <2>2, <2>3 DEF MayHear
  <2> HIDE DEF c
  <2> QED
    BY <1>0, <1>1, <1>2, <1>4, <2>1, <2>2, <2>4, RecordServes
<1>9. ASSUME NEW k \in {"progress"} \cup (FinalKinds \cap Terminal), NEW d \in Decisions,
             RespondAnswered(r, k, d)
      PROVE  MarksKept
  <2>1. /\ Record(r, k, d, FALSE, sched, core, "idle", "idle", "raise") /\ k \in Kinds
        /\ At("forwarding") /\ core.cur = r
    BY <1>0, <1>9 DEF RespondAnswered
  <2>2. row[r].attempted
    BY <2>1 DEF Approvals, Forwarding, Unheard
  <2>3. MayHear(row[r], calls[r], k)
    BY <2>2 DEF PInv, Silence, Hushed, Mute, MayHear
  <2> QED
    BY <1>3, <1>4, <2>1, <2>3
<1> QED
  BY <1>6, <1>7, <1>8, <1>9

LEMMA RequestMarks ==
  ASSUME IInv, QInv, Approvals, PInv, MInv, Request
  PROVE  MarksKept
<1>1. PICK r \in Runs :
        \/ TaskSubmit(r) \/ Admit(r)
        \/ CancelIntent(r) \/ CancelQueued(r) \/ CancelUnconfirmed(r)
        \/ \E k \in {"cancelled", "succeeded"} : CancelConfirmed(r, k)
        \/ TerminateIntent(r) \/ TerminateSave(r) \/ TerminateRecord(r)
        \/ PauseRun(r) \/ PauseTask(r) \/ ResumeRun(r) \/ ResumeTask(r)
        \/ ReconcileOnly(r)
        \/ \E k \in ReconcileKinds \cup {"failed", "cancelled"} : ReconcileRecord(r, k)
        \/ RespondIntent(r) \/ RespondUnknown(r)
        \/ \E k \in {"progress"} \cup (FinalKinds \cap Terminal), d \in Decisions :
             RespondAnswered(r, k, d)
  BY Zenon DEF Request
<1> QED
  BY <1>1, WriteRequestMarks, ReadRequestMarks, RecordRequestMarks

-----------------------------------------------------------------------------
(* Failures, shutdown and the threads. *)

LEMMA EndMarks ==
  ASSUME ProcessEnds
  PROVE  MarksKept
<1>1. sched'.runs = {} /\ core'.phase = "boot" /\ core'.pc = "down"
  BY EmptySound DEF ProcessEnds, CoreDown
<1>2. \A r \in Runs : Settles(r)
  BY <1>1 DEF Settles, Slotless, Unprojected, Tracked
<1>3. CorePlaces'
  BY <1>1 DEF CorePlaces, DispatchPcs
<1> QED
  BY <1>1, <1>2, <1>3 DEF MarksKept, SlotsKept, RestoreTakes, Tracked

(* What the core marks when it closes was dispatched. *)
LEMMA CloseMarks ==
  ASSUME IInv, PInv, MInv, NEW r \in Runs, CloseMarkRun(r) \/ CloseMarkOp(r)
  PROVE  MarksKept
<1>0. core \in CoreType /\ row \in [Runs -> RowType] /\ row[r] \in RowType
  BY Types
<1>1. /\ retained' = retained /\ sched' = sched
      /\ core.pc \in {"marking", "markOp"} /\ core'.pc \in {"marking", "markOp"}
      /\ core'.phase = core.phase
  BY <1>0 DEF CloseMarkRun, CloseMarkOp, At, Goto, CoreType
<1>2. core.phase # "boot"
  BY <1>1, Serving DEF BootPcs, DispatchPcs
<1>3. CorePlaces' /\ \A q \in Runs : Unprojected(q) => Unprojected(q)'
  BY <1>1, <1>2 DEF CorePlaces, Unprojected
<1>4. CASE CloseMarkRun(r)
  <2> DEFINE x == [row[r] EXCEPT !.status = "pending_reconcile"]
  <2>1. row' = [row EXCEPT ![r] = x]
    BY <1>4 DEF CloseMarkRun
  <2>2. x.op = row[r].op /\ x.mark = row[r].mark /\ x.status = "pending_reconcile"
    BY <1>0 DEF RowType
  <2>3. row[r].status \notin Terminal \cup {"unborn"}
    BY <1>1, <1>4 DEF CloseMarkRun, IInv, TodoOpen, PInv, MarkBorn
  <2> HIDE DEF x
  <2>4. Unslotting(r, x)
    BY <2>2, <2>3, ColumnsUnslotting DEF Terminal
  <2> QED
    BY <1>1, <1>3, <2>1, <2>4, WriteMarks
<1>5. CASE CloseMarkOp(r)
  <2> DEFINE x == [row[r] EXCEPT !.op = "unknown"]
  <2>1. row' = [row EXCEPT ![r] = x]
    BY <1>5 DEF CloseMarkOp
  <2>2. x.op = "unknown" /\ x.mark = row[r].mark /\ x.status = row[r].status
    BY <1>0 DEF RowType
  <2>3. row[r].op \notin {"absent", "intended"}
    BY <1>5 DEF CloseMarkOp, PInv, HandFacts, Grasp
  <2>4. Slotless(r)
    BY DEF MInv
  <2> HIDE DEF x
  <2>5. Unslotting(r, x)
    BY <2>2, <2>3, <2>4 DEF Unslotting, Slotless, SlotAgrees, SlotHeld
  <2> QED
    BY <1>1, <1>3, <2>1, <2>5, WriteMarks
<1> QED
  BY <1>4, <1>5

LEMMA ShutdownMarks ==
  ASSUME IInv, PInv, MInv, Shutdown
  PROVE  MarksKept
<1>0. core \in CoreType
  BY Types
<1>1. CASE CommitFails
  <2>1. /\ row' = row /\ sched' = sched /\ retained' = retained
        /\ core'.pc = "raise" /\ core'.phase = core.phase
    BY <1>0, <1>1, RaiseType DEF CommitFails, StoreFails
  <2> QED
    BY <2>1, SameMarks DEF CorePlaces, Unprojected, DispatchPcs
<1>2. CASE HandleRaise \/ StopRequested
  <2>1. CASE ProcessEnds
    BY <2>1, EndMarks
  <2>2. CASE ~ProcessEnds
    <3>1. /\ row' = row /\ sched' = sched /\ retained' = retained
          /\ core'.pc \in {"idle", "close"} /\ core'.phase = core.phase
      BY <1>0, <1>2, <2>2 DEF HandleRaise, StopRequested, Goto, CoreType
    <3>2. core.phase # "boot" /\ core.phase # "close"
      <4>1. CASE HandleRaise
        BY <2>2, <4>1 DEF HandleRaise
      <4>2. CASE StopRequested
        BY <4>2, Serving DEF StopRequested, At, MInv, CorePlaces, BootPcs, DispatchPcs
      <4> QED
        BY <1>2, <4>1, <4>2
    <3> QED
      BY <3>1, <3>2, ServingMarks DEF KeepsServing
  <2> QED
    BY <2>1, <2>2
<1>3. CASE CloseBegin
  <2>1. CASE ProcessEnds
    BY <2>1, EndMarks
  <2>2. CASE ~ProcessEnds
    <3>1. /\ row' = row /\ sched' = sched /\ retained' = retained
          /\ core'.pc = "closing" /\ core'.phase = "close"
      BY <1>0, <1>3, <2>2 DEF CloseBegin, CoreType
    <3> QED
      BY <3>1, SameMarks DEF CorePlaces, Unprojected
  <2> QED
    BY <2>1, <2>2
<1>4. CASE CloseDrained
  <2>1. /\ row' = row /\ sched' = sched /\ retained' = retained
        /\ core.pc = "closing" /\ core'.pc = "marking" /\ core'.phase = core.phase
    BY <1>0, <1>4 DEF CloseDrained, At, CoreType
  <2>2. core.phase # "boot"
    BY <2>1, Serving DEF BootPcs, DispatchPcs
  <2> QED
    BY <2>1, <2>2, ServingMarks DEF KeepsServing
<1>5. CASE CloseEnd
  BY <1>5, EndMarks DEF CloseEnd
<1> QED
  BY <1>1, <1>2, <1>3, <1>4, <1>5, CloseMarks DEF Shutdown

-----------------------------------------------------------------------------
(* The theorems. *)

LEMMA StepMarks ==
  ASSUME IInv, QInv, Approvals, PInv, MInv, Next
  PROVE  MarksKept
<1>1. ASSUME NEW r \in Runs, Worker(r) PROVE MarksKept
  <2>1. UNCHANGED <<row, sched, retained, core>>
    BY <1>1 DEF Worker, WorkerPublishes, WorkerReturns, WorkerPuts, WorkerGoesOn,
                WorkerFallsBack, WorkerEnds, WorkerStops, CoreStands
  <2> QED
    BY <2>1, SameMarks DEF MInv, CorePlaces, Unprojected, At
<1> QED
  BY <1>1, RestoreMarks, PollMarks, DispatchMarks, RequestMarks, ShutdownMarks, EndMarks
     DEF Next, CoreThread, Crash

LEMMA NextMarks == IInv /\ QInv /\ Approvals /\ PInv /\ MInv /\ [Next]_vars => MInv'
<1> SUFFICES ASSUME IInv, QInv, Approvals, PInv, MInv, [Next]_vars PROVE MInv'
  OBVIOUS
<1>1. CASE Next
  BY <1>1, StepMarks, MarksStay
<1>2. CASE UNCHANGED vars
  BY <1>2 DEF vars, MInv, Slotless, SlotAgrees, Unprojected, CorePlaces, Tracked, At
<1> QED
  BY <1>1, <1>2

(* A process begins with nothing projected. *)
LEMMA InitMarks == Init => MInv
<1> SUFFICES ASSUME Init PROVE MInv
  OBVIOUS
<1>1. sched.runs = {} /\ core.phase = "boot" /\ core.pc = "down"
  BY EmptySound DEF Init, CoreDown
<1> QED
  BY <1>1 DEF MInv, Slotless, Unprojected, CorePlaces, Tracked, DispatchPcs

(* At all times: the scheduler tracks the runs whose rows hold a slot, but   *)
(* for a half-committed dispatch, a failed write and what a restoring core   *)
(* has not come to.                                                          *)
THEOREM MarksInvariance == Spec => []MInv
<1>1. Init => MInv
  BY InitMarks
<1>2. IInv /\ QInv /\ Approvals /\ PInv /\ MInv /\ [Next]_vars => MInv'
  BY NextMarks
<1> QED
  BY <1>1, <1>2, Invariance, QueueInvariance, ApprovalInvariance, PromiseInvariance, PTL
     DEF Spec

(* The durable mark of a slot and the slot agree between two steps of the    *)
(* host, and a run marked as released takes a slot while the core restores   *)
(* only by landing the result it kept: also for rows an older version wrote. *)
THEOREM MarksDecideSlots == Spec => MarksGovernSlots
<1> DEFINE Released ==
      core.phase = "boot" =>
        \A r \in sched'.runs \ sched.runs :
          /\ row[r].op # "absent"
          /\ row[r].mark = "released" => row[r].stash # "none" /\ row'[r].stash = "none"
<1>1. ASSUME IInv, MInv PROVE SlotsFollowMarks
  <2> SUFFICES ASSUME At("idle"), NEW r \in Runs, row[r].op # "intended",
                      retained[r] = Nothing
               PROVE  r \in sched.runs <=> row[r].status # "unborn" /\ SlotHeld(row[r])
    BY DEF SlotsFollowMarks
  <2>1. core.phase # "boot" /\ core.phase # "close"
    BY <1>1, Serving DEF At, MInv, CorePlaces, BootPcs, DispatchPcs
  <2>2. retained[r].result = "none"
    BY DEF Nothing
  <2>3. SlotAgrees(r)
    BY <1>1, <2>1 DEF MInv, Unprojected
  <2> QED
    BY <2>2, <2>3 DEF SlotAgrees, Tracked
<1>2. ASSUME IInv, IInv', QInv, Approvals, PInv, MInv, [Next]_vars PROVE [Released]_vars
  <2>1. CASE Next
    <3>1. RestoreTakes
      BY <1>2, <2>1, StepMarks DEF MarksKept
    <3>2. sched'.runs \subseteq Runs
      BY <1>2 DEF IInv, TypeOK, SchedulerType
    <3> QED
      BY <3>1, <3>2 DEF RestoreTakes, MayTake, Tracked
  <2> QED
    BY <1>2, <2>1
<1>3. Spec => []IInv /\ []QInv /\ []Approvals /\ []PInv /\ []MInv
  BY Invariance, QueueInvariance, ApprovalInvariance, PromiseInvariance, MarksInvariance
<1> QED
  BY <1>1, <1>2, <1>3, PTL DEF Spec, MarksGovernSlots, RestoreKeepsReleased
=============================================================================
