-------------------------- MODULE RunQueueProofs --------------------------
(***************************************************************************)
(* Proofs about the scheduler of RunLifecycle, for every value of the        *)
(* constants: its queue and its counters (SchedulerSound), and the limits it *)
(* dispatches under (DispatchWithinLimits).                                  *)
(***************************************************************************)
EXTENDS RunLifecycleProofs, SequenceTheorems, WellFoundedInduction

-----------------------------------------------------------------------------
(* The scheduler by itself. *)

(* The runs that wait in the queue of a scheduler. *)
Queued(s) == {s.queue[i] : i \in DOMAIN s.queue}

(* No run waits twice. *)
Once(s) == \A i, j \in DOMAIN s.queue : s.queue[i] = s.queue[j] => i = j

(* The runs of S that are dispatched to backend b. *)
OnBackend(S, b) == {r \in S : BackendOf[r] = b}

(* The counter of every backend is the number of its tracked runs. *)
Counted(s) == \A b \in Backends : s.inflight[b] = Cardinality(OnBackend(s.runs, b))

(* What Scheduler promises of its own state, whatever rows exist. *)
Sound(s) == s \in SchedulerType /\ Once(s) /\ Counted(s)

(* Only runs wait. *)
LEMMA QueuedRuns ==
  ASSUME NEW s, Sound(s)
  PROVE  Queued(s) \subseteq Runs
BY DEF Sound, SchedulerType, Queued

(* The runs of a backend can be counted. *)
LEMMA BackendCount ==
  ASSUME NEW S \in SUBSET Runs, NEW b
  PROVE  IsFiniteSet(OnBackend(S, b)) /\ Cardinality(OnBackend(S, b)) \in Nat
<1>1. IsFiniteSet(S)
  BY SchedulerAssumption, FS_Subset
<1>2. OnBackend(S, b) \in SUBSET S
  BY DEF OnBackend
<1>3. IsFiniteSet(OnBackend(S, b))
  BY <1>1, <1>2, FS_Subset
<1> QED
  BY <1>3, FS_CardinalityType

(* Scheduler.start counts a run once, also when it is counted already. *)
LEMMA StartSound ==
  ASSUME NEW s, Sound(s), NEW r \in Runs
  PROVE  /\ Sound(Start(s, r)) /\ Start(s, r).queue = s.queue
         /\ Start(s, r).runs = s.runs \cup {r}
<1>1. /\ s \in SchedulerType /\ s.runs \in SUBSET Runs
      /\ s.inflight \in [Backends -> Nat] /\ BackendOf[r] \in Backends
  BY SchedulerAssumption DEF Sound, SchedulerType
<1>2. CASE r \in s.runs
  <2>1. s.runs \cup {r} = s.runs
    BY <1>2
  <2> QED
    BY <1>2, <2>1 DEF Start
<1>3. CASE r \notin s.runs
  <2> DEFINE t == Start(s, r)
  <2>1. /\ t.queue = s.queue /\ t.runs = s.runs \cup {r}
        /\ t.inflight = [s.inflight EXCEPT ![BackendOf[r]] = @ + 1]
    BY <1>1, <1>3 DEF Start, SchedulerType
  <2>0. t \in SchedulerType
    BY <1>1, StartType
  <2> HIDE DEF t
  <2>2. ASSUME NEW b \in Backends
        PROVE  t.inflight[b] = Cardinality(OnBackend(t.runs, b))
    <3>1. IsFiniteSet(OnBackend(s.runs, b)) /\ Cardinality(OnBackend(s.runs, b)) \in Nat
      BY <1>1, BackendCount
    <3>2. s.inflight[b] = Cardinality(OnBackend(s.runs, b))
      BY DEF Sound, Counted
    <3>3. CASE b = BackendOf[r]
      <4>1. OnBackend(t.runs, b) = OnBackend(s.runs, b) \cup {r}
        BY <2>1, <3>3 DEF OnBackend
      <4>2. r \notin OnBackend(s.runs, b)
        BY <1>3 DEF OnBackend
      <4>3. Cardinality(OnBackend(s.runs, b) \cup {r}) = Cardinality(OnBackend(s.runs, b)) + 1
        BY <3>1, <4>2, FS_AddElement
      <4>4. t.inflight[b] = s.inflight[b] + 1
        BY <1>1, <2>1, <3>3
      <4> QED
        BY <3>2, <4>1, <4>3, <4>4
    <3>4. CASE b # BackendOf[r]
      <4>1. OnBackend(t.runs, b) = OnBackend(s.runs, b)
        BY <2>1, <3>4 DEF OnBackend
      <4> QED
        BY <1>1, <2>1, <3>2, <3>4, <4>1
    <3> QED
      BY <3>3, <3>4
  <2> QED
    BY <2>0, <2>1, <2>2 DEF Sound, Once, Counted, t
<1> QED
  BY <1>2, <1>3

(* Scheduler.finish takes back what start counted, at most once. *)
LEMMA FinishSound ==
  ASSUME NEW s, Sound(s), NEW r \in Runs
  PROVE  /\ Sound(Finish(s, r)) /\ Finish(s, r).queue = s.queue
         /\ Finish(s, r).runs = s.runs \ {r}
<1>1. /\ s \in SchedulerType /\ s.runs \in SUBSET Runs
      /\ s.inflight \in [Backends -> Nat] /\ BackendOf[r] \in Backends
  BY SchedulerAssumption DEF Sound, SchedulerType
<1>2. CASE r \notin s.runs
  <2>1. s.runs \ {r} = s.runs
    BY <1>2
  <2> QED
    BY <1>1, <1>2, <2>1 DEF Finish
<1>3. CASE r \in s.runs
  <2> DEFINE t == Finish(s, r)
             n == s.inflight[BackendOf[r]]
  <2>1. /\ t.queue = s.queue /\ t.runs = s.runs \ {r}
        /\ t.inflight = [s.inflight EXCEPT ![BackendOf[r]] = IF n <= 1 THEN 0 ELSE n - 1]
    BY <1>1, <1>3 DEF Finish, SchedulerType
  <2>2. t \in SchedulerType
    BY <1>1, FinishType
  <2> HIDE DEF t
  <2>3. ASSUME NEW b \in Backends
        PROVE  t.inflight[b] = Cardinality(OnBackend(t.runs, b))
    <3>1. IsFiniteSet(OnBackend(s.runs, b)) /\ Cardinality(OnBackend(s.runs, b)) \in Nat
      BY <1>1, BackendCount
    <3>2. s.inflight[b] = Cardinality(OnBackend(s.runs, b))
      BY DEF Sound, Counted
    <3>3. CASE b = BackendOf[r]
      <4>1. OnBackend(t.runs, b) = OnBackend(s.runs, b) \ {r}
        BY <2>1, <3>3 DEF OnBackend
      <4>2. r \in OnBackend(s.runs, b)
        BY <1>3, <3>3 DEF OnBackend
      <4>3. Cardinality(OnBackend(s.runs, b) \ {r}) = Cardinality(OnBackend(s.runs, b)) - 1
        BY <3>1, <4>2, FS_RemoveElement
      <4>4. Cardinality(OnBackend(s.runs, b)) # 0
        BY <3>1, <4>2, FS_EmptySet
      <4>5. t.inflight[b] = IF s.inflight[b] <= 1 THEN 0 ELSE s.inflight[b] - 1
        BY <1>1, <2>1, <3>3
      <4> QED
        BY <3>1, <3>2, <4>1, <4>3, <4>4, <4>5
    <3>4. CASE b # BackendOf[r]
      <4>1. OnBackend(t.runs, b) = OnBackend(s.runs, b)
        BY <2>1, <3>4 DEF OnBackend
      <4> QED
        BY <1>1, <2>1, <3>2, <3>4, <4>1
    <3> QED
      BY <3>3, <3>4
  <2> QED
    BY <2>1, <2>2, <2>3 DEF Sound, Once, Counted, t
<1> QED
  BY <1>2, <1>3

(* _project_slot: the scheduler tracks the run exactly when its row holds    *)
(* the slot.                                                                 *)
LEMMA ProjectSound ==
  ASSUME NEW s, Sound(s), NEW r \in Runs, NEW x
  PROVE  /\ Sound(Project(s, r, x)) /\ Project(s, r, x).queue = s.queue
         /\ Project(s, r, x).runs = IF SlotHeld(x) THEN s.runs \cup {r} ELSE s.runs \ {r}
BY StartSound, FinishSound DEF Project

(* A new scheduler. *)
LEMMA EmptySound == Sound(EmptyScheduler) /\ EmptyScheduler.queue = <<>> /\ EmptyScheduler.runs = {}
<1>1. \A b \in Backends : OnBackend({}, b) = {}
  BY DEF OnBackend
<1>2. EmptyScheduler \in SchedulerType
  BY EmptyType
<1> QED
  BY <1>1, <1>2, FS_EmptySet DEF Sound, Once, Counted, EmptyScheduler

(* Scheduler.enqueue appends a run that does not wait, and moves none that   *)
(* does.                                                                     *)
LEMMA EnqueueSound ==
  ASSUME NEW s, Sound(s), NEW r \in Runs, r \notin Queued(s)
  PROVE  /\ Sound(Enqueue(s, r)) /\ Queued(Enqueue(s, r)) = Queued(s) \cup {r}
         /\ Enqueue(s, r).runs = s.runs
<1> DEFINE q == s.queue
           t == Enqueue(s, r)
<1>1. s \in SchedulerType /\ q \in Seq(Runs)
  BY DEF Sound, SchedulerType
<1>2. t.queue = Append(q, r) /\ t.runs = s.runs /\ t.inflight = s.inflight
  BY <1>1 DEF Enqueue, SchedulerType
<1>3. t \in SchedulerType
  BY <1>1, EnqueueType
<1> HIDE DEF t
<1>4. /\ Len(t.queue) = Len(q) + 1 /\ DOMAIN t.queue = 1 .. Len(q) + 1
      /\ \A i \in 1 .. Len(q) : t.queue[i] = q[i]
      /\ t.queue[Len(q) + 1] = r /\ Len(q) \in Nat /\ DOMAIN q = 1 .. Len(q)
  BY <1>1, <1>2, AppendProperties
<1>5. \A i \in 1 .. Len(q) : q[i] # r
  BY <1>4 DEF Queued
<1>6. Once(t)
  BY SMTT(30), <1>4, <1>5 DEF Sound, Once
<1>7. Queued(t) = Queued(s) \cup {r}
  <2>1. ASSUME NEW i \in DOMAIN t.queue
        PROVE  t.queue[i] \in Queued(s) \cup {r}
    BY <1>4 DEF Queued
  <2>2. ASSUME NEW i \in DOMAIN q
        PROVE  q[i] \in Queued(t)
    BY <1>4 DEF Queued
  <2>3. r \in Queued(t)
    BY <1>4 DEF Queued
  <2> QED
    BY <2>1, <2>2, <2>3 DEF Queued
<1> QED
  BY <1>2, <1>3, <1>6, <1>7 DEF Sound, Counted, t

(* Scheduler.remove takes the one place of a run out of the queue. *)
LEMMA RemoveSound ==
  ASSUME NEW s, Sound(s), NEW r \in Runs
  PROVE  /\ Sound(Remove(s, r)) /\ Queued(Remove(s, r)) = Queued(s) \ {r}
         /\ Remove(s, r).runs = s.runs
<1> DEFINE q == s.queue
           t == Remove(s, r)
<1>1. s \in SchedulerType /\ q \in Seq(Runs) /\ Len(q) \in Nat /\ DOMAIN q = 1 .. Len(q)
  BY DEF Sound, SchedulerType
<1>2. CASE \A i \in DOMAIN q : q[i] # r
  BY <1>2 DEF Remove, Queued
<1>3. CASE \E i \in DOMAIN q : q[i] = r
  <2> DEFINE p == Place(q, r)
             u == SubSeq(q, 1, p - 1)
             v == SubSeq(q, p + 1, Len(q))
  <2>1. p \in 1 .. Len(q) /\ q[p] = r
    BY <1>1, <1>3 DEF Place
  <2>2. t.queue = u \o v /\ t.runs = s.runs /\ t.inflight = s.inflight
    BY <1>1, <1>3 DEF Remove, SchedulerType
  <2>3. t \in SchedulerType
    BY <1>1, RemoveType
  <2> HIDE DEF t, p
  <2>4. u \in Seq(Runs) /\ Len(u) = p - 1 /\ \A i \in 1 .. p - 1 : u[i] = q[i]
    <3>1. \A i \in 1 .. p - 1 : q[i] \in Runs
      BY <1>1, <2>1
    <3> QED
      BY <1>1, <2>1, <3>1, SubSeqProperties
  <2>5. v \in Seq(Runs) /\ Len(v) = Len(q) - p /\ \A i \in 1 .. Len(q) - p : v[i] = q[p + i]
    <3>1. \A i \in p + 1 .. Len(q) : q[i] \in Runs
      BY <1>1, <2>1
    <3>2. /\ v \in Seq(Runs) /\ Len(v) = IF p + 1 <= Len(q) THEN Len(q) - (p + 1) + 1 ELSE 0
          /\ \A i \in 1 .. Len(q) - (p + 1) + 1 : v[i] = q[p + 1 + i - 1]
      BY <1>1, <2>1, <3>1, SubSeqProperties
    <3> HIDE DEF v
    <3> QED
      BY <1>1, <2>1, <3>2
  <2> HIDE DEF u, v
  <2>6. /\ Len(t.queue) = Len(q) - 1 /\ DOMAIN t.queue = 1 .. Len(q) - 1
        /\ \A i \in 1 .. Len(q) - 1 : t.queue[i] = IF i < p THEN q[i] ELSE q[i + 1]
    <3>1. /\ u \o v \in Seq(Runs) /\ Len(u \o v) = Len(u) + Len(v)
          /\ \A i \in 1 .. Len(u) + Len(v) :
               (u \o v)[i] = IF i <= Len(u) THEN u[i] ELSE v[i - Len(u)]
      BY <2>4, <2>5, ConcatProperties
    <3> DEFINE w == u \o v
    <3> HIDE DEF w
    <3>2. Len(w) = Len(q) - 1 /\ DOMAIN w = 1 .. Len(q) - 1
      BY <1>1, <2>1, <2>4, <2>5, <3>1 DEF w
    <3>3. ASSUME NEW i \in 1 .. Len(q) - 1
          PROVE  w[i] = IF i < p THEN q[i] ELSE q[i + 1]
      <4>1. w[i] = IF i <= p - 1 THEN u[i] ELSE v[i - (p - 1)]
        BY <1>1, <2>1, <2>4, <2>5, <3>1 DEF w
      <4>2. CASE i < p
        BY <1>1, <2>1, <2>4, <4>1, <4>2
      <4>3. CASE i >= p
        <5>1. i - (p - 1) \in 1 .. Len(q) - p /\ p + (i - (p - 1)) = i + 1
          BY <1>1, <2>1, <4>3
        <5> QED
          BY <1>1, <2>1, <2>5, <4>1, <4>3, <5>1
      <4> QED
        BY <2>1, <4>2, <4>3
    <3> QED
      BY <2>2, <3>2, <3>3 DEF w
  <2>7. Once(t)
    <3> SUFFICES ASSUME NEW i \in DOMAIN t.queue, NEW j \in DOMAIN t.queue,
                        t.queue[i] = t.queue[j]
                 PROVE  i = j
      BY DEF Once
    <3> DEFINE k == IF i < p THEN i ELSE i + 1
               m == IF j < p THEN j ELSE j + 1
    <3>1. i \in 1 .. Len(q) - 1 /\ j \in 1 .. Len(q) - 1
      BY <2>6
    <3>2. t.queue[i] = q[k] /\ k \in DOMAIN q
      BY SMTT(30), <1>1, <2>1, <2>6, <3>1
    <3>3. t.queue[j] = q[m] /\ m \in DOMAIN q
      BY <1>1, <2>1, <2>6, <3>1
    <3>4. k = m
      BY <3>2, <3>3 DEF Sound, Once
    <3> QED
      BY <2>1, <3>1, <3>4
  <2>8. Queued(t) = Queued(s) \ {r}
    <3>1. ASSUME NEW i \in DOMAIN t.queue
          PROVE  t.queue[i] \in Queued(s) \ {r}
      <4> DEFINE k == IF i < p THEN i ELSE i + 1
      <4>1. t.queue[i] = q[k] /\ k \in DOMAIN q /\ k # p
        BY <1>1, <2>1, <2>6
      <4> QED
        BY <1>1, <2>1, <4>1 DEF Queued, Sound, Once
    <3>2. ASSUME NEW i \in DOMAIN q, q[i] # r
          PROVE  q[i] \in Queued(t)
      <4> DEFINE k == IF i < p THEN i ELSE i - 1
      <4>0. i \in 1 .. Len(q) /\ i # p /\ p \in 1 .. Len(q) /\ Len(q) \in Nat
        BY <1>1, <2>1, <3>2
      <4>1. /\ k \in 1 .. Len(q) - 1 /\ (k < p => k = i /\ i < p)
            /\ (k >= p => k + 1 = i)
        BY <4>0
      <4>2. t.queue[k] = IF k < p THEN q[k] ELSE q[k + 1]
        BY <2>6, <4>1
      <4>3. t.queue[k] = q[i] /\ k \in DOMAIN t.queue
        <5>1. k \in Int /\ p \in Int
          BY <4>0
        <5> HIDE DEF k
        <5> QED
          BY <2>6, <4>1, <4>2, <5>1
      <4> HIDE DEF k
      <4> QED
        BY <4>3 DEF Queued
    <3> QED
      BY <3>1, <3>2 DEF Queued
  <2> QED
    BY <2>2, <2>3, <2>7, <2>8 DEF Sound, Counted, t
<1> QED
  BY <1>2, <1>3

-----------------------------------------------------------------------------
(* The inductive invariant. *)

(* Nothing of run r is counted, kept, running or on its way. *)
Clean(r) ==
  /\ r \notin sched.runs /\ retained[r].result = "none" /\ worker[r].pc = "none"
  /\ \A i \in DOMAIN updates : updates[i].run # r

(* A run in the queue is an intent that has not ended: nothing that writes   *)
(* such a row leaves it in the queue.                                        *)
QueueWaits ==
  \A r \in Queued(sched) : row[r].op = "intended" /\ row[r].status \notin Terminal

(* A run that was never dispatched has neither a result nor an approval. *)
Intents ==
  \A r \in Runs : row[r].op = "intended" =>
    row[r].status # "unborn" /\ row[r].stash = "none" /\ row[r].approval = "none"

(* task.submit has written the run and not decided yet where it goes. *)
Accepting(r) == At("accepted") /\ core.cur = r

(* No backend can know of run r. *)
Unstarted(r) == row[r].status = "unborn" \/ r \in Queued(sched) \/ Accepting(r)

(* Nothing is in memory for a run no backend can know of. *)
NotStarted == \A r \in Runs : Unstarted(r) => Clean(r)

(* What task.submit accepted is still an intent when admit decides. *)
AcceptedIsIntent == \A r \in Runs : Accepting(r) => row[r].op = "intended"

(* The steps at which the core has a run in hand. *)
InHandPcs ==
  {"accepted", "check", "refused", "committing", "calling", "streaming", "broken",
   "terminate", "terminating", "forwarding", "markOp"}

(* The run in hand does not wait, and the drain returns to no step with a    *)
(* run in hand.                                                              *)
InHand ==
  /\ core.pc \in InHandPcs \/ (core.phase = "boot" /\ core.pc \in BootPcs) =>
       core.cur \notin Queued(sched)
  /\ core.ret \notin InHandPcs

(* What is left to restore or to mark at shutdown does not wait. *)
Visits ==
  core.phase = "boot" \/ core.pc \in {"marking", "markOp"} =>
    core.todo \cap Queued(sched) = {}

(* What is left to restore has a row. *)
VisitsBorn ==
  core.phase = "boot" =>
    \A r \in Runs : r \in core.todo \/ (core.pc \in BootPcs /\ core.cur = r) =>
      row[r].status # "unborn"

(* _restore_scheduler has not drained the queue yet. *)
Restoring(c) == c.phase = "boot" /\ c.pc \in {"down", "boot"} \cup BootPcs

(* While the rows are restored there are no threads, no updates and nothing  *)
(* kept for an intent: the process has just begun.                           *)
BootAlone ==
  /\ Restoring(core) =>
       /\ updates = <<>>
       /\ \A r \in Runs : worker[r].pc = "none"
       /\ \A r \in Runs : row[r].op = "intended" => retained[r].result = "none"
  /\ At("down") => sched.queue = <<>>

(* The inductive invariant of the queue and the counts; each part is needed  *)
(* for the steps of another.                                                 *)
QInv ==
  /\ Sound(sched) /\ QueueWaits /\ Intents /\ NotStarted /\ AcceptedIsIntent
  /\ InHand /\ Visits /\ VisitsBorn /\ BootAlone

(* A result that is written leaves no intent, and ends the run exactly when  *)
(* it is terminal.                                                           *)
LEMMA LandedOp ==
  ASSUME NEW x \in RowType, NEW k \in Kinds, NEW d \in Decisions \cup {"none"}
  PROVE  /\ Landed(x, k, d).op # "intended" /\ ProgressLanded(x, d).op # "intended"
         /\ Preserved(x, k, d).op # "intended"
         /\ Open(Landed(x, k, d)) <=> k \notin Terminal
         /\ Open(ProgressLanded(x, d))
<1>1. Landed(x, k, d).status = StatusOf(k) /\ ProgressLanded(x, d).status = "pending_reconcile"
  BY LandedType, ProgressLandedType
<1>2. Open(Landed(x, k, d)) <=> k \notin Terminal
  BY <1>1 DEF Open, StatusOf, Kinds, Terminal, IsProgress
<1>3. Open(ProgressLanded(x, d))
  BY <1>1 DEF Open, Terminal
<1> QED
  BY <1>2, <1>3, LandedType, ProgressLandedType, PreservedType

(* What _record_result does to the scheduler and the rows. *)
RecordQueueEffect(r, k, s, c, ended) ==
  /\ Sound(sched') /\ sched'.queue = s.queue /\ sched'.runs \subseteq s.runs \cup {r}
  /\ \A q \in Runs \ {r} : row'[q] = row[q] /\ retained'[q] = retained[q]
  /\ row'[r].op = "intended" => row'[r] = row[r]
  /\ ~Open(row[r]) => sched'.runs = s.runs /\ row' = row
                      /\ retained'[r].result = "none"
  /\ core'.ret = c.ret \/ (core'.ret = ended /\ k \in Terminal)

(* _record_result has that effect: it counts or releases the run it is about *)
(* and touches no other.                                                     *)
LEMMA RecordQueue ==
  ASSUME TypeOK,
         NEW r \in Runs, NEW k \in Kinds, NEW d \in Decisions \cup {"none"},
         NEW replay \in BOOLEAN, NEW s, Sound(s), NEW c \in CoreType,
         NEW next \in Pcs, NEW ended \in Returns, NEW onFail \in Pcs,
         Record(r, k, d, replay, s, c, next, ended, onFail)
  PROVE  RecordQueueEffect(r, k, s, c, ended)
<1>1. /\ row \in [Runs -> RowType] /\ retained \in [Runs -> RetainedType] /\ row[r] \in RowType
      /\ s \in SchedulerType
  BY DEF TypeOK, Sound
<1>2. CASE RecordLands(r, k, d, replay, s, c, next, ended)
  <2> DEFINE x == IF replay /\ IsProgress(k) THEN ProgressLanded(row[r], d)
                                             ELSE Landed(row[r], k, d)
             t == Project(s, r, x)
  <2>1. /\ Open(row[r])
        /\ row' = [row EXCEPT ![r] = x] /\ sched' = t
        /\ core' = AfterResult(c, ~Open(x), t.queue, IF Open(x) THEN next ELSE ended)
        /\ retained' = [retained EXCEPT ![r] = Nothing]
    BY <1>2 DEF RecordLands
  <2>2. x.op # "intended" /\ (Open(x) \/ k \in Terminal)
    BY <1>1, LandedOp
  <2> HIDE DEF x
  <2>3. /\ Sound(t) /\ t.queue = s.queue
        /\ t.runs = IF SlotHeld(x) THEN s.runs \cup {r} ELSE s.runs \ {r}
    BY ProjectSound
  <2>4. t.queue \in Seq(Runs)
    BY <1>1, <2>3 DEF SchedulerType
  <2> HIDE DEF t
  <2>5. core'.ret = c.ret \/ (core'.ret = ended /\ k \in Terminal)
    <3>1. CASE Open(x) \/ ~(c.phase = "serve" /\ ~c.draining)
      <4>1. core' = Goto(c, IF Open(x) THEN next ELSE ended)
        BY <2>1, <3>1 DEF AfterResult
      <4>2. (IF Open(x) THEN next ELSE ended) \in Pcs
        BY DEF Returns
      <4> QED
        BY <4>1, <4>2, GotoType
    <3>2. CASE ~Open(x) /\ c.phase = "serve" /\ ~c.draining
      <4> DEFINE waiting == t.queue
      <4>1. core' = BeginDrain(c, waiting, ended) /\ waiting \in Seq(Runs)
        BY <2>1, <2>4, <3>2 DEF AfterResult
      <4> HIDE DEF waiting
      <4>2. core'.ret = ended
        BY <4>1, BeginDrainType
      <4> QED
        BY <2>2, <3>2, <4>2
    <3> QED
      BY <3>1, <3>2
  <2>6. row'[r] = x /\ \A q \in Runs \ {r} : row'[q] = row[q] /\ retained'[q] = retained[q]
    BY <1>1, <2>1
  <2> QED
    BY <2>1, <2>2, <2>3, <2>5, <2>6 DEF RecordQueueEffect
<1>3. CASE RecordDropped(r, s, c, ended)
  <2>1. core'.ret = c.ret
    BY <1>3, GotoType DEF RecordDropped, Returns
  <2> QED
    BY <1>1, <1>3, <2>1 DEF RecordDropped, RecordQueueEffect, Nothing
<1>4. CASE RecordIgnored(r, k, s, c, next)
  <2>1. core'.ret = c.ret
    BY <1>4, GotoType DEF RecordIgnored
  <2> QED
    BY <1>1, <1>4, <2>1 DEF RecordIgnored, RecordQueueEffect
<1>5. CASE RecordFails(r, k, d, s, c, onFail)
  <2>1. PICK preserved \in BOOLEAN :
          row' = IF preserved THEN [row EXCEPT ![r] = Preserved(row[r], k, d)] ELSE row
    BY <1>5 DEF RecordFails
  <2>2. Preserved(row[r], k, d).op # "intended"
    BY <1>1, LandedOp
  <2>3. \A q \in Runs \ {r} : row'[q] = row[q] /\ retained'[q] = retained[q]
    BY <1>1, <1>5, <2>1 DEF RecordFails
  <2>4. row'[r].op = "intended" => row'[r] = row[r]
    BY <1>1, <2>1, <2>2
  <2>5. core'.ret = c.ret
    BY <1>5, GotoType, RaiseType DEF RecordFails
  <2>6. sched' = Finish(s, r) /\ Open(row[r])
    BY <1>5 DEF RecordFails
  <2>7. Sound(sched') /\ sched'.queue = s.queue /\ sched'.runs \subseteq s.runs \cup {r}
    BY <2>6, FinishSound
  <2> QED
    BY <2>3, <2>4, <2>5, <2>6, <2>7 DEF RecordQueueEffect
<1> QED
  BY <1>2, <1>3, <1>4, <1>5 DEF Record

-----------------------------------------------------------------------------
(* _record_result. *)

(* The threads publish nothing new for a run that has none of them. *)
ThreadsQuiet ==
  \A q \in Runs :
    Unstarted(q) /\ worker[q].pc = "none" /\ (\A i \in DOMAIN updates : updates[i].run # q) =>
      worker'[q].pc = "none" /\ \A i \in DOMAIN updates' : updates'[i].run # q

(* Where a caller stands that records a result: what it has in hand, and     *)
(* where it may go on.                                                       *)
RecordPlace(r, s, c, next, ended, onFail) ==
  /\ Sound(s) /\ Queued(s) \subseteq Queued(sched) \ {r} /\ s.runs = sched.runs
  /\ c.phase = core.phase /\ c.todo \subseteq core.todo /\ c.ret \notin InHandPcs
  /\ {next, ended, onFail} \cap {"down", "accepted", "marking", "markOp"} = {}
  /\ c.cur = r \/ {next, ended, onFail} \cap (InHandPcs \cup BootPcs) = {}
  /\ core.phase = "boot" /\ {next, ended, onFail} \cap ({"boot"} \cup BootPcs) # {} =>
       /\ Restoring(core) /\ row[r].op # "intended" /\ row[r].status # "unborn"
       /\ UNCHANGED <<worker, updates>>

(* A step that records a result keeps the invariant. *)
LEMMA RecordQueueKeeps ==
  ASSUME IInv, QInv,
         NEW r \in Runs, NEW k \in Kinds, NEW d \in Decisions \cup {"none"},
         NEW replay \in BOOLEAN, NEW s, NEW c \in CoreType,
         NEW next \in Pcs, NEW ended \in Returns, NEW onFail \in Pcs,
         Record(r, k, d, replay, s, c, next, ended, onFail),
         RecordPlace(r, s, c, next, ended, onFail),
         ended \in InHandPcs => k \notin Terminal,
         ThreadsQuiet
  PROVE  QInv'
<1>1. TypeOK /\ Sound(s) /\ s \in SchedulerType
  BY DEF IInv, RecordPlace, Sound
<1>2. RecordQueueEffect(r, k, s, c, ended)
  BY <1>1, RecordQueue
<1>3. OnlyAdvances(r) /\ AfterRecord(r, c, next, ended, onFail)
  BY <1>1, RecordStep
<1>4. /\ core'.cur = c.cur /\ core'.phase = core.phase /\ core'.todo \subseteq core.todo
      /\ core'.pc \in {next, ended, onFail, "drain", "raise"}
      /\ core'.pc = "drain" => core'.pc \in {next, ended, onFail} \/ core.phase = "serve"
  BY <1>3 DEF AfterRecord, Resumes, RecordPlace
<1>5. Queued(sched') \subseteq Queued(sched) \ {r}
  BY <1>2 DEF RecordQueueEffect, RecordPlace, Queued
<1>6. Queued(sched) \subseteq Runs /\ core'.pc \notin {"down", "accepted", "marking", "markOp"}
  <2>1. Queued(sched) \subseteq Runs
    BY QueuedRuns DEF QInv
  <2>2. core'.pc \notin {"down", "accepted", "marking", "markOp"}
    BY <1>4 DEF RecordPlace
  <2> QED
    BY <2>1, <2>2
<1>7. Sound(sched') /\ QueueWaits'
  BY <1>2, <1>5, <1>6 DEF RecordQueueEffect, QInv, QueueWaits
<1>8. Intents'
  BY <1>2 DEF RecordQueueEffect, QInv, Intents
<1>9. NotStarted' /\ AcceptedIsIntent'
  <2> SUFFICES ASSUME NEW q \in Runs,
                      row'[q].status = "unborn" \/ q \in Queued(sched')
               PROVE  Clean(q)'
    BY <1>6 DEF NotStarted, Unstarted, AcceptedIsIntent, Accepting, At
  <2>1. CASE q = r
    <3>1. row[r].status = "unborn"
      BY <1>3, <1>5, <2>1 DEF OnlyAdvances, Advances
    <3>2. Clean(r) /\ Unstarted(r) /\ ~Open(row[r])
      BY <3>1 DEF QInv, NotStarted, Unstarted, Open
    <3> QED
      BY <1>2, <2>1, <3>2 DEF Clean, RecordQueueEffect, RecordPlace, ThreadsQuiet
  <2>2. CASE q # r
    <3>1. row[q].status = "unborn" \/ q \in Queued(sched)
      BY <1>2, <1>5, <2>2 DEF RecordQueueEffect
    <3>2. Clean(q) /\ Unstarted(q)
      BY <3>1 DEF QInv, NotStarted, Unstarted
    <3> QED
      BY <1>2, <2>2, <3>2 DEF Clean, RecordQueueEffect, RecordPlace, ThreadsQuiet
  <2> QED
    BY <2>1, <2>2
<1>10. InHand'
  <2>1. core'.ret \notin InHandPcs
    BY <1>2 DEF RecordQueueEffect, RecordPlace
  <2>2. ASSUME core'.pc \in InHandPcs \cup BootPcs
        PROVE  core'.cur \notin Queued(sched')
    <3>1. core'.pc \in {next, ended, onFail}
      BY <1>4, <2>2 DEF InHandPcs, BootPcs
    <3>2. c.cur = r
      BY <2>2, <3>1 DEF RecordPlace
    <3> QED
      BY <1>4, <1>5, <3>2
  <2> QED
    BY <2>1, <2>2 DEF InHand
<1>11. Visits'
  BY <1>4, <1>5, <1>6 DEF QInv, Visits
<1>12. BootAlone'
  <2> SUFFICES ASSUME Restoring(core')
               PROVE  /\ updates' = <<>> /\ \A q \in Runs : worker'[q].pc = "none"
                      /\ \A q \in Runs : row'[q].op = "intended" => retained'[q].result = "none"
    BY <1>6 DEF BootAlone, At
  <2>1. core.phase = "boot" /\ core'.pc \in {next, ended, onFail} \cap ({"boot"} \cup BootPcs)
    BY <1>4, <1>6 DEF Restoring, BootPcs
  <2>2. Restoring(core) /\ row[r].op # "intended" /\ UNCHANGED <<worker, updates>>
    BY <2>1 DEF RecordPlace
  <2> QED
    BY <1>2, <2>2 DEF QInv, BootAlone, RecordQueueEffect
<1>13. VisitsBorn'
  <2> SUFFICES ASSUME core'.phase = "boot", NEW q \in Runs,
                      q \in core'.todo \/ (core'.pc \in BootPcs /\ core'.cur = q)
               PROVE  row[q].status # "unborn"
    BY <1>2, <1>3 DEF VisitsBorn, RecordQueueEffect, OnlyAdvances, Advances
  <2>1. CASE q \in core'.todo
    BY <1>4, <2>1 DEF QInv, VisitsBorn
  <2>2. CASE core'.pc \in BootPcs /\ core'.cur = q
    <3>1. core'.pc \in {next, ended, onFail} \cap BootPcs
      BY <1>4, <2>2 DEF BootPcs
    <3>2. q = r
      BY <1>4, <2>2, <3>1 DEF RecordPlace
    <3> QED
      BY <1>4, <3>1, <3>2 DEF RecordPlace
  <2> QED
    BY <2>1, <2>2
<1> QED
  BY <1>7, <1>8, <1>9, <1>10, <1>11, <1>12, <1>13 DEF QInv

-----------------------------------------------------------------------------
(* Steps that record nothing. *)

(* The rows change, but none becomes an intent, none is unborn again, and    *)
(* those that wait stay as they are.                                         *)
RowsWait ==
  \A q \in Runs :
    /\ row'[q].op = "intended" =>
         row[q].op = "intended" /\ row'[q].stash = row[q].stash
         /\ row'[q].approval = row[q].approval
    /\ row'[q].status = "unborn" => row[q].status = "unborn"
    /\ q \in Queued(sched') => row'[q].op = row[q].op /\ row'[q].status \notin Terminal

(* No run that waits or is unborn is counted by this step. *)
SlotsWait ==
  \A q \in Runs : row[q].status = "unborn" \/ q \in Queued(sched') =>
    (q \in sched'.runs => q \in sched.runs)

(* This step keeps no new result. *)
RetainedWaits == \A q \in Runs : retained[q].result = "none" => retained'[q].result = "none"

(* What is in memory changes for no run that waits. *)
MemoryWaits ==
  /\ Sound(sched') /\ Queued(sched') \subseteq Queued(sched)
  /\ SlotsWait /\ RetainedWaits /\ ThreadsQuiet

(* The core goes on to a step that respects the queue. *)
CoreMoves ==
  /\ InHand' /\ Visits' /\ VisitsBorn' /\ core'.pc # "down"
  /\ Restoring(core') => Restoring(core) /\ UNCHANGED <<worker, updates>>
  /\ \A q \in Runs : Accepting(q)' => Accepting(q) /\ row'[q] = row[q] /\ sched' = sched

(* A step that records no result and accepts no run keeps the invariant when *)
(* rows, memory and core do what the three definitions above say.            *)
LEMMA PlainQueueKeeps ==
  ASSUME IInv, QInv, RowsWait, MemoryWaits, CoreMoves
  PROVE  QInv'
<1>1. Queued(sched) \subseteq Runs /\ Queued(sched') \subseteq Queued(sched)
  BY QueuedRuns DEF QInv, MemoryWaits
<1>2. QueueWaits'
  BY <1>1 DEF QInv, QueueWaits, RowsWait
<1>3. Intents'
  BY DEF QInv, Intents, RowsWait
<1>4. NotStarted'
  <2> SUFFICES ASSUME NEW q \in Runs,
                      row'[q].status = "unborn" \/ q \in Queued(sched') \/ Accepting(q)'
               PROVE  Clean(q)'
    BY DEF NotStarted, Unstarted
  <2>1. Clean(q) /\ Unstarted(q)
    BY <1>1 DEF QInv, NotStarted, Unstarted, RowsWait, CoreMoves
  <2>2. q \in sched'.runs => q \in sched.runs
    BY DEF MemoryWaits, SlotsWait, RowsWait, CoreMoves
  <2> QED
    BY <2>1, <2>2 DEF Clean, MemoryWaits, RetainedWaits, ThreadsQuiet
<1>5. AcceptedIsIntent'
  BY DEF QInv, AcceptedIsIntent, CoreMoves
<1>6. BootAlone'
  BY DEF QInv, BootAlone, CoreMoves, RowsWait, MemoryWaits, RetainedWaits, At
<1> QED
  BY <1>2, <1>3, <1>4, <1>5, <1>6 DEF QInv, MemoryWaits, CoreMoves

(* No row is written. *)
LEMMA SameRowsWait ==
  ASSUME QInv, row' = row, Queued(sched') \subseteq Queued(sched)
  PROVE  RowsWait
BY QueuedRuns DEF RowsWait, QInv, QueueWaits

(* A write to the row of one run that does not wait. *)
LEMMA WriteRowsWait ==
  ASSUME IInv, QInv, NEW r \in Runs, NEW x \in RowType, row' = [row EXCEPT ![r] = x],
         Queued(sched') \subseteq Queued(sched),
         x.op = "intended" => row[r].op = "intended" /\ x.stash = row[r].stash
                              /\ x.approval = row[r].approval,
         x.status = "unborn" => row[r].status = "unborn",
         r \in Queued(sched') => x.op = row[r].op /\ x.status \notin Terminal
  PROVE  RowsWait
<1>1. row'[r] = x /\ \A q \in Runs \ {r} : row'[q] = row[q]
  BY Types
<1>2. ASSUME NEW q \in Runs, q # r
      PROVE  q \in Queued(sched') => row[q].status \notin Terminal
  BY DEF QInv, QueueWaits
<1> QED
  BY <1>1, <1>2 DEF RowsWait

(* Nothing in memory changes. *)
LEMMA SameMemoryWaits ==
  ASSUME QInv, UNCHANGED <<sched, retained>>, Untouched
  PROVE  MemoryWaits
BY DEF QInv, MemoryWaits, SlotsWait, RetainedWaits, ThreadsQuiet, Untouched

(* Only the scheduler changes, and nothing enters the queue. *)
LEMMA QueueMemoryWaits ==
  ASSUME QInv, Sound(sched'), Queued(sched') \subseteq Queued(sched), SlotsWait,
         UNCHANGED retained, Untouched
  PROVE  MemoryWaits
BY DEF QInv, MemoryWaits, SlotsWait, RetainedWaits, ThreadsQuiet, Untouched

(* The core goes on where no run is in hand. *)
LEMMA OutOfHand ==
  ASSUME IInv, QInv, Queued(sched') \subseteq Queued(sched), RowsWait,
         core'.pc \notin InHandPcs \cup {"down", "marking"}, core'.ret \notin InHandPcs,
         core'.phase = "boot" => /\ core.phase = "boot" /\ core'.todo \subseteq core.todo
                                 /\ core'.pc \notin {"boot"} \cup BootPcs
  PROVE  CoreMoves
<1>1. InHand'
  BY DEF InHand
<1>2. Visits'
  BY DEF Visits, QInv, InHandPcs
<1>3. ~Restoring(core')
  BY DEF Restoring
<1>4. \A q \in Runs : ~Accepting(q)'
  BY DEF Accepting, At, InHandPcs
<1>5. VisitsBorn'
  BY DEF QInv, VisitsBorn, RowsWait
<1> QED
  BY <1>1, <1>2, <1>3, <1>4, <1>5 DEF CoreMoves

(* The core goes on with the run in hand. *)
LEMMA StaysInHand ==
  ASSUME IInv, QInv, Queued(sched') \subseteq Queued(sched), RowsWait, Untouched,
         NEW p \in Pcs \ {"down", "accepted"}, core' = Goto(core, p),
         p \in {"marking", "markOp"} => core.pc \in {"marking", "markOp"},
         \/ core.pc \in InHandPcs
         \/ core.phase = "boot" /\ core.pc \in BootPcs
         \/ core.cur \notin Queued(sched')
         \/ p \notin InHandPcs /\ (core.phase = "boot" => p \notin BootPcs),
         core.phase = "boot" /\ p \in {"boot"} \cup BootPcs => core.pc \in BootPcs
  PROVE  CoreMoves
<1>1. /\ core'.pc = p /\ core'.cur = core.cur /\ core'.ret = core.ret
      /\ core'.todo = core.todo /\ core'.phase = core.phase
  BY Types, GotoType
<1>2. InHand'
  BY <1>1 DEF QInv, InHand
<1>3. Visits'
  BY <1>1 DEF QInv, Visits
<1>4. VisitsBorn'
  BY <1>1 DEF QInv, VisitsBorn, RowsWait
<1> QED
  BY <1>1, <1>2, <1>3, <1>4 DEF CoreMoves, Restoring, Accepting, At, Untouched

(* The core begins to drain the queue. *)
LEMMA BeginsDrain ==
  ASSUME NEW c \in CoreType, NEW q \in Seq(Runs), NEW p \in Returns,
         core' = BeginDrain(c, q, p)
  PROVE  /\ core'.pc = "drain" /\ core'.ret = p /\ core'.todo = c.todo
         /\ core'.phase = c.phase
BY BeginDrainType

(* The core begins to drain the queue the scheduler has now. *)
LEMMA DrainsQueue ==
  ASSUME IInv, NEW p \in Returns, core' = BeginDrain(core, sched.queue, p)
  PROVE  /\ core'.pc = "drain" /\ core'.ret = p /\ core'.todo = core.todo
         /\ core'.phase = core.phase
<1>1. core \in CoreType /\ sched.queue \in Seq(Runs)
  BY Types DEF SchedulerType
<1> QED
  BY <1>1, BeginsDrain

-----------------------------------------------------------------------------
(* The restore. *)

(* The core leaves the threads alone. *)
LEMMA UntouchedQuiet ==
  ASSUME Untouched
  PROVE  ThreadsQuiet
BY DEF Untouched, ThreadsQuiet

(* _restore_scheduler applies a stashed result, or goes on with the run. *)
LEMMA BootReplayQueue ==
  ASSUME IInv, QInv, NEW r \in Runs, BootReplay(r)
  PROVE  QInv'
<1> DEFINE c == [core EXCEPT !.todo = @ \ {r}, !.cur = r]
<1>1. Untouched /\ At("boot") /\ r \in core.todo
  BY DEF BootReplay
<1>2. c \in CoreType /\ c.pc = core.pc /\ c.phase = core.phase /\ c.cur = r
      /\ c.todo = core.todo \ {r} /\ c.ret = core.ret
  BY Types DEF CoreType
<1>3. core.phase = "boot"
  BY <1>1 DEF IInv, ServeOrder, At
<1>4. r \notin Queued(sched) /\ row[r].status # "unborn"
  BY <1>1, <1>3 DEF QInv, Visits, VisitsBorn
<1> HIDE DEF c
<1>5. CASE row[r].stash = "none"
  <2>1. core' = Goto(c, "bootRun") /\ row' = row /\ sched' = sched /\ retained' = retained
    BY <1>5 DEF BootReplay, c
  <2>2. /\ core'.pc = "bootRun" /\ core'.cur = r /\ core'.ret = core.ret
        /\ core'.todo = core.todo \ {r} /\ core'.phase = core.phase
    BY <1>2, <2>1, GotoType DEF Pcs
  <2>3. InHand' /\ Visits' /\ VisitsBorn'
    BY <1>3, <1>4, <2>1, <2>2 DEF QInv, InHand, Visits, VisitsBorn
  <2>4. CoreMoves
    BY <1>1, <1>3, <2>2, <2>3 DEF CoreMoves, Restoring, At, Untouched, Accepting
  <2> QED
    BY <1>1, <2>1, <2>4, PlainQueueKeeps, SameRowsWait, SameMemoryWaits
<1>6. CASE row[r].stash # "none"
  <2>1. Record(r, row[r].stash, row[r].answer, TRUE, sched, c, "bootRun", "boot", "bootRun")
    BY <1>6 DEF BootReplay, c
  <2>2. row[r].stash \in Kinds /\ row[r].answer \in Decisions \cup {"none"}
    BY <1>6, Types DEF RowType
  <2>3. row[r].op # "intended"
    BY <1>6 DEF QInv, Intents
  <2>4. RecordPlace(r, sched, c, "bootRun", "boot", "bootRun")
    <3>1. Restoring(core)
      BY <1>1, <1>3 DEF Restoring, At
    <3>2. Sound(sched) /\ Queued(sched) \subseteq Queued(sched) \ {r}
      BY <1>4 DEF QInv
    <3> QED
      BY <1>1, <1>2, <1>4, <2>3, <3>1, <3>2 DEF RecordPlace, QInv, InHand, Untouched
  <2>5. {"bootRun", "boot"} \subseteq Pcs /\ "boot" \in Returns /\ TRUE \in BOOLEAN
    BY DEF Pcs, Returns
  <2>6. "boot" \notin InHandPcs
    BY DEF InHandPcs
  <2>7. ThreadsQuiet
    BY <1>1, UntouchedQuiet
  <2> QED
    BY <1>2, <2>1, <2>2, <2>4, <2>5, <2>6, <2>7, RecordQueueKeeps
<1> QED
  BY <1>5, <1>6

(* _restore_scheduler puts an intent back in the queue. *)
LEMMA BootEnqueueQueue ==
  ASSUME IInv, QInv, NEW r \in Runs, BootEnqueue(r)
  PROVE  QInv'
<1> DEFINE f == Finish(sched, r)
<1>1. /\ Untouched /\ core' = Goto(core, "boot") /\ sched' = Enqueue(f, r)
      /\ row' = row /\ retained' = retained /\ core.phase = "boot" /\ core.pc = "bootRun"
      /\ core.cur = r /\ row[r].op = "intended"
  BY DEF BootEnqueue, IInv, ServeOrder, At
<1>2. r \notin Queued(sched) /\ row[r].status \notin Terminal /\ r \notin core.todo
  BY <1>1 DEF QInv, InHand, IInv, CurrentOpen, BootPcs, BootOrder, DispatchPcs
<1>3. Sound(f) /\ Queued(f) = Queued(sched) /\ f.runs = sched.runs \ {r}
  BY FinishSound DEF QInv, Queued
<1> HIDE DEF f
<1>4. /\ Sound(sched') /\ Queued(sched') = Queued(sched) \cup {r}
      /\ sched'.runs = sched.runs \ {r}
  BY <1>1, <1>2, <1>3, EnqueueSound
<1>5. /\ core'.pc = "boot" /\ core'.cur = r /\ core'.ret = core.ret /\ core'.todo = core.todo
      /\ core'.phase = core.phase
  BY <1>1, Types, GotoType DEF Pcs
<1>6. QueueWaits' /\ Intents' /\ AcceptedIsIntent'
  BY <1>1, <1>2, <1>4, <1>5 DEF QInv, QueueWaits, Intents, AcceptedIsIntent, Accepting, At
<1>7. Restoring(core)
  BY <1>1 DEF Restoring, BootPcs
<1>8. NotStarted'
  <2>1. retained[r].result = "none" /\ worker[r].pc = "none" /\ updates = <<>>
    BY <1>1, <1>7 DEF QInv, BootAlone
  <2> SUFFICES ASSUME NEW q \in Runs, q = r \/ row[q].status = "unborn" \/ q \in Queued(sched)
               PROVE  Clean(q)'
    BY <1>1, <1>4, <1>5 DEF NotStarted, Unstarted, Accepting, At
  <2>2. CASE q = r
    BY <1>1, <1>4, <2>1, <2>2 DEF Clean, Untouched
  <2>3. CASE q # r
    BY <1>1, <1>4, <2>3 DEF Clean, Untouched, QInv, NotStarted, Unstarted
  <2> QED
    BY <2>2, <2>3
<1>9. InHand' /\ Visits' /\ VisitsBorn'
  BY <1>1, <1>2, <1>4, <1>5
     DEF QInv, InHand, Visits, VisitsBorn, InHandPcs, BootPcs
<1>10. BootAlone'
  BY <1>1, <1>5, <1>7 DEF QInv, BootAlone, At, Untouched
<1> QED
  BY <1>4, <1>6, <1>8, <1>9, <1>10 DEF QInv

(* _restore_scheduler projects the slot mark of a dispatched run. *)
LEMMA BootProjectQueue ==
  ASSUME IInv, QInv, NEW r \in Runs, BootProject(r)
  PROVE  QInv'
<1>1. /\ Untouched /\ row' = row /\ retained' = retained
      /\ core' = [core EXCEPT !.pc = "recon", !.ret = "boot"] /\ core.pc = "bootRun"
      /\ core.cur = r /\ row[r].op # "intended" /\ core.phase = "boot"
      /\ sched' = IF row[r].op = "absent" THEN sched ELSE Project(sched, r, row[r])
  BY DEF BootProject, At, IInv, ServeOrder
<1>2. /\ core'.pc = "recon" /\ core'.ret = "boot" /\ core'.cur = r
      /\ core'.todo = core.todo /\ core'.phase = core.phase
  BY <1>1, Types DEF CoreType
<1>3. r \notin Queued(sched) /\ row[r].status # "unborn"
  BY <1>1 DEF QInv, InHand, VisitsBorn, BootPcs
<1>4. Sound(sched') /\ Queued(sched') = Queued(sched) /\ sched'.runs \subseteq sched.runs \cup {r}
  <2>1. CASE row[r].op = "absent"
    BY <1>1, <2>1 DEF QInv
  <2>2. CASE row[r].op # "absent"
    <3> DEFINE t == Project(sched, r, row[r])
    <3>1. sched' = t
      BY <1>1, <2>2
    <3>2. Sound(sched)
      BY DEF QInv
    <3>3. /\ Sound(t) /\ t.queue = sched.queue
          /\ t.runs = IF SlotHeld(row[r]) THEN sched.runs \cup {r} ELSE sched.runs \ {r}
      BY <3>2, ProjectSound
    <3> HIDE DEF t
    <3> QED
      BY <3>1, <3>3 DEF Queued
  <2> QED
    BY <2>1, <2>2
<1>5. MemoryWaits
  BY <1>1, <1>3, <1>4, QueueMemoryWaits DEF SlotsWait
<1>6. InHand' /\ Visits' /\ VisitsBorn'
  BY <1>1, <1>2, <1>3, <1>4 DEF QInv, InHand, Visits, VisitsBorn, InHandPcs, BootPcs
<1>7. CoreMoves
  BY <1>1, <1>2, <1>6 DEF CoreMoves, Restoring, BootPcs, Untouched, Accepting, At
<1> QED
  BY <1>1, <1>4, <1>5, <1>7, PlainQueueKeeps, SameRowsWait

(* _restore_scheduler ends a run whose process is gone. *)
LEMMA BootLostQueue ==
  ASSUME IInv, QInv, NEW r \in Runs, BootLost(r)
  PROVE  QInv'
<1> DEFINE k == IF row[r].cancel THEN "cancelled" ELSE "failed"
<1>1. /\ Untouched /\ core.cur = r /\ core.pc = "bootRun" /\ row[r].op # "intended"
      /\ Record(r, k, "none", FALSE, sched, core, "boot", "boot", "raise")
      /\ core.phase = "boot"
  BY DEF BootLost, At, IInv, ServeOrder
<1>2. k \in Kinds /\ "none" \in Decisions \cup {"none"} /\ FALSE \in BOOLEAN
      /\ {"boot", "raise"} \subseteq Pcs /\ "boot" \in Returns
  BY DEF Kinds, Terminal, Pcs, Returns
<1> HIDE DEF k
<1>3. r \notin Queued(sched) /\ row[r].status # "unborn"
  BY <1>1 DEF QInv, InHand, VisitsBorn, BootPcs
<1>4. RecordPlace(r, sched, core, "boot", "boot", "raise")
  <2>1. Restoring(core)
    BY <1>1 DEF Restoring, BootPcs
  <2>2. Sound(sched) /\ Queued(sched) \subseteq Queued(sched) \ {r}
    BY <1>3 DEF QInv
  <2> QED
    BY <1>1, <1>3, <2>1, <2>2 DEF RecordPlace, QInv, InHand, Untouched
<1> QED
  BY <1>1, <1>2, <1>4, Types, RecordQueueKeeps, UntouchedQuiet DEF InHandPcs

(* A process starts on the rows the last one left. *)
LEMMA OpenProcessQueue ==
  ASSUME IInv, QInv, OpenProcess
  PROVE  QInv'
<1> DEFINE T == {r \in Runs : Open(row[r])}
<1>1. /\ core' = [core EXCEPT !.pc = "boot", !.todo = T] /\ Untouched /\ core.pc = "down"
      /\ row' = row /\ sched' = sched /\ retained' = retained
  BY DEF OpenProcess, At
<1>2. \A r \in T : row[r].status # "unborn"
  BY DEF Open
<1> HIDE DEF T
<1>3. /\ core'.pc = "boot" /\ core'.todo = T /\ core'.phase = core.phase
      /\ core'.ret = core.ret /\ core'.cur = core.cur
  BY <1>1, Types DEF CoreType
<1>4. Queued(sched) = {}
  BY <1>1 DEF QInv, BootAlone, At, Queued
<1>5. InHand' /\ Visits' /\ VisitsBorn'
  BY <1>1, <1>2, <1>3, <1>4
     DEF QInv, InHand, Visits, VisitsBorn, InHandPcs, BootPcs
<1>6. CoreMoves
  BY <1>1, <1>3, <1>5 DEF CoreMoves, Restoring, Untouched, Accepting, At
<1> QED
  BY <1>1, <1>6, PlainQueueKeeps, SameRowsWait, SameMemoryWaits

(* The restore is over; the restored queue is drained. *)
LEMMA BootEndQueue ==
  ASSUME IInv, QInv, BootEnd
  PROVE  QInv'
<1>1. /\ Untouched /\ row' = row /\ sched' = sched /\ retained' = retained /\ core.todo = {}
  BY DEF BootEnd
<1>0. core \in CoreType /\ sched \in SchedulerType
  BY Types
<1>2. RowsWait /\ MemoryWaits
  BY <1>1, SameRowsWait, SameMemoryWaits
<1>3. core.phase = "boot"
  BY DEF IInv, ServeOrder, BootEnd, At
<1>4. CASE Background
  <2>1. core' = BeginDrain(core, sched.queue, "idle") /\ "idle" \in Returns
    BY <1>4 DEF BootEnd, Returns, Pcs
  <2>2. core'.pc = "drain" /\ core'.ret = "idle" /\ core'.todo = core.todo
    BY <2>1, DrainsQueue
  <2>3. /\ core'.pc \notin InHandPcs \cup {"down", "marking"} /\ core'.ret \notin InHandPcs
        /\ core'.pc \notin {"boot"} \cup BootPcs /\ core'.todo \subseteq core.todo
    BY <2>2 DEF InHandPcs, BootPcs
  <2>4. CoreMoves
    BY <1>1, <1>2, <1>3, <2>3, OutOfHand
  <2> QED
    BY <1>2, <2>4, PlainQueueKeeps
<1>5. CASE ~Background
  <2>1. core' = [core EXCEPT !.pc = "idle", !.ret = "idle", !.phase = "serve"]
    BY <1>5 DEF BootEnd
  <2>2. core'.pc = "idle" /\ core'.ret = "idle" /\ core'.phase = "serve"
    BY <1>0, <2>1 DEF CoreType
  <2>3. CoreMoves
    BY <1>1, <1>2, <2>2, OutOfHand DEF InHandPcs
  <2> QED
    BY <1>2, <2>3, PlainQueueKeeps
<1> QED
  BY <1>4, <1>5

-----------------------------------------------------------------------------
(* Reconciliation. *)

(* Projecting the slot of a run that does not wait changes nothing for those *)
(* that do.                                                                  *)
LEMMA ProjectWaits ==
  ASSUME QInv, NEW r \in Runs, NEW x, sched' = Project(sched, r, x),
         r \notin Queued(sched), row[r].status # "unborn" \/ ~SlotHeld(x),
         UNCHANGED retained, ThreadsQuiet
  PROVE  MemoryWaits /\ Queued(sched') = Queued(sched)
<1> DEFINE t == Project(sched, r, x)
<1>1. Sound(sched)
  BY DEF QInv
<1>2. /\ Sound(t) /\ t.queue = sched.queue
      /\ t.runs = IF SlotHeld(x) THEN sched.runs \cup {r} ELSE sched.runs \ {r}
  BY <1>1, ProjectSound
<1>3. sched' = t
  OBVIOUS
<1> HIDE DEF t
<1>4. Queued(sched') = Queued(sched) /\ Sound(sched')
  BY <1>2, <1>3 DEF Queued
<1>5. SlotsWait
  BY <1>2, <1>3, <1>4 DEF SlotsWait
<1> QED
  BY <1>4, <1>5 DEF MemoryWaits, RetainedWaits

(* _reconcile_one, at start-up and on request. *)
LEMMA ReconQueue ==
  ASSUME IInv, QInv, NEW r \in Runs,
         \/ ReconReplay(r) \/ ReconUntracked(r) \/ ReconObserved(r)
         \/ ReconUnknownOp(r) \/ ReconUnknownRun(r)
  PROVE  QInv'
<1>0. row \in [Runs -> RowType] /\ row[r] \in RowType /\ core \in CoreType
  BY Types
<1>1. Untouched /\ core.cur = r /\ core.pc \in {"recon", "reconTail", "reconRun"}
  BY DEF ReconReplay, ReconUntracked, ReconObserved, ReconUnknownOp, ReconUnknownRun, At
<1>2. core.pc \in BootPcs
  BY <1>1 DEF BootPcs
<1>3. /\ core.ret \in Returns /\ core.ret \in Pcs /\ core.ret \notin InHandPcs \cup BootPcs
      /\ core.ret \notin {"down", "accepted", "marking", "markOp"}
  <2>1. core.ret \in Returns
    BY <1>0 DEF CoreType
  <2>2. core.ret \notin InHandPcs
    BY DEF QInv, InHand
  <2> QED
    BY <2>1, <2>2 DEF Returns, BootPcs
<1>4. {"reconTail", "reconRun"} \subseteq Pcs \cap BootPcs
  BY DEF Pcs, BootPcs
<1>5. {"reconTail", "reconRun"} \cap (InHandPcs \cup {"down", "accepted", "marking", "markOp"}) = {}
  BY DEF InHandPcs
<1>6. row[r].op # "intended" => r \notin Queued(sched)
  BY DEF QInv, QueueWaits
<1>7. core.phase = "boot" => Restoring(core) /\ row[r].status # "unborn"
  BY <1>1, <1>2 DEF QInv, VisitsBorn, Restoring
<1>8. ThreadsQuiet
  BY <1>1, UntouchedQuiet
<1>9. ASSUME RowsWait, Queued(sched') \subseteq Queued(sched),
             core' = Goto(core, core.ret) \/ core' = Goto(core, "reconTail")
               \/ core' = Goto(core, "reconRun")
      PROVE  CoreMoves
  <2>1. ASSUME NEW p \in Pcs, core' = Goto(core, p),
               p \notin InHandPcs \cup {"down", "accepted", "marking", "markOp"}
        PROVE  CoreMoves
    BY <1>1, <1>2, <1>9, <2>1, StaysInHand
  <2> QED
    BY <1>3, <1>4, <1>5, <1>9, <2>1
<1>10. CASE ReconReplay(r)
  <2>1. CASE row[r].stash = "none" \/ WorkerAlive(r)
    <3>1. core' = Goto(core, "reconTail") /\ UNCHANGED <<row, sched, retained, faults>>
      BY <1>10, <2>1 DEF ReconReplay
    <3> QED
      BY <1>1, <1>9, <3>1, PlainQueueKeeps, SameRowsWait, SameMemoryWaits
  <2>2. CASE ~(row[r].stash = "none" \/ WorkerAlive(r))
    <3>1. Record(r, row[r].stash, row[r].answer, TRUE, sched, core,
                 "reconTail", core.ret, "reconTail")
      BY <1>10, <2>2 DEF ReconReplay
    <3>2. row[r].stash \in Kinds /\ row[r].answer \in Decisions \cup {"none"} /\ TRUE \in BOOLEAN
      BY <1>0, <2>2 DEF RowType
    <3>3. row[r].op # "intended"
      BY <2>2 DEF QInv, Intents
    <3>4. RecordPlace(r, sched, core, "reconTail", core.ret, "reconTail")
      <4>1. Sound(sched) /\ Queued(sched) \subseteq Queued(sched) \ {r}
        BY <1>6, <3>3 DEF QInv
      <4>2. {"reconTail", core.ret, "reconTail"} \cap {"down", "accepted", "marking", "markOp"} = {}
        BY <1>3
      <4> QED
        BY <1>1, <1>3, <1>7, <3>3, <4>1, <4>2 DEF RecordPlace, Untouched
    <3> QED
      BY <1>0, <1>3, <1>4, <1>8, <3>1, <3>2, <3>4, RecordQueueKeeps
  <2> QED
    BY <2>1, <2>2
<1>11. CASE ReconUntracked(r)
  <2> DEFINE x == [row[r] EXCEPT !.mark = "released", !.status = "pending_reconcile"]
  <2>1. /\ core' = Goto(core, core.ret) /\ retained' = retained
        /\ row' = [row EXCEPT ![r].mark = "released", ![r].status = "pending_reconcile"]
        /\ sched' = Project(sched, r, row'[r]) /\ row[r].op = "absent"
    BY <1>11 DEF ReconUntracked
  <2>2. row' = [row EXCEPT ![r] = x] /\ row'[r] = x
    BY <1>0, <2>1
  <2>3. /\ x \in RowType /\ x.status = "pending_reconcile" /\ x.op = "absent"
        /\ x.mark = "released"
    BY <1>0, <2>1 DEF RowType, Statuses
  <2> HIDE DEF x
  <2>4. sched' = Project(sched, r, x) /\ ~SlotHeld(x) /\ r \notin Queued(sched)
    BY <1>6, <2>1, <2>2, <2>3 DEF SlotHeld
  <2>5. MemoryWaits /\ Queued(sched') = Queued(sched)
    BY <1>8, <2>1, <2>4, ProjectWaits
  <2>6. RowsWait
    BY <2>2, <2>3, <2>4, <2>5, WriteRowsWait
  <2> QED
    BY <1>9, <2>1, <2>5, <2>6, PlainQueueKeeps
<1>12. CASE ReconObserved(r)
  <2>1. core' = Goto(core, core.ret) /\ UNCHANGED <<row, sched, retained, faults>>
    BY <1>12 DEF ReconObserved
  <2> QED
    BY <1>1, <1>9, <2>1, PlainQueueKeeps, SameRowsWait, SameMemoryWaits
<1>13. CASE ReconUnknownOp(r)
  <2> DEFINE x == [row[r] EXCEPT !.op = "unknown"]
  <2>1. /\ core' = Goto(core, core.ret) \/ core' = Goto(core, "reconRun")
        /\ UNCHANGED <<sched, retained, faults>> /\ row' = [row EXCEPT ![r].op = "unknown"]
        /\ row[r].op = "dispatched"
    BY <1>13 DEF ReconUnknownOp
  <2>2. row' = [row EXCEPT ![r] = x]
    BY <1>0, <2>1
  <2>3. x \in RowType /\ x.status = row[r].status /\ x.op = "unknown"
    BY <1>0 DEF RowType, OpStatuses
  <2> HIDE DEF x
  <2>4. RowsWait
    BY <1>6, <2>1, <2>2, <2>3, WriteRowsWait
  <2> QED
    BY <1>1, <1>9, <2>1, <2>4, PlainQueueKeeps, SameMemoryWaits
<1>14. CASE ReconUnknownRun(r)
  <2> DEFINE x == [row[r] EXCEPT !.status = "pending_reconcile"]
  <2>1. /\ core' = Goto(core, core.ret) /\ UNCHANGED <<sched, retained, faults>>
        /\ row' = [row EXCEPT ![r].status = "pending_reconcile"]
    BY <1>14 DEF ReconUnknownRun
  <2>2. row' = [row EXCEPT ![r] = x]
    BY <1>0, <2>1
  <2>3. /\ x \in RowType /\ x.status = "pending_reconcile" /\ x.op = row[r].op
        /\ x.stash = row[r].stash /\ x.approval = row[r].approval
    BY <1>0 DEF RowType, Statuses
  <2> HIDE DEF x
  <2>4. RowsWait
    BY <2>1, <2>2, <2>3, WriteRowsWait DEF Terminal
  <2> QED
    BY <1>1, <1>9, <2>1, <2>4, PlainQueueKeeps, SameMemoryWaits
<1> QED
  BY <1>10, <1>11, <1>12, <1>13, <1>14

(* Every step of the restore. *)
LEMMA RestoreQueue ==
  ASSUME IInv, QInv, Restore
  PROVE  QInv'
BY BootReplayQueue, BootEnqueueQueue, BootProjectQueue, BootLostQueue, OpenProcessQueue,
   BootEndQueue, ReconQueue DEF Restore

-----------------------------------------------------------------------------
(* poll. *)

(* A run of which something is kept, running or on its way does not wait. *)
LEMMA NotWaiting ==
  ASSUME QInv, NEW r \in Runs, ~Clean(r)
  PROVE  r \notin Queued(sched) /\ row[r].status # "unborn"
BY DEF QInv, NotStarted, Unstarted

(* The core goes on, with no row and no queue changed. *)
LEMMA ServesOn ==
  ASSUME IInv, QInv, UNCHANGED <<row, sched>>, RetainedWaits, ThreadsQuiet,
         core'.phase # "boot", core'.pc \notin InHandPcs \cup {"down", "marking"},
         core'.ret \notin InHandPcs
  PROVE  QInv'
<1>1. RowsWait
  BY SameRowsWait
<1>2. MemoryWaits
  BY DEF MemoryWaits, SlotsWait, QInv
<1>3. CoreMoves
  BY <1>1, OutOfHand
<1> QED
  BY <1>1, <1>2, <1>3, PlainQueueKeeps

(* Every step of poll. *)
LEMMA PollQueue ==
  ASSUME IInv, QInv, Poll
  PROVE  QInv'
<1>0. /\ core \in CoreType /\ retained \in [Runs -> RetainedType]
      /\ worker \in [Runs -> WorkerType] /\ updates \in Seq([run : Runs, result : Kinds])
  BY Types
<1>1. core.ret \notin InHandPcs /\ Sound(sched)
  BY DEF QInv, InHand
<1>2. CASE PollBegin
  <2> DEFINE m == [r \in Runs |-> [retained[r] EXCEPT !.wait = IF @ = 0 THEN 0 ELSE @ - 1]]
             T == {r \in Runs : retained[r].result # "none" /\ m[r].wait = 0}
  <2>1. /\ Untouched /\ row' = row /\ sched' = sched /\ At("idle")
        /\ retained' = m /\ core' = [core EXCEPT !.pc = "retry", !.todo = T]
    BY <1>2 DEF PollBegin
  <2>2. RetainedWaits
    BY <1>0, <2>1 DEF RetainedWaits, RetainedType
  <2> HIDE DEF m, T
  <2>3. core.phase # "boot"
    BY <2>1, Serving DEF At, BootPcs, DispatchPcs
  <2>4. core'.pc = "retry" /\ core'.phase = core.phase /\ core'.ret = core.ret
    BY <1>0, <2>1 DEF CoreType
  <2>5. ThreadsQuiet
    BY <2>1, UntouchedQuiet
  <2> QED
    BY <1>1, <2>1, <2>2, <2>3, <2>4, <2>5, ServesOn DEF InHandPcs
<1>3. CASE RetryEnd
  <2>1. /\ Untouched /\ UNCHANGED <<row, sched, retained, faults>> /\ At("retry")
    BY <1>3 DEF RetryEnd
  <2>2. core.phase # "boot" /\ RetainedWaits /\ ThreadsQuiet
    BY <2>1, Serving, UntouchedQuiet DEF At, BootPcs, DispatchPcs, RetainedWaits
  <2>3. /\ core'.phase = core.phase /\ core'.pc \in {"updates", "drain"}
        /\ core'.ret \in {core.ret, "ready"}
    <3>1. CASE Background
      <4>1. core' = Goto(core, "updates") /\ "updates" \in Pcs
        BY <1>3, <3>1 DEF RetryEnd, Pcs
      <4> QED
        BY <1>0, <4>1, GotoType
    <3>2. CASE ~Background
      <4>1. core' = BeginDrain(core, sched.queue, "ready") /\ "ready" \in Returns
        BY <1>3, <3>2 DEF RetryEnd, Returns, Pcs
      <4> QED
        BY <4>1, DrainsQueue
    <3> QED
      BY <3>1, <3>2
  <2> QED
    BY <1>1, <2>1, <2>2, <2>3, ServesOn DEF InHandPcs
<1>4. CASE UpdatesEnd
  <2>1. /\ UNCHANGED <<row, sched, retained, updates>> /\ At("updates") /\ worker' = Pruned
        /\ core' = BeginDrain(core, sched.queue, "ready") /\ "ready" \in Returns
    BY <1>4 DEF UpdatesEnd, Returns, Pcs
  <2>2. core.phase # "boot"
    BY <2>1, Serving DEF At, BootPcs, DispatchPcs
  <2>3. ThreadsQuiet /\ RetainedWaits
    BY <2>1 DEF Pruned, NoWorker, ThreadsQuiet, RetainedWaits
  <2>4. core'.pc = "drain" /\ core'.ret = "ready" /\ core'.phase = core.phase
    BY <2>1, DrainsQueue
  <2> QED
    BY <2>1, <2>2, <2>3, <2>4, ServesOn DEF InHandPcs
<1>5. CASE PollEnd
  <2>1. /\ Untouched /\ UNCHANGED <<row, sched, retained, faults>> /\ At("ready")
        /\ core' = Goto(core, "idle") /\ "idle" \in Pcs
    BY <1>5 DEF PollEnd, Pcs
  <2>2. core.phase # "boot" /\ RetainedWaits /\ ThreadsQuiet
    BY <2>1, Serving, UntouchedQuiet DEF At, BootPcs, DispatchPcs, RetainedWaits
  <2>3. core'.pc = "idle" /\ core'.phase = core.phase /\ core'.ret = core.ret
    BY <1>0, <2>1, GotoType
  <2> QED
    BY <1>1, <2>1, <2>2, <2>3, ServesOn DEF InHandPcs
<1>6. ASSUME NEW r \in Runs, RetryOne(r) PROVE QInv'
  <2> DEFINE c == [core EXCEPT !.todo = @ \ {r}]
             k == retained[r].result
             d == retained[r].answer
  <2>1. /\ Untouched /\ At("retry") /\ k # "none"
        /\ Record(r, k, d, TRUE, sched, c, "retry", "retry", "retry")
    BY <1>6 DEF RetryOne
  <2>2. core.phase # "boot"
    BY <2>1, Serving DEF At, BootPcs, DispatchPcs
  <2>3. /\ c \in CoreType /\ c.phase = core.phase /\ c.ret = core.ret
        /\ c.todo \subseteq core.todo
    BY <1>0 DEF CoreType
  <2>4. /\ k \in Kinds /\ d \in Decisions \cup {"none"} /\ TRUE \in BOOLEAN
        /\ "retry" \in Pcs /\ "retry" \in Returns
    BY <1>0, <2>1 DEF RetainedType, Pcs, Returns
  <2>5. r \notin Queued(sched)
    BY <2>1, NotWaiting DEF Clean
  <2> HIDE DEF c, k, d
  <2>6. RecordPlace(r, sched, c, "retry", "retry", "retry")
    BY <1>1, <2>2, <2>3, <2>5 DEF RecordPlace, InHandPcs, BootPcs
  <2>7. ThreadsQuiet /\ "retry" \notin InHandPcs
    BY <2>1, UntouchedQuiet DEF InHandPcs
  <2> QED
    BY <2>1, <2>3, <2>4, <2>6, <2>7, RecordQueueKeeps
<1>7. ASSUME NEW r \in Runs, ApplyUpdate(r) PROVE QInv'
  <2> DEFINE k == Head(updates).result
             p == core.pc
             U == [run : Runs, result : Kinds]
  <2>1. /\ p \in {"updates", "closing"} /\ updates # <<>> /\ Head(updates).run = r
        /\ updates' = Tail(updates)
        /\ Record(r, k, "none", FALSE, sched, core, p, p, "raise")
        /\ worker' = IF worker[r].pc # "ack" THEN worker
                     ELSE [worker EXCEPT ![r].pc = "acked", ![r].error = (core'.pc = "raise")]
    BY <1>7 DEF ApplyUpdate, At
  <2>2. core.phase # "boot"
    BY <2>1, Serving DEF BootPcs, DispatchPcs
  <2>3. \A u \in U : u.result \in Kinds
    OBVIOUS
  <2> HIDE DEF U
  <2>4. updates \in Seq(U)
    BY <1>0 DEF U
  <2>5. /\ Head(updates) = updates[1] /\ 1 \in DOMAIN updates /\ Head(updates) \in U
        /\ \A i \in DOMAIN updates' : i + 1 \in DOMAIN updates /\ updates'[i] = updates[i + 1]
    BY <2>1, <2>4
  <2>6. /\ k \in Kinds /\ "none" \in Decisions \cup {"none"} /\ FALSE \in BOOLEAN
        /\ p \in Pcs /\ p \in Returns /\ "raise" \in Pcs
    BY <2>1, <2>3, <2>5 DEF Pcs, Returns
  <2>7. r \notin Queued(sched)
    BY <2>1, <2>5, NotWaiting DEF Clean
  <2>8. RecordPlace(r, sched, core, p, p, "raise") /\ p \notin InHandPcs
    BY <1>1, <2>1, <2>2, <2>7 DEF RecordPlace, InHandPcs, BootPcs
  <2>9. ThreadsQuiet
    <3>1. ASSUME NEW q \in Runs, worker[q].pc = "none" PROVE worker'[q].pc = "none"
      BY <1>0, <2>1, <3>1
    <3> QED
      BY <2>5, <3>1 DEF ThreadsQuiet
  <2> HIDE DEF k, p
  <2> QED
    BY <1>0, <2>1, <2>6, <2>8, <2>9, RecordQueueKeeps
<1> QED
  BY <1>2, <1>3, <1>4, <1>5, <1>6, <1>7 DEF Poll

-----------------------------------------------------------------------------
(* The drain and the dispatch. *)

(* The core goes on, with the run in its hand out of the queue. *)
LEMMA HandMoves ==
  ASSUME IInv, QInv, Queued(sched') \subseteq Queued(sched), RowsWait,
         core'.ret = core.ret, core'.todo \subseteq core.todo, core'.phase = core.phase,
         core'.pc \notin {"down", "boot", "accepted", "marking", "markOp"} \cup BootPcs,
         core'.pc \in InHandPcs => core'.cur \notin Queued(sched')
  PROVE  CoreMoves
<1>1. InHand'
  BY DEF QInv, InHand
<1>2. Visits'
  BY DEF QInv, Visits
<1>3. VisitsBorn'
  BY DEF QInv, VisitsBorn, RowsWait
<1> QED
  BY <1>1, <1>2, <1>3 DEF CoreMoves, Restoring, Accepting, At

(* The dispatch of the run in hand: it is counted, it is called, and it is   *)
(* not in the queue.                                                         *)
LEMMA CallBackendQueue ==
  ASSUME IInv, QInv, NEW r \in Runs, CallBackend(r)
  PROVE  QInv'
<1> DEFINE x == [row[r] EXCEPT !.op = "dispatched"]
           p == IF Background THEN AfterDispatch ELSE "calling"
           w == [NoWorker EXCEPT !.pc = "act"]
<1>0. /\ row \in [Runs -> RowType] /\ row[r] \in RowType /\ core \in CoreType
      /\ worker \in [Runs -> WorkerType]
  BY Types
<1>1. /\ core.pc = "committing" /\ core.cur = r /\ row' = [row EXCEPT ![r] = x]
      /\ sched' = Project(sched, r, row'[r])
      /\ core' = Goto(core, p) /\ worker' \in {worker, [worker EXCEPT ![r] = w]}
      /\ UNCHANGED <<retained, updates, faults, crashes>>
  BY <1>0 DEF CallBackend, At
<1>2. row[r].op = "intended" /\ row[r].status = "dispatching"
  BY <1>1 DEF IInv, CurrentWanted, At
<1>3. x \in RowType /\ x.op = "dispatched" /\ x.status = "dispatching"
  BY <1>0, <1>2 DEF RowType, OpStatuses
<1> HIDE DEF x, w
<1>4. row'[r] = x /\ r \notin Queued(sched)
  BY <1>0, <1>1 DEF QInv, InHand, InHandPcs
<1>5. ThreadsQuiet
  <2>1. ~Unstarted(r)
    BY <1>1, <1>2, <1>4 DEF Unstarted, Accepting, At
  <2>2. \A q \in Runs \ {r} : worker'[q] = worker[q]
    BY <1>0, <1>1
  <2> QED
    BY <1>1, <2>1, <2>2 DEF ThreadsQuiet
<1>6. MemoryWaits /\ Queued(sched') = Queued(sched)
  <2>1. sched' = Project(sched, r, x) /\ row[r].status # "unborn" /\ UNCHANGED retained
    BY <1>1, <1>2, <1>4
  <2> QED
    BY <1>4, <1>5, <2>1, ProjectWaits
<1>7. RowsWait
  BY <1>1, <1>3, <1>4, <1>6, WriteRowsWait
<1>8. p \in {"drain", "idle", "calling"}
  BY DEF AfterDispatch
<1> HIDE DEF p
<1>9. /\ core'.pc = p /\ core'.cur = r /\ core'.ret = core.ret
      /\ core'.todo = core.todo /\ core'.phase = core.phase
  BY <1>0, <1>1, <1>8, GotoType DEF Pcs
<1>10. CoreMoves
  BY <1>4, <1>6, <1>7, <1>8, <1>9, HandMoves DEF BootPcs
<1> QED
  BY <1>6, <1>7, <1>10, PlainQueueKeeps

(* _drain_queue takes the next item of its snapshot, or leaves it. *)
LEMMA DrainQueue ==
  ASSUME IInv, QInv, DrainEnd \/ \E r \in Runs : DrainSkip(r) \/ DrainTake(r)
  PROVE  QInv'
<1>0. core \in CoreType
  BY Types
<1>1. CASE DrainEnd
  <2>1. /\ Untouched /\ UNCHANGED <<row, sched, retained, faults>>
        /\ core' = [core EXCEPT !.pc = core.ret, !.draining = FALSE, !.phase = "serve"]
    BY <1>1 DEF DrainEnd
  <2>2. core'.pc = core.ret /\ core'.ret = core.ret /\ core'.phase = "serve"
    BY <1>0, <2>1 DEF CoreType
  <2>3. core.ret \notin InHandPcs /\ core.ret \notin {"down", "marking"}
    BY <1>0 DEF QInv, InHand, CoreType, Returns
  <2>4. RetainedWaits /\ ThreadsQuiet
    BY <2>1, UntouchedQuiet DEF RetainedWaits
  <2> QED
    BY <2>1, <2>2, <2>3, <2>4, ServesOn
<1>2. ASSUME NEW r \in Runs, DrainSkip(r) \/ DrainTake(r)
      PROVE  QInv'
  <2> DEFINE t == Remove(sched, r)
  <2>1. /\ Untouched /\ UNCHANGED <<row, retained, faults>> /\ At("drain")
        /\ sched' \in {sched, t} /\ core.items # <<>>
    BY <1>2 DEF DrainSkip, DrainTake, NextItem
  <2>2. Sound(t) /\ Queued(t) = Queued(sched) \ {r} /\ t.runs = sched.runs
    BY RemoveSound DEF QInv
  <2> HIDE DEF t
  <2>3. /\ Sound(sched') /\ Queued(sched') \subseteq Queued(sched)
        /\ sched'.runs = sched.runs
    BY <2>1, <2>2 DEF QInv
  <2>4. RowsWait /\ MemoryWaits
    BY <2>1, <2>3, SameRowsWait, QueueMemoryWaits DEF SlotsWait
  <2> DEFINE q == Tail(core.items)
  <2>5. q \in Seq(Runs) /\ PastItem = [core EXCEPT !.items = q]
    <3>1. core.items \in Seq(Runs) /\ core.items # <<>>
      BY <1>0, <2>1 DEF CoreType
    <3> QED
      BY <3>1 DEF PastItem
  <2> HIDE DEF q
  <2>6. CASE DrainSkip(r)
    <3>1. core' = [core EXCEPT !.items = q]
      BY <2>5, <2>6 DEF DrainSkip
    <3>2. /\ core'.pc = "drain" /\ core'.ret = core.ret /\ core'.todo = core.todo
          /\ core'.phase = core.phase
      BY <1>0, <2>1, <3>1 DEF CoreType, At
    <3>3. CoreMoves
      BY <2>3, <2>4, <3>2, HandMoves DEF BootPcs, InHandPcs
    <3> QED
      BY <2>4, <3>3, PlainQueueKeeps
  <2>7. CASE DrainTake(r)
    <3>1. core' = [PastItem EXCEPT !.pc = "check", !.cur = r] /\ sched' = t
      BY <2>7 DEF DrainTake, t
    <3>2. /\ core'.pc = "check" /\ core'.ret = core.ret /\ core'.todo = core.todo
          /\ core'.phase = core.phase /\ core'.cur = r
      BY <1>0, <2>5, <3>1 DEF CoreType
    <3>3. r \notin Queued(sched')
      BY <2>2, <3>1
    <3>4. CoreMoves
      BY <2>3, <2>4, <3>2, <3>3, HandMoves DEF BootPcs
    <3> QED
      BY <2>4, <3>4, PlainQueueKeeps
  <2> QED
    BY <1>2, <2>6, <2>7
<1> QED
  BY <1>1, <1>2

(* A write to the row of the run in hand, and a step to where it stays in *)
(* hand or is let go.                                                      *)
LEMMA WriteInHand ==
  ASSUME IInv, QInv, Untouched, UNCHANGED <<sched, retained>>,
         NEW r \in Runs, core.cur = r, r \notin Queued(sched),
         NEW x \in RowType, row' = [row EXCEPT ![r] = x],
         x.op = "intended" => row[r].op = "intended" /\ x.stash = row[r].stash
                              /\ x.approval = row[r].approval,
         x.status = "unborn" => row[r].status = "unborn",
         NEW p \in Pcs \ ({"down", "boot", "accepted", "marking", "markOp"} \cup BootPcs),
         core' = Goto(core, p)
  PROVE  QInv'
<1>1. RowsWait /\ MemoryWaits
  BY WriteRowsWait, SameMemoryWaits
<1>2. /\ core'.pc = p /\ core'.cur = r /\ core'.ret = core.ret
      /\ core'.todo = core.todo /\ core'.phase = core.phase
  BY Types, GotoType
<1>3. CoreMoves
  BY <1>1, <1>2, HandMoves
<1> QED
  BY <1>1, <1>3, PlainQueueKeeps

(* Every step of a dispatch. *)
LEMMA DispatchQueue ==
  ASSUME IInv, QInv, Dispatch
  PROVE  QInv'
<1>0. core \in CoreType /\ sched \in SchedulerType /\ row \in [Runs -> RowType]
  BY Types
<1>1. Sound(sched) /\ core.ret \notin InHandPcs
  BY DEF QInv, InHand
<1>2. core.pc \in InHandPcs => core.cur \notin Queued(sched)
  BY DEF QInv, InHand
<1>3. AfterDispatch \in {"drain", "idle"}
  BY DEF AfterDispatch
<1>4. ASSUME NEW r \in Runs, CheckRefuses(r) PROVE QInv'
  <2> DEFINE x == [row[r] EXCEPT !.status = "failed"]
  <2>1. Untouched /\ core.pc = "check" /\ core.cur = r /\ UNCHANGED <<sched, retained, faults>>
    BY <1>4 DEF CheckRefuses, At
  <2>2. r \notin Queued(sched)
    BY <1>2, <2>1 DEF InHandPcs
  <2>3. CASE core.draining
    <3>1. core' = Goto(core, "refused") /\ row' = [row EXCEPT ![r] = x]
      BY <1>0, <1>4, <2>3 DEF CheckRefuses
    <3>2. /\ x \in RowType /\ x.op = row[r].op /\ x.status = "failed"
          /\ x.stash = row[r].stash /\ x.approval = row[r].approval
      BY <1>0 DEF RowType, Statuses, Terminal
    <3> HIDE DEF x
    <3>3. "refused" \in Pcs \ ({"down", "boot", "accepted", "marking", "markOp"} \cup BootPcs)
      BY DEF Pcs, BootPcs
    <3> QED
      BY <2>1, <2>2, <3>1, <3>2, <3>3, WriteInHand
  <2>4. CASE ~core.draining
    <3>1. core' = Goto(core, "idle") /\ row' = row
      BY <1>4, <2>4 DEF CheckRefuses
    <3>2. RowsWait /\ MemoryWaits
      BY <2>1, <3>1, SameRowsWait, SameMemoryWaits
    <3>3. /\ core'.pc = "idle" /\ core'.ret = core.ret /\ core'.todo = core.todo
          /\ core'.phase = core.phase
      BY <1>0, <3>1, GotoType DEF Pcs
    <3>4. CoreMoves
      BY <2>1, <3>2, <3>3, HandMoves DEF BootPcs, InHandPcs
    <3> QED
      BY <3>2, <3>4, PlainQueueKeeps
  <2> QED
    BY <2>3, <2>4
<1>5. ASSUME NEW r \in Runs, RefusedOp(r) PROVE QInv'
  <2> DEFINE x == [row[r] EXCEPT !.op = "failed"]
  <2>1. /\ Untouched /\ core.pc = "refused" /\ core.cur = r /\ UNCHANGED <<sched, retained, faults>>
        /\ core' = Goto(core, "drain") /\ row' = [row EXCEPT ![r] = x]
    BY <1>0, <1>5 DEF RefusedOp, At
  <2>2. x \in RowType /\ x.op = "failed" /\ x.status = row[r].status
    BY <1>0 DEF RowType, OpStatuses
  <2> HIDE DEF x
  <2>3. "drain" \in Pcs \ ({"down", "boot", "accepted", "marking", "markOp"} \cup BootPcs)
    BY DEF Pcs, BootPcs
  <2>4. r \notin Queued(sched)
    BY <1>2, <2>1 DEF InHandPcs
  <2> QED
    BY <2>1, <2>2, <2>3, <2>4, WriteInHand
<1>6. ASSUME NEW r \in Runs, CommitDispatching(r) PROVE QInv'
  <2> DEFINE x == [row[r] EXCEPT !.status = "dispatching", !.mark = "held"]
  <2>1. /\ Untouched /\ core.pc = "check" /\ core.cur = r /\ UNCHANGED <<sched, retained, faults>>
        /\ core' = Goto(core, "committing") /\ row' = [row EXCEPT ![r] = x]
    BY <1>0, <1>6 DEF CommitDispatching, At
  <2>2. /\ x \in RowType /\ x.op = row[r].op /\ x.status = "dispatching"
        /\ x.stash = row[r].stash /\ x.approval = row[r].approval
    BY ZenonT(40), <1>0 DEF RowType, Statuses
  <2> HIDE DEF x
  <2>3. "committing" \in Pcs \ ({"down", "boot", "accepted", "marking", "markOp"} \cup BootPcs)
    BY DEF Pcs, BootPcs
  <2>4. r \notin Queued(sched)
    BY <1>2, <2>1 DEF InHandPcs
  <2> QED
    BY <2>1, <2>2, <2>3, <2>4, WriteInHand
<1>7. ASSUME NEW r \in Runs, CallRaises(r) PROVE QInv'
  <2> DEFINE x == [row[r] EXCEPT !.status = "pending_reconcile", !.op = "unknown"]
             p == AfterDispatch
  <2>1. /\ Untouched /\ core.pc = "calling" /\ core.cur = r /\ UNCHANGED <<sched, retained, faults>>
        /\ core' = Goto(core, p) /\ row' = [row EXCEPT ![r] = x]
    BY <1>0, <1>7 DEF CallRaises, At
  <2>2. x \in RowType /\ x.op = "unknown" /\ x.status = "pending_reconcile"
    BY ZenonT(40), <1>0 DEF RowType, OpStatuses, Statuses
  <2> HIDE DEF x, p
  <2>3. p \in Pcs \ ({"down", "boot", "accepted", "marking", "markOp"} \cup BootPcs)
    BY <1>3 DEF Pcs, BootPcs, p
  <2>4. r \notin Queued(sched)
    BY <1>2, <2>1 DEF InHandPcs
  <2> QED
    BY <2>1, <2>2, <2>3, <2>4, WriteInHand
<1>8. ASSUME NEW r \in Runs, StreamPublishes(r) PROVE QInv'
  <2>1. /\ Untouched /\ core.pc \in {"calling", "streaming"} /\ core.cur = r
        /\ Record(r, "progress", "none", FALSE, sched, core,
                  "streaming", "streaming", "broken")
    BY <1>8 DEF StreamPublishes
  <2>2. /\ "progress" \in Kinds /\ "none" \in Decisions \cup {"none"} /\ FALSE \in BOOLEAN
        /\ {"streaming", "broken"} \subseteq Pcs /\ "streaming" \in Returns
        /\ "progress" \notin Terminal
    BY DEF Kinds, Pcs, Returns, Terminal
  <2>3. r \notin Queued(sched)
    BY <1>2, <2>1 DEF InHandPcs
  <2>4. RecordPlace(r, sched, core, "streaming", "streaming", "broken")
    BY <1>1, <2>1, <2>3 DEF RecordPlace, BootPcs
  <2>5. ThreadsQuiet
    BY <2>1, UntouchedQuiet
  <2> QED
    BY <1>0, <2>1, <2>2, <2>4, <2>5, RecordQueueKeeps
<1>9. ASSUME NEW r \in Runs, NEW k \in FinalKinds, CallReturns(r, k) PROVE QInv'
  <2> DEFINE p == AfterDispatch
  <2>1. /\ Untouched /\ core.pc \in {"calling", "streaming", "broken"} /\ core.cur = r
        /\ Record(r, k, "none", FALSE, sched, core, p, p, "raise")
    BY <1>9 DEF CallReturns
  <2>2. p \in {"drain", "idle"}
    BY <1>3
  <2> HIDE DEF p
  <2>3. /\ k \in Kinds /\ "none" \in Decisions \cup {"none"} /\ FALSE \in BOOLEAN
        /\ p \in Pcs /\ "raise" \in Pcs /\ p \in Returns /\ p \notin InHandPcs
    BY <2>2, RunLifecycleAssumption DEF Pcs, Returns, InHandPcs
  <2>4. r \notin Queued(sched)
    BY <1>2, <2>1 DEF InHandPcs
  <2>5. RecordPlace(r, sched, core, p, p, "raise")
    BY <1>1, <2>1, <2>2, <2>4 DEF RecordPlace, BootPcs
  <2>6. ThreadsQuiet
    BY <2>1, UntouchedQuiet
  <2> QED
    BY <1>0, <2>1, <2>3, <2>5, <2>6, RecordQueueKeeps
<1> QED
  BY <1>4, <1>5, <1>6, <1>7, <1>8, <1>9, CallBackendQueue, DrainQueue DEF Dispatch

-----------------------------------------------------------------------------
(* Requests. *)

(* A request that writes a row and keeps no run in hand. *)
LEMMA RequestLetsGo ==
  ASSUME IInv, QInv, Untouched, UNCHANGED <<sched, retained>>, RowsWait,
         core'.phase # "boot", core'.pc \notin InHandPcs \cup {"down", "marking"},
         core'.ret \notin InHandPcs
  PROVE  QInv'
<1>1. MemoryWaits /\ CoreMoves
  BY SameMemoryWaits, OutOfHand
<1> QED
  BY <1>1, PlainQueueKeeps

(* A result that a request received, for a run that left the queue. *)
LEMMA RequestRecordQueue ==
  ASSUME IInv, QInv, Untouched, core.phase # "boot",
         NEW r \in Runs, NEW k \in Kinds, NEW d \in Decisions \cup {"none"},
         NEW s, Sound(s), Queued(s) \subseteq Queued(sched) \ {r}, s.runs = sched.runs,
         Record(r, k, d, FALSE, s, core, "idle", "idle", "raise")
  PROVE  QInv'
<1>1. core \in CoreType /\ {"idle", "raise"} \subseteq Pcs /\ "idle" \in Returns
  BY Types DEF Pcs, Returns
<1>2. RecordPlace(r, s, core, "idle", "idle", "raise")
  BY DEF RecordPlace, QInv, InHand, InHandPcs, BootPcs
<1>3. ThreadsQuiet /\ "idle" \notin InHandPcs /\ FALSE \in BOOLEAN
  BY UntouchedQuiet DEF InHandPcs
<1> QED
  BY <1>1, <1>2, <1>3, RecordQueueKeeps

(* task.submit accepts a run and starts it or puts it in the queue. *)
LEMMA SubmitQueue ==
  ASSUME IInv, QInv, NEW r \in Runs, TaskSubmit(r) \/ Admit(r)
  PROVE  QInv'
<1>0. core \in CoreType /\ row \in [Runs -> RowType]
  BY Types
<1>1. core.phase # "boot" /\ Untouched /\ UNCHANGED <<retained, faults>>
  BY Serving DEF TaskSubmit, Admit, Asked, At, BootPcs, DispatchPcs
<1>2. CASE TaskSubmit(r)
  <2>1. /\ row[r].status = "unborn" /\ row' = [row EXCEPT ![r] = Intended]
        /\ core' = [core EXCEPT !.pc = "accepted", !.cur = r] /\ sched' = sched
    BY <1>2 DEF TaskSubmit
  <2>2. /\ Intended.status = "queued" /\ Intended.op = "intended" /\ Intended.stash = "none"
        /\ Intended.approval = "none"
    BY DEF Intended, Unborn
  <2>3. row'[r] = Intended /\ \A q \in Runs \ {r} : row'[q] = row[q]
    BY <1>0, <2>1
  <2>4. /\ core'.pc = "accepted" /\ core'.cur = r /\ core'.ret = core.ret
        /\ core'.phase = core.phase
    BY <1>0, <2>1 DEF CoreType
  <2>5. r \notin Queued(sched) /\ Clean(r)
    BY <2>1 DEF QInv, QueueWaits, Intents, NotStarted, Unstarted
  <2>6. Sound(sched') /\ QueueWaits' /\ Intents'
    BY <2>1, <2>2, <2>3, <2>5, QueuedRuns DEF QInv, QueueWaits, Intents
  <2>7. NotStarted'
    <3> SUFFICES ASSUME NEW q \in Runs,
                        q = r \/ (q # r /\ row[q].status = "unborn") \/ q \in Queued(sched)
                 PROVE  Clean(q)'
      BY <2>1, <2>2, <2>3, <2>4 DEF NotStarted, Unstarted, Accepting, At
    <3>1. Clean(q)
      BY <2>5 DEF QInv, NotStarted, Unstarted
    <3> QED
      BY <1>1, <2>1, <3>1 DEF Clean, Untouched
  <2>8. AcceptedIsIntent'
    BY <2>2, <2>3, <2>4 DEF AcceptedIsIntent, Accepting
  <2>9. InHand' /\ Visits' /\ VisitsBorn' /\ BootAlone'
    BY <1>1, <2>1, <2>4, <2>5
       DEF QInv, InHand, Visits, VisitsBorn, BootAlone, Restoring, At
  <2> QED
    BY <2>6, <2>7, <2>8, <2>9 DEF QInv
<1>3. CASE Admit(r)
  <2>1. core.pc = "accepted" /\ core.cur = r /\ row' = row
    BY <1>3 DEF Admit, At
  <2>2. r \notin Queued(sched) /\ Clean(r) /\ row[r].op = "intended"
    BY <2>1 DEF QInv, InHand, InHandPcs, NotStarted, Unstarted, AcceptedIsIntent, Accepting, At
  <2>3. row[r].status \notin Terminal
    BY <2>1 DEF IInv, CurrentOpen
  <2>4. CASE CanStart(sched, r)
    <3>1. core' = Goto(core, "check") /\ sched' = sched
      BY <1>3, <2>4 DEF Admit
    <3>2. /\ core'.pc = "check" /\ core'.cur = r /\ core'.todo = core.todo
          /\ core'.phase = core.phase /\ core'.ret = core.ret
      BY <1>0, <2>1, <3>1, GotoType DEF Pcs
    <3>3. RowsWait /\ MemoryWaits
      BY <1>1, <2>1, <3>1, SameRowsWait, SameMemoryWaits
    <3>4. CoreMoves
      BY <2>2, <3>1, <3>2, <3>3, HandMoves DEF BootPcs
    <3> QED
      BY <3>3, <3>4, PlainQueueKeeps
  <2>5. CASE ~CanStart(sched, r)
    <3>1. core' = Goto(core, "idle") /\ sched' = Enqueue(sched, r)
      BY <1>3, <2>5 DEF Admit
    <3>2. /\ core'.pc = "idle" /\ core'.phase = core.phase /\ core'.ret = core.ret
      BY <1>0, <2>1, <3>1, GotoType DEF Pcs
    <3>3. /\ Sound(sched') /\ Queued(sched') = Queued(sched) \cup {r}
          /\ sched'.runs = sched.runs
      BY <2>2, <3>1, EnqueueSound DEF QInv
    <3>4. QueueWaits' /\ Intents'
      BY <2>1, <2>2, <2>3, <3>3 DEF QInv, QueueWaits, Intents
    <3>5. NotStarted' /\ AcceptedIsIntent'
      <4> SUFFICES ASSUME NEW q \in Runs,
                          q = r \/ row[q].status = "unborn" \/ q \in Queued(sched)
                   PROVE  Clean(q)'
        BY <2>1, <3>2, <3>3 DEF NotStarted, Unstarted, AcceptedIsIntent, Accepting, At
      <4>1. Clean(q)
        BY <2>2 DEF QInv, NotStarted, Unstarted
      <4> QED
        BY <1>1, <3>3, <4>1 DEF Clean, Untouched
    <3>6. InHand' /\ Visits' /\ VisitsBorn' /\ BootAlone'
      BY <1>1, <3>2
         DEF QInv, InHand, Visits, VisitsBorn, BootAlone, Restoring, At, InHandPcs
    <3> QED
      BY <3>3, <3>4, <3>5, <3>6 DEF QInv
  <2> QED
    BY <2>4, <2>5
<1> QED
  BY <1>2, <1>3

(* task.cancel, and the termination by an operator. *)
LEMMA CancelQueue ==
  ASSUME IInv, QInv, NEW r \in Runs,
         \/ CancelIntent(r) \/ CancelQueued(r) \/ CancelUnconfirmed(r)
         \/ \E k \in {"cancelled", "succeeded"} : CancelConfirmed(r, k)
         \/ TerminateIntent(r) \/ TerminateSave(r) \/ TerminateRecord(r)
  PROVE  QInv'
<1> DEFINE x == [row[r] EXCEPT !.cancel = TRUE]
           t == Remove(sched, r)
<1>0. core \in CoreType /\ row \in [Runs -> RowType]
  BY Types
<1>1. core.phase # "boot" /\ Untouched
  BY Serving DEF CancelIntent, CancelQueued, CancelUnconfirmed, CancelConfirmed,
                 TerminateIntent, TerminateSave, TerminateRecord, Asked, At, BootPcs, DispatchPcs
<1>2. {"cancelled", "succeeded"} \subseteq Kinds /\ "none" \in Decisions \cup {"none"}
  BY DEF Kinds, Terminal
<1>3. Sound(sched) /\ core.ret \notin InHandPcs
  BY DEF QInv, InHand
<1>4. Sound(t) /\ Queued(t) = Queued(sched) \ {r} /\ t.runs = sched.runs
  BY <1>3, RemoveSound
<1>5. /\ x \in RowType /\ x.op = row[r].op /\ x.status = row[r].status
      /\ x.stash = row[r].stash /\ x.approval = row[r].approval
  BY <1>0 DEF RowType
<1>6. row[r].op # "intended" => Queued(sched) \subseteq Queued(sched) \ {r}
  BY DEF QInv, QueueWaits
<1> HIDE DEF x, t
<1>7. CASE CancelIntent(r)
  <2>1. /\ row' = [row EXCEPT ![r] = x] /\ UNCHANGED <<sched, retained>>
        /\ core' = [core EXCEPT !.pc = "cancelling", !.cur = r]
    BY <1>0, <1>7 DEF CancelIntent, x
  <2>2. core'.pc = "cancelling" /\ core'.ret = core.ret /\ core'.phase = core.phase
    BY <1>0, <2>1 DEF CoreType
  <2>3. r \in Queued(sched) => row[r].status \notin Terminal
    BY DEF QInv, QueueWaits
  <2>4. RowsWait
    BY <1>5, <2>1, <2>3, WriteRowsWait
  <2> QED
    BY <1>1, <1>3, <2>1, <2>2, <2>4, RequestLetsGo DEF InHandPcs
<1>8. CASE CancelQueued(r)
  <2>1. Record(r, "cancelled", "none", FALSE, t, core, "idle", "idle", "raise")
    BY <1>8 DEF CancelQueued, t
  <2> QED
    BY <1>1, <1>2, <1>4, <2>1, RequestRecordQueue
<1>9. ASSUME NEW k \in {"cancelled", "succeeded"}, CancelConfirmed(r, k) PROVE QInv'
  <2>1. /\ Record(r, k, "none", FALSE, sched, core, "idle", "idle", "raise")
        /\ row[r].op # "intended"
    BY <1>9 DEF CancelConfirmed
  <2> QED
    BY <1>1, <1>2, <1>3, <1>6, <2>1, RequestRecordQueue
<1>10. CASE CancelUnconfirmed(r)
  <2>1. core' = Goto(core, "idle") /\ UNCHANGED <<row, sched, retained, faults>>
    BY <1>10 DEF CancelUnconfirmed
  <2>2. core'.pc = "idle" /\ core'.ret = core.ret /\ core'.phase = core.phase
    BY <1>0, <2>1, GotoType DEF Pcs
  <2> QED
    BY <1>1, <1>3, <2>1, <2>2, SameRowsWait, RequestLetsGo DEF InHandPcs
<1>11. CASE TerminateIntent(r)
  <2>1. /\ UNCHANGED <<row, retained, faults>>
        /\ sched' = IF row[r].op = "intended" THEN t ELSE sched
        /\ core' = [core EXCEPT !.pc = "terminate", !.cur = r]
    BY <1>11 DEF TerminateIntent, t
  <2>2. /\ Sound(sched') /\ Queued(sched') \subseteq Queued(sched) \ {r}
        /\ sched'.runs = sched.runs
    BY <1>3, <1>4, <1>6, <2>1
  <2>3. RowsWait /\ MemoryWaits
    BY <1>1, <2>1, <2>2, SameRowsWait, QueueMemoryWaits DEF SlotsWait
  <2>4. /\ core'.pc = "terminate" /\ core'.cur = r /\ core'.ret = core.ret
        /\ core'.todo = core.todo /\ core'.phase = core.phase
    BY <1>0, <2>1 DEF CoreType
  <2>5. CoreMoves
    BY <2>2, <2>3, <2>4, HandMoves DEF BootPcs
  <2> QED
    BY <2>3, <2>5, PlainQueueKeeps
<1>12. CASE TerminateSave(r)
  <2>1. /\ row' = [row EXCEPT ![r] = x] /\ UNCHANGED <<sched, retained>>
        /\ core' = Goto(core, "terminating") /\ core.cur = r /\ core.pc = "terminate"
    BY <1>0, <1>12 DEF TerminateSave, x, At
  <2>2. r \notin Queued(sched)
    BY <2>1 DEF QInv, InHand, InHandPcs
  <2>3. "terminating" \in Pcs \ ({"down", "boot", "accepted", "marking", "markOp"} \cup BootPcs)
    BY DEF Pcs, BootPcs
  <2> QED
    BY <1>1, <1>5, <2>1, <2>2, <2>3, WriteInHand
<1>13. CASE TerminateRecord(r)
  <2>1. /\ Record(r, "cancelled", "none", FALSE, sched, core, "idle", "idle", "raise")
        /\ core.cur = r /\ core.pc = "terminating"
    BY <1>13 DEF TerminateRecord, At
  <2>2. Queued(sched) \subseteq Queued(sched) \ {r}
    BY <2>1 DEF QInv, InHand, InHandPcs
  <2> QED
    BY <1>1, <1>2, <1>3, <2>1, <2>2, RequestRecordQueue
<1> QED
  BY <1>7, <1>8, <1>9, <1>10, <1>11, <1>12, <1>13

(* task.handoff, pause and resume. *)
LEMMA HandoffQueue ==
  ASSUME IInv, QInv, NEW r \in Runs,
         PauseRun(r) \/ PauseTask(r) \/ ResumeRun(r) \/ ResumeTask(r)
  PROVE  QInv'
<1>0. core \in CoreType /\ row \in [Runs -> RowType] /\ row[r] \in RowType
  BY Types
<1>1. core.phase # "boot" /\ Untouched /\ UNCHANGED <<sched, retained, faults>>
  BY Serving DEF PauseRun, PauseTask, ResumeRun, ResumeTask, Asked, At, BootPcs, DispatchPcs
<1>2. core.ret \notin InHandPcs /\ (r \in Queued(sched) => row[r].status \notin Terminal)
  BY DEF QInv, InHand, QueueWaits
<1>3. row' = row => RowsWait
  BY <1>1, SameRowsWait
<1>4. ASSUME NEW x \in RowType, row' = [row EXCEPT ![r] = x], x.op = row[r].op,
             x.stash = row[r].stash, x.approval = row[r].approval,
             x.status = row[r].status \/ x.status \notin Terminal \cup {"unborn"}
      PROVE  RowsWait
  BY <1>1, <1>2, <1>4, WriteRowsWait
<1>5. RowsWait
  <2>1. CASE PauseRun(r)
    <3> DEFINE x == [row[r] EXCEPT !.status = "paused"]
    <3>1. row' = row \/ row' = [row EXCEPT ![r] = x]
      BY <1>0, <2>1 DEF PauseRun
    <3>2. /\ x \in RowType /\ x.status = "paused" /\ x.op = row[r].op
          /\ x.stash = row[r].stash /\ x.approval = row[r].approval
      BY <1>0 DEF RowType, Statuses
    <3> HIDE DEF x
    <3> QED
      BY <1>3, <1>4, <3>1, <3>2 DEF Terminal
  <2>2. CASE ResumeRun(r)
    <3> DEFINE x == [row[r] EXCEPT !.status = ResumedStatus(row[r])]
    <3>1. row' = row \/ row' = [row EXCEPT ![r] = x]
      BY <1>0, <2>2 DEF ResumeRun
    <3>2. ResumedStatus(row[r]) \in Statuses \ (Terminal \cup {"unborn"})
      BY DEF ResumedStatus, Statuses, Terminal
    <3>3. /\ x \in RowType /\ x.status = ResumedStatus(row[r]) /\ x.op = row[r].op
          /\ x.stash = row[r].stash /\ x.approval = row[r].approval
      BY <1>0, <3>2 DEF RowType
    <3> HIDE DEF x
    <3> QED
      BY <1>3, <1>4, <3>1, <3>2, <3>3
  <2>3. ASSUME NEW b \in BOOLEAN, row' = [row EXCEPT ![r].paused = b]
        PROVE  RowsWait
    <3> DEFINE x == [row[r] EXCEPT !.paused = b]
    <3>1. row' = [row EXCEPT ![r] = x]
      BY <1>0, <2>3
    <3>2. /\ x \in RowType /\ x.status = row[r].status /\ x.op = row[r].op
          /\ x.stash = row[r].stash /\ x.approval = row[r].approval
      BY <1>0 DEF RowType
    <3> HIDE DEF x
    <3> QED
      BY <1>4, <3>1, <3>2
  <2> QED
    BY <2>1, <2>2, <2>3 DEF PauseTask, ResumeTask
<1>6. CASE ResumeTask(r)
  <2>1. core' = BeginDrain(core, sched.queue, "idle") /\ "idle" \in Returns
    BY <1>6 DEF ResumeTask, Returns, Pcs
  <2>2. core'.pc = "drain" /\ core'.ret = "idle" /\ core'.phase = core.phase
    BY <2>1, DrainsQueue
  <2> QED
    BY <1>1, <1>5, <2>2, RequestLetsGo DEF InHandPcs
<1>7. CASE ~ResumeTask(r)
  <2>1. \/ core' = [core EXCEPT !.pc = "pausing", !.cur = r]
        \/ core' = Goto(core, "idle")
        \/ core' = [core EXCEPT !.pc = "resuming", !.cur = r]
    BY <1>7 DEF PauseRun, PauseTask, ResumeRun
  <2>2. /\ core'.pc \in {"pausing", "idle", "resuming"} /\ core'.ret = core.ret
        /\ core'.phase = core.phase
    BY <1>0, <2>1 DEF CoreType, Goto
  <2> QED
    BY <1>1, <1>2, <1>5, <2>2, RequestLetsGo DEF InHandPcs
<1> QED
  BY <1>6, <1>7

(* task.reconcile. *)
LEMMA ReconcileQueue ==
  ASSUME IInv, QInv, NEW r \in Runs,
         \/ ReconcileOnly(r)
         \/ \E k \in ReconcileKinds \cup {"failed", "cancelled"} : ReconcileRecord(r, k)
  PROVE  QInv'
<1> DEFINE c == [core EXCEPT !.cur = r, !.ret = "idle"]
<1>0. core \in CoreType
  BY Types
<1>1. core.phase # "boot" /\ Untouched
  BY Serving DEF ReconcileOnly, ReconcileRecord, Asked, At, BootPcs, DispatchPcs
<1>2. "idle" \in Returns /\ {"recon", "raise"} \subseteq Pcs
  BY DEF Returns, Pcs
<1>3. /\ c \in CoreType /\ c.cur = r /\ c.ret = "idle" /\ c.phase = core.phase
      /\ c.todo = core.todo
  BY <1>0, <1>2 DEF CoreType
<1>4. CASE ReconcileOnly(r)
  <2>1. /\ UNCHANGED <<row, sched, retained, faults>>
        /\ core' = [core EXCEPT !.pc = "recon", !.cur = r, !.ret = "idle"]
    BY <1>4 DEF ReconcileOnly
  <2>2. core'.pc = "recon" /\ core'.ret = "idle" /\ core'.phase = core.phase
    BY <1>0, <2>1 DEF CoreType
  <2> QED
    BY <1>1, <2>1, <2>2, SameRowsWait, RequestLetsGo DEF InHandPcs
<1>5. ASSUME NEW k \in ReconcileKinds \cup {"failed", "cancelled"}, ReconcileRecord(r, k)
      PROVE  QInv'
  <2>1. /\ Record(r, k, "none", FALSE, sched, c, "recon", "idle", "raise")
        /\ row[r].op \in {"dispatched", "unknown"}
    BY <1>5 DEF ReconcileRecord
  <2>2. k \in Kinds /\ "none" \in Decisions \cup {"none"} /\ FALSE \in BOOLEAN
    BY RunLifecycleAssumption DEF Kinds, Terminal
  <2>3. Sound(sched) /\ Queued(sched) \subseteq Queued(sched) \ {r}
    BY <2>1 DEF QInv, QueueWaits
  <2> HIDE DEF c
  <2>4. RecordPlace(r, sched, c, "recon", "idle", "raise")
    BY <1>1, <1>3, <2>3 DEF RecordPlace, InHandPcs, BootPcs
  <2>5. ThreadsQuiet /\ "idle" \notin InHandPcs
    BY <1>1, UntouchedQuiet DEF InHandPcs
  <2> QED
    BY <1>2, <1>3, <2>1, <2>2, <2>4, <2>5, RecordQueueKeeps
<1> QED
  BY <1>4, <1>5

(* approval.respond. *)
LEMMA RespondQueue ==
  ASSUME IInv, QInv, NEW r \in Runs,
         \/ RespondIntent(r) \/ RespondUnknown(r)
         \/ \E k \in {"progress"} \cup (FinalKinds \cap Terminal), d \in Decisions :
              RespondAnswered(r, k, d)
  PROVE  QInv'
<1>0. core \in CoreType /\ row \in [Runs -> RowType]
  BY Types
<1>1. core.phase # "boot" /\ Untouched
  BY Serving DEF RespondIntent, RespondUnknown, RespondAnswered, Asked, At, BootPcs, DispatchPcs
<1>2. core.ret \notin InHandPcs /\ Sound(sched)
  BY DEF QInv, InHand
<1>3. CASE RespondIntent(r)
  <2> DEFINE x == [row[r] EXCEPT !.approval = "forwarding", !.attempted = TRUE]
  <2>1. /\ row' = [row EXCEPT ![r] = x] /\ UNCHANGED <<sched, retained, faults>>
        /\ core' = [core EXCEPT !.pc = "forwarding", !.cur = r] /\ row[r].approval = "pending"
    BY <1>0, <1>3 DEF RespondIntent
  <2>2. x \in RowType /\ x.status = row[r].status /\ x.op = row[r].op
    BY ZenonT(40), <1>0 DEF RowType, ApprovalStates
  <2> HIDE DEF x
  <2>3. row[r].op # "intended" /\ r \notin Queued(sched)
    BY <2>1 DEF QInv, Intents, QueueWaits
  <2>4. RowsWait /\ MemoryWaits
    BY <1>1, <2>1, <2>2, <2>3, WriteRowsWait, SameMemoryWaits
  <2>5. /\ core'.pc = "forwarding" /\ core'.cur = r /\ core'.ret = core.ret
        /\ core'.todo = core.todo /\ core'.phase = core.phase
    BY <1>0, <2>1 DEF CoreType
  <2>6. CoreMoves
    BY <2>1, <2>3, <2>4, <2>5, HandMoves DEF BootPcs
  <2> QED
    BY <2>4, <2>6, PlainQueueKeeps
<1>4. CASE RespondUnknown(r)
  <2>1. core' = Goto(core, "idle") /\ UNCHANGED <<row, sched, retained, faults>>
    BY <1>4 DEF RespondUnknown
  <2>2. core'.pc = "idle" /\ core'.ret = core.ret /\ core'.phase = core.phase
    BY <1>0, <2>1, GotoType DEF Pcs
  <2> QED
    BY <1>1, <1>2, <2>1, <2>2, SameRowsWait, RequestLetsGo DEF InHandPcs
<1>5. ASSUME NEW k \in {"progress"} \cup (FinalKinds \cap Terminal), NEW d \in Decisions,
             RespondAnswered(r, k, d)
      PROVE  QInv'
  <2>1. /\ Record(r, k, d, FALSE, sched, core, "idle", "idle", "raise")
        /\ core.pc = "forwarding" /\ core.cur = r
    BY <1>5 DEF RespondAnswered, At
  <2>2. k \in Kinds
    BY DEF Kinds
  <2>3. Queued(sched) \subseteq Queued(sched) \ {r}
    BY <2>1 DEF QInv, InHand, InHandPcs
  <2> QED
    BY <1>1, <1>2, <2>1, <2>2, <2>3, RequestRecordQueue
<1> QED
  BY <1>3, <1>4, <1>5

(* Every request. *)
LEMMA RequestQueue ==
  ASSUME IInv, QInv, Request
  PROVE  QInv'
BY SubmitQueue, CancelQueue, HandoffQueue, ReconcileQueue, RespondQueue DEF Request

-----------------------------------------------------------------------------
(* Shutdown, workers and the theorems. *)

(* A process that ends leaves the rows alone. *)
LEMMA ProcessEndsQueue ==
  ASSUME IInv, QInv, ProcessEnds
  PROVE  QInv'
<1>1. /\ sched' = EmptyScheduler /\ row' = row /\ updates' = <<>> /\ core' = CoreDown
      /\ \A r \in Runs : retained'[r].result = "none" /\ worker'[r].pc = "none"
  BY DEF ProcessEnds, Nothing, NoWorker
<1>2. /\ core'.pc = "down" /\ core'.phase = "boot" /\ core'.todo = {} /\ core'.ret = "idle"
  BY <1>1 DEF CoreDown
<1>3. Sound(sched') /\ sched'.queue = <<>> /\ sched'.runs = {} /\ Queued(sched') = {}
  BY <1>1, EmptySound DEF Queued
<1>4. QueueWaits' /\ Intents' /\ NotStarted' /\ AcceptedIsIntent'
  BY <1>1, <1>2, <1>3
     DEF QInv, QueueWaits, Intents, NotStarted, Clean, AcceptedIsIntent, Accepting, At
<1>5. InHand' /\ Visits' /\ VisitsBorn' /\ BootAlone'
  BY <1>1, <1>2, <1>3 DEF InHand, Visits, VisitsBorn, BootAlone, InHandPcs, BootPcs
<1> QED
  BY <1>3, <1>4, <1>5 DEF QInv

(* close() marks the runs that no worker will report any more. *)
LEMMA CloseMarkQueue ==
  ASSUME IInv, QInv, NEW r \in Runs, CloseMarkRun(r) \/ CloseMarkOp(r)
  PROVE  QInv'
<1>0. core \in CoreType /\ row \in [Runs -> RowType] /\ row[r] \in RowType
  BY Types
<1>1. /\ core.phase # "boot" /\ Untouched /\ UNCHANGED <<sched, retained, faults>>
  BY Serving DEF CloseMarkRun, CloseMarkOp, At, BootPcs, DispatchPcs
<1>2. r \notin Queued(sched)
  BY DEF CloseMarkRun, CloseMarkOp, At, QInv, Visits, InHand, InHandPcs
<1>3. CASE CloseMarkRun(r)
  <2> DEFINE x == [row[r] EXCEPT !.status = "pending_reconcile"]
  <2>1. /\ row' = [row EXCEPT ![r] = x] /\ At("marking")
        /\ core' = [core EXCEPT !.pc = "markOp", !.cur = r, !.todo = @ \ {r}]
    BY <1>0, <1>3 DEF CloseMarkRun
  <2>2. /\ x \in RowType /\ x.op = row[r].op /\ x.status = "pending_reconcile"
        /\ x.stash = row[r].stash /\ x.approval = row[r].approval
    BY <1>0 DEF RowType, Statuses
  <2> HIDE DEF x
  <2>3. RowsWait /\ MemoryWaits
    BY <1>1, <1>2, <2>1, <2>2, WriteRowsWait, SameMemoryWaits
  <2>4. /\ core'.pc = "markOp" /\ core'.cur = r /\ core'.ret = core.ret
        /\ core'.todo = core.todo \ {r} /\ core'.phase = core.phase
    BY <1>0, <2>1 DEF CoreType
  <2>5. InHand' /\ Visits' /\ VisitsBorn'
    BY <1>1, <1>2, <2>1, <2>4 DEF QInv, InHand, Visits, VisitsBorn, At
  <2>6. CoreMoves
    BY <1>1, <2>4, <2>5 DEF CoreMoves, Restoring, Accepting, At
  <2> QED
    BY <2>3, <2>6, PlainQueueKeeps
<1>4. CASE CloseMarkOp(r)
  <2> DEFINE x == [row[r] EXCEPT !.op = "unknown"]
  <2>1. /\ row' = [row EXCEPT ![r] = x] /\ core.pc = "markOp" /\ core.cur = r
        /\ core' = Goto(core, "marking")
    BY <1>0, <1>4 DEF CloseMarkOp, At
  <2>2. x \in RowType /\ x.op = "unknown" /\ x.status = row[r].status
    BY <1>0 DEF RowType, OpStatuses
  <2> HIDE DEF x
  <2>3. RowsWait /\ MemoryWaits
    BY <1>1, <1>2, <2>1, <2>2, WriteRowsWait, SameMemoryWaits
  <2>4. /\ core'.pc = "marking" /\ core'.ret = core.ret /\ core'.todo = core.todo
        /\ core'.phase = core.phase
    BY <1>0, <2>1, GotoType DEF Pcs
  <2>5. InHand' /\ Visits' /\ VisitsBorn'
    BY <1>1, <2>1, <2>4 DEF QInv, InHand, Visits, VisitsBorn, InHandPcs
  <2>6. CoreMoves
    BY <1>1, <2>4, <2>5 DEF CoreMoves, Restoring, Accepting, At
  <2> QED
    BY <2>3, <2>6, PlainQueueKeeps
<1> QED
  BY <1>3, <1>4

(* Failures of the store and every step of the shutdown. *)
LEMMA ShutdownQueue ==
  ASSUME IInv, QInv, Shutdown
  PROVE  QInv'
<1>0. core \in CoreType
  BY Types
<1>1. core.ret \notin InHandPcs
  BY DEF QInv, InHand
<1>2. CASE CommitFails
  <2>1. core' = Raise(core) /\ UNCHANGED <<row, sched, retained>> /\ Untouched
    BY <1>2 DEF CommitFails, StoreFails, Untouched
  <2>2. /\ core'.pc = "raise" /\ core'.todo = {} /\ core'.phase = core.phase
        /\ core'.ret = core.ret
    BY <1>0, <2>1, RaiseType
  <2>3. RowsWait /\ MemoryWaits
    BY <2>1, SameRowsWait, SameMemoryWaits
  <2>4. CoreMoves
    BY <2>1, <2>2, <2>3, HandMoves DEF BootPcs, InHandPcs
  <2> QED
    BY <2>3, <2>4, PlainQueueKeeps
<1>3. CASE HandleRaise
  <2>1. CASE core.phase = "serve"
    <3> DEFINE p == IF HostSurvives THEN "idle" ELSE "close"
    <3>1. /\ core' = Goto(core, p) /\ UNCHANGED <<row, sched, retained, faults>>
          /\ Untouched
      BY <1>3, <2>1 DEF HandleRaise, Untouched
    <3>2. p \in {"idle", "close"} /\ p \in Pcs
      BY DEF Pcs
    <3> HIDE DEF p
    <3>3. core'.pc = p /\ core'.ret = core.ret /\ core'.phase = core.phase
      BY <1>0, <3>1, <3>2, GotoType
    <3> QED
      BY <1>1, <2>1, <3>1, <3>2, <3>3, SameRowsWait, RequestLetsGo DEF InHandPcs
  <2>2. CASE core.phase # "serve"
    BY <1>3, <2>2, ProcessEndsQueue DEF HandleRaise
  <2> QED
    BY <2>1, <2>2
<1>4. CASE StopRequested
  <2>1. /\ core.phase # "boot" /\ core' = Goto(core, "close")
        /\ UNCHANGED <<row, sched, retained, faults>> /\ Untouched
    BY <1>4, Serving DEF StopRequested, At, BootPcs, DispatchPcs
  <2>2. core'.pc = "close" /\ core'.ret = core.ret /\ core'.phase = core.phase
    BY <1>0, <2>1, GotoType DEF Pcs
  <2> QED
    BY <1>1, <2>1, <2>2, SameRowsWait, RequestLetsGo DEF InHandPcs
<1>5. CASE CloseBegin
  <2>1. CASE Background
    <3>1. /\ core' = [core EXCEPT !.pc = "closing", !.phase = "close"]
          /\ UNCHANGED <<row, sched, retained, faults>> /\ Untouched
      BY <1>5, <2>1 DEF CloseBegin, Untouched
    <3>2. core'.pc = "closing" /\ core'.phase = "close" /\ core'.ret = core.ret
      BY <1>0, <3>1 DEF CoreType
    <3> QED
      BY <1>1, <3>1, <3>2, SameRowsWait, RequestLetsGo DEF InHandPcs
  <2>2. CASE ~Background
    BY <1>5, <2>2, ProcessEndsQueue DEF CloseBegin
  <2> QED
    BY <2>1, <2>2
<1>6. CASE CloseDrained
  <2> DEFINE T == {r \in Runs : Open(row[r]) /\ row[r].op \notin {"absent", "intended"}}
  <2>1. /\ UNCHANGED <<row, sched, retained, faults>> /\ Untouched /\ At("closing")
        /\ core' = [core EXCEPT !.pc = "marking", !.todo = T]
    BY <1>6 DEF CloseDrained
  <2>2. T \cap Queued(sched) = {}
    BY DEF QInv, QueueWaits
  <2> HIDE DEF T
  <2>3. /\ core'.pc = "marking" /\ core'.todo = T /\ core'.phase = core.phase
        /\ core'.ret = core.ret
    BY <1>0, <2>1 DEF CoreType
  <2>4. core.phase # "boot"
    BY <2>1, Serving DEF At, BootPcs, DispatchPcs
  <2>5. RowsWait /\ MemoryWaits
    BY <2>1, SameRowsWait, SameMemoryWaits
  <2>6. InHand' /\ Visits' /\ VisitsBorn'
    BY <1>1, <2>1, <2>2, <2>3, <2>4 DEF InHand, Visits, VisitsBorn, InHandPcs
  <2>7. CoreMoves
    BY <2>3, <2>4, <2>6 DEF CoreMoves, Restoring, Accepting, At
  <2> QED
    BY <2>5, <2>7, PlainQueueKeeps
<1>7. CASE CloseEnd
  BY <1>7, ProcessEndsQueue DEF CloseEnd
<1> QED
  BY <1>2, <1>3, <1>4, <1>5, <1>6, <1>7, CloseMarkQueue DEF Shutdown

(* The steps of a worker thread: it only speaks of a run that was called. *)
LEMMA WorkerQueue ==
  ASSUME IInv, QInv, NEW r \in Runs, Worker(r)
  PROVE  QInv'
<1>0. /\ worker \in [Runs -> WorkerType] /\ worker[r] \in WorkerType
      /\ updates \in Seq([run : Runs, result : Kinds])
  BY Types
<1>1. UNCHANGED <<row, sched, retained, core>> /\ worker[r].pc # "none"
  BY DEF Worker, WorkerPublishes, WorkerReturns, WorkerPuts, WorkerGoesOn, WorkerFallsBack,
         WorkerEnds, WorkerStops, WorkerAlive, CoreStands
<1>2. \A q \in Runs \ {r} : worker'[q] = worker[q]
  BY <1>0 DEF Worker, WorkerPublishes, WorkerReturns, WorkerPuts, WorkerGoesOn,
              WorkerFallsBack, WorkerEnds, WorkerStops
<1>3. \A i \in DOMAIN updates' :
        updates'[i].run = r \/ (i \in DOMAIN updates /\ updates'[i] = updates[i])
  <2>1. CASE WorkerPuts(r)
    <3> DEFINE u == [run |-> r, result |-> worker[r].result]
               U == [run : Runs, result : Kinds]
    <3>1. worker[r].result \in Kinds
      BY <1>0, <2>1 DEF IInv, WorkerHasResult, WorkerPuts, WorkerType
    <3>2. u \in U /\ u.run = r /\ updates \in Seq(U) /\ updates' = Append(updates, u)
      BY <1>0, <2>1, <3>1 DEF WorkerPuts
    <3> HIDE DEF u, U
    <3> QED
      BY <3>2
  <2>2. CASE ~WorkerPuts(r)
    BY <2>2 DEF Worker, WorkerPublishes, WorkerReturns, WorkerGoesOn, WorkerFallsBack,
                WorkerEnds, WorkerStops
  <2> QED
    BY <2>1, <2>2
<1>4. ThreadsQuiet
  BY <1>1, <1>2, <1>3 DEF ThreadsQuiet
<1>5. ~Restoring(core)
  BY <1>1 DEF QInv, BootAlone
<1>6. RowsWait /\ MemoryWaits
  BY <1>1, <1>4, SameRowsWait DEF MemoryWaits, SlotsWait, RetainedWaits, QInv
<1>7. InHand' /\ Visits' /\ VisitsBorn'
  BY <1>1 DEF QInv, InHand, Visits, VisitsBorn
<1>8. CoreMoves
  <2>1. core'.pc # "down"
    BY <1>1, <1>5 DEF Restoring, IInv, ServeOrder
  <2> QED
    BY <1>1, <1>5, <1>7, <2>1 DEF CoreMoves, Accepting, At
<1> QED
  BY <1>6, <1>8, PlainQueueKeeps

(* The rows of older versions are no intents. *)
LEMMA InitQueue == Init => QInv
<1> SUFFICES ASSUME Init PROVE QInv
  OBVIOUS
<1>1. \A r \in Runs : row[r].op # "intended"
  <2>1. \A x \in LegacyRows \cup {Unborn} : x.op # "intended"
    <3>1. \A x \in LegacyRows : x.op # "intended"
      BY DEF LegacyRows, Unborn
    <3>2. Unborn.op # "intended"
      BY DEF Unborn
    <3> QED
      BY <3>1, <3>2
  <2>2. row \in [Runs -> LegacyRows \cup {Unborn}]
    BY DEF Init
  <2> QED
    BY <2>1, <2>2
<1>2. /\ core.pc = "down" /\ core.phase = "boot" /\ core.todo = {} /\ core.ret = "idle"
  BY DEF Init, CoreDown
<1>3. Sound(sched) /\ sched.queue = <<>> /\ sched.runs = {} /\ Queued(sched) = {}
  BY EmptySound DEF Init, Queued
<1>4. \A r \in Runs : Clean(r)
  BY <1>3 DEF Init, Clean, Nothing, NoWorker
<1>5. QueueWaits /\ Intents /\ NotStarted /\ AcceptedIsIntent
  BY <1>1, <1>2, <1>3, <1>4
     DEF QueueWaits, Intents, NotStarted, AcceptedIsIntent, Accepting, At
<1>6. InHand /\ Visits /\ VisitsBorn /\ BootAlone
  BY <1>1, <1>2, <1>3
     DEF Init, InHand, Visits, VisitsBorn, BootAlone, InHandPcs, BootPcs, NoWorker
<1> QED
  BY <1>3, <1>5, <1>6 DEF QInv

(* Every step keeps the invariant. *)
LEMMA StepQueue == IInv /\ QInv /\ [Next]_vars => QInv'
<1> SUFFICES ASSUME IInv, QInv, [Next]_vars PROVE QInv'
  OBVIOUS
<1>1. CASE UNCHANGED vars
  BY <1>1 DEF vars, QInv, QueueWaits, Intents, NotStarted, Unstarted, Accepting, Clean,
              AcceptedIsIntent, InHand, Visits, VisitsBorn, BootAlone, At
<1>2. CASE Next
  BY <1>2, RestoreQueue, PollQueue, DispatchQueue, RequestQueue, ShutdownQueue, WorkerQueue,
     ProcessEndsQueue DEF Next, CoreThread, Crash
<1> QED
  BY <1>1, <1>2

(* The invariant holds of every behaviour: whatever fails, crashes, is       *)
(* replayed or reconciled, the queue holds intents only, once each.          *)
THEOREM QueueInvariance == Spec => []QInv
<1>1. Init => IInv /\ QInv
  BY InitKeeps, InitQueue
<1>2. (IInv /\ QInv) /\ [Next]_vars => (IInv /\ QInv)'
  BY StepKeeps, StepQueue
<1> QED
  BY <1>1, <1>2, PTL DEF Spec

(* SchedulerSound, for every number of runs and backends, every limit, every *)
(* kind of result and any number of faults and crashes: a run waits in the   *)
(* queue at most once, only before it is dispatched and never while it holds *)
(* a slot, and the counter of every backend is the number of runs the        *)
(* scheduler tracks for it.                                                  *)
THEOREM QueueAndCounts == Spec => []SchedulerSound
<1>1. IInv /\ QInv => SchedulerSound
  <2> SUFFICES ASSUME IInv, QInv PROVE SchedulerSound
    OBVIOUS
  <2>1. CountsMatchRuns
    BY DEF QInv, Sound, Counted, OnBackend, CountsMatchRuns
  <2>2. ASSUME NEW i \in DOMAIN sched.queue
        PROVE  LET r == sched.queue[i]
               IN  /\ r \notin sched.runs
                   /\ row[r].op = "intended" \/ row[r].status \in Terminal
                   /\ calls[r] = 0
    <3> DEFINE r == sched.queue[i]
    <3>1. r \in Queued(sched) /\ r \in Runs
      BY QueuedRuns DEF Queued, QInv
    <3> HIDE DEF r
    <3>2. row[r].op = "intended" /\ Clean(r)
      BY <3>1 DEF QInv, QueueWaits, NotStarted, Unstarted
    <3>3. calls[r] = 0
      BY <3>1, <3>2 DEF IInv, CallsFollowRows, Untold
    <3> QED
      BY <3>2, <3>3 DEF r, Clean
  <2>3. QueueSound
    BY <2>2 DEF QInv, Sound, Once, QueueSound
  <2> QED
    BY <2>1, <2>3 DEF SchedulerSound
<1> QED
  BY <1>1, Invariance, QueueInvariance, PTL

-----------------------------------------------------------------------------
(* The total of the counters. *)

(* A set of subsets of a finite set has a smallest member. *)
LEMMA SmallestSet ==
  ASSUME NEW S, IsFiniteSet(S), NEW T, T \subseteq SUBSET S, T # {}
  PROVE  \E x \in T : \A y \in T : y \subseteq x => y = x
<1>1. IsWellFoundedOn(StrictSubsetOrdering(S), FiniteSubsetsOf(S))
  BY FS_StrictSubsetOrderingWellFounded
<1>2. FiniteSubsetsOf(S) = SUBSET S
  BY FS_FiniteSubsetsOfFinite
<1>3. T \subseteq FiniteSubsetsOf(S)
  BY <1>2
<1>4. PICK x \in T : \A y \in T : ~ (<<y, x>> \in StrictSubsetOrdering(S))
  BY <1>1, <1>3, WFMin
<1>5. \A y \in T : y \subseteq x => y = x
  BY <1>4 DEF StrictSubsetOrdering
<1> QED
  BY <1>5

(* f adds up the counters of a scheduler over every set of backends, in the  *)
(* order MapThenFoldSet takes.                                               *)
Sums(s, f) ==
  f = [S \in SUBSET Backends |->
         IF S = {} THEN 0
         ELSE LET b == CHOOSE b \in S : TRUE IN s.inflight[b] + f[S \ {b}]]

(* The number inflight is the sum over all backends. *)
LEMMA TotalSums ==
  ASSUME NEW s
  PROVE  InflightTotal(s) = (CHOOSE f : Sums(s, f))[Backends]
BY DEF InflightTotal, MapThenFoldSet, Sums

(* There is one such sum: the smallest set on which two of them differ has   *)
(* one backend less in both.                                                 *)
LEMMA SumsAgree ==
  ASSUME NEW s, NEW f, NEW g, Sums(s, f), Sums(s, g)
  PROVE  f = g
<1> DEFINE T == {S \in SUBSET Backends : f[S] # g[S]}
           D == SUBSET Backends
<1>1. /\ f = [S \in D |-> f[S]] /\ g = [S \in D |-> g[S]]
  BY DEF Sums
<1>2. T = {}
  <2> SUFFICES ASSUME T # {} PROVE FALSE
    OBVIOUS
  <2>1. PICK S \in T : \A R \in T : R \subseteq S => R = S
    <3>1. T \subseteq SUBSET Backends /\ IsFiniteSet(Backends)
      BY SchedulerAssumption
    <3> HIDE DEF T
    <3> QED
      BY <3>1, SmallestSet
  <2> DEFINE b == CHOOSE b \in S : TRUE
  <2>2. S \in D /\ f[S] # g[S]
    OBVIOUS
  <2>3. S # {}
    BY <2>2 DEF Sums
  <2>4. b \in S
    BY <2>3
  <2>5. f[S \ {b}] = g[S \ {b}]
    BY <2>1, <2>4
  <2>6. /\ f[S] = s.inflight[b] + f[S \ {b}]
        /\ g[S] = s.inflight[b] + g[S \ {b}]
    BY <2>2, <2>3 DEF Sums
  <2> QED
    BY <2>2, <2>5, <2>6
<1> HIDE DEF T
<1>3. \A S \in D : f[S] = g[S]
  BY <1>2 DEF T
<1> QED
  BY <1>1, <1>3

(* The number of tracked runs of the backends in S. *)
RunsOn(s) == [S \in SUBSET Backends |-> Cardinality({r \in s.runs : BackendOf[r] \in S})]

(* Where the counters are those of the tracked runs, so are their sums. *)
LEMMA RunsSum ==
  ASSUME NEW s, Sound(s)
  PROVE  Sums(s, RunsOn(s))
<1> DEFINE On(S) == {r \in s.runs : BackendOf[r] \in S}
           g == RunsOn(s)
<1>1. s.runs \in SUBSET Runs /\ IsFiniteSet(Runs)
  BY SchedulerAssumption DEF Sound, SchedulerType
<1>2. IsFiniteSet(s.runs)
  BY <1>1, FS_Subset
<1>3. \A S \in SUBSET Backends : g[S] = Cardinality(On(S))
  BY DEF RunsOn
<1>4. ASSUME NEW S \in SUBSET Backends
      PROVE  g[S] = IF S = {} THEN 0
                    ELSE LET b == CHOOSE b \in S : TRUE IN s.inflight[b] + g[S \ {b}]
  <2>1. CASE S = {}
    <3>1. On(S) = {}
      BY <2>1
    <3> QED
      BY <1>3, <2>1, <3>1, FS_EmptySet
  <2>2. CASE S # {}
    <3> DEFINE b == CHOOSE b \in S : TRUE
               P == On(S \ {b})
               Q == OnBackend(s.runs, b)
    <3>1. b \in S /\ b \in Backends /\ S \ {b} \in SUBSET Backends
      BY <2>2
    <3> HIDE DEF b
    <3>2. On(S) = P \cup Q /\ P \cap Q = {}
      BY <3>1 DEF OnBackend
    <3>3. IsFiniteSet(P) /\ IsFiniteSet(Q)
      <4>1. P \in SUBSET s.runs /\ Q \in SUBSET s.runs
        BY DEF OnBackend
      <4> QED
        BY <1>2, <4>1, FS_Subset
    <3>4. g[S \ {b}] = Cardinality(P) /\ s.inflight[b] = Cardinality(Q)
      BY <1>3, <3>1 DEF Sound, Counted
    <3> HIDE DEF P, Q, On, g
    <3>5. Cardinality(P) \in Nat /\ Cardinality(Q) \in Nat /\ Cardinality({}) = 0
      BY <3>3, FS_CardinalityType, FS_EmptySet
    <3>6. Cardinality(P \cup Q) = Cardinality(P) + Cardinality(Q) - Cardinality(P \cap Q)
      BY <3>3, FS_Union
    <3>7. g[S] = s.inflight[b] + g[S \ {b}]
      <4>1. g[S] = Cardinality(P \cup Q)
        BY <1>3, <3>2
      <4>2. Cardinality(P \cap Q) = 0
        BY <3>2, <3>5
      <4> QED
        BY <3>4, <3>5, <3>6, <4>1, <4>2
    <3> QED
      BY <2>2, <3>7 DEF b
  <2> QED
    BY <2>1, <2>2
<1> QED
  BY <1>4 DEF Sums, RunsOn

(* The total the global limit is compared with is the number of tracked      *)
(* runs.                                                                     *)
LEMMA TotalIsRuns ==
  ASSUME NEW s, Sound(s)
  PROVE  InflightTotal(s) = Cardinality(s.runs)
<1> DEFINE f == CHOOSE f : Sums(s, f)
<1>1. Sums(s, RunsOn(s))
  BY RunsSum
<1>2. Sums(s, f)
  BY <1>1
<1>3. f = RunsOn(s)
  BY <1>1, <1>2, SumsAgree
<1>4. {r \in s.runs : BackendOf[r] \in Backends} = s.runs
  BY SchedulerAssumption DEF Sound, SchedulerType
<1> QED
  BY <1>3, <1>4, TotalSums DEF RunsOn

-----------------------------------------------------------------------------
(* From the decision to the call. *)

(* Between the decision that a run may start and the call of its backend     *)
(* nothing takes its place.                                                  *)
Placed == core.pc \in {"check", "committing"} => CanStart(sched, core.cur)

(* No dispatch is under way after this step. *)
Elsewhere == core'.pc \notin {"check", "committing"}

(* The steps at which no dispatch is under way. *)
Away == Pcs \ {"check", "committing"}

(* Where results are recorded no dispatch is under way. *)
LEMMA AwayPcs ==
  /\ {"bootRun", "boot", "reconTail", "recon", "retry", "updates", "closing", "idle", "raise"}
       \subseteq Away
  /\ {"streaming", "broken", "drain", "terminating", "cancelling"} \subseteq Away
  /\ Returns \subseteq Away
  /\ FALSE \in BOOLEAN /\ TRUE \in BOOLEAN
BY DEF Away, Pcs, Returns


(* The core goes on at another step. *)
LEMMA GotoElsewhere ==
  ASSUME NEW c \in CoreType, NEW p, p \notin {"check", "committing"}, core' = Goto(c, p)
  PROVE  Elsewhere
BY DEF Goto, CoreType, Elsewhere

(* _record_result does not go on with a dispatch. *)
LEMMA RecordElsewhere ==
  ASSUME NEW r \in Runs, NEW k, NEW d, NEW replay \in BOOLEAN, NEW s, NEW c \in CoreType,
         NEW next \in Away, NEW ended \in Away, NEW onFail \in Away,
         Record(r, k, d, replay, s, c, next, ended, onFail)
  PROVE  Elsewhere
<1>1. ASSUME NEW p, core' = Goto(c, p)
      PROVE  core'.pc = p
  BY <1>1 DEF Goto, CoreType
<1>2. ASSUME NEW q, NEW p, core' = BeginDrain(c, q, p)
      PROVE  core'.pc = "drain"
  BY <1>2 DEF BeginDrain, CoreType
<1>3. core' = Raise(c) => core'.pc = "raise"
  BY DEF Raise, CoreType
<1>4. ASSUME RecordLands(r, k, d, replay, s, c, next, ended)
      PROVE  core'.pc \in {next, ended, "drain"}
  <2> DEFINE x == IF replay /\ IsProgress(k) THEN ProgressLanded(row[r], d)
                                             ELSE Landed(row[r], k, d)
             q == Project(s, r, x).queue
             p == IF Open(x) THEN next ELSE ended
  <2>1. core' = AfterResult(c, ~Open(x), q, p)
    BY <1>4 DEF RecordLands
  <2>2. p \in {next, ended}
    OBVIOUS
  <2> HIDE DEF x, q, p
  <2> QED
    BY <1>1, <1>2, <2>1, <2>2 DEF AfterResult
<1>5. RecordDropped(r, s, c, ended) => core'.pc = ended
  BY <1>1 DEF RecordDropped
<1>6. RecordIgnored(r, k, s, c, next) => core'.pc = next
  BY <1>1 DEF RecordIgnored
<1>7. RecordFails(r, k, d, s, c, onFail) => core'.pc \in {onFail, "raise"}
  BY <1>1, <1>3 DEF RecordFails
<1> QED
  BY <1>4, <1>5, <1>6, <1>7 DEF Record, Elsewhere, Away

(* The restore dispatches nothing by itself. *)
LEMMA RestoreElsewhere ==
  ASSUME IInv, Restore
  PROVE  Elsewhere
<1>0. core \in CoreType /\ core.ret \notin {"check", "committing"}
  BY Types DEF CoreType, Returns
<1>1. CASE OpenProcess \/ BootEnd
  BY <1>0, <1>1 DEF OpenProcess, BootEnd, BeginDrain, Elsewhere, CoreType
<1>2. ASSUME NEW r \in Runs, BootReplay(r) PROVE Elsewhere
  <2> DEFINE c == [core EXCEPT !.todo = @ \ {r}, !.cur = r]
  <2>1. c \in CoreType
    BY <1>0 DEF CoreType
  <2>2. \/ core' = Goto(c, "bootRun")
        \/ Record(r, row[r].stash, row[r].answer, TRUE, sched, c, "bootRun", "boot", "bootRun")
    BY <1>2 DEF BootReplay
  <2> HIDE DEF c
  <2> QED
    BY <2>1, <2>2, AwayPcs, RecordElsewhere, GotoElsewhere
<1>3. ASSUME NEW r \in Runs,
             \/ BootEnqueue(r) \/ BootProject(r) \/ ReconUntracked(r) \/ ReconObserved(r)
             \/ ReconUnknownOp(r) \/ ReconUnknownRun(r)
      PROVE  Elsewhere
  BY <1>0, <1>3 DEF BootEnqueue, BootProject, ReconUntracked, ReconObserved, ReconUnknownOp,
                    ReconUnknownRun, Goto, CoreType, Elsewhere
<1>4. ASSUME NEW r \in Runs, BootLost(r) PROVE Elsewhere
  BY <1>0, <1>4, AwayPcs, RecordElsewhere DEF BootLost
<1>5. ASSUME NEW r \in Runs, ReconReplay(r) PROVE Elsewhere
  <2>1. \/ core' = Goto(core, "reconTail")
        \/ Record(r, row[r].stash, row[r].answer, TRUE, sched, core, "reconTail", core.ret,
                  "reconTail")
    BY <1>5 DEF ReconReplay
  <2>2. core.ret \in Away
    BY <1>0, Types, AwayPcs DEF CoreType
  <2>3. ASSUME core' = Goto(core, "reconTail") PROVE Elsewhere
    BY <1>0, <2>3, GotoElsewhere
  <2>4. ASSUME Record(r, row[r].stash, row[r].answer, TRUE, sched, core, "reconTail", core.ret,
                      "reconTail")
        PROVE  Elsewhere
    BY <1>0, <2>2, <2>4, AwayPcs, RecordElsewhere
  <2> QED
    BY <2>1, <2>3, <2>4
<1> QED
  BY <1>1, <1>2, <1>3, <1>4, <1>5 DEF Restore

(* poll dispatches nothing but through the queue. *)
LEMMA PollElsewhere ==
  ASSUME IInv, Poll
  PROVE  Elsewhere
<1>0. core \in CoreType
  BY Types
<1>1. CASE PollBegin \/ PollEnd
  BY <1>0, <1>1 DEF PollBegin, PollEnd, Goto, CoreType, Elsewhere
<1>2. CASE RetryEnd \/ UpdatesEnd
  BY <1>0, <1>2 DEF RetryEnd, UpdatesEnd, Goto, BeginDrain, CoreType, Elsewhere
<1>3. ASSUME NEW r \in Runs, RetryOne(r) PROVE Elsewhere
  <2> DEFINE c == [core EXCEPT !.todo = @ \ {r}]
  <2>1. c \in CoreType
    BY <1>0 DEF CoreType
  <2>2. Record(r, retained[r].result, retained[r].answer, TRUE, sched, c,
               "retry", "retry", "retry")
    BY <1>3 DEF RetryOne
  <2> HIDE DEF c
  <2> QED
    BY <2>1, <2>2, AwayPcs, RecordElsewhere
<1>4. ASSUME NEW r \in Runs, ApplyUpdate(r) PROVE Elsewhere
  BY <1>0, <1>4, AwayPcs, RecordElsewhere DEF ApplyUpdate, At
<1> QED
  BY <1>1, <1>2, <1>3, <1>4 DEF Poll

(* Of the requests only task.submit goes on with a dispatch. *)
LEMMA RequestElsewhere ==
  ASSUME IInv, Request
  PROVE  Elsewhere \/ \E r \in Runs : Admit(r)
<1>0. core \in CoreType
  BY Types
<1>1. ASSUME NEW r \in Runs,
             \/ TaskSubmit(r) \/ CancelIntent(r) \/ CancelUnconfirmed(r) \/ TerminateIntent(r)
             \/ TerminateSave(r) \/ PauseRun(r) \/ PauseTask(r) \/ ResumeRun(r)
      PROVE  Elsewhere
  BY <1>0, <1>1 DEF TaskSubmit, CancelIntent, CancelUnconfirmed, TerminateIntent, TerminateSave,
                    PauseRun, PauseTask, ResumeRun, Goto, CoreType, Elsewhere
<1>2. ASSUME NEW r \in Runs,
             ResumeTask(r) \/ ReconcileOnly(r) \/ RespondIntent(r) \/ RespondUnknown(r)
      PROVE  Elsewhere
  BY <1>0, <1>2 DEF ResumeTask, ReconcileOnly, RespondIntent, RespondUnknown, Goto, BeginDrain,
                    CoreType, Elsewhere
<1>3. ASSUME NEW r \in Runs,
             \/ CancelQueued(r) \/ (\E k : CancelConfirmed(r, k)) \/ TerminateRecord(r)
             \/ (\E k, d : RespondAnswered(r, k, d))
      PROVE  Elsewhere
  BY <1>0, <1>3, AwayPcs, RecordElsewhere DEF CancelQueued, CancelConfirmed, TerminateRecord,
                                     RespondAnswered
<1>4. ASSUME NEW r \in Runs, NEW k, ReconcileRecord(r, k) PROVE Elsewhere
  <2> DEFINE c == [core EXCEPT !.cur = r, !.ret = "idle"]
  <2>1. c \in CoreType
    BY <1>0 DEF CoreType, Returns, Pcs
  <2>2. Record(r, k, "none", FALSE, sched, c, "recon", "idle", "raise")
    BY <1>4 DEF ReconcileRecord
  <2> HIDE DEF c
  <2> QED
    BY <2>1, <2>2, AwayPcs, RecordElsewhere
<1> QED
  BY <1>1, <1>2, <1>3, <1>4 DEF Request

(* Failures and shutdown leave no dispatch under way. *)
LEMMA ShutdownElsewhere ==
  ASSUME IInv, Shutdown \/ Crash
  PROVE  Elsewhere
<1>0. core \in CoreType
  BY Types
<1>1. CASE CommitFails
  BY <1>0, <1>1 DEF CommitFails, StoreFails, Raise, CoreType, Elsewhere
<1>2. ProcessEnds => Elsewhere
  BY DEF ProcessEnds, CoreDown, Elsewhere
<1>4. CASE HandleRaise
  BY <1>0, <1>2, <1>4 DEF HandleRaise, Goto, CoreType, Elsewhere
<1>5. CASE StopRequested \/ CloseDrained
  BY <1>0, <1>5 DEF StopRequested, CloseDrained, Goto, CoreType, Elsewhere
<1>6. CASE CloseBegin
  <2>1. CASE ~Background
    BY <1>2, <1>6, <2>1 DEF CloseBegin
  <2>2. CASE Background
    BY <1>0, <1>6, <2>2 DEF CloseBegin, CoreType, Elsewhere
  <2> QED
    BY <2>1, <2>2
<1>7. CASE CloseEnd \/ Crash
  BY <1>2, <1>7 DEF CloseEnd, Crash
<1>3. ASSUME NEW r \in Runs, CloseMarkRun(r) \/ CloseMarkOp(r) PROVE Elsewhere
  BY <1>0, <1>3 DEF CloseMarkRun, CloseMarkOp, Goto, CoreType, Elsewhere
<1> QED
  BY <1>1, <1>3, <1>4, <1>5, <1>6, <1>7 DEF Shutdown

(* can_start depends on the counters and the tracked runs only, not on the   *)
(* queue.                                                                    *)
LEMMA CanStartAs ==
  ASSUME NEW s, NEW t, Sound(s), Sound(t), t.inflight = s.inflight, t.runs = s.runs,
         NEW r, CanStart(s, r)
  PROVE  CanStart(t, r)
<1>1. InflightTotal(t) = InflightTotal(s)
  BY TotalIsRuns
<1> QED
  BY <1>1 DEF CanStart

(* A dispatch: the queue gives up a run that may start, and the first commit *)
(* takes nobody's place.                                                     *)
LEMMA DispatchPlaced ==
  ASSUME IInv, QInv, Placed, Dispatch
  PROVE  Placed'
<1>0. core \in CoreType /\ sched \in SchedulerType /\ core.ret \notin {"check", "committing"}
  BY Types DEF CoreType, Returns
<1>1. AfterDispatch \in {"drain", "idle"}
  BY DEF AfterDispatch
<1>2. Elsewhere => Placed'
  BY DEF Elsewhere, Placed
<1>3. CASE DrainEnd
  BY <1>0, <1>2, <1>3 DEF DrainEnd, CoreType, Elsewhere
<1>4. ASSUME NEW r \in Runs, DrainSkip(r) PROVE Placed'
  BY <1>0, <1>2, <1>4 DEF DrainSkip, NextItem, PastItem, At, CoreType, Elsewhere
<1>5. ASSUME NEW r \in Runs, DrainTake(r) PROVE Placed'
  <2>1. /\ core' = [PastItem EXCEPT !.pc = "check", !.cur = r] /\ sched' = Remove(sched, r)
        /\ CanStart(sched, r)
    BY <1>5 DEF DrainTake, Dispatchable
  <2>2. core'.cur = r
    BY <1>0, <2>1 DEF PastItem, CoreType
  <2>3. Remove(sched, r).inflight = sched.inflight /\ Remove(sched, r).runs = sched.runs
    BY <1>0 DEF Remove, SchedulerType
  <2>5. Sound(sched) /\ Sound(Remove(sched, r))
    BY RemoveSound DEF QInv
  <2>4. CanStart(sched', r)
    BY <2>1, <2>3, <2>5, CanStartAs
  <2> QED
    BY <2>2, <2>4 DEF Placed
<1>6. ASSUME NEW r \in Runs, CheckRefuses(r) \/ RefusedOp(r) \/ CallBackend(r) \/ CallRaises(r)
      PROVE  Placed'
  <2>1. \E p \in {"refused", "idle", "drain", "calling"} : core' = Goto(core, p)
    BY <1>1, <1>6 DEF CheckRefuses, RefusedOp, CallBackend, CallRaises
  <2> QED
    BY <1>0, <1>2, <2>1 DEF Goto, CoreType, Elsewhere
<1>7. ASSUME NEW r \in Runs, CommitDispatching(r) PROVE Placed'
  <2>1. core' = Goto(core, "committing") /\ sched' = sched /\ core.pc = "check"
    BY <1>7 DEF CommitDispatching, At
  <2>2. core'.cur = core.cur
    BY <1>0, <2>1 DEF Goto, CoreType
  <2> QED
    BY <2>1, <2>2 DEF Placed
<1>8. ASSUME NEW r \in Runs, StreamPublishes(r) \/ \E k \in FinalKinds : CallReturns(r, k)
      PROVE  Placed'
  <2> DEFINE p == AfterDispatch
  <2>1. p \in Away
    BY <1>1, AwayPcs
  <2>2. \/ Record(r, "progress", "none", FALSE, sched, core, "streaming", "streaming", "broken")
        \/ \E k \in FinalKinds : Record(r, k, "none", FALSE, sched, core, p, p, "raise")
    BY <1>8 DEF StreamPublishes, CallReturns
  <2> HIDE DEF p
  <2>3. ASSUME Record(r, "progress", "none", FALSE, sched, core, "streaming", "streaming",
                      "broken")
        PROVE  Elsewhere
    BY <1>0, <2>3, AwayPcs, RecordElsewhere
  <2>4. ASSUME NEW k, Record(r, k, "none", FALSE, sched, core, p, p, "raise")
        PROVE  Elsewhere
    BY <1>0, <2>1, <2>4, AwayPcs, RecordElsewhere
  <2> QED
    BY <1>2, <2>2, <2>3, <2>4
<1> QED
  BY <1>3, <1>4, <1>5, <1>6, <1>7, <1>8 DEF Dispatch

(* Every step keeps the place of the run being dispatched. *)
LEMMA StepPlaced == IInv /\ QInv /\ Placed /\ [Next]_vars => Placed'
<1> SUFFICES ASSUME IInv, QInv, Placed, [Next]_vars PROVE Placed'
  OBVIOUS
<1>0. core \in CoreType
  BY Types
<1>1. Elsewhere => Placed'
  BY DEF Elsewhere, Placed
<1>2. CASE UNCHANGED <<sched, core>>
  BY <1>2 DEF Placed
<1>3. ASSUME NEW r \in Runs, Worker(r)
      PROVE  UNCHANGED <<sched, core>>
  BY <1>3 DEF Worker, WorkerPublishes, WorkerReturns, WorkerPuts, WorkerGoesOn, WorkerFallsBack,
              WorkerEnds, WorkerStops, CoreStands
<1>4. ASSUME NEW r \in Runs, Admit(r) PROVE Placed'
  <2>1. core.cur = r
    BY <1>4 DEF Admit
  <2>2. CASE CanStart(sched, r)
    <3>1. core' = Goto(core, "check") /\ sched' = sched
      BY <1>4, <2>2 DEF Admit
    <3>2. core'.cur = r
      BY <1>0, <2>1, <3>1 DEF Goto, CoreType
    <3> QED
      BY <2>2, <3>1, <3>2 DEF Placed
  <2>3. CASE ~CanStart(sched, r)
    BY <1>0, <1>1, <1>4, <2>3 DEF Admit, Goto, CoreType, Elsewhere
  <2> QED
    BY <2>2, <2>3
<1>5. UNCHANGED vars => UNCHANGED <<sched, core>>
  BY DEF vars
<1> QED
  BY <1>1, <1>2, <1>3, <1>4, <1>5, RestoreElsewhere, PollElsewhere, DispatchPlaced,
     RequestElsewhere, ShutdownElsewhere DEF Next, CoreThread

(* From the decision to the call, through both commits, the run may start. *)
THEOREM PlacedInvariance == Spec => []Placed
<1>1. Init => Placed
  BY DEF Init, CoreDown, Placed
<1>2. IInv /\ QInv /\ Placed /\ [Next]_vars => Placed'
  BY StepPlaced
<1> QED
  BY <1>1, <1>2, Invariance, QueueInvariance, PTL DEF Spec

(* One more of fewer than n is no more than n. *)
LEMMA OneMore ==
  ASSUME NEW S, IsFiniteSet(S), NEW r, NEW n \in Nat, Cardinality(S) < n,
         NEW T, T \subseteq S \cup {r}
  PROVE  Cardinality(T) <= n
<1>0. Cardinality(S) \in Nat
  BY FS_CardinalityType
<1>1. IsFiniteSet(S \cup {r}) /\ Cardinality(S \cup {r}) <= Cardinality(S) + 1
  <2>1. CASE r \in S
    <3>1. S \cup {r} = S
      BY <2>1
    <3> QED
      BY <1>0, <3>1
  <2>2. CASE r \notin S
    <3>1. IsFiniteSet(S \cup {r})
      BY FS_AddElement
    <3>2. Cardinality(S \cup {r}) = Cardinality(S) + 1
      BY <2>2, FS_AddElement
    <3> QED
      BY <1>0, <3>1, <3>2
  <2> QED
    BY <2>1, <2>2
<1>2. Cardinality(S \cup {r}) \in Nat
  BY <1>1, FS_CardinalityType
<1>3. IsFiniteSet(T) /\ Cardinality(T) <= Cardinality(S \cup {r})
  BY <1>1, FS_Subset
<1>4. Cardinality(T) \in Nat
  BY <1>3, FS_CardinalityType
<1> QED
  BY <1>0, <1>1, <1>2, <1>3, <1>4

(* The call of a backend, where the run may start. *)
LEMMA CallWithinLimits ==
  ASSUME IInv, QInv, Placed, NEW r \in Runs, CallBackend(r)
  PROVE  /\ MaxConcurrency # Unlimited => Cardinality(sched'.runs) <= MaxConcurrency
         /\ Cardinality({q \in sched'.runs : BackendOf[q] = BackendOf[r]}) <= PerBackend
         /\ \A q \in sched'.runs \ {r} : WorkspaceOf[q] # WorkspaceOf[r]
<1> DEFINE b == BackendOf[r]
           S == OnBackend(sched.runs, b)
           T == {q \in sched'.runs : BackendOf[q] = b}
<1>1. CanStart(sched, r)
  BY DEF CallBackend, Placed, At
<1>2. Sound(sched)
  BY DEF QInv
<1>3. sched.runs \in SUBSET Runs /\ IsFiniteSet(sched.runs)
  <2>1. sched.runs \in SUBSET Runs /\ IsFiniteSet(Runs)
    BY <1>2, SchedulerAssumption DEF Sound, SchedulerType
  <2> QED
    BY <2>1, FS_Subset
<1>4. sched'.runs \subseteq sched.runs \cup {r}
  <2>1. sched' = Project(sched, r, row'[r])
    BY DEF CallBackend
  <2>2. Project(sched, r, row'[r]).runs \subseteq sched.runs \cup {r}
    <3> DEFINE x == row'[r]
    <3> HIDE DEF x
    <3>1. Project(sched, r, x).runs = IF SlotHeld(x) THEN sched.runs \cup {r}
                                                     ELSE sched.runs \ {r}
      BY <1>2, ProjectSound
    <3> QED
      BY <3>1 DEF x
  <2> QED
    BY <2>1, <2>2
<1>5. MaxConcurrency # Unlimited => Cardinality(sched'.runs) <= MaxConcurrency
  <2> SUFFICES ASSUME MaxConcurrency # Unlimited
               PROVE  Cardinality(sched'.runs) <= MaxConcurrency
    OBVIOUS
  <2>1. MaxConcurrency \in Nat
    BY SchedulerAssumption
  <2>2. Cardinality(sched.runs) < MaxConcurrency
    BY <1>1, <1>2, TotalIsRuns DEF CanStart
  <2> QED
    BY <1>3, <1>4, <2>1, <2>2, OneMore
<1>6. Cardinality(T) <= PerBackend
  <2>1. b \in Backends /\ PerBackend \in Nat
    BY SchedulerAssumption
  <2>2. Cardinality(S) < PerBackend
    BY <1>1, <1>2, <2>1 DEF CanStart, Sound, Counted
  <2>3. IsFiniteSet(S)
    BY <1>3, BackendCount
  <2>4. T \subseteq S \cup {r}
    BY <1>4 DEF OnBackend
  <2> HIDE DEF S, T, b
  <2> QED
    BY <2>1, <2>2, <2>3, <2>4, OneMore
<1>7. \A q \in sched'.runs \ {r} : WorkspaceOf[q] # WorkspaceOf[r]
  BY <1>1, <1>4 DEF CanStart
<1> QED
  BY <1>5, <1>6, <1>7

(* DispatchWithinLimits, for every limit and any mixture of restarts,        *)
(* replays and released slots: when a backend is called, the runs that are   *)
(* tracked then are within the limit of all, within the limit of the         *)
(* backend, and no other is in the same workspace.                           *)
THEOREM DispatchedWithinLimits == Spec => DispatchWithinLimits
<1>1. ASSUME IInv, QInv, Placed, [Next]_vars
      PROVE  [\A r \in Runs : Called(r) =>
                /\ MaxConcurrency # Unlimited => Cardinality(sched'.runs) <= MaxConcurrency
                /\ Cardinality({q \in sched'.runs : BackendOf[q] = BackendOf[r]}) <= PerBackend
                /\ \A q \in sched'.runs \ {r} : WorkspaceOf[q] # WorkspaceOf[r]]_vars
  <2> SUFFICES ASSUME Next, NEW r \in Runs, calls'[r] # calls[r]
               PROVE  /\ MaxConcurrency # Unlimited => Cardinality(sched'.runs) <= MaxConcurrency
                      /\ Cardinality({q \in sched'.runs : BackendOf[q] = BackendOf[r]}) <= PerBackend
                      /\ \A q \in sched'.runs \ {r} : WorkspaceOf[q] # WorkspaceOf[r]
    BY <1>1 DEF Called
  <2>1. PICK q \in Runs : CallBackend(q)
    BY CallsOnlyDispatch
  <2>2. calls' = [calls EXCEPT ![q] = calls[q] + 1]
    BY <2>1 DEF CallBackend
  <2>3. r = q
    BY <1>1, <2>2, Types
  <2> QED
    BY <1>1, <2>1, <2>3, CallWithinLimits
<1> QED
  BY <1>1, Invariance, QueueInvariance, PlacedInvariance, PTL DEF Spec, DispatchWithinLimits
=============================================================================
