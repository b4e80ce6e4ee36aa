-------------------------- MODULE AcceptanceProofs --------------------------
(***************************************************************************)
(* Proofs about the parts that decide on acceptance, for every value of     *)
(* their constants: the local checks of CheckRuntime, the flow of           *)
(* QualityFlow and the evidence of EvidenceGates. Each part has an          *)
(* inductive invariant, a lemma for each of its actions that also says what *)
(* the step may do, and a theorem that the part keeps its safety.           *)
(***************************************************************************)
EXTENDS CheckRuntime, QualityFlow, EvidenceGates, FiniteSetTheorems, TLAPS

-----------------------------------------------------------------------------
(* Local checks.                                                            *)

CheckRows == [status : {"absent"} \cup Open \cup CheckEnds, verdict : Verdicts \cup {"none"},
              key : Keys \cup {NoKey}, target : Targets \cup {0}, check : Checks \cup {0}]
CheckMems == [active : [Jobs -> {"no", "on", "stop"}],
              worker : [Jobs -> {"none", "start", "work", "put", "wait", "end"}],
              got : [Jobs -> [status : CheckEnds \cup {"none"}, verdict : Verdicts \cup {"none"}]],
              cand : [Jobs -> SUBSET Verdicts], queue : Seq(Jobs)]

(* The memory of the core belongs to the rows: what is active has an open    *)
(* row, what runs a command is active, what brings a report has one, and a   *)
(* job that was never asked for has nothing.                                 *)
Fits(rows, m, j) ==
  /\ rows[j].status = "completed" => rows[j].verdict \in Verdicts
  /\ m.active[j] # "no" => rows[j].status \in Open
  /\ m.worker[j] \in {"start", "work"} => m.active[j] # "no" /\ j \notin ToSet(m.queue)
  /\ m.worker[j] = "put" \/ j \in ToSet(m.queue) => m.got[j].status \in CheckEnds
  /\ m.got[j].status = "completed" => m.got[j].verdict \in Verdicts
  /\ rows[j].status = "absent" => m.worker[j] = "none" /\ j \notin ToSet(m.queue)

InSlots(m) == IsFiniteSet(Active(m)) /\ Cardinality(Active(m)) <= Concurrency

MemFits(rows, m) ==
  rows \in [Jobs -> CheckRows] /\ m \in CheckMems /\ (\A j \in Jobs : Fits(rows, m, j)) /\ InSlots(m)

Owned(rows, m) == \A j \in Jobs : rows[j].status \in Open => m.active[j] # "no"

ChecksInv ==
  /\ MemFits(row, mem) /\ (checkUp => Owned(row, mem)) /\ (~checkUp => mem = Idle)
  /\ target \in Targets /\ check \in Checks /\ checkUp \in BOOLEAN
  /\ checkFails \in 0 .. MaxCheckFails /\ checkStops \in 0 .. MaxCheckStops

(* What may become of one row.                                               *)
Reported(p, q) ==
  p.status # "completed" /\ q.status = "completed" => p.status # "cancelling" /\ q.target = target /\ q.check = check
Closed(p, q) ==
  /\ p.status \in CheckEnds => q = p
  /\ p.status = "cancelling" => q.status \in {"cancelling", "cancelled", "unknown"}
RowsMove(rows, next) == \A j \in Jobs : Reported(rows[j], next[j]) /\ Closed(rows[j], next[j])

ChecksStepOK == ChecksInv' /\ RowsMove(row, row')

LEMMA ChecksInvImplies == ChecksInv => CheckTypeOK /\ OpenHasOwner /\ SlotsBoundChecks
<1> SUFFICES ASSUME ChecksInv PROVE CheckTypeOK /\ OpenHasOwner /\ SlotsBoundChecks
  OBVIOUS
<1>1. CheckTypeOK /\ OpenHasOwner
  BY DEF ChecksInv, MemFits, Owned, CheckTypeOK, OpenHasOwner, CheckRows, CheckMems
<1> DEFINE W == {j \in Jobs : mem.worker[j] \in {"start", "work"}}
<1>2. W \subseteq Active(mem) /\ IsFiniteSet(Active(mem)) /\ Cardinality(Active(mem)) <= Concurrency
  BY DEF ChecksInv, MemFits, Fits, Active, InSlots
<1>3. Cardinality(W) <= Cardinality(Active(mem)) /\ Cardinality(W) \in Nat /\ Cardinality(Active(mem)) \in Nat
  BY <1>2, FS_Subset, FS_CardinalityType
<1>4. SlotsBoundChecks
  BY <1>2, <1>3, CheckRuntimeAssumption DEF SlotsBoundChecks
<1> QED
  BY <1>1, <1>4

LEMMA IdleFits ==
  ASSUME NEW rows \in [Jobs -> CheckRows], \A j \in Jobs : rows[j].status = "completed" => rows[j].verdict \in Verdicts
  PROVE  MemFits(rows, Idle)
<1>1. /\ Idle.active = [j \in Jobs |-> "no"] /\ Idle.worker = [j \in Jobs |-> "none"]
      /\ Idle.got = [j \in Jobs |-> [status |-> "none", verdict |-> "none"]]
      /\ Idle.cand = [j \in Jobs |-> {}] /\ Idle.queue = <<>> /\ ToSet(Idle.queue) = {}
  BY DEF Idle, ToSet
<1>2. Idle \in CheckMems
  BY DEF Idle, CheckMems
<1>3. \A j \in Jobs : Fits(rows, Idle, j)
  BY <1>1 DEF Fits, CheckEnds, Verdicts
<1>4. Active(Idle) = {}
  BY <1>1 DEF Active
<1>5. InSlots(Idle)
  BY <1>4, FS_EmptySet, CheckRuntimeAssumption DEF InSlots
<1> QED
  BY <1>2, <1>3, <1>5 DEF MemFits

LEMMA ChecksInitHolds == CheckInit => ChecksInv
<1> SUFFICES ASSUME CheckInit PROVE ChecksInv
  OBVIOUS
<1>1. NoJob \in CheckRows /\ NoJob.status = "absent"
  BY DEF NoJob, CheckRows, NoKey
<1>2. row \in [Jobs -> CheckRows] /\ \A j \in Jobs : row[j].status = "absent"
  BY <1>1 DEF CheckInit
<1>3. MemFits(row, mem)
  BY <1>2, IdleFits DEF CheckInit
<1>4. Owned(row, mem)
  BY <1>2 DEF Owned, Open
<1> QED
  BY <1>3, <1>4, CheckRuntimeAssumption DEF CheckInit, ChecksInv

-----------------------------------------------------------------------------
(* The queue of updates is taken in.                                        *)

(* What remains of a queue is part of it.                                    *)
LEMMA RestOfQueue ==
  ASSUME NEW q \in Seq(Jobs), NEW n \in 1 .. Len(q) + 1
  PROVE  SubSeq(q, n + 1, Len(q)) \in Seq(Jobs) /\ ToSet(SubSeq(q, n + 1, Len(q))) \subseteq ToSet(q)
<1> DEFINE s == SubSeq(q, n + 1, Len(q))
<1>1. Len(q) \in Nat /\ DOMAIN q = 1 .. Len(q) /\ \A i \in 1 .. Len(q) : q[i] \in Jobs
  OBVIOUS
<1>2. DOMAIN s = 1 .. Len(q) - n /\ \A i \in 1 .. Len(q) - n : s[i] = q[i + n]
  BY <1>1
<1>3. s \in Seq(Jobs)
  BY <1>1
<1> HIDE DEF s
<1>4. \A i \in DOMAIN s : i + n \in DOMAIN q /\ s[i] = q[i + n]
  BY <1>1, <1>2
<1>5. ToSet(s) \subseteq ToSet(q)
  BY <1>4 DEF ToSet
<1> QED
  BY <1>3, <1>5 DEF s

(* A report enters a row that is open.                                       *)
LEMMA RecordedMoves ==
  ASSUME NEW r \in CheckRows, r.status \in Open, NEW stopped \in BOOLEAN,
         NEW got \in [status : CheckEnds \cup {"none"}, verdict : Verdicts \cup {"none"}], got.status \in CheckEnds,
         got.status = "completed" => got.verdict \in Verdicts
  PROVE  /\ Recorded(r, stopped, got) \in CheckRows /\ Recorded(r, stopped, got).status \in CheckEnds
         /\ Reported(r, Recorded(r, stopped, got)) /\ Closed(r, Recorded(r, stopped, got))
         /\ (Recorded(r, stopped, got).status = "completed" => Recorded(r, stopped, got).verdict \in Verdicts)
<1> DEFINE cancelled == r.status = "cancelling" \/ stopped
           stale == got.status = "completed" /\ ~CheckBound(r)
           status == IF cancelled THEN "cancelled" ELSE IF stale THEN "stale" ELSE got.status
           verdict == IF ~cancelled /\ ~stale THEN got.verdict ELSE "none"
           q == Recorded(r, stopped, got)
<1>1. q = [r EXCEPT !.status = status, !.verdict = verdict]
  BY DEF Recorded
<1>2. /\ status \in CheckEnds /\ verdict \in Verdicts \cup {"none"}
      /\ status = "completed" => ~cancelled /\ CheckBound(r) /\ verdict \in Verdicts
      /\ r.status = "cancelling" => status = "cancelled"
  BY DEF CheckEnds
<1> HIDE DEF q, status, verdict
<1>3. q \in CheckRows /\ q.status = status /\ q.verdict = verdict /\ q.target = r.target /\ q.check = r.check
  BY <1>1, <1>2 DEF CheckRows
<1>4. Reported(r, q) /\ Closed(r, q) /\ (q.status = "completed" => q.verdict \in Verdicts)
  BY <1>2, <1>3 DEF Reported, Closed, CheckBound, Open, CheckEnds
<1> QED
  BY <1>2, <1>3, <1>4 DEF q

LEMMA LostMoves ==
  ASSUME NEW r \in CheckRows, r.status \in Open
  PROVE  /\ Lost(r) \in CheckRows /\ Lost(r).status = "unknown" /\ Reported(r, Lost(r)) /\ Closed(r, Lost(r))
<1>1. Lost(r) \in CheckRows /\ Lost(r).status = "unknown"
  BY DEF Lost, CheckRows, CheckEnds
<1> QED
  BY <1>1 DEF Reported, Closed, Open, CheckEnds

(* Taking updates in closes rows and frees slots; whatever write fails, what *)
(* is open still has its owner.                                              *)
LEMMA DrainedFits ==
  ASSUME NEW rows, NEW m, MemFits(rows, m), NEW bad
  PROVE  LET d == Drained(rows, m, bad) IN
         /\ MemFits(d.row, d.mem) /\ RowsMove(rows, d.row) /\ (Owned(rows, m) => Owned(d.row, d.mem))
         /\ \A j \in Jobs : d.row[j].status = "absent" <=> rows[j].status = "absent"
<1> DEFINE n == IF bad \in ToSet(m.queue) THEN CHOOSE i \in DOMAIN m.queue : m.queue[i] = bad ELSE Len(m.queue) + 1
           noted == {m.queue[i] : i \in 1 .. (n - 1)} \cap Active(m)
           alone == {j \in Active(m) \ ToSet(m.queue) : n = Len(m.queue) + 1 /\ m.worker[j] = "none"
                                                        /\ (bad # 0 => j < bad)}
           taken == {m.queue[i] : i \in DOMAIN m.queue \cap (1 .. n)}
           after == [j \in Jobs |-> IF j \in noted THEN Recorded(rows[j], m.active[j] = "stop", m.got[j])
                                    ELSE IF j \in alone THEN Lost(rows[j]) ELSE rows[j]]
           active == [j \in Jobs |-> IF j \in noted \cup alone THEN "no" ELSE m.active[j]]
           worker == [j \in Jobs |-> IF j \in taken THEN "end" ELSE m.worker[j]]
           queue == SubSeq(m.queue, n + 1, Len(m.queue))
           d == Drained(rows, m, bad)
<1>1. rows \in [Jobs -> CheckRows] /\ m \in CheckMems /\ (\A j \in Jobs : Fits(rows, m, j)) /\ InSlots(m)
  BY DEF MemFits
<1>2. /\ m.queue \in Seq(Jobs) /\ Len(m.queue) \in Nat /\ DOMAIN m.queue = 1 .. Len(m.queue)
      /\ \A i \in 1 .. Len(m.queue) : m.queue[i] \in Jobs /\ m.queue[i] \in ToSet(m.queue)
  BY <1>1 DEF CheckMems, ToSet
<1>3. n \in 1 .. Len(m.queue) + 1
  <2>1. CASE bad \in ToSet(m.queue)
    BY <1>2, <2>1 DEF ToSet
  <2>2. CASE bad \notin ToSet(m.queue)
    BY <1>2, <2>2
  <2> QED
    BY <2>1, <2>2
<1>4. d.row = after /\ d.mem = [m EXCEPT !.active = active, !.worker = worker, !.queue = queue]
  BY <1>1 DEF Drained, CheckMems
<1> HIDE DEF n
<1>5. /\ noted \subseteq ToSet(m.queue) /\ noted \subseteq Active(m) /\ taken \subseteq ToSet(m.queue)
      /\ alone \subseteq Active(m) /\ \A j \in alone : m.worker[j] = "none" /\ j \notin ToSet(m.queue)
  BY <1>2, <1>3
<1> HIDE DEF noted, alone, taken, d
<1>6. \A j \in Active(m) : j \in Jobs /\ rows[j] \in CheckRows /\ rows[j].status \in Open
  BY <1>1 DEF Active, Fits
<1>7. ASSUME NEW j \in Jobs
      PROVE  /\ after[j] \in CheckRows /\ Reported(rows[j], after[j]) /\ Closed(rows[j], after[j])
             /\ (after[j].status = "completed" => after[j].verdict \in Verdicts)
             /\ j \in noted \cup alone => rows[j].status \in Open /\ after[j].status \in CheckEnds
             /\ j \notin noted \cup alone => after[j] = rows[j]
  <2>1. CASE j \in noted
    <3> DEFINE stopped == m.active[j] = "stop"
               got == m.got[j]
    <3>1. after[j] = Recorded(rows[j], stopped, got) /\ stopped \in BOOLEAN
      BY <2>1
    <3>2. /\ rows[j] \in CheckRows /\ rows[j].status \in Open
          /\ got \in [status : CheckEnds \cup {"none"}, verdict : Verdicts \cup {"none"}]
          /\ got.status \in CheckEnds /\ (got.status = "completed" => got.verdict \in Verdicts)
      BY <1>1, <1>5, <1>6, <2>1 DEF Fits, CheckMems
    <3> HIDE DEF after, stopped, got
    <3> QED
      BY <2>1, <3>1, <3>2, RecordedMoves
  <2>2. CASE j \in alone /\ j \notin noted
    <3>1. after[j] = Lost(rows[j]) /\ rows[j] \in CheckRows /\ rows[j].status \in Open
      BY <1>5, <1>6, <2>2
    <3> HIDE DEF after
    <3> QED
      BY <2>2, <3>1, LostMoves DEF CheckEnds
  <2>3. CASE j \notin noted \cup alone
    <3>1. after[j] = rows[j] /\ rows[j] \in CheckRows
      BY <1>1, <2>3
    <3> HIDE DEF after
    <3> QED
      BY <1>1, <2>3, <3>1 DEF Fits, Reported, Closed
  <2> QED
    BY <2>1, <2>2, <2>3
<1>8. after \in [Jobs -> CheckRows]
  BY <1>7
<1>9. /\ active \in [Jobs -> {"no", "on", "stop"}] /\ worker \in [Jobs -> {"none", "start", "work", "put", "wait", "end"}]
      /\ queue \in Seq(Jobs) /\ ToSet(queue) \subseteq ToSet(m.queue)
      /\ \A j \in Jobs : active[j] = IF j \in noted \cup alone THEN "no" ELSE m.active[j]
      /\ \A j \in Jobs : worker[j] = IF j \in taken THEN "end" ELSE m.worker[j]
  <2>1. queue \in Seq(Jobs) /\ ToSet(queue) \subseteq ToSet(m.queue)
    BY <1>2, <1>3, RestOfQueue
  <2> HIDE DEF queue
  <2> QED
    BY <1>1, <2>1 DEF CheckMems
<1> HIDE DEF after, active, worker, queue
<1>10. /\ d.mem \in CheckMems /\ d.mem.active = active /\ d.mem.worker = worker /\ d.mem.queue = queue
       /\ d.mem.got = m.got /\ d.mem.cand = m.cand
  BY <1>1, <1>4, <1>9 DEF CheckMems
<1>11. ASSUME NEW j \in Jobs PROVE Fits(d.row, d.mem, j)
  BY <1>1, <1>4, <1>5, <1>7, <1>9, <1>10, <1>11 DEF Fits, Open, CheckEnds
<1>12. InSlots(d.mem)
  <2>1. Active(d.mem) \subseteq Active(m)
    BY <1>9, <1>10 DEF Active
  <2>2. /\ IsFiniteSet(Active(m)) /\ Cardinality(Active(m)) <= Concurrency /\ IsFiniteSet(Active(d.mem))
        /\ Cardinality(Active(d.mem)) <= Cardinality(Active(m))
        /\ Cardinality(Active(d.mem)) \in Nat /\ Cardinality(Active(m)) \in Nat
    BY <1>1, <2>1, FS_Subset, FS_CardinalityType DEF InSlots
  <2> QED
    BY <2>2, CheckRuntimeAssumption DEF InSlots
<1>13. RowsMove(rows, d.row)
  BY <1>4, <1>7 DEF RowsMove
<1>14. Owned(rows, m) => Owned(d.row, d.mem)
  BY <1>4, <1>7, <1>9, <1>10 DEF Owned, Open, CheckEnds
<1>15. \A j \in Jobs : d.row[j].status = "absent" <=> rows[j].status = "absent"
  BY <1>4, <1>7 DEF Open, CheckEnds
<1> QED
  BY <1>4, <1>8, <1>10, <1>11, <1>12, <1>13, <1>14, <1>15 DEF MemFits, d

LEMMA DrainRowsFits ==
  ASSUME NEW rows, NEW m, MemFits(rows, m), DrainRows(rows, m), checkFails \in 0 .. MaxCheckFails
  PROVE  /\ MemFits(row', mem') /\ RowsMove(rows, row') /\ (Owned(rows, m) => Owned(row', mem'))
         /\ checkFails' \in 0 .. MaxCheckFails
<1>1. PICK bad \in {0} \cup (IF checkFails < MaxCheckFails THEN Active(m) ELSE {}) :
        /\ row' = Drained(rows, m, bad).row /\ mem' = Drained(rows, m, bad).mem
        /\ checkFails' = checkFails + (IF bad = 0 THEN 0 ELSE 1)
  BY DEF DrainRows
<1>2. checkFails' \in 0 .. MaxCheckFails
  BY <1>1, CheckRuntimeAssumption
<1> QED
  BY <1>1, <1>2, DrainedFits

-----------------------------------------------------------------------------
(* Steps of the core and of its threads.                                    *)

LEMMA MovesCompose ==
  ASSUME NEW a, NEW b, NEW c, RowsMove(a, b), RowsMove(b, c)
  PROVE  RowsMove(a, c)
<1> SUFFICES ASSUME NEW j \in Jobs PROVE Reported(a[j], c[j]) /\ Closed(a[j], c[j])
  BY DEF RowsMove
<1>1. Reported(a[j], b[j]) /\ Closed(a[j], b[j]) /\ Reported(b[j], c[j]) /\ Closed(b[j], c[j])
  BY DEF RowsMove
<1> QED
  BY <1>1 DEF Reported, Closed, CheckEnds

LEMMA RowsRest == RowsMove(row, row)
BY DEF RowsMove, Reported, Closed

(* The core goes on with what the rows and its memory are then.              *)
LEMMA CoreGoesOn ==
  ASSUME ChecksInv, checkUp, MemFits(row', mem'), Owned(row', mem'), RowsMove(row, row'), KeepHost,
         target' \in Targets, check' \in Checks, checkFails' \in 0 .. MaxCheckFails
  PROVE  ChecksStepOK
<1>1. MemFits(row, mem)' /\ Owned(row, mem)'
  BY DEF MemFits, Owned, Fits, InSlots, Active
<1> QED
  BY <1>1 DEF ChecksInv, KeepHost, ChecksStepOK

LEMMA DrainChecksSteps ==
  ASSUME ChecksInv, DrainChecks
  PROVE  ChecksStepOK
<1>1. checkUp /\ DrainRows(row, mem) /\ UNCHANGED <<target, check>> /\ KeepHost
  BY DEF DrainChecks, KeepWorld
<1>2. /\ MemFits(row, mem) /\ Owned(row, mem) /\ target \in Targets /\ check \in Checks
      /\ checkFails \in 0 .. MaxCheckFails
  BY <1>1 DEF ChecksInv
<1>3. MemFits(row', mem') /\ RowsMove(row, row') /\ Owned(row', mem') /\ checkFails' \in 0 .. MaxCheckFails
  BY <1>1, <1>2, DrainRowsFits
<1> QED
  BY <1>1, <1>2, <1>3, CoreGoesOn

(* A row is taken for a job that no row had: what runs for it has a slot.    *)
LEMMA TakenFits ==
  ASSUME NEW rows, NEW m, MemFits(rows, m), NEW j \in Jobs, rows[j].status = "absent", NEW r \in CheckRows,
         r.status # "absent", r.status = "completed" => r.verdict \in Verdicts /\ r.target = target /\ r.check = check,
         NEW n \in CheckMems, n.got = m.got, n.queue = m.queue,
         \A i \in Jobs \ {j} : n.active[i] = m.active[i] /\ n.worker[i] = m.worker[i],
         n.active[j] # "no" => r.status \in Open /\ Cardinality(Active(m)) < Concurrency,
         n.active[j] = "no" => r.status \notin Open,
         n.worker[j] = "none" \/ (n.worker[j] = "start" /\ n.active[j] # "no")
  PROVE  LET next == [rows EXCEPT ![j] = r] IN
         MemFits(next, n) /\ RowsMove(rows, next) /\ (Owned(rows, m) => Owned(next, n))
<1> DEFINE next == [rows EXCEPT ![j] = r]
<1>1. rows \in [Jobs -> CheckRows] /\ m \in CheckMems /\ (\A i \in Jobs : Fits(rows, m, i)) /\ InSlots(m)
  BY DEF MemFits
<1>2. next \in [Jobs -> CheckRows] /\ next[j] = r /\ \A i \in Jobs \ {j} : next[i] = rows[i]
  BY <1>1
<1> HIDE DEF next
<1>3. ASSUME NEW i \in Jobs PROVE Fits(next, n, i)
  BY <1>1, <1>2, <1>3 DEF Fits, Open
<1>4. InSlots(n)
  <2>1. IsFiniteSet(Active(m)) /\ Cardinality(Active(m)) \in Nat /\ Cardinality(Active(m)) <= Concurrency
    BY <1>1, FS_CardinalityType DEF InSlots
  <2>2. m.active[j] = "no"
    BY <1>1 DEF Fits, Open
  <2>3. CASE n.active[j] = "no"
    <3>1. Active(n) = Active(m)
      BY <2>2, <2>3 DEF Active
    <3> QED
      BY <2>1, <3>1 DEF InSlots
  <2>4. CASE n.active[j] # "no"
    <3>1. Active(n) = Active(m) \cup {j} /\ j \notin Active(m)
      BY <2>2, <2>4 DEF Active
    <3>2. IsFiniteSet(Active(n)) /\ Cardinality(Active(n)) = Cardinality(Active(m)) + 1
      BY <2>1, <3>1, FS_AddElement
    <3> QED
      BY <2>1, <2>4, <3>2, CheckRuntimeAssumption DEF InSlots
  <2> QED
    BY <2>3, <2>4
<1>5. ASSUME NEW i \in Jobs PROVE Reported(rows[i], next[i]) /\ Closed(rows[i], next[i])
  BY <1>2, <1>5 DEF Reported, Closed, CheckEnds
<1>6. Owned(rows, m) => Owned(next, n)
  BY <1>2 DEF Owned
<1> QED
  BY <1>2, <1>3, <1>4, <1>5, <1>6 DEF MemFits, RowsMove, next

(* A check that is asked for takes the updates in first.                     *)
LEMMA FreshFacts ==
  ASSUME ChecksInv, checkUp, NEW j \in Jobs, NEW k, Fresh(Drained(row, mem, 0), j, k)
  PROVE  LET d == Drained(row, mem, 0) IN
         /\ MemFits(d.row, d.mem) /\ Owned(d.row, d.mem) /\ RowsMove(row, d.row)
         /\ d.row[j].status = "absent" /\ Cardinality(Active(d.mem)) < Concurrency
         /\ d.row \in [Jobs -> CheckRows] /\ d.mem \in CheckMems
         /\ d.mem.active[j] = "no" /\ d.mem.worker[j] = "none"
<1> DEFINE d == Drained(row, mem, 0)
<1>1. MemFits(row, mem) /\ Owned(row, mem)
  BY DEF ChecksInv
<1>2. MemFits(d.row, d.mem) /\ Owned(d.row, d.mem) /\ RowsMove(row, d.row)
  BY <1>1, DrainedFits
<1> HIDE DEF d
<1>3. Fresh(d, j, k)
  BY DEF d
<1>4. j >= j
  BY CheckRuntimeAssumption
<1>5. d.row[j].status = "absent" /\ Cardinality(Active(d.mem)) < Concurrency
  BY <1>3, <1>4 DEF Fresh
<1>6. d.row \in [Jobs -> CheckRows] /\ d.mem \in CheckMems /\ Fits(d.row, d.mem, j)
  BY <1>2 DEF MemFits
<1>7. d.mem.active[j] = "no" /\ d.mem.worker[j] = "none"
  BY <1>5, <1>6 DEF Fits, Open
<1> QED
  BY <1>2, <1>5, <1>6, <1>7 DEF d

LEMMA SubmitAsyncSteps ==
  ASSUME ChecksInv, NEW k \in Keys, SubmitAsync(k)
  PROVE  ChecksStepOK
<1> DEFINE d == Drained(row, mem, 0)
           r(status) == [Intent(k) EXCEPT !.status = status]
           Put(j, status, active, worker) ==
             /\ row' = [d.row EXCEPT ![j] = r(status)]
             /\ mem' = [d.mem EXCEPT !.active[j] = active, !.worker[j] = worker, !.cand[j] = Reusable(d)]
<1>1. checkUp /\ UNCHANGED <<target, check>> /\ KeepHost
  BY DEF SubmitAsync, KeepWorld
<1>2. PICK j \in Jobs :
        /\ Fresh(d, j, k)
        /\ \/ Put(j, "running", "on", "start") /\ UNCHANGED checkFails
           \/ Put(j, "unknown", "no", "none") /\ UNCHANGED checkFails
           \/ /\ checkFails < MaxCheckFails /\ checkFails' = checkFails + 1
              /\ Put(j, "running", "on", "none")
  BY DEF SubmitAsync
<1>3. PICK status \in {"running", "unknown"}, active \in {"on", "no"}, worker \in {"start", "none"} :
        /\ Put(j, status, active, worker)
        /\ active = "on" <=> status = "running"
        /\ worker = "start" => active = "on"
  BY <1>2
<1>4. checkFails' \in 0 .. MaxCheckFails
  BY <1>2, CheckRuntimeAssumption DEF ChecksInv
<1>5. /\ MemFits(d.row, d.mem) /\ Owned(d.row, d.mem) /\ RowsMove(row, d.row) /\ d.row[j].status = "absent"
      /\ Cardinality(Active(d.mem)) < Concurrency /\ d.row \in [Jobs -> CheckRows] /\ d.mem \in CheckMems
  BY <1>1, <1>2, FreshFacts
<1>6. /\ target \in Targets /\ check \in Checks /\ \A i \in Jobs : Fits(d.row, d.mem, i)
  BY <1>5 DEF ChecksInv, MemFits
<1> DEFINE cand == Reusable(d)
<1>7. cand \subseteq Verdicts
  BY <1>5, <1>6 DEF Reusable, Fits
<1> HIDE DEF d, cand
<1>8. r(status) \in CheckRows /\ r(status).status = status
  BY <1>6 DEF Intent, CheckRows, Open, CheckEnds
<1>9. /\ mem' \in CheckMems /\ mem'.got = d.mem.got /\ mem'.queue = d.mem.queue
      /\ mem'.active[j] = active /\ mem'.worker[j] = worker
      /\ \A i \in Jobs \ {j} : mem'.active[i] = d.mem.active[i] /\ mem'.worker[i] = d.mem.worker[i]
  <2> DEFINE as == [d.mem.active EXCEPT ![j] = active]
             ws == [d.mem.worker EXCEPT ![j] = worker]
             cs == [d.mem.cand EXCEPT ![j] = cand]
  <2>1. /\ as \in [Jobs -> {"no", "on", "stop"}] /\ as[j] = active /\ \A i \in Jobs \ {j} : as[i] = d.mem.active[i]
        /\ ws \in [Jobs -> {"none", "start", "work", "put", "wait", "end"}] /\ ws[j] = worker
        /\ \A i \in Jobs \ {j} : ws[i] = d.mem.worker[i]
        /\ cs \in [Jobs -> SUBSET Verdicts]
    BY <1>5, <1>7 DEF CheckMems
  <2>2. mem' = [d.mem EXCEPT !.active = as, !.worker = ws, !.cand = cs]
    BY <1>3, <1>5 DEF CheckMems, cand
  <2> HIDE DEF as, ws, cs
  <2> QED
    BY <1>5, <2>1, <2>2 DEF CheckMems
<1> DEFINE q == r(status)
           n == mem'
<1>10. row' = [d.row EXCEPT ![j] = q]
  BY <1>3
<1>11. q \in CheckRows /\ q.status = status /\ status \in {"running", "unknown"} /\ n = mem'
  BY <1>8
<1> HIDE DEF q, n, r
<1>12. MemFits(row', n) /\ RowsMove(d.row, row') /\ Owned(row', n)
  <2>1. /\ n \in CheckMems /\ n.got = d.mem.got /\ n.queue = d.mem.queue /\ n.active[j] = active
        /\ n.worker[j] = worker
        /\ \A i \in Jobs \ {j} : n.active[i] = d.mem.active[i] /\ n.worker[i] = d.mem.worker[i]
    BY <1>9, <1>11
  <2>2. (active = "no" => status = "unknown") /\ (active # "no" => status = "running") /\ (worker # "none" => active # "no")
    BY <1>3
  <2>3. q.status # "absent" /\ q.status # "completed" /\ (q.status \in Open <=> status = "running")
    BY <1>11 DEF Open
  <2>4. /\ n.active[j] # "no" => q.status \in Open /\ Cardinality(Active(d.mem)) < Concurrency
        /\ n.active[j] = "no" => q.status \notin Open
        /\ n.worker[j] = "none" \/ (n.worker[j] = "start" /\ n.active[j] # "no")
    BY <1>5, <1>11, <2>1, <2>2, <2>3 DEF Open
  <2> DEFINE rows == d.row
             m == d.mem
             next == [rows EXCEPT ![j] = q]
  <2>5. row' = next /\ MemFits(rows, m) /\ rows[j].status = "absent" /\ Owned(rows, m) /\ j \in Jobs
    BY <1>5, <1>10
  <2>6. /\ n \in CheckMems /\ n.got = m.got /\ n.queue = m.queue
        /\ \A i \in Jobs \ {j} : n.active[i] = m.active[i] /\ n.worker[i] = m.worker[i]
        /\ n.active[j] # "no" => q.status \in Open /\ Cardinality(Active(m)) < Concurrency
    BY <2>1, <2>4
  <2> HIDE DEF rows, m
  <2>7. MemFits(next, n) /\ RowsMove(rows, next) /\ Owned(next, n)
    BY <1>11, <2>3, <2>4, <2>5, <2>6, TakenFits
  <2> HIDE DEF next
  <2> QED
    BY <2>5, <2>7 DEF rows
<1>13. RowsMove(row, row')
  BY <1>5, <1>12, MovesCompose
<1> QED
  BY <1>1, <1>4, <1>6, <1>12, <1>13, CoreGoesOn DEF n

LEMMA SubmitInlineSteps ==
  ASSUME ChecksInv, NEW k \in Keys \cup {NoKey}, SubmitInline(k)
  PROVE  ChecksStepOK
<1> DEFINE d == Drained(row, mem, 0)
<1>1. checkUp /\ check' = check /\ KeepHost
  BY DEF SubmitInline
<1>2. PICK j \in Jobs :
        /\ Fresh(d, j, k)
        /\ target' \in Targets
        /\ \/ \E got \in Reports(TRUE) \cup Reports(FALSE) :
                LET ran == [d.row EXCEPT ![j] = Intent(k)] IN
                /\ row' = [ran EXCEPT ![j] = IF target' = target THEN Recorded(@, FALSE, got)
                                             ELSE [@ EXCEPT !.status = IF got.status = "completed"
                                                                      THEN "stale" ELSE got.status]]
                /\ mem' = d.mem /\ UNCHANGED checkFails
           \/ /\ checkFails < MaxCheckFails /\ checkFails' = checkFails + 1
              /\ row' = [d.row EXCEPT ![j] = Intent(k)]
              /\ mem' = [d.mem EXCEPT !.active[j] = "on"]
  BY DEF SubmitInline
<1>3. /\ MemFits(d.row, d.mem) /\ Owned(d.row, d.mem) /\ RowsMove(row, d.row) /\ d.row[j].status = "absent"
      /\ Cardinality(Active(d.mem)) < Concurrency /\ d.row \in [Jobs -> CheckRows] /\ d.mem \in CheckMems
      /\ d.mem.active[j] = "no" /\ d.mem.worker[j] = "none"
  BY <1>1, <1>2, FreshFacts
<1>4. /\ target \in Targets /\ check \in Checks /\ checkFails \in 0 .. MaxCheckFails
  BY DEF ChecksInv
<1> DEFINE intent == Intent(k)
<1>5. /\ intent \in CheckRows /\ intent.status = "running" /\ intent.verdict = "none"
      /\ intent.target = target /\ intent.check = check
  BY <1>4 DEF Intent, CheckRows, Open
<1>6. /\ \A got \in Reports(TRUE) \cup Reports(FALSE) :
           /\ got \in [status : CheckEnds \cup {"none"}, verdict : Verdicts \cup {"none"}] /\ got.status \in CheckEnds
           /\ got.status = "completed" => got.verdict \in Verdicts
  BY DEF Reports, CheckEnds
<1> HIDE DEF d, intent
<1>7. CASE \E got \in Reports(TRUE) \cup Reports(FALSE) :
             LET ran == [d.row EXCEPT ![j] = Intent(k)] IN
             /\ row' = [ran EXCEPT ![j] = IF target' = target THEN Recorded(@, FALSE, got)
                                          ELSE [@ EXCEPT !.status = IF got.status = "completed"
                                                                   THEN "stale" ELSE got.status]]
             /\ mem' = d.mem /\ UNCHANGED checkFails
  <2>1. PICK got \in Reports(TRUE) \cup Reports(FALSE) :
          LET ran == [d.row EXCEPT ![j] = Intent(k)] IN
          /\ row' = [ran EXCEPT ![j] = IF target' = target THEN Recorded(@, FALSE, got)
                                       ELSE [@ EXCEPT !.status = IF got.status = "completed"
                                                                THEN "stale" ELSE got.status]]
          /\ mem' = d.mem /\ UNCHANGED checkFails
    BY <1>7
  <2> DEFINE late == IF got.status = "completed" THEN "stale" ELSE got.status
             q == IF target' = target THEN Recorded(intent, FALSE, got) ELSE [intent EXCEPT !.status = late]
  <2>2. row' = [d.row EXCEPT ![j] = q] /\ mem' = d.mem /\ checkFails' = checkFails
    BY <1>3, <2>1 DEF intent
  <2>3. late \in CheckEnds /\ late # "completed"
    BY <1>6 DEF CheckEnds
  <2>4. q \in CheckRows /\ q.status \in CheckEnds
        /\ (q.status = "completed" => q.verdict \in Verdicts /\ q.target = target /\ q.check = check)
    <3>1. CASE target' = target
      <4> DEFINE s == Recorded(intent, FALSE, got)
      <4>1. s \in CheckRows /\ s.status \in CheckEnds /\ Reported(intent, s)
            /\ (s.status = "completed" => s.verdict \in Verdicts)
        BY <1>5, <1>6, RecordedMoves DEF Open
      <4> HIDE DEF s
      <4>2. q = s
        BY <3>1 DEF s
      <4> QED
        BY <1>5, <4>1, <4>2 DEF Reported
    <3>2. CASE target' # target
      <4> HIDE DEF late
      <4>1. q = [intent EXCEPT !.status = late]
        BY <3>2
      <4> HIDE DEF q
      <4> QED
        BY <1>5, <2>3, <4>1 DEF CheckRows
    <3> QED
      BY <3>1, <3>2
  <2> HIDE DEF q, late
  <2>5. MemFits(row', mem') /\ RowsMove(d.row, row') /\ Owned(row', mem')
    BY <1>3, <2>2, <2>4, TakenFits DEF Open, CheckEnds
  <2>6. RowsMove(row, row')
    BY <1>3, <2>5, MovesCompose
  <2> QED
    BY <1>1, <1>2, <1>4, <2>2, <2>5, <2>6, CoreGoesOn
<1>8. CASE /\ checkFails < MaxCheckFails /\ checkFails' = checkFails + 1
           /\ row' = [d.row EXCEPT ![j] = Intent(k)]
           /\ mem' = [d.mem EXCEPT !.active[j] = "on"]
  <2>1. /\ mem' \in CheckMems /\ mem'.got = d.mem.got /\ mem'.queue = d.mem.queue /\ mem'.worker = d.mem.worker
        /\ mem'.active[j] = "on" /\ \A i \in Jobs \ {j} : mem'.active[i] = d.mem.active[i]
    <3> DEFINE as == [d.mem.active EXCEPT ![j] = "on"]
    <3>1. as \in [Jobs -> {"no", "on", "stop"}] /\ as[j] = "on" /\ \A i \in Jobs \ {j} : as[i] = d.mem.active[i]
      BY <1>3 DEF CheckMems
    <3>2. mem' = [d.mem EXCEPT !.active = as]
      BY <1>3, <1>8 DEF CheckMems
    <3> HIDE DEF as
    <3> QED
      BY <1>3, <3>1, <3>2 DEF CheckMems
  <2> DEFINE n == mem'
  <2>2. n = mem' /\ row' = [d.row EXCEPT ![j] = intent]
    BY <1>8 DEF intent
  <2> HIDE DEF n
  <2>3. MemFits(row', n) /\ RowsMove(d.row, row') /\ Owned(row', n)
    BY <1>3, <1>5, <2>1, <2>2, TakenFits DEF Open
  <2>4. RowsMove(row, row')
    BY <1>3, <2>3, MovesCompose
  <2>5. checkFails' \in 0 .. MaxCheckFails
    BY <1>4, <1>8, CheckRuntimeAssumption
  <2> QED
    BY <1>1, <1>2, <1>4, <2>2, <2>3, <2>4, <2>5, CoreGoesOn
<1> QED
  BY <1>2, <1>7, <1>8

(* A cancellation is noted in an open row before results are taken in.       *)
LEMMA CancelCheckSteps ==
  ASSUME ChecksInv, NEW j \in Jobs, CancelCheck(j)
  PROVE  ChecksStepOK
<1>1. /\ checkUp /\ row[j].status \in Open /\ UNCHANGED <<target, check>> /\ KeepHost
      /\ MemFits(row, mem) /\ Owned(row, mem) /\ target \in Targets /\ check \in Checks
      /\ checkFails \in 0 .. MaxCheckFails
  BY DEF CancelCheck, KeepWorld, ChecksInv
<1> DEFINE asked == [row EXCEPT ![j].status = "cancelling"]
           active == [mem.active EXCEPT ![j] = IF @ = "no" THEN "no" ELSE "stop"]
           m == [mem EXCEPT !.active = active]
<1>2. CASE checkFails < MaxCheckFails /\ checkFails' = checkFails + 1 /\ UNCHANGED <<row, mem>>
  <2>1. MemFits(row', mem') /\ Owned(row', mem') /\ RowsMove(row, row')
    BY <1>1, <1>2, RowsRest DEF MemFits, Owned, Fits, InSlots, Active
  <2>2. checkFails' \in 0 .. MaxCheckFails
    BY <1>1, <1>2, CheckRuntimeAssumption
  <2> QED
    BY <1>1, <2>1, <2>2, CoreGoesOn
<1>3. CASE DrainRows(asked, [mem EXCEPT !.active[j] = IF @ = "no" THEN "no" ELSE "stop"])
  <2>1. /\ row \in [Jobs -> CheckRows] /\ mem \in CheckMems /\ (\A i \in Jobs : Fits(row, mem, i)) /\ InSlots(mem)
    BY <1>1 DEF MemFits
  <2>2. /\ asked \in [Jobs -> CheckRows] /\ asked[j].status = "cancelling"
        /\ \A i \in Jobs \ {j} : asked[i] = row[i]
    BY <2>1 DEF CheckRows, Open
  <2>3. /\ active \in [Jobs -> {"no", "on", "stop"}] /\ \A i \in Jobs : active[i] = "no" <=> mem.active[i] = "no"
    BY <2>1 DEF CheckMems
  <2>4. [mem EXCEPT !.active[j] = IF @ = "no" THEN "no" ELSE "stop"] = m
    BY <2>1 DEF CheckMems
  <2> HIDE DEF active, asked
  <2>5. /\ m \in CheckMems /\ m.active = active /\ m.worker = mem.worker /\ m.got = mem.got /\ m.queue = mem.queue
    BY <2>1, <2>3 DEF CheckMems
  <2> HIDE DEF m
  <2>6. ASSUME NEW i \in Jobs PROVE Fits(asked, m, i)
    <3>1. CASE i = j
      BY <1>1, <2>1, <2>2, <2>3, <2>5, <3>1 DEF Fits, Open
    <3>2. CASE i # j
      BY <2>1, <2>2, <2>3, <2>5, <3>2 DEF Fits
    <3> QED
      BY <3>1, <3>2
  <2>7. Active(m) = Active(mem)
    BY <2>3, <2>5 DEF Active
  <2>8. MemFits(asked, m)
    BY <2>1, <2>2, <2>5, <2>6, <2>7 DEF MemFits, InSlots
  <2>9. Owned(asked, m)
    BY <1>1, <2>2, <2>3, <2>5 DEF Owned
  <2>10. MemFits(row', mem') /\ RowsMove(asked, row') /\ Owned(row', mem') /\ checkFails' \in 0 .. MaxCheckFails
    BY <1>1, <1>3, <2>4, <2>8, <2>9, DrainRowsFits
  <2>11. ASSUME NEW i \in Jobs PROVE Reported(row[i], row'[i]) /\ Closed(row[i], row'[i])
    <3>1. Reported(asked[i], row'[i]) /\ Closed(asked[i], row'[i])
      BY <2>10 DEF RowsMove
    <3> QED
      BY <1>1, <2>2, <3>1 DEF Reported, Closed, Open, CheckEnds
  <2> QED
    BY <1>1, <2>10, <2>11, CoreGoesOn DEF RowsMove
<1> QED
  BY <1>2, <1>3 DEF CancelCheck

(* A step of one thread.                                                     *)
LEMMA ThreadMoves ==
  ASSUME ChecksInv, NEW j \in Jobs, mem.worker[j] # "none", KeepWorld, KeepHost, UNCHANGED <<row, checkFails>>,
         mem' \in CheckMems, mem'.active = mem.active,
         \A i \in Jobs \ {j} : /\ mem'.worker[i] = mem.worker[i] /\ mem'.got[i] = mem.got[i]
                               /\ (i \in ToSet(mem'.queue) <=> i \in ToSet(mem.queue)),
         Fits(row, mem', j)
  PROVE  ChecksStepOK
<1>1. checkUp
  BY DEF ChecksInv, Idle
<1>2. /\ MemFits(row, mem) /\ Owned(row, mem) /\ target \in Targets /\ check \in Checks
      /\ checkFails \in 0 .. MaxCheckFails
  BY <1>1 DEF ChecksInv
<1> DEFINE n == mem'
<1>3. n = mem'
  OBVIOUS
<1> HIDE DEF n
<1>4. ASSUME NEW i \in Jobs PROVE Fits(row, n, i)
  BY <1>2, <1>3, <1>4 DEF MemFits, Fits
<1>5. Active(n) = Active(mem)
  BY <1>3 DEF Active
<1>6. MemFits(row, n) /\ Owned(row, n)
  BY <1>2, <1>3, <1>4, <1>5 DEF MemFits, InSlots, Owned
<1>7. MemFits(row', mem') /\ Owned(row', mem')
  BY <1>3, <1>6 DEF MemFits, Fits, InSlots, Active, Owned
<1> QED
  BY <1>1, <1>2, <1>7, RowsRest, CoreGoesOn DEF KeepWorld

(* What a thread brings.                                                     *)
LEMMA BringsSteps ==
  ASSUME ChecksInv, NEW j \in Jobs, mem.worker[j] \in {"start", "work"}, KeepWorld, KeepHost,
         UNCHANGED <<row, checkFails>>,
         NEW got \in [status : CheckEnds, verdict : Verdicts \cup {"none"}],
         got.status = "completed" => got.verdict \in Verdicts, Brings(j, got)
  PROVE  ChecksStepOK
<1>1. mem \in CheckMems /\ row \in [Jobs -> CheckRows] /\ Fits(row, mem, j)
  BY DEF ChecksInv, MemFits
<1> DEFINE ws == [mem.worker EXCEPT ![j] = "put"]
           gs == [mem.got EXCEPT ![j] = got]
<1>2. /\ ws \in [Jobs -> {"none", "start", "work", "put", "wait", "end"}] /\ ws[j] = "put"
      /\ gs \in [Jobs -> [status : CheckEnds \cup {"none"}, verdict : Verdicts \cup {"none"}]] /\ gs[j] = got
      /\ \A i \in Jobs \ {j} : ws[i] = mem.worker[i] /\ gs[i] = mem.got[i]
  BY <1>1 DEF CheckMems
<1>3. mem' = [mem EXCEPT !.worker = ws, !.got = gs]
  BY <1>1 DEF Brings, CheckMems
<1> HIDE DEF ws, gs
<1>4. mem' \in CheckMems /\ mem'.active = mem.active /\ mem'.worker = ws /\ mem'.got = gs /\ mem'.queue = mem.queue
  BY <1>1, <1>2, <1>3 DEF CheckMems
<1>5. Fits(row, mem', j)
  BY <1>1, <1>2, <1>4 DEF Fits
<1> QED
  BY <1>2, <1>4, <1>5, ThreadMoves

LEMMA WorkerStartsSteps ==
  ASSUME ChecksInv, NEW j \in Jobs, WorkerStarts(j)
  PROVE  ChecksStepOK
<1>1. mem.worker[j] = "start" /\ KeepWorld /\ KeepHost /\ UNCHANGED <<row, checkFails>>
  BY DEF WorkerStarts
<1>2. mem \in CheckMems /\ row \in [Jobs -> CheckRows] /\ Fits(row, mem, j)
  BY DEF ChecksInv, MemFits
<1>3. ASSUME NEW got \in {[status |-> "cancelled", verdict |-> "none"], [status |-> "stale", verdict |-> "none"]},
             Brings(j, got)
      PROVE  ChecksStepOK
  <2>1. got \in [status : CheckEnds, verdict : Verdicts \cup {"none"}] /\ got.status # "completed"
    BY DEF CheckEnds
  <2> QED
    BY <1>1, <1>3, <2>1, BringsSteps
<1>4. ASSUME NEW v \in mem.cand[j], Brings(j, [status |-> "completed", verdict |-> v])
      PROVE  ChecksStepOK
  <2> DEFINE got == [status |-> "completed", verdict |-> v]
  <2>1. got \in [status : CheckEnds, verdict : Verdicts \cup {"none"}] /\ got.verdict \in Verdicts /\ Brings(j, got)
    BY <1>2, <1>4 DEF CheckEnds, CheckMems
  <2> HIDE DEF got
  <2> QED
    BY <1>1, <2>1, BringsSteps
<1>5. CASE mem' = [mem EXCEPT !.worker[j] = "work"]
  <2> DEFINE ws == [mem.worker EXCEPT ![j] = "work"]
  <2>1. /\ ws \in [Jobs -> {"none", "start", "work", "put", "wait", "end"}] /\ ws[j] = "work"
        /\ \A i \in Jobs \ {j} : ws[i] = mem.worker[i]
    BY <1>2 DEF CheckMems
  <2>2. mem' = [mem EXCEPT !.worker = ws]
    BY <1>2, <1>5 DEF CheckMems
  <2> HIDE DEF ws
  <2>3. mem' \in CheckMems /\ mem'.active = mem.active /\ mem'.worker = ws /\ mem'.got = mem.got /\ mem'.queue = mem.queue
    BY <1>2, <2>1, <2>2 DEF CheckMems
  <2>4. Fits(row, mem', j)
    BY <1>1, <1>2, <2>1, <2>3 DEF Fits
  <2> QED
    BY <1>1, <2>1, <2>3, <2>4, ThreadMoves
<1> QED
  BY <1>3, <1>4, <1>5 DEF WorkerStarts

LEMMA CheckWorkerEndsSteps ==
  ASSUME ChecksInv, NEW j \in Jobs, CheckWorkerEnds(j)
  PROVE  ChecksStepOK
<1>1. /\ mem.worker[j] = "work" /\ KeepWorld /\ KeepHost /\ UNCHANGED <<row, checkFails>>
      /\ \E got \in {[status |-> "cancelled", verdict |-> "none"]} \cup Reports(TRUE) \cup Reports(FALSE) : Brings(j, got)
  BY DEF CheckWorkerEnds, Reports
<1>2. PICK got \in {[status |-> "cancelled", verdict |-> "none"]} \cup Reports(TRUE) \cup Reports(FALSE) : Brings(j, got)
  BY <1>1
<1>3. /\ got \in [status : CheckEnds, verdict : Verdicts \cup {"none"}]
      /\ got.status = "completed" => got.verdict \in Verdicts
  BY DEF Reports, CheckEnds
<1> QED
  BY <1>1, <1>2, <1>3, BringsSteps

LEMMA WorkerPublishesSteps ==
  ASSUME ChecksInv, NEW j \in Jobs, WorkerPublishes(j)
  PROVE  ChecksStepOK
<1>1. /\ mem.worker[j] = "put" /\ KeepWorld /\ KeepHost /\ UNCHANGED <<row, checkFails>>
      /\ mem' = [mem EXCEPT !.worker[j] = "wait", !.queue = Append(@, j)]
  BY DEF WorkerPublishes
<1>2. mem \in CheckMems /\ row \in [Jobs -> CheckRows] /\ Fits(row, mem, j)
  BY DEF ChecksInv, MemFits
<1> DEFINE ws == [mem.worker EXCEPT ![j] = "wait"]
           q == Append(mem.queue, j)
<1>3. /\ ws \in [Jobs -> {"none", "start", "work", "put", "wait", "end"}] /\ ws[j] = "wait"
      /\ \A i \in Jobs \ {j} : ws[i] = mem.worker[i]
  BY <1>2 DEF CheckMems
<1>4. q \in Seq(Jobs) /\ \A i \in Jobs \ {j} : i \in ToSet(q) <=> i \in ToSet(mem.queue)
  <2>1. /\ mem.queue \in Seq(Jobs) /\ Len(mem.queue) \in Nat /\ DOMAIN mem.queue = 1 .. Len(mem.queue)
    BY <1>2 DEF CheckMems
  <2>2. /\ q \in Seq(Jobs) /\ DOMAIN q = 1 .. Len(mem.queue) + 1 /\ q[Len(mem.queue) + 1] = j
        /\ \A i \in 1 .. Len(mem.queue) : q[i] = mem.queue[i]
    BY <2>1
  <2> HIDE DEF q
  <2> QED
    BY <2>1, <2>2 DEF ToSet
<1>5. mem' = [mem EXCEPT !.worker = ws, !.queue = q]
  BY <1>1, <1>2 DEF CheckMems
<1> HIDE DEF ws, q
<1>6. mem' \in CheckMems /\ mem'.active = mem.active /\ mem'.worker = ws /\ mem'.got = mem.got /\ mem'.queue = q
  BY <1>2, <1>3, <1>4, <1>5 DEF CheckMems
<1>7. Fits(row, mem', j)
  BY <1>1, <1>2, <1>3, <1>6 DEF Fits
<1> QED
  BY <1>1, <1>3, <1>4, <1>6, <1>7, ThreadMoves

LEMMA WorkerExitsSteps ==
  ASSUME ChecksInv, NEW j \in Jobs, WorkerExits(j)
  PROVE  ChecksStepOK
<1>1. /\ mem.worker[j] = "end" /\ KeepWorld /\ KeepHost /\ UNCHANGED <<row, checkFails>>
      /\ mem' = [mem EXCEPT !.worker[j] = "none"]
  BY DEF WorkerExits
<1>2. mem \in CheckMems /\ row \in [Jobs -> CheckRows] /\ Fits(row, mem, j)
  BY DEF ChecksInv, MemFits
<1> DEFINE ws == [mem.worker EXCEPT ![j] = "none"]
<1>3. /\ ws \in [Jobs -> {"none", "start", "work", "put", "wait", "end"}] /\ ws[j] = "none"
      /\ \A i \in Jobs \ {j} : ws[i] = mem.worker[i]
  BY <1>2 DEF CheckMems
<1>4. mem' = [mem EXCEPT !.worker = ws]
  BY <1>1, <1>2 DEF CheckMems
<1> HIDE DEF ws
<1>5. mem' \in CheckMems /\ mem'.active = mem.active /\ mem'.worker = ws /\ mem'.got = mem.got /\ mem'.queue = mem.queue
  BY <1>2, <1>3, <1>4 DEF CheckMems
<1>6. Fits(row, mem', j)
  BY <1>1, <1>2, <1>3, <1>5 DEF Fits
<1> QED
  BY <1>1, <1>3, <1>5, <1>6, ThreadMoves

-----------------------------------------------------------------------------
(* The core stops and starts.                                               *)

(* Nothing of the memory is left; the rows stay.                             *)
LEMMA Down ==
  ASSUME ChecksInv, NEW rows, NEW m, MemFits(rows, m), row' = rows, RowsMove(row, rows), mem' = Idle, checkUp' = FALSE,
         KeepWorld, checkStops < MaxCheckStops, checkStops' = checkStops + 1, checkFails' \in 0 .. MaxCheckFails
  PROVE  ChecksStepOK
<1>1. MemFits(rows, Idle)
  BY IdleFits DEF MemFits, Fits
<1>2. Idle' = Idle
  BY DEF Idle
<1>3. MemFits(row, mem)'
  BY <1>1 DEF MemFits, Fits, InSlots, Active
<1>4. checkStops' \in 0 .. MaxCheckStops
  BY CheckRuntimeAssumption DEF ChecksInv
<1> QED
  BY <1>2, <1>3, <1>4 DEF ChecksInv, ChecksStepOK, KeepWorld

LEMMA CrashChecksSteps ==
  ASSUME ChecksInv, CrashChecks
  PROVE  ChecksStepOK
<1>1. MemFits(row, mem) /\ checkFails \in 0 .. MaxCheckFails
  BY DEF ChecksInv
<1> QED
  BY <1>1, RowsRest, Down DEF CrashChecks

LEMMA CloseChecksSteps ==
  ASSUME ChecksInv, CloseChecks
  PROVE  ChecksStepOK
<1> DEFINE active == [j \in Jobs |-> IF mem.active[j] = "no" THEN "no" ELSE "stop"]
           worker == [j \in Jobs |-> IF j \in ToSet(mem.queue) THEN mem.worker[j] ELSE "none"]
           m == [mem EXCEPT !.active = active, !.worker = worker]
<1>1. /\ row \in [Jobs -> CheckRows] /\ mem \in CheckMems /\ (\A i \in Jobs : Fits(row, mem, i)) /\ InSlots(mem)
      /\ checkFails \in 0 .. MaxCheckFails
  BY DEF ChecksInv, MemFits
<1>2. /\ checkUp /\ checkStops < MaxCheckStops /\ mem' = Idle /\ checkUp' = FALSE /\ checkStops' = checkStops + 1
      /\ KeepWorld
      /\ \E bad \in {0} \cup (IF checkFails < MaxCheckFails THEN Active(mem) ELSE {}) :
           /\ row' = Drained(row, m, bad).row
           /\ checkFails' = checkFails + (IF bad = 0 THEN 0 ELSE 1)
  BY <1>1 DEF CloseChecks, CheckMems
<1>3. PICK bad \in {0} \cup (IF checkFails < MaxCheckFails THEN Active(mem) ELSE {}) :
           /\ row' = Drained(row, m, bad).row
           /\ checkFails' = checkFails + (IF bad = 0 THEN 0 ELSE 1)
  BY <1>2
<1>4. checkFails' \in 0 .. MaxCheckFails
  BY <1>1, <1>3, CheckRuntimeAssumption
<1>5. /\ active \in [Jobs -> {"no", "on", "stop"}] /\ worker \in [Jobs -> {"none", "start", "work", "put", "wait", "end"}]
      /\ \A j \in Jobs : active[j] = "no" <=> mem.active[j] = "no"
      /\ \A j \in Jobs : worker[j] = mem.worker[j] \/ worker[j] = "none"
  BY <1>1 DEF CheckMems
<1> HIDE DEF active, worker
<1>6. m \in CheckMems /\ m.active = active /\ m.worker = worker /\ m.got = mem.got /\ m.queue = mem.queue
  BY <1>1, <1>5 DEF CheckMems
<1> HIDE DEF m
<1>7. ASSUME NEW j \in Jobs PROVE Fits(row, m, j)
  BY <1>1, <1>5, <1>6, <1>7 DEF Fits
<1>8. Active(m) = Active(mem)
  BY <1>5, <1>6 DEF Active
<1>9. MemFits(row, m)
  BY <1>1, <1>6, <1>7, <1>8 DEF MemFits, InSlots
<1> DEFINE d == Drained(row, m, bad)
<1>10. MemFits(d.row, d.mem) /\ RowsMove(row, d.row)
  BY <1>9, DrainedFits
<1> QED
  BY <1>2, <1>3, <1>4, <1>10, Down

LEMMA RestoreChecksSteps ==
  ASSUME ChecksInv, RestoreChecks
  PROVE  ChecksStepOK
<1>1. /\ ~checkUp /\ mem = Idle /\ mem' = Idle' /\ UNCHANGED <<target, check, checkStops>>
      /\ row \in [Jobs -> CheckRows] /\ (\A i \in Jobs : Fits(row, mem, i)) /\ checkFails \in 0 .. MaxCheckFails
      /\ MemFits(row, mem)
  BY DEF ChecksInv, MemFits, RestoreChecks, KeepWorld, Idle
<1>2. CASE checkFails < MaxCheckFails /\ checkFails' = checkFails + 1 /\ UNCHANGED <<row, checkUp>>
  <2>1. checkFails' \in 0 .. MaxCheckFails
    BY <1>1, <1>2, CheckRuntimeAssumption
  <2>2. MemFits(row, mem)' /\ mem' = mem
    BY <1>1, <1>2 DEF MemFits, Fits, InSlots, Active, RestoreChecks
  <2> QED
    BY <1>1, <1>2, <2>1, <2>2, RowsRest DEF ChecksInv, ChecksStepOK
<1>3. CASE /\ row' = [j \in Jobs |-> IF row[j].status \in Open THEN Lost(row[j]) ELSE row[j]]
           /\ checkUp' = TRUE /\ UNCHANGED checkFails
  <2> DEFINE rows == [j \in Jobs |-> IF row[j].status \in Open THEN Lost(row[j]) ELSE row[j]]
  <2>1. ASSUME NEW j \in Jobs
        PROVE  /\ rows[j] \in CheckRows /\ rows[j].status \notin Open /\ Reported(row[j], rows[j])
               /\ Closed(row[j], rows[j]) /\ (rows[j].status = "completed" => rows[j].verdict \in Verdicts)
    <3>1. CASE row[j].status \in Open
      <4>1. rows[j] = Lost(row[j]) /\ row[j] \in CheckRows
        BY <1>1, <3>1
      <4> HIDE DEF rows
      <4> QED
        BY <3>1, <4>1, LostMoves DEF Open
    <3>2. CASE row[j].status \notin Open
      <4>1. rows[j] = row[j] /\ row[j] \in CheckRows /\ Fits(row, mem, j)
        BY <1>1, <3>2
      <4> HIDE DEF rows
      <4> QED
        BY <3>2, <4>1 DEF Reported, Closed, Fits, Open
    <3> QED
      BY <3>1, <3>2
  <2>2. rows \in [Jobs -> CheckRows]
    BY <2>1
  <2> HIDE DEF rows
  <2>3. row' = rows
    BY <1>3 DEF rows
  <2>4. MemFits(rows, Idle) /\ Owned(rows, Idle) /\ RowsMove(row, rows)
    BY <2>1, <2>2, IdleFits DEF Owned, RowsMove
  <2>5. Idle' = Idle
    BY DEF Idle
  <2>6. MemFits(row, mem)' /\ Owned(row, mem)' /\ RowsMove(row, row')
    BY <1>1, <2>3, <2>4, <2>5 DEF MemFits, Fits, InSlots, Active, Owned
  <2> QED
    BY <1>1, <1>3, <2>6 DEF ChecksInv, ChecksStepOK
<1> QED
  BY <1>2, <1>3 DEF RestoreChecks

LEMMA StillSteps ==
  ASSUME ChecksInv, UNCHANGED <<row, mem, checkUp, checkFails, checkStops>>, target' \in Targets, check' \in Checks
  PROVE  ChecksStepOK
<1>1. MemFits(row, mem)' /\ (Owned(row, mem) => Owned(row, mem)') /\ Idle' = Idle
  BY DEF ChecksInv, MemFits, Fits, InSlots, Active, Owned, Idle
<1> QED
  BY <1>1, RowsRest DEF ChecksInv, ChecksStepOK

LEMMA ChecksStep == ChecksInv /\ [CheckNext]_checkVars => ChecksStepOK
<1> SUFFICES ASSUME ChecksInv, [CheckNext]_checkVars PROVE ChecksStepOK
  OBVIOUS
<1>1. target \in Targets /\ check \in Checks
  BY DEF ChecksInv
<1>2. CASE WorldMoves \/ UNCHANGED checkVars
  BY <1>1, <1>2, StillSteps DEF WorldMoves, KeepHost, checkVars
<1>3. ASSUME NEW k \in Keys, SubmitAsync(k) \/ SubmitInline(k) PROVE ChecksStepOK
  BY <1>3, SubmitAsyncSteps, SubmitInlineSteps
<1>4. CASE SubmitInline(NoKey)
  BY <1>4, SubmitInlineSteps
<1>5. ASSUME NEW j \in Jobs,
             CancelCheck(j) \/ WorkerStarts(j) \/ CheckWorkerEnds(j) \/ WorkerPublishes(j) \/ WorkerExits(j)
      PROVE  ChecksStepOK
  BY <1>5, CancelCheckSteps, WorkerStartsSteps, CheckWorkerEndsSteps, WorkerPublishesSteps, WorkerExitsSteps
<1> QED
  BY <1>2, <1>3, <1>4, <1>5, DrainChecksSteps, CloseChecksSteps, CrashChecksSteps, RestoreChecksSteps DEF CheckNext

(* For every number of jobs and slots and every bound: whatever write fails, *)
(* whoever cancels, however a thread ends and whenever the core stops, an    *)
(* open check is at work, no more commands run than there are slots, and a   *)
(* report counts once and only for the target and the command that are there.*)
THEOREM ChecksKeepSafety == CheckSpec => ChecksSafety
<1>1. CheckInit => ChecksInv
  BY ChecksInitHolds
<1>2. ChecksInv /\ [CheckNext]_checkVars => ChecksInv'
  BY ChecksStep DEF ChecksStepOK
<1>3. ChecksInv => CheckTypeOK /\ OpenHasOwner /\ SlotsBoundChecks
  BY ChecksInvImplies
<1>4. ChecksInv /\ [CheckNext]_checkVars
        => [\A j \in Jobs : row[j].status # "completed" /\ row'[j].status = "completed" =>
              row[j].status # "cancelling" /\ row'[j].target = target /\ row'[j].check = check]_checkVars
  BY ChecksStep DEF ChecksStepOK, RowsMove, Reported
<1>5. ChecksInv /\ [CheckNext]_checkVars
        => [\A j \in Jobs :
              /\ row[j].status \in CheckEnds => row'[j] = row[j]
              /\ row[j].status = "cancelling" => row'[j].status \in {"cancelling", "cancelled", "unknown"}]_checkVars
  BY ChecksStep DEF ChecksStepOK, RowsMove, Closed
<1> QED
  BY <1>1, <1>2, <1>3, <1>4, <1>5, PTL DEF CheckSpec, ChecksSafety, ReportIsCurrent, ClosedStays

-----------------------------------------------------------------------------
(* The quality flow.                                                        *)

FlowRows == [phase : Phases, held : BOOLEAN, acceptance : {"pending", "passed", "failed"}, stale : BOOLEAN,
             target : Trees \cup {0}, implementation : Nat, review : Nat, open : BOOLEAN,
             runCount : Nat, repairCount : Nat]
FlowRuns == [role : {"implement", "review", "repair"}, about : Trees \cup {0}, asked : BOOLEAN,
             status : {"queued", "sent", "pending"} \cup FlowEnds, says : {"none", "clean", "findings", "unreadable"}]

RepairsIn(s) == {i \in DOMAIN s : s[i].role = "repair"}

(* The pointers and the counts of a flow are those of its runs.              *)
Counted(f, s) ==
  /\ f.implementation \in 1 .. Len(s) /\ f.review \in 0 .. Len(s)
  /\ f.review # 0 => s[f.review].role = "review"
  /\ f.runCount = Len(s) /\ f.repairCount = Cardinality(RepairsIn(s))

(* What each phase has behind it.                                            *)
Phased(f, s) ==
  /\ f.phase = "checking" /\ f.review # 0 => f.review < f.implementation
  /\ f.phase = "repairing" => f.review < Len(s)
  /\ f.phase = "reviewing" => f.review > f.implementation
  /\ f.phase \in {"awaiting_stages", "completed"} =>
       /\ ~f.open /\ f.review > f.implementation /\ s[f.review].status = "succeeded"
       /\ s[f.review].says = "clean" /\ s[f.review].about = f.target
  /\ f.acceptance = "passed" => f.phase = "completed" /\ ~f.stale /\ f.target \in Sound

RunsHold(s) ==
  /\ s \in Seq(FlowRuns) /\ Len(s) \in 1 .. MaxRuns
  /\ IsFiniteSet(RepairsIn(s)) /\ Cardinality(RepairsIn(s)) <= MaxRepairs

FlowInv ==
  /\ flow \in FlowRows /\ RunsHold(runs) /\ Counted(flow, runs) /\ Phased(flow, runs)
  /\ tree \in Trees /\ staged \subseteq Trees /\ starts \in 0 .. MaxFlows

Granted == flow.acceptance # "passed" /\ flow'.acceptance = "passed" => tree' = flow'.target /\ ~flow.held
HeldRests == flow.held => Len(runs') = Len(runs)
ClosedByReview ==
  flow.open /\ ~flow'.open => Current.role = "review" /\ Current.says = "clean" /\ Current.about = tree'
FlowStepOK == FlowInv' /\ Granted /\ HeldRests /\ ClosedByReview

LEMMA FlowInvImplies == FlowInv => FlowTypeOK /\ AcceptedWasReviewed /\ BudgetCountsRuns /\ OneReviewEach
<1> SUFFICES ASSUME FlowInv PROVE FlowTypeOK /\ AcceptedWasReviewed /\ BudgetCountsRuns /\ OneReviewEach
  OBVIOUS
<1>1. /\ runs \in Seq(FlowRuns) /\ Len(runs) \in 1 .. MaxRuns /\ DOMAIN runs = 1 .. Len(runs) /\ flow \in FlowRows
      /\ Counted(flow, runs) /\ Phased(flow, runs) /\ Cardinality(RepairsIn(runs)) <= MaxRepairs
  BY DEF FlowInv, RunsHold
<1>2. FlowTypeOK
  <2>1. flow.implementation \in DOMAIN runs /\ flow.review \in {0} \cup DOMAIN runs
    BY <1>1 DEF Counted
  <2>2. flow \in [phase : Phases, held : BOOLEAN, acceptance : {"pending", "passed", "failed"}, stale : BOOLEAN,
                  target : Trees \cup {0}, implementation : DOMAIN runs, review : {0} \cup DOMAIN runs,
                  open : BOOLEAN, runCount : Nat, repairCount : Nat]
    BY <1>1, <2>1 DEF FlowRows
  <2> QED
    BY <1>1, <2>2 DEF FlowInv, FlowTypeOK, FlowRuns
<1>3. AcceptedWasReviewed
  BY <1>1 DEF Phased, AcceptedWasReviewed
<1>4. BudgetCountsRuns
  BY <1>1, QualityFlowAssumption DEF Counted, RepairsIn, BudgetCountsRuns
<1>5. OneReviewEach
  BY <1>1 DEF Phased, OneReviewEach
<1> QED
  BY <1>2, <1>3, <1>4, <1>5

LEMMA FlowInitHolds == FlowInit => FlowInv
<1> SUFFICES ASSUME FlowInit PROVE FlowInv
  OBVIOUS
<1> DEFINE r == [NewRun("implement", 0) EXCEPT !.status = "succeeded"]
<1>1. r \in FlowRuns /\ r.role = "implement"
  BY DEF NewRun, FlowRuns, FlowEnds
<1> HIDE DEF r
<1>2. runs = <<r>> /\ runs \in Seq(FlowRuns) /\ Len(runs) = 1 /\ runs[1] = r
  BY <1>1 DEF FlowInit, r
<1>3. RepairsIn(runs) = {}
  BY <1>1, <1>2 DEF RepairsIn
<1>4. RunsHold(runs) /\ Cardinality(RepairsIn(runs)) = 0
  BY <1>2, <1>3, FS_EmptySet, QualityFlowAssumption DEF RunsHold
<1>5. /\ flow \in FlowRows /\ flow.phase = "none" /\ flow.acceptance = "pending" /\ flow.implementation = 1
      /\ flow.review = 0 /\ flow.runCount = 1 /\ flow.repairCount = 0
  BY DEF FlowInit, FlowRows, Phases, FlowResting
<1> QED
  BY <1>2, <1>4, <1>5, QualityFlowAssumption DEF FlowInit, FlowInv, Counted, Phased

-----------------------------------------------------------------------------
(* Steps of the flow.                                                       *)

LEMMA FlowFacts ==
  ASSUME FlowInv
  PROVE  /\ flow \in FlowRows /\ Counted(flow, runs) /\ Phased(flow, runs) /\ RunsHold(runs)
         /\ runs \in Seq(FlowRuns) /\ Len(runs) \in Nat /\ Len(runs) >= 1 /\ Len(runs) <= MaxRuns
         /\ DOMAIN runs = 1 .. Len(runs) /\ Current = runs[Len(runs)] /\ Current \in FlowRuns
         /\ tree \in Trees /\ tree # 0 /\ staged \subseteq Trees /\ starts \in 0 .. MaxFlows
BY QualityFlowAssumption DEF FlowInv, RunsHold, Current, Last

(* Pausing, blocking and voiding keep what the runs say.                     *)
LEMMA StopsKeep ==
  ASSUME NEW s, NEW f \in FlowRows, Counted(f, s), Phased(f, s)
  PROVE  /\ Paused(f) \in FlowRows /\ Counted(Paused(f), s) /\ Phased(Paused(f), s) /\ Paused(f).open = f.open
         /\ Blocked(f) \in FlowRows /\ Counted(Blocked(f), s) /\ Phased(Blocked(f), s) /\ Blocked(f).open = f.open
         /\ Invalidated(f) \in FlowRows /\ Counted(Invalidated(f), s) /\ Phased(Invalidated(f), s)
         /\ Invalidated(f).open = f.open
         /\ Paused(f).acceptance = "pending" /\ Blocked(f).acceptance = "pending" /\ Invalidated(f).acceptance = "pending"
<1>1. /\ Paused(f) \in FlowRows /\ Paused(f).phase = f.phase /\ Paused(f).acceptance = "pending"
      /\ Paused(f).implementation = f.implementation /\ Paused(f).review = f.review /\ Paused(f).open = f.open
      /\ Paused(f).target = f.target /\ Paused(f).runCount = f.runCount /\ Paused(f).repairCount = f.repairCount
  BY DEF Paused, FlowRows
<1>2. /\ Blocked(f) \in FlowRows /\ Blocked(f).phase = "blocked" /\ Blocked(f).acceptance = "pending"
      /\ Blocked(f).implementation = f.implementation /\ Blocked(f).review = f.review /\ Blocked(f).open = f.open
      /\ Blocked(f).runCount = f.runCount /\ Blocked(f).repairCount = f.repairCount
  BY <1>1 DEF Blocked, FlowRows, Phases, FlowResting
<1>3. /\ Invalidated(f) \in FlowRows /\ Invalidated(f).phase = "stale" /\ Invalidated(f).acceptance = "pending"
      /\ Invalidated(f).implementation = f.implementation /\ Invalidated(f).review = f.review
      /\ Invalidated(f).open = f.open
      /\ Invalidated(f).runCount = f.runCount /\ Invalidated(f).repairCount = f.repairCount
  BY <1>1 DEF Invalidated, FlowRows, Phases, FlowResting
<1> QED
  BY <1>1, <1>2, <1>3 DEF Counted, Phased

(* The runs stay as they are.                                                *)
LEMMA FlowOnly ==
  ASSUME FlowInv, NEW f \in FlowRows, flow' = f, Counted(f, runs), Phased(f, runs), runs' = runs,
         tree' \in Trees, staged' \subseteq Trees, starts' \in 0 .. MaxFlows,
         flow.open => f.open,
         f.acceptance = "passed" => flow.acceptance = "passed" \/ (tree' = f.target /\ ~flow.held)
  PROVE  FlowStepOK
<1>1. FlowInv'
  BY DEF FlowInv
<1>2. Granted /\ HeldRests /\ ClosedByReview
  BY DEF Granted, HeldRests, ClosedByReview
<1> QED
  BY <1>1, <1>2 DEF FlowStepOK

(* A new run is the last one.                                                *)
LEMMA Appended ==
  ASSUME FlowInv, NEW r \in FlowRuns, Len(runs) < MaxRuns,
         r.role = "repair" => Cardinality(RepairsIn(runs)) < MaxRepairs
  PROVE  /\ RunsHold(Append(runs, r)) /\ Len(Append(runs, r)) = Len(runs) + 1
         /\ Append(runs, r)[Len(runs) + 1] = r /\ \A i \in 1 .. Len(runs) : Append(runs, r)[i] = runs[i]
         /\ Cardinality(RepairsIn(Append(runs, r))) =
              IF r.role = "repair" THEN Cardinality(RepairsIn(runs)) + 1 ELSE Cardinality(RepairsIn(runs))
<1> DEFINE s == Append(runs, r)
<1>1. /\ runs \in Seq(FlowRuns) /\ Len(runs) \in Nat /\ Len(runs) + 1 \in 1 .. MaxRuns /\ MaxRepairs \in Nat
      /\ IsFiniteSet(RepairsIn(runs)) /\ Cardinality(RepairsIn(runs)) \in Nat
      /\ Cardinality(RepairsIn(runs)) <= MaxRepairs
  BY QualityFlowAssumption, FS_CardinalityType DEF FlowInv, RunsHold
<1>2. /\ s \in Seq(FlowRuns) /\ Len(s) = Len(runs) + 1 /\ s[Len(runs) + 1] = r
      /\ \A i \in 1 .. Len(runs) : s[i] = runs[i]
  BY <1>1
<1>3. DOMAIN s = 1 .. Len(runs) + 1 /\ DOMAIN runs = 1 .. Len(runs)
  BY <1>1, <1>2
<1> HIDE DEF s
<1>4. RepairsIn(s) = IF r.role = "repair" THEN RepairsIn(runs) \cup {Len(runs) + 1} ELSE RepairsIn(runs)
  BY <1>1, <1>2, <1>3 DEF RepairsIn
<1>5. Len(runs) + 1 \notin RepairsIn(runs)
  BY <1>1, <1>3 DEF RepairsIn
<1>6. /\ IsFiniteSet(RepairsIn(s))
      /\ Cardinality(RepairsIn(s)) =
           IF r.role = "repair" THEN Cardinality(RepairsIn(runs)) + 1 ELSE Cardinality(RepairsIn(runs))
  <2> DEFINE R == RepairsIn(runs)
             x == Len(runs) + 1
  <2>1. IsFiniteSet(R) /\ x \notin R
    BY <1>1, <1>5
  <2> HIDE DEF R, x
  <2>2. IsFiniteSet(R \cup {x}) /\ Cardinality(R \cup {x}) = Cardinality(R) + 1
    BY <2>1, FS_AddElement
  <2>3. CASE r.role = "repair"
    BY <1>4, <2>2, <2>3 DEF R, x
  <2>4. CASE r.role # "repair"
    BY <1>1, <1>4, <2>4
  <2> QED
    BY <2>3, <2>4
<1> QED
  BY <1>1, <1>2, <1>6 DEF RunsHold, s

(* The last run changes; what a review said when it succeeded does not.      *)
LEMMA LastRunChanges ==
  ASSUME FlowInv, NEW r \in FlowRuns, r.role = Current.role, Current.status # "succeeded",
         runs' = [runs EXCEPT ![Len(runs)] = r], flow' = flow \/ flow' = Blocked(flow),
         UNCHANGED <<tree, staged, starts>>
  PROVE  FlowStepOK
<1>1. /\ flow \in FlowRows /\ Counted(flow, runs) /\ Phased(flow, runs) /\ RunsHold(runs)
      /\ runs \in Seq(FlowRuns) /\ Len(runs) \in Nat /\ Len(runs) >= 1 /\ Len(runs) <= MaxRuns
      /\ DOMAIN runs = 1 .. Len(runs) /\ Current = runs[Len(runs)]
  BY FlowFacts
<1> DEFINE s == [runs EXCEPT ![Len(runs)] = r]
<1>2. /\ s \in Seq(FlowRuns) /\ Len(s) = Len(runs) /\ DOMAIN s = DOMAIN runs /\ s[Len(runs)] = r
      /\ \A i \in 1 .. Len(runs) - 1 : s[i] = runs[i]
  <2> DEFINE k == Len(runs)
  <2>1. k \in Nat /\ k \in DOMAIN runs /\ runs \in [1 .. k -> FlowRuns] /\ DOMAIN runs = 1 .. k
    BY <1>1
  <2>2. s = [runs EXCEPT ![k] = r]
    OBVIOUS
  <2> HIDE DEF k, s
  <2>3. s \in [1 .. k -> FlowRuns] /\ s[k] = r /\ \A i \in 1 .. k : i # k => s[i] = runs[i]
    BY <2>1, <2>2
  <2>4. s \in Seq(FlowRuns) /\ Len(s) = k
    BY <2>1, <2>3
  <2>5. DOMAIN s = DOMAIN runs /\ \A i \in 1 .. k - 1 : s[i] = runs[i]
    BY <2>1, <2>3
  <2> QED
    BY <2>3, <2>4, <2>5 DEF k
<1> HIDE DEF s
<1>3. \A i \in DOMAIN runs : s[i].role = runs[i].role /\ (runs[i].status = "succeeded" => s[i] = runs[i])
  BY <1>1, <1>2
<1>4. RepairsIn(s) = RepairsIn(runs)
  BY <1>2, <1>3 DEF RepairsIn
<1>5. RunsHold(s)
  BY <1>1, <1>2, <1>4 DEF RunsHold
<1>6. Counted(flow, s) /\ Phased(flow, s)
  BY <1>1, <1>2, <1>3, <1>4 DEF Counted, Phased, FlowRows
<1>7. flow' \in FlowRows /\ Counted(flow', s) /\ Phased(flow', s) /\ flow'.open = flow.open
      /\ (flow'.acceptance = "passed" => flow.acceptance = "passed")
  BY <1>1, <1>6, StopsKeep
<1>8. FlowInv'
  BY <1>5, <1>7 DEF FlowInv, s
<1>9. Granted /\ HeldRests /\ ClosedByReview
  BY <1>2, <1>7 DEF Granted, HeldRests, ClosedByReview, s
<1> QED
  BY <1>8, <1>9 DEF FlowStepOK

LEMMA StartFlowSteps ==
  ASSUME FlowInv, StartFlow
  PROVE  FlowStepOK
<1> DEFINE base == IF flow.phase # "none" /\ Current.role = "review" THEN flow.implementation ELSE Len(runs)
           f == Begun(base)
<1>1. /\ flow \in FlowRows /\ Counted(flow, runs) /\ Len(runs) \in Nat /\ Len(runs) >= 1 /\ tree \in Trees
      /\ staged \subseteq Trees /\ starts \in 0 .. MaxFlows
  BY FlowFacts
<1>2. flow' = f /\ starts < MaxFlows /\ starts' = starts + 1 /\ UNCHANGED <<runs, tree, staged>>
  BY DEF StartFlow
<1>3. base \in 1 .. Len(runs)
  BY <1>1 DEF Counted
<1> HIDE DEF base
<1>4. /\ f \in FlowRows /\ f.phase = "checking" /\ f.acceptance = "pending" /\ f.implementation = base /\ f.review = 0
      /\ f.open = flow.open /\ f.runCount = flow.runCount /\ f.repairCount = flow.repairCount
  <2> DEFINE nought == 0
  <2>1. base \in Nat /\ tree \in Trees \cup {0} /\ nought \in Nat /\ nought = 0
    BY <1>1, <1>3
  <2>2. f = [flow EXCEPT !.phase = "checking", !.acceptance = "pending", !.stale = FALSE,
                         !.target = tree, !.implementation = base, !.review = nought]
    BY DEF Begun
  <2> HIDE DEF nought, f
  <2>3. f \in FlowRows
    BY <1>1, <2>1, <2>2 DEF FlowRows, Phases
  <2>4. /\ f.phase = "checking" /\ f.acceptance = "pending" /\ f.implementation = base /\ f.review = nought
        /\ f.open = flow.open /\ f.runCount = flow.runCount /\ f.repairCount = flow.repairCount
    BY <1>1, <2>2 DEF FlowRows
  <2> QED
    BY <2>1, <2>3, <2>4
<1> HIDE DEF f
<1>5. Counted(f, runs) /\ Phased(f, runs) /\ starts' \in 0 .. MaxFlows
  BY <1>1, <1>2, <1>3, <1>4, QualityFlowAssumption DEF Counted, Phased
<1> QED
  BY <1>1, <1>2, <1>4, <1>5, FlowOnly

LEMMA StopSteps ==
  ASSUME FlowInv, UNCHANGED <<runs, staged, starts>>, tree' \in Trees,
         flow' = Paused(flow) \/ flow' = Blocked(flow) \/ flow' = Invalidated(flow)
  PROVE  FlowStepOK
<1>1. flow \in FlowRows /\ Counted(flow, runs) /\ Phased(flow, runs) /\ staged \subseteq Trees /\ starts \in 0 .. MaxFlows
  BY FlowFacts
<1>2. CASE flow' = Paused(flow)
  BY <1>1, <1>2, StopsKeep, FlowOnly
<1>3. CASE flow' = Blocked(flow)
  BY <1>1, <1>3, StopsKeep, FlowOnly
<1>4. CASE flow' = Invalidated(flow)
  BY <1>1, <1>4, StopsKeep, FlowOnly
<1> QED
  BY <1>2, <1>3, <1>4

LEMMA TakeRepairSteps ==
  ASSUME FlowInv, TakeRepair
  PROVE  FlowStepOK
<1> DEFINE f == [flow EXCEPT !.implementation = Len(runs), !.target = tree, !.phase = "checking"]
<1>1. /\ flow \in FlowRows /\ Counted(flow, runs) /\ Phased(flow, runs) /\ Len(runs) \in Nat /\ Len(runs) >= 1
      /\ tree \in Trees /\ staged \subseteq Trees /\ starts \in 0 .. MaxFlows
  BY FlowFacts
<1>2. flow.phase = "repairing" /\ flow' = f /\ UNCHANGED <<runs, tree, staged, starts>>
  BY DEF TakeRepair, OnlyFlow, KeepRuns
<1>3. /\ f \in FlowRows /\ f.phase = "checking" /\ f.implementation = Len(runs) /\ f.review = flow.review
      /\ f.open = flow.open /\ f.runCount = flow.runCount /\ f.repairCount = flow.repairCount
      /\ f.acceptance = flow.acceptance
  BY <1>1 DEF FlowRows, Phases
<1> HIDE DEF f
<1>4. Counted(f, runs) /\ Phased(f, runs)
  BY <1>1, <1>2, <1>3 DEF Counted, Phased
<1> QED
  BY <1>1, <1>2, <1>3, <1>4, FlowOnly

(* A repair is ordered for a flow that may just have noted its findings.     *)
LEMMA RepairOrderedSteps ==
  ASSUME FlowInv, NEW f \in FlowRows, Counted(f, runs), Phased(f, runs), flow.open => f.open,
         f.acceptance = flow.acceptance, ~flow.held,
         RepairOrdered(f), UNCHANGED <<tree, staged, starts>>
  PROVE  FlowStepOK
<1>1. /\ runs \in Seq(FlowRuns) /\ Len(runs) \in Nat /\ Len(runs) >= 1 /\ tree \in Trees
      /\ staged \subseteq Trees /\ starts \in 0 .. MaxFlows
  BY FlowFacts
<1>2. CASE flow' = Paused(f) /\ UNCHANGED runs
  BY <1>1, <1>2, StopsKeep, FlowOnly
<1>3. CASE flow' = Blocked(f) /\ UNCHANGED runs
  BY <1>1, <1>3, StopsKeep, FlowOnly
<1>4. CASE /\ f.repairCount < MaxRepairs /\ f.runCount < MaxRuns
           /\ runs' = Append(runs, NewRun("repair", f.target))
           /\ flow' = [f EXCEPT !.phase = "repairing", !.acceptance = "pending",
                                !.runCount = @ + 1, !.repairCount = @ + 1]
  <2> DEFINE r == NewRun("repair", f.target)
             n == f.runCount + 1
             m == f.repairCount + 1
             g == [f EXCEPT !.phase = "repairing", !.acceptance = "pending", !.runCount = n, !.repairCount = m]
             s == Append(runs, r)
  <2>1. r \in FlowRuns /\ r.role = "repair"
    BY DEF NewRun, FlowRuns, FlowRows
  <2> HIDE DEF r
  <2>2. /\ n \in Nat /\ m \in Nat /\ n = Len(runs) + 1 /\ m = Cardinality(RepairsIn(runs)) + 1
        /\ Len(runs) < MaxRuns /\ Cardinality(RepairsIn(runs)) < MaxRepairs
    BY <1>1, <1>4 DEF FlowRows, Counted
  <2>3. flow' = g /\ runs' = s
    BY <1>4 DEF r
  <2> HIDE DEF n, m
  <2>4. /\ g \in FlowRows /\ g.phase = "repairing" /\ g.acceptance = "pending" /\ g.runCount = n /\ g.repairCount = m
        /\ g.review = f.review /\ g.implementation = f.implementation /\ g.open = f.open
    BY <2>2 DEF FlowRows, Phases
  <2>5. /\ RunsHold(s) /\ Len(s) = Len(runs) + 1 /\ \A i \in 1 .. Len(runs) : s[i] = runs[i]
        /\ Cardinality(RepairsIn(s)) = Cardinality(RepairsIn(runs)) + 1
    BY <2>1, <2>2, Appended
  <2> HIDE DEF s, g
  <2>6. Counted(g, s) /\ Phased(g, s)
    BY <1>1, <2>2, <2>4, <2>5 DEF Counted, Phased
  <2>7. FlowInv'
    BY <1>1, <2>3, <2>4, <2>5, <2>6 DEF FlowInv
  <2> QED
    BY <2>3, <2>4, <2>7 DEF FlowStepOK, Granted, HeldRests, ClosedByReview
<1> QED
  BY <1>2, <1>3, <1>4 DEF RepairOrdered

LEMMA CheckFindsSteps ==
  ASSUME FlowInv, CheckFinds
  PROVE  FlowStepOK
<1> DEFINE f == [flow EXCEPT !.open = TRUE]
<1>1. /\ flow \in FlowRows /\ Counted(flow, runs) /\ Phased(flow, runs) /\ flow.phase = "checking" /\ ~flow.held
      /\ tree \in Trees /\ staged \subseteq Trees /\ starts \in 0 .. MaxFlows /\ UNCHANGED <<tree, staged, starts>>
  BY FlowFacts DEF CheckFinds, Steady, Capturing, Advancing
<1>2. /\ f \in FlowRows /\ f.open /\ f.phase = "checking" /\ f.acceptance = flow.acceptance /\ f.review = flow.review
      /\ f.implementation = flow.implementation /\ f.runCount = flow.runCount /\ f.repairCount = flow.repairCount
  BY <1>1 DEF FlowRows
<1>3. (flow' = f /\ UNCHANGED runs) \/ RepairOrdered(f)
  BY DEF CheckFinds
<1> HIDE DEF f
<1>4. Counted(f, runs) /\ Phased(f, runs)
  BY <1>1, <1>2 DEF Counted, Phased
<1>5. CASE flow' = f /\ UNCHANGED runs
  BY <1>1, <1>2, <1>4, <1>5, FlowOnly
<1>6. CASE RepairOrdered(f)
  BY <1>1, <1>2, <1>4, <1>6, RepairOrderedSteps
<1> QED
  BY <1>3, <1>5, <1>6

LEMMA OrderReviewSteps ==
  ASSUME FlowInv, OrderReview
  PROVE  FlowStepOK
<1>1. /\ flow \in FlowRows /\ Counted(flow, runs) /\ Phased(flow, runs) /\ flow.phase = "checking" /\ ~flow.held
      /\ runs \in Seq(FlowRuns) /\ Len(runs) \in Nat /\ Len(runs) >= 1
      /\ tree \in Trees /\ staged \subseteq Trees /\ starts \in 0 .. MaxFlows /\ UNCHANGED <<tree, staged, starts>>
  BY FlowFacts DEF OrderReview, Steady, Capturing, Advancing
<1>2. CASE flow' = Paused(flow) /\ UNCHANGED runs
  BY <1>1, <1>2, StopSteps
<1>3. CASE flow' = Blocked(flow) /\ UNCHANGED runs
  BY <1>1, <1>3, StopSteps
<1>4. CASE /\ flow.runCount < MaxRuns /\ runs' = Append(runs, NewRun("review", flow.target))
           /\ flow' = [flow EXCEPT !.phase = "reviewing", !.review = Len(runs) + 1, !.runCount = @ + 1]
  <2> DEFINE r == NewRun("review", flow.target)
             n == Len(runs) + 1
             g == [flow EXCEPT !.phase = "reviewing", !.review = n, !.runCount = n]
             s == Append(runs, r)
  <2>1. r \in FlowRuns /\ r.role = "review"
    BY <1>1 DEF NewRun, FlowRuns, FlowRows
  <2> HIDE DEF r
  <2>2. n \in Nat /\ n = Len(runs) + 1 /\ flow.runCount + 1 = n /\ Len(runs) < MaxRuns
    BY <1>1, <1>4 DEF Counted
  <2>3. flow' = g /\ runs' = s
    BY <1>4, <2>2 DEF r
  <2> HIDE DEF n
  <2>4. /\ g \in FlowRows /\ g.phase = "reviewing" /\ g.acceptance = flow.acceptance /\ g.runCount = n
        /\ g.review = n /\ g.implementation = flow.implementation /\ g.open = flow.open
        /\ g.repairCount = flow.repairCount
    BY <1>1, <2>2 DEF FlowRows, Phases
  <2>5. /\ RunsHold(s) /\ Len(s) = Len(runs) + 1 /\ s[Len(runs) + 1] = r /\ \A i \in 1 .. Len(runs) : s[i] = runs[i]
        /\ Cardinality(RepairsIn(s)) = Cardinality(RepairsIn(runs))
    BY <2>1, <2>2, Appended
  <2> HIDE DEF s, g
  <2>6. Counted(g, s) /\ Phased(g, s)
    BY <1>1, <2>1, <2>2, <2>4, <2>5 DEF Counted, Phased
  <2>7. FlowInv'
    BY <1>1, <2>3, <2>4, <2>5, <2>6 DEF FlowInv
  <2> QED
    BY <1>1, <2>3, <2>4, <2>7 DEF FlowStepOK, Granted, HeldRests, ClosedByReview
<1> QED
  BY <1>2, <1>3, <1>4 DEF OrderReview

LEMMA JudgeReviewSteps ==
  ASSUME FlowInv, JudgeReview
  PROVE  FlowStepOK
<1>1. /\ flow \in FlowRows /\ Counted(flow, runs) /\ Phased(flow, runs) /\ flow.phase = "reviewing" /\ ~flow.held
      /\ ~flow.stale /\ Current.status = "succeeded" /\ tree = flow.target /\ Current = runs[Len(runs)]
      /\ Len(runs) \in Nat /\ Len(runs) >= 1
      /\ tree \in Trees /\ staged \subseteq Trees /\ starts \in 0 .. MaxFlows /\ UNCHANGED <<runs, tree, staged, starts>>
  BY FlowFacts DEF JudgeReview, Steady, Capturing, Advancing, OnlyFlow, KeepRuns
<1> DEFINE f == [flow EXCEPT !.open = FALSE, !.phase = IF Gate(tree) THEN "completed" ELSE "awaiting_stages",
                             !.acceptance = IF Gate(tree) THEN "passed" ELSE "pending"]
           g == [flow EXCEPT !.open = TRUE, !.phase = "reviewed"]
<1>2. CASE flow' = Blocked(flow)
  BY <1>1, <1>2, StopSteps
<1>3. CASE flow' = g
  <2>1. /\ g \in FlowRows /\ g.open /\ g.phase = "reviewed" /\ g.acceptance = flow.acceptance /\ g.review = flow.review
        /\ g.implementation = flow.implementation /\ g.runCount = flow.runCount /\ g.repairCount = flow.repairCount
    BY <1>1 DEF FlowRows, Phases
  <2> HIDE DEF g
  <2>2. Counted(g, runs) /\ Phased(g, runs)
    BY <1>1, <2>1 DEF Counted, Phased
  <2> QED
    BY <1>1, <1>3, <2>1, <2>2, FlowOnly
<1>4. CASE flow' = f /\ Len(runs) = flow.review /\ Current.about = tree /\ Current.says = "clean" /\ tree \in Sound
  <2>1. /\ f \in FlowRows /\ ~f.open /\ f.phase \in {"completed", "awaiting_stages"} /\ f.review = flow.review
        /\ f.implementation = flow.implementation /\ f.runCount = flow.runCount /\ f.repairCount = flow.repairCount
        /\ f.target = flow.target /\ ~f.stale /\ (f.acceptance = "passed" => f.phase = "completed")
    BY <1>1 DEF FlowRows, Phases, FlowResting
  <2> HIDE DEF f
  <2>2. Counted(f, runs) /\ Phased(f, runs)
    BY <1>1, <1>4, <2>1 DEF Counted, Phased
  <2>3. FlowInv'
    BY <1>1, <1>4, <2>1, <2>2 DEF FlowInv
  <2>4. Current.role = "review"
    BY <1>1, <1>4 DEF Counted
  <2> QED
    BY <1>1, <1>4, <2>1, <2>3, <2>4 DEF FlowStepOK, Granted, HeldRests, ClosedByReview
<1> QED
  BY <1>2, <1>3, <1>4 DEF JudgeReview

LEMMA OrderRepairSteps ==
  ASSUME FlowInv, OrderRepair
  PROVE  FlowStepOK
<1>1. flow \in FlowRows /\ Counted(flow, runs) /\ Phased(flow, runs) /\ ~flow.held
  BY FlowFacts DEF OrderRepair, Steady, Capturing, Advancing
<1> QED
  BY <1>1, RepairOrderedSteps DEF OrderRepair

(* An acceptance is decided anew for files that are still the bound ones.    *)
LEMMA DecidedAnew ==
  ASSUME FlowInv, NEW acceptance \in {"pending", "passed", "failed"}, NEW phase \in {flow.phase, "completed"},
         flow.phase \in {"awaiting_stages", "completed"},
         flow' = [flow EXCEPT !.phase = phase, !.acceptance = acceptance],
         acceptance = "passed" => /\ phase = "completed" /\ tree \in Sound /\ tree = flow.target /\ ~flow.stale
                                  /\ flow.acceptance = "passed" \/ ~flow.held,
         UNCHANGED <<runs, tree, staged, starts>>
  PROVE  FlowStepOK
<1> DEFINE f == [flow EXCEPT !.phase = phase, !.acceptance = acceptance]
<1>1. /\ flow \in FlowRows /\ Counted(flow, runs) /\ Phased(flow, runs)
      /\ tree \in Trees /\ staged \subseteq Trees /\ starts \in 0 .. MaxFlows
  BY FlowFacts
<1>2. /\ f \in FlowRows /\ f.open = flow.open /\ f.phase = phase /\ f.acceptance = acceptance /\ f.review = flow.review
      /\ f.implementation = flow.implementation /\ f.runCount = flow.runCount /\ f.repairCount = flow.repairCount
      /\ f.target = flow.target /\ f.stale = flow.stale
  BY <1>1 DEF FlowRows, Phases, FlowResting
<1>3. flow' = f
  OBVIOUS
<1> HIDE DEF f
<1>4. Counted(f, runs) /\ Phased(f, runs)
  BY <1>1, <1>2 DEF Counted, Phased
<1> QED
  BY <1>1, <1>2, <1>3, <1>4, FlowOnly

LEMMA JudgeStagesSteps ==
  ASSUME FlowInv, JudgeStages
  PROVE  FlowStepOK
<1>1. /\ flow \in FlowRows /\ flow.phase = "awaiting_stages" /\ ~flow.held /\ ~flow.stale /\ tree = flow.target
      /\ UNCHANGED <<runs, tree, staged, starts>>
  BY FlowFacts DEF JudgeStages, Steady, Capturing, Advancing, OnlyFlow, KeepRuns
<1>2. CASE flow' = [flow EXCEPT !.acceptance = "failed"]
  <2>1. flow' = [flow EXCEPT !.phase = flow.phase, !.acceptance = "failed"]
    BY <1>1, <1>2 DEF FlowRows
  <2> QED
    BY <1>1, <2>1, DecidedAnew
<1>3. CASE flow' = [flow EXCEPT !.acceptance = "pending"]
  <2>1. flow' = [flow EXCEPT !.phase = flow.phase, !.acceptance = "pending"]
    BY <1>1, <1>3 DEF FlowRows
  <2> QED
    BY <1>1, <2>1, DecidedAnew
<1>4. CASE flow' = [flow EXCEPT !.phase = "completed", !.acceptance = "passed"] /\ tree \in Sound
  BY <1>1, <1>4, DecidedAnew
<1> QED
  BY <1>2, <1>3, <1>4 DEF JudgeStages

LEMMA ReadFlowSteps ==
  ASSUME FlowInv, ReadFlow
  PROVE  FlowStepOK
<1>1. /\ flow \in FlowRows /\ Counted(flow, runs) /\ Phased(flow, runs) /\ flow.phase = "completed"
      /\ tree \in Trees /\ staged \subseteq Trees /\ starts \in 0 .. MaxFlows
      /\ UNCHANGED <<runs, tree, staged, starts>>
  BY FlowFacts DEF ReadFlow, OnlyFlow, KeepRuns
<1>2. CASE tree # flow.target \/ tree \notin Sound \/ flow.stale
  BY <1>1, <1>2, StopSteps DEF ReadFlow
<1>3. CASE ~(tree # flow.target \/ tree \notin Sound \/ flow.stale)
  <2>1. CASE Gated /\ (flow.acceptance = "passed" \/ ~flow.held)
    <3> DEFINE a == IF Gate(tree) THEN "passed" ELSE "pending"
    <3>1. a \in {"pending", "passed", "failed"} /\ flow' = [flow EXCEPT !.acceptance = a]
      BY <1>3, <2>1 DEF ReadFlow
    <3> HIDE DEF a
    <3>2. flow' = [flow EXCEPT !.phase = "completed", !.acceptance = a]
      BY <1>1, <3>1 DEF FlowRows
    <3> QED
      BY <1>1, <1>3, <2>1, <3>1, <3>2, DecidedAnew
  <2>2. CASE ~(Gated /\ (flow.acceptance = "passed" \/ ~flow.held))
    <3>1. flow' = flow
      BY <1>3, <2>2 DEF ReadFlow
    <3> QED
      BY <1>1, <3>1, FlowOnly
  <2> QED
    BY <2>1, <2>2
<1> QED
  BY <1>2, <1>3

LEMMA HandFlowOverSteps ==
  ASSUME FlowInv, NEW held \in BOOLEAN, NEW edited \in BOOLEAN, HandFlowOver(held, edited)
  PROVE  FlowStepOK
<1> DEFINE stale == flow.stale \/ edited
           a == IF edited /\ flow.acceptance = "passed" THEN "pending" ELSE flow.acceptance
           f == [flow EXCEPT !.held = held, !.stale = stale, !.acceptance = a]
<1>1. /\ flow \in FlowRows /\ Counted(flow, runs) /\ Phased(flow, runs)
      /\ tree \in Trees /\ staged \subseteq Trees /\ starts \in 0 .. MaxFlows
      /\ UNCHANGED <<runs, tree, staged, starts>>
  BY FlowFacts DEF HandFlowOver, OnlyFlow, KeepRuns
<1>2. /\ stale \in BOOLEAN /\ a \in {"pending", "passed", "failed"} /\ flow' = f
      /\ (a = "passed" => flow.acceptance = "passed" /\ (stale => flow.stale))
  BY <1>1 DEF HandFlowOver, FlowRows
<1> HIDE DEF stale, a
<1>3. /\ f \in FlowRows /\ f.open = flow.open /\ f.phase = flow.phase /\ f.acceptance = a /\ f.review = flow.review
      /\ f.implementation = flow.implementation /\ f.runCount = flow.runCount /\ f.repairCount = flow.repairCount
      /\ f.target = flow.target /\ f.stale = stale
  BY <1>1, <1>2 DEF FlowRows
<1> HIDE DEF f
<1>4. Counted(f, runs) /\ Phased(f, runs)
  BY <1>1, <1>2, <1>3 DEF Counted, Phased
<1> QED
  BY <1>1, <1>2, <1>3, <1>4, FlowOnly

LEMMA CancelFlowSteps ==
  ASSUME FlowInv, CancelFlow
  PROVE  FlowStepOK
<1>1. /\ flow \in FlowRows /\ Counted(flow, runs) /\ Phased(flow, runs) /\ Current \in FlowRuns
      /\ runs \in Seq(FlowRuns) /\ Len(runs) \in Nat /\ Len(runs) >= 1 /\ Current = runs[Len(runs)]
      /\ tree \in Trees /\ staged \subseteq Trees /\ starts \in 0 .. MaxFlows
      /\ UNCHANGED <<tree, staged, starts>> /\ (flow' = flow \/ flow' = Blocked(flow))
  BY FlowFacts DEF CancelFlow
<1>2. CASE FlowRunEnded(Current)
  <2>1. runs' = runs
    BY <1>2 DEF CancelFlow
  <2>2. CASE flow' = flow
    BY <1>1, <2>1, <2>2, FlowOnly
  <2>3. CASE flow' = Blocked(flow)
    BY <1>1, <2>1, <2>3, StopSteps
  <2> QED
    BY <1>1, <2>2, <2>3
<1>3. CASE ~FlowRunEnded(Current)
  <2> DEFINE status == IF Current.status = "queued" THEN "cancelled" ELSE Current.status
             r == [Current EXCEPT !.asked = TRUE, !.status = status]
  <2>1. status \in {"queued", "sent", "pending"} \cup FlowEnds
    BY <1>1 DEF FlowRuns, FlowEnds
  <2>2. runs' = [runs EXCEPT ![Len(runs)] = r]
    BY <1>1, <1>3 DEF CancelFlow
  <2> HIDE DEF status
  <2>3. r \in FlowRuns /\ r.role = Current.role
    BY <1>1, <2>1 DEF FlowRuns
  <2> HIDE DEF r
  <2>4. Current.status # "succeeded"
    BY <1>3 DEF FlowRunEnded, FlowEnds
  <2> QED
    BY <1>1, <2>2, <2>3, <2>4, LastRunChanges
<1> QED
  BY <1>2, <1>3

LEMMA DispatchRunSteps ==
  ASSUME FlowInv, DispatchRun
  PROVE  FlowStepOK
<1>1. Current \in FlowRuns /\ runs \in Seq(FlowRuns) /\ Len(runs) \in Nat /\ Len(runs) >= 1 /\ Current = runs[Len(runs)]
      /\ Current.status = "queued" /\ UNCHANGED <<flow, tree, staged, starts>>
  BY FlowFacts DEF DispatchRun
<1>2. PICK s \in {"failed", "sent"} : runs' = [runs EXCEPT ![Len(runs)].status = s]
  BY DEF DispatchRun
<1> DEFINE r == [Current EXCEPT !.status = s]
<1>3. runs' = [runs EXCEPT ![Len(runs)] = r]
  BY <1>1, <1>2
<1>4. r \in FlowRuns /\ r.role = Current.role
  BY <1>1 DEF FlowRuns, FlowEnds
<1> HIDE DEF r
<1> QED
  BY <1>1, <1>3, <1>4, LastRunChanges

LEMMA ReportRunSteps ==
  ASSUME FlowInv, ReportRun
  PROVE  FlowStepOK
<1>1. Current \in FlowRuns /\ runs \in Seq(FlowRuns) /\ Len(runs) \in Nat /\ Len(runs) >= 1 /\ Current = runs[Len(runs)]
      /\ Current.status \in {"sent", "pending"} /\ UNCHANGED <<flow, tree, staged, starts>>
  BY FlowFacts DEF ReportRun
<1>2. PICK s \in FlowEnds \cup {"pending"}, says \in {"clean", "findings", "unreadable", "none"} :
        runs' = [runs EXCEPT ![Len(runs)].status = s, ![Len(runs)].says = IF s = "succeeded" THEN says ELSE "none"]
  BY DEF ReportRun
<1> DEFINE word == IF s = "succeeded" THEN says ELSE "none"
           r == [Current EXCEPT !.status = s, !.says = word]
<1>3. runs' = [runs EXCEPT ![Len(runs)] = r] /\ word \in {"none", "clean", "findings", "unreadable"}
  BY <1>1, <1>2
<1> HIDE DEF word
<1>4. r \in FlowRuns /\ r.role = Current.role
  BY <1>1, <1>3 DEF FlowRuns, FlowEnds
<1> HIDE DEF r
<1> QED
  BY <1>1, <1>3, <1>4, LastRunChanges

LEMMA FlowStep == FlowInv /\ [FlowNext]_flowVars => FlowStepOK
<1> SUFFICES ASSUME FlowInv, [FlowNext]_flowVars PROVE FlowStepOK
  OBVIOUS
<1>1. /\ flow \in FlowRows /\ Counted(flow, runs) /\ Phased(flow, runs) /\ tree \in Trees /\ staged \subseteq Trees
      /\ starts \in 0 .. MaxFlows
  BY FlowFacts
<1>2. CASE PassRefused \/ PassStops \/ TargetMoved
  BY <1>1, <1>2, StopSteps DEF PassRefused, PassStops, TargetMoved, OnlyFlow, KeepRuns
<1>3. CASE UNCHANGED flow /\ UNCHANGED <<runs, starts>> /\ tree' \in Trees /\ staged' \subseteq Trees
  BY <1>1, <1>3, FlowOnly
<1>4. CASE EditTree \/ StageEvidence \/ UNCHANGED flowVars
  BY <1>1, <1>3, <1>4 DEF EditTree, StageEvidence, flowVars
<1>5. ASSUME NEW held \in BOOLEAN, NEW edited \in BOOLEAN, HandFlowOver(held, edited) PROVE FlowStepOK
  BY <1>5, HandFlowOverSteps
<1> QED
  BY <1>2, <1>4, <1>5, StartFlowSteps, TakeRepairSteps, CheckFindsSteps, OrderReviewSteps, JudgeReviewSteps,
     OrderRepairSteps, JudgeStagesSteps, ReadFlowSteps, CancelFlowSteps, DispatchRunSteps, ReportRunSteps
     DEF FlowNext, AdvanceFlow, FlowPass

(* For every set of contents and every limit: wherever a pass stops and      *)
(* whatever happens to the files, acceptance and closed findings come from   *)
(* one clean review of exactly the files that are there, the counts are those*)
(* of the runs and stay within the limits, and a held task gets no new run.  *)
THEOREM FlowKeepsSafety == FlowSpec => FlowSafety
<1>1. FlowInit => FlowInv
  BY FlowInitHolds
<1>2. FlowInv /\ [FlowNext]_flowVars => FlowInv'
  BY FlowStep DEF FlowStepOK
<1>3. FlowInv => FlowTypeOK /\ AcceptedWasReviewed /\ BudgetCountsRuns /\ OneReviewEach
  BY FlowInvImplies
<1>4. FlowInv /\ [FlowNext]_flowVars
        => [/\ flow.acceptance # "passed" /\ flow'.acceptance = "passed" => tree' = flow'.target /\ ~flow.held
            /\ flow.held => Len(runs') = Len(runs)]_flowVars
  BY FlowStep DEF FlowStepOK, Granted, HeldRests
<1>5. FlowInv /\ [FlowNext]_flowVars
        => [flow.open /\ ~flow'.open => Current.role = "review" /\ Current.says = "clean"
                                         /\ Current.about = tree']_flowVars
  BY FlowStep DEF FlowStepOK, ClosedByReview
<1> QED
  BY <1>1, <1>2, <1>3, <1>4, <1>5, PTL DEF FlowSpec, FlowSafety, GrantedForPresentFiles, FindingsCloseByReview

-----------------------------------------------------------------------------
(* Evidence, stages and dependent tasks.                                    *)

GateTasks == [accepted : BOOLEAN, stale : BOOLEAN, bound : Files \cup {0}, review : BOOLEAN,
              policy : [Stages -> Sources]]
Evidences == [Stages -> [target : Files \cup {0}, passed : BOOLEAN]]
GateRuns == [number : Nat, status : {"queued", "sent"} \cup Ends, dep : [number : Nat, target : Files \cup {0}],
             base : Files \cup {0}, local : Evidences, told : Evidences]

GateInv ==
  /\ task \in [TaskIds -> GateTasks] /\ run \in [TaskIds -> GateRuns]
  /\ files \in [TaskIds -> Files] /\ rules \in [Stages -> Sources]
  /\ \A t \in TaskIds : run[t].number # 0
  /\ AcceptedStandsOnEvidence

LEMMA GateInvTypes == GateInv => GateTypeOK
BY DEF GateInv, GateTypeOK, GateTasks, GateRuns, Evidences

(* What may become of a task of which nothing is granted.                    *)
Tightened(k, l) ==
  \A s \in Stages : (k.policy[s] # "none" => l.policy[s] # "none") /\ (k.policy[s] = "core" => l.policy[s] = "core")
NotGranted(k, l) == (l.accepted => k.accepted /\ l.bound = k.bound /\ l.stale = k.stale) /\ l.review = k.review

LEMMA PolicyForTightens ==
  ASSUME GateInv, NEW k \in GateTasks
  PROVE  /\ PolicyFor(k) \in [Stages -> Sources]
         /\ \A s \in Stages : /\ k.policy[s] # "none" => PolicyFor(k)[s] # "none"
                              /\ k.policy[s] = "core" => PolicyFor(k)[s] = "core"
BY DEF GateInv, PolicyFor, GateTasks, Sources

(* The stages can only withdraw what was decided before them.                *)
LEMMA StageGatedTightens ==
  ASSUME GateInv, NEW k \in GateTasks, NEW r \in GateRuns, NEW at
  PROVE  /\ StageGated(k, r, at) \in GateTasks
         /\ Tightened(k, StageGated(k, r, at)) /\ NotGranted(k, StageGated(k, r, at))
         /\ StageGated(k, r, at).bound = k.bound /\ StageGated(k, r, at).stale = k.stale
         /\ StageGated(k, r, at).accepted =>
              \A s \in Stages : StageGated(k, r, at).policy[s] # "none"
                => StagePasses(r, s, StageGated(k, r, at).policy[s], at)
<1> DEFINE policy == PolicyFor(k)
           needed == {s \in Stages : policy[s] # "none"}
           met == \A s \in needed : StagePasses(r, s, policy[s], at)
           l == StageGated(k, r, at)
<1>1. policy \in [Stages -> Sources] /\ \A s \in Stages : /\ k.policy[s] # "none" => policy[s] # "none"
                                                          /\ k.policy[s] = "core" => policy[s] = "core"
  BY PolicyForTightens
<1>2. l = IF needed = {} THEN k ELSE [k EXCEPT !.policy = policy, !.accepted = k.accepted /\ met]
  BY DEF StageGated
<1> HIDE DEF policy, l
<1>3. CASE needed = {}
  BY <1>1, <1>2, <1>3 DEF Tightened, NotGranted, l
<1>4. CASE needed # {}
  <2> DEFINE ok == k.accepted /\ met
  <2>1. ok \in BOOLEAN /\ (ok => k.accepted /\ met)
    BY DEF GateTasks
  <2>2. l = [k EXCEPT !.policy = policy, !.accepted = ok]
    BY <1>2, <1>4
  <2> HIDE DEF ok, met, needed
  <2>3. /\ l \in GateTasks /\ l.policy = policy /\ l.accepted = ok /\ l.bound = k.bound /\ l.stale = k.stale
        /\ l.review = k.review
    BY <1>1, <2>1, <2>2 DEF GateTasks
  <2>4. Tightened(k, l) /\ NotGranted(k, l)
    BY <1>1, <2>1, <2>3 DEF Tightened, NotGranted
  <2>5. l.accepted => \A s \in Stages : l.policy[s] # "none" => StagePasses(r, s, l.policy[s], at)
    BY <2>1, <2>3 DEF met, needed
  <2> QED
    BY <2>3, <2>4, <2>5 DEF l
<1> QED
  BY <1>3, <1>4

(* Looking again withdraws an acceptance, and keeps one only while the bound *)
(* target is what the files hold.                                           *)
LEMMA RefreshedTightens ==
  ASSUME GateInv, NEW k \in GateTasks, NEW r \in GateRuns, NEW now \in Files
  PROVE  /\ Refreshed(k, r, now) \in GateTasks
         /\ Tightened(k, Refreshed(k, r, now)) /\ NotGranted(k, Refreshed(k, r, now))
         /\ Refreshed(k, r, now).bound = k.bound
         /\ ~Refreshed(k, r, now).stale /\ k.bound # 0 => k.bound = now
<1> DEFINE v == IF k.bound # 0 /\ ~k.stale /\ (k.bound # now \/ r.status \notin Ends)
                THEN [k EXCEPT !.stale = TRUE, !.accepted = FALSE] ELSE k
           w == [v EXCEPT !.policy = PolicyFor(v), !.accepted = FALSE]
           l == Refreshed(k, r, now)
<1>1. /\ v \in GateTasks /\ v.policy = k.policy /\ v.bound = k.bound /\ NotGranted(k, v)
      /\ (~v.stale /\ k.bound # 0 => k.bound = now)
  BY DEF GateTasks, NotGranted
<1>2. l = IF ~v.accepted \/ ~Required(v) THEN v ELSE IF v.bound # now THEN w ELSE StageGated(v, r, now)
  BY DEF Refreshed
<1> HIDE DEF v, l
<1>3. CASE l = v
  BY <1>1, <1>3 DEF Tightened, l
<1>4. CASE l = w
  <2>1. PolicyFor(v) \in [Stages -> Sources] /\ Tightened(v, [policy |-> PolicyFor(v)])
    BY <1>1, PolicyForTightens DEF Tightened
  <2>2. w \in GateTasks /\ w.policy = PolicyFor(v) /\ w.bound = v.bound /\ w.stale = v.stale /\ w.review = v.review /\ ~w.accepted
    BY <1>1, <2>1 DEF GateTasks
  <2> HIDE DEF w
  <2>3. Tightened(k, w) /\ NotGranted(k, w)
    BY <1>1, <2>1, <2>2 DEF Tightened, NotGranted
  <2> QED
    BY <1>1, <1>4, <2>2, <2>3 DEF l
<1>5. CASE l = StageGated(v, r, now)
  <2>1. /\ l \in GateTasks /\ Tightened(v, l) /\ NotGranted(v, l) /\ l.bound = v.bound /\ l.stale = v.stale
    BY <1>1, <1>5, StageGatedTightens
  <2>2. Tightened(k, l) /\ NotGranted(k, l)
    BY <1>1, <2>1 DEF Tightened, NotGranted
  <2> QED
    BY <1>1, <2>1, <2>2 DEF l
<1> QED
  BY <1>2, <1>3, <1>4, <1>5

LEMMA UpstreamFacts ==
  ASSUME GateInv
  PROVE  /\ "up" \in TaskIds /\ Upstream \in GateTasks /\ Tightened(task["up"], Upstream) /\ NotGranted(task["up"], Upstream)
         /\ Ready => Upstream.accepted /\ Upstream.bound = files["up"] /\ run["up"].number # 0
         /\ Binding.number = run["up"].number
<1>1. "up" \in TaskIds
  BY DEF TaskIds
<1>2. task["up"] \in GateTasks /\ run["up"] \in GateRuns /\ files["up"] \in Files /\ run["up"].number # 0
  BY <1>1 DEF GateInv
<1>3. /\ Upstream \in GateTasks /\ Tightened(task["up"], Upstream) /\ NotGranted(task["up"], Upstream)
      /\ Upstream.bound = task["up"].bound
      /\ ~Upstream.stale /\ task["up"].bound # 0 => task["up"].bound = files["up"]
  BY <1>2, RefreshedTightens DEF Upstream
<1> QED
  BY <1>1, <1>2, <1>3 DEF Ready, Binding

-----------------------------------------------------------------------------
(* Steps of the gates.                                                      *)

(* Acceptance of task t is granted with all it needs, or not at all.         *)
GrantedRight(t) ==
  ~task[t].accepted /\ task'[t].accepted =>
    /\ task'[t].bound \in {0, files[t]}
    /\ \A s \in Stages : task'[t].policy[s] # "none" => StagePasses(run[t], s, task'[t].policy[s], files[t])
    /\ t = "down" => /\ task'["up"].accepted /\ task'["up"].bound = files["up"]
                     /\ run["down"].dep.number = run["up"].number
FromBaseline(t) ==
  run[t].status = "queued" /\ run'[t].status = "sent" => run[t].base \in {0, files[t]} /\ run'[t].base = files[t]

GateStepOK ==
  /\ GateInv'
  /\ \A t \in TaskIds : GrantedRight(t) /\ Tightened(task[t], task'[t]) /\ FromBaseline(t)

(* A task is saved, with what was found of the one it depends on.            *)
LEMMA SavedSteps ==
  ASSUME GateInv, NEW t \in TaskIds, NEW k \in GateTasks, Saved(t, k), UNCHANGED <<run, files, rules>>,
         Tightened(task[t], k),
         k.accepted => /\ run[t].status = "succeeded" /\ ~k.review /\ ~k.stale
                       /\ t = "down" => run[t].dep # NoDep,
         ~task[t].accepted /\ k.accepted =>
           /\ k.bound \in {0, files[t]}
           /\ \A s \in Stages : k.policy[s] # "none" => StagePasses(run[t], s, k.policy[s], files[t])
           /\ t = "down" => Ready /\ run["down"].dep.number = run["up"].number
  PROVE  GateStepOK
<1>1. /\ "up" \in TaskIds /\ Upstream \in GateTasks /\ Tightened(task["up"], Upstream) /\ NotGranted(task["up"], Upstream)
      /\ Ready => Upstream.accepted /\ Upstream.bound = files["up"]
  BY UpstreamFacts
<1>2. task \in [TaskIds -> GateTasks]
  BY DEF GateInv
<1>3. task' \in [TaskIds -> GateTasks] /\ task'[t] = k
      /\ (t # "up" => task'["up"] = Upstream) /\ \A q \in TaskIds \ {t, "up"} : task'[q] = task[q]
  <2>1. task' = [task EXCEPT ![t] = k, !["up"] = IF t = "up" THEN k ELSE Upstream]
    BY DEF Saved
  <2> QED
    BY <1>1, <1>2, <2>1
<1>4. ASSUME NEW q \in TaskIds
      PROVE  /\ Tightened(task[q], task'[q]) /\ GrantedRight(q) /\ FromBaseline(q)
             /\ task'[q].accepted => /\ run[q].status = "succeeded" /\ ~task'[q].review /\ ~task'[q].stale
                                     /\ q = "down" => run[q].dep # NoDep
  <2>1. task[q].accepted => /\ run[q].status = "succeeded" /\ ~task[q].review /\ ~task[q].stale
                            /\ q = "down" => run[q].dep # NoDep
    BY DEF GateInv, AcceptedStandsOnEvidence
  <2>2. FromBaseline(q)
    BY DEF FromBaseline
  <2>3. CASE q = t
    BY <1>1, <1>3, <2>1, <2>2, <2>3 DEF GrantedRight, TaskIds
  <2>4. CASE q # t /\ q = "up"
    <3>1. task'[q] = Upstream /\ q # "down"
      BY <1>3, <2>4
    <3> QED
      BY <1>1, <2>1, <2>2, <2>4, <3>1 DEF GrantedRight, NotGranted
  <2>5. CASE q # t /\ q # "up"
    <3>1. task'[q] = task[q]
      BY <1>3, <2>5
    <3> QED
      BY <2>1, <2>2, <3>1 DEF GrantedRight, Tightened
  <2> QED
    BY <2>3, <2>4, <2>5
<1>5. GateInv'
  BY <1>3, <1>4 DEF GateInv, AcceptedStandsOnEvidence
<1> QED
  BY <1>4, <1>5 DEF GateStepOK

LEMMA EvaluateSteps ==
  ASSUME GateInv, NEW t \in TaskIds, NEW bound \in BOOLEAN, NEW review \in BOOLEAN, NEW passed \in BOOLEAN,
         Evaluate(t, bound, review, passed)
  PROVE  GateStepOK
<1> DEFINE k == task[t]
           r == run[t]
           needed == k.review \/ review
           ok == Decide(r, needed, passed)
           judged == [k EXCEPT !.accepted = ok, !.review = needed,
                        !.stale = IF bound THEN FALSE ELSE k.stale, !.bound = IF bound THEN files[t] ELSE k.bound]
           g == IF bound THEN StageGated(judged, r, files[t]) ELSE judged
           d == Depending(t, g)
<1>1. /\ k \in GateTasks /\ r \in GateRuns /\ files[t] \in Files
  BY DEF GateInv
<1>2. /\ ~bound => ~k.stale /\ k.bound = 0 /\ ~Required(k)
      /\ Saved(t, d) /\ UNCHANGED <<run, files, rules>>
  BY DEF Evaluate
<1>3. needed \in BOOLEAN /\ ok \in BOOLEAN /\ (ok => ~needed /\ r.status = "succeeded")
  BY <1>1 DEF GateTasks, Decide
<1> HIDE DEF needed, ok, k, r
<1>4. /\ judged \in GateTasks /\ judged.accepted = ok /\ judged.review = needed /\ judged.policy = k.policy
      /\ ~judged.stale /\ judged.bound \in {0, files[t]}
  BY <1>1, <1>2, <1>3 DEF GateTasks
<1> HIDE DEF judged
<1>5. /\ g \in GateTasks /\ Tightened(k, g) /\ (g.accepted => ok) /\ (ok => ~g.review \/ ~g.accepted)
      /\ (g.accepted => ~g.stale /\ ~g.review) /\ g.bound \in {0, files[t]}
      /\ g.accepted => \A s \in Stages : g.policy[s] # "none" => StagePasses(r, s, g.policy[s], files[t])
  <2>1. CASE bound
    <3>1. /\ g \in GateTasks /\ Tightened(judged, g) /\ NotGranted(judged, g) /\ g.bound = judged.bound
          /\ g.accepted => \A s \in Stages : g.policy[s] # "none" => StagePasses(r, s, g.policy[s], files[t])
      BY <1>1, <1>4, <2>1, StageGatedTightens
    <3> QED
      BY <1>3, <1>4, <3>1 DEF Tightened, NotGranted
  <2>2. CASE ~bound
    <3>1. \A s \in Stages : k.policy[s] = "none"
      BY <1>1, <1>2, <2>2, PolicyForTightens DEF Required
    <3> QED
      BY <1>3, <1>4, <2>2, <3>1 DEF Tightened
  <2> QED
    BY <2>1, <2>2
<1> HIDE DEF g
<1>6. /\ d \in GateTasks /\ d.policy = g.policy /\ d.bound = g.bound /\ d.stale = g.stale /\ d.review = g.review
      /\ d.accepted => g.accepted /\ (t = "down" => Ready /\ r.dep = Binding)
  <2> DEFINE both == g.accepted /\ Ready /\ r.dep = Binding
  <2>1. both \in BOOLEAN /\ d = IF t = "down" THEN [g EXCEPT !.accepted = both] ELSE g
    BY <1>5 DEF Depending, GateTasks, r
  <2>2. both => g.accepted /\ Ready /\ r.dep = Binding
    OBVIOUS
  <2> HIDE DEF both, d
  <2> QED
    BY <1>5, <2>1, <2>2 DEF GateTasks
<1> HIDE DEF d
<1>7. t = "down" /\ d.accepted => Ready /\ r.dep.number = run["up"].number /\ r.dep # NoDep
  BY <1>6, UpstreamFacts DEF NoDep
<1>8. Tightened(k, d)
  BY <1>5, <1>6 DEF Tightened
<1>9. d.accepted => /\ r.status = "succeeded" /\ ~d.review /\ ~d.stale /\ d.bound \in {0, files[t]}
                    /\ \A s \in Stages : d.policy[s] # "none" => StagePasses(r, s, d.policy[s], files[t])
  BY <1>3, <1>5, <1>6
<1> QED
  BY <1>2, <1>6, <1>7, <1>8, <1>9, SavedSteps DEF k, r

LEMMA LookSteps ==
  ASSUME GateInv, NEW t \in TaskIds, Look(t)
  PROVE  GateStepOK
<1> DEFINE k == task[t]
           g == Refreshed(k, run[t], files[t])
           d == Depending(t, g)
<1>1. /\ k \in GateTasks /\ run[t] \in GateRuns /\ files[t] \in Files
      /\ k.accepted => /\ run[t].status = "succeeded" /\ ~k.review /\ ~k.stale
                       /\ t = "down" => run[t].dep # NoDep
  BY DEF GateInv, AcceptedStandsOnEvidence
<1>2. Saved(t, d) /\ UNCHANGED <<run, files, rules>>
  BY DEF Look
<1> HIDE DEF k
<1>3. g \in GateTasks /\ Tightened(k, g) /\ NotGranted(k, g)
  BY <1>1, RefreshedTightens
<1> HIDE DEF g
<1>4. /\ d \in GateTasks /\ d.policy = g.policy /\ d.stale = g.stale /\ d.review = g.review
      /\ d.accepted => g.accepted
  <2> DEFINE both == g.accepted /\ Ready /\ run[t].dep = Binding
  <2>1. both \in BOOLEAN /\ (both => g.accepted) /\ d = IF t = "down" THEN [g EXCEPT !.accepted = both] ELSE g
    BY <1>3 DEF Depending, GateTasks
  <2> HIDE DEF both, d
  <2> QED
    BY <1>3, <2>1 DEF GateTasks
<1> HIDE DEF d
<1>5. Tightened(k, d) /\ (d.accepted => k.accepted /\ ~d.stale /\ ~d.review)
  BY <1>1, <1>3, <1>4 DEF Tightened, NotGranted
<1> QED
  BY <1>1, <1>2, <1>4, <1>5, SavedSteps DEF k

(* A step on the current run of a task that is not accepted.                 *)
LEMMA RunSteps ==
  ASSUME GateInv, NEW t \in TaskIds, NEW r \in GateRuns, NEW k \in GateTasks, r.number # 0,
         run' = [run EXCEPT ![t] = r], UNCHANGED <<files, rules>>,
         \/ task' = task \/ task' = [task EXCEPT !["up"] = Upstream]
         \/ task' = [task EXCEPT ![t] = k] /\ ~k.accepted /\ k.policy = task[t].policy,
         task[t].accepted /\ task'[t].accepted => r.status = "succeeded" /\ r.dep = run[t].dep,
         run[t].status = "queued" /\ r.status = "sent" => run[t].base \in {0, files[t]} /\ r.base = files[t]
  PROVE  GateStepOK
<1>1. /\ "up" \in TaskIds /\ Upstream \in GateTasks /\ Tightened(task["up"], Upstream) /\ NotGranted(task["up"], Upstream)
  BY UpstreamFacts
<1>2. task \in [TaskIds -> GateTasks] /\ run \in [TaskIds -> GateRuns]
  BY DEF GateInv
<1>3. run' \in [TaskIds -> GateRuns] /\ run'[t] = r /\ \A q \in TaskIds \ {t} : run'[q] = run[q]
  BY <1>2
<1>4. task' \in [TaskIds -> GateTasks]
      /\ \A q \in TaskIds : Tightened(task[q], task'[q])
                            /\ (task'[q].accepted => task[q].accepted /\ ~task'[q].review /\ ~task'[q].stale)
  <2>1. \A q \in TaskIds : task[q].accepted => ~task[q].review /\ ~task[q].stale
    BY DEF GateInv, AcceptedStandsOnEvidence
  <2>2. \A q \in TaskIds : Tightened(task[q], task[q])
    BY DEF Tightened
  <2>3. CASE task' = task
    BY <1>2, <2>1, <2>2, <2>3
  <2>4. CASE task' = [task EXCEPT !["up"] = Upstream]
    <3>1. task' \in [TaskIds -> GateTasks] /\ task'["up"] = Upstream /\ \A q \in TaskIds \ {"up"} : task'[q] = task[q]
      BY <1>1, <1>2, <2>4
    <3> QED
      BY <1>1, <2>1, <2>2, <3>1 DEF NotGranted
  <2>5. CASE task' = [task EXCEPT ![t] = k] /\ ~k.accepted /\ k.policy = task[t].policy
    <3>1. task' \in [TaskIds -> GateTasks] /\ task'[t] = k /\ \A q \in TaskIds \ {t} : task'[q] = task[q]
      BY <1>2, <2>5
    <3>2. Tightened(task[t], k)
      BY <2>5 DEF Tightened
    <3> QED
      BY <2>1, <2>2, <2>5, <3>1, <3>2
  <2> QED
    BY <2>3, <2>4, <2>5
<1>5. ASSUME NEW q \in TaskIds
      PROVE  /\ GrantedRight(q) /\ FromBaseline(q) /\ run'[q].number # 0
             /\ task'[q].accepted => run'[q].status = "succeeded" /\ (q = "down" => run'[q].dep # NoDep)
  <2>1. /\ run[q].number # 0
        /\ task[q].accepted => run[q].status = "succeeded" /\ (q = "down" => run[q].dep # NoDep)
    BY DEF GateInv, AcceptedStandsOnEvidence
  <2>2. GrantedRight(q)
    BY <1>4 DEF GrantedRight
  <2>3. CASE q = t
    BY <1>3, <1>4, <2>1, <2>2, <2>3 DEF FromBaseline
  <2>4. CASE q # t
    <3>1. run'[q] = run[q]
      BY <1>3, <2>4
    <3> QED
      BY <1>4, <2>1, <2>2, <3>1 DEF FromBaseline
  <2> QED
    BY <2>3, <2>4
<1>6. GateInv'
  BY <1>3, <1>4, <1>5 DEF GateInv, AcceptedStandsOnEvidence
<1> QED
  BY <1>4, <1>5, <1>6 DEF GateStepOK

LEMMA ProveSteps ==
  ASSUME GateInv, NEW t \in TaskIds, NEW s \in Stages, NEW own \in BOOLEAN, NEW passed \in BOOLEAN,
         Prove(t, s, own, passed)
  PROVE  GateStepOK
<1> DEFINE e == [target |-> files[t], passed |-> passed]
           r == IF own THEN [run[t] EXCEPT !.local = [run[t].local EXCEPT ![s] = e]]
                       ELSE [run[t] EXCEPT !.told = [run[t].told EXCEPT ![s] = e]]
<1>1. run[t] \in GateRuns /\ run \in [TaskIds -> GateRuns] /\ e \in [target : Files \cup {0}, passed : BOOLEAN]
      /\ run[t].number # 0 /\ run[t].status \in Ends /\ task[t] \in GateTasks
  BY DEF GateInv, Prove
<1>2. UNCHANGED <<task, files, rules>>
  BY DEF Prove
<1> HIDE DEF e
<1>3. run' = [run EXCEPT ![t] = r]
  <2>1. CASE own
    <3>1. run' = [run EXCEPT ![t].local[s] = e]
      BY <2>1 DEF Prove, e
    <3>2. [run[t] EXCEPT !.local[s] = e] = [run[t] EXCEPT !.local = [run[t].local EXCEPT ![s] = e]]
      BY <1>1 DEF GateRuns
    <3> QED
      BY <1>1, <2>1, <3>1, <3>2
  <2>2. CASE ~own
    <3>1. run' = [run EXCEPT ![t].told[s] = e]
      BY <2>2 DEF Prove, e
    <3>2. [run[t] EXCEPT !.told[s] = e] = [run[t] EXCEPT !.told = [run[t].told EXCEPT ![s] = e]]
      BY <1>1 DEF GateRuns
    <3> QED
      BY <1>1, <2>2, <3>1, <3>2
  <2> QED
    BY <2>1, <2>2
<1>4. r \in GateRuns /\ r.number = run[t].number /\ r.status = run[t].status /\ r.dep = run[t].dep
  BY <1>1 DEF GateRuns, Evidences
<1> HIDE DEF r
<1>5. run[t].status \notin {"queued"} /\ (task[t].accepted => run[t].status = "succeeded")
  BY <1>1 DEF GateInv, AcceptedStandsOnEvidence, Ends
<1> QED
  BY <1>1, <1>2, <1>3, <1>4, <1>5, RunSteps

LEMMA CallSteps ==
  ASSUME GateInv, NEW t \in TaskIds, Call(t)
  PROVE  GateStepOK
<1> DEFINE dep == IF t = "down" THEN Binding ELSE run[t].dep
           a == [run[t] EXCEPT !.base = files[t], !.dep = dep, !.status = "sent"]
           b == [run[t] EXCEPT !.base = files[t], !.dep = dep]
           c == [run[t] EXCEPT !.status = "failed"]
<1>1. /\ run[t] \in GateRuns /\ run \in [TaskIds -> GateRuns] /\ run[t].number # 0 /\ run[t].status = "queued"
      /\ task[t] \in GateTasks /\ files[t] \in Files
  BY DEF GateInv, Call
<1>2. ~task[t].accepted
  BY <1>1 DEF GateInv, AcceptedStandsOnEvidence
<1>3. UNCHANGED <<files, rules>> /\ (task' = task \/ task' = [task EXCEPT !["up"] = Upstream])
  <2>1. task' = [task EXCEPT !["up"] = IF t = "down" THEN Upstream ELSE task["up"]] /\ task \in [TaskIds -> GateTasks]
    BY DEF Call, GateInv
  <2> QED
    BY <2>1 DEF Call
<1>4. Binding \in [number : Nat, target : Files \cup {0}]
  <2>1. Upstream \in GateTasks /\ run["up"] \in GateRuns
    BY UpstreamFacts DEF GateInv
  <2> QED
    BY <2>1 DEF Binding, GateTasks, GateRuns
<1>5. dep \in [number : Nat, target : Files \cup {0}]
  BY <1>1, <1>4 DEF GateRuns
<1>6. \/ run' = [run EXCEPT ![t] = a] /\ ~Drifted(t)
      \/ run' = [run EXCEPT ![t] = b]
      \/ run' = [run EXCEPT ![t] = c]
  <2>1. \/ run' = [run EXCEPT ![t].base = files[t], ![t].dep = dep, ![t].status = "sent"] /\ ~Drifted(t)
        \/ run' = [run EXCEPT ![t].base = files[t], ![t].dep = dep]
        \/ run' = [run EXCEPT ![t].status = "failed"]
    BY DEF Call
  <2> HIDE DEF dep
  <2>2. [run EXCEPT ![t].base = files[t], ![t].dep = dep, ![t].status = "sent"] = [run EXCEPT ![t] = a]
    BY <1>1
  <2>3. [run EXCEPT ![t].base = files[t], ![t].dep = dep] = [run EXCEPT ![t] = b]
    BY <1>1
  <2>4. [run EXCEPT ![t].status = "failed"] = [run EXCEPT ![t] = c]
    BY <1>1
  <2> QED
    BY <2>1, <2>2, <2>3, <2>4
<1> HIDE DEF dep
<1>7. /\ a \in GateRuns /\ a.number = run[t].number /\ a.base = files[t]
      /\ b \in GateRuns /\ b.number = run[t].number /\ b.status = "queued"
      /\ c \in GateRuns /\ c.number = run[t].number /\ c.status = "failed"
  BY <1>1, <1>5 DEF GateRuns, Ends
<1> HIDE DEF a, b, c
<1>8. ~Drifted(t) => run[t].base \in {0, files[t]}
  BY DEF Drifted
<1>9. ~(task[t].accepted /\ task'[t].accepted)
  BY <1>2
<1>10. CASE run' = [run EXCEPT ![t] = a] /\ ~Drifted(t)
  BY <1>1, <1>3, <1>7, <1>8, <1>9, <1>10, RunSteps
<1>11. CASE run' = [run EXCEPT ![t] = b]
  BY <1>1, <1>3, <1>7, <1>9, <1>11, RunSteps
<1>12. CASE run' = [run EXCEPT ![t] = c]
  BY <1>1, <1>3, <1>7, <1>9, <1>12, RunSteps
<1> QED
  BY <1>6, <1>10, <1>11, <1>12

LEMMA FinishSteps ==
  ASSUME GateInv, NEW t \in TaskIds, Finish(t)
  PROVE  GateStepOK
<1>1. PICK s \in Ends : run' = [run EXCEPT ![t].status = s, ![t].base = 0]
  BY DEF Finish
<1> DEFINE r == [run[t] EXCEPT !.status = s, !.base = 0]
<1>2. /\ run[t] \in GateRuns /\ run \in [TaskIds -> GateRuns] /\ run[t].number # 0 /\ run[t].status = "sent"
      /\ task[t] \in GateTasks /\ UNCHANGED <<task, files, rules>>
  BY DEF GateInv, Finish
<1>3. ~task[t].accepted
  BY <1>2 DEF GateInv, AcceptedStandsOnEvidence
<1>4. run' = [run EXCEPT ![t] = r]
  BY <1>1, <1>2
<1>5. r \in GateRuns /\ r.number = run[t].number
  BY <1>2 DEF GateRuns
<1> HIDE DEF r
<1> QED
  BY <1>2, <1>3, <1>4, <1>5, RunSteps

LEMMA RepairSteps ==
  ASSUME GateInv, NEW t \in TaskIds, Repair(t)
  PROVE  GateStepOK
<1> DEFINE r == Attempt(run[t].number + 1)
           k == [task[t] EXCEPT !.accepted = FALSE, !.stale = FALSE, !.bound = 0]
<1>1. /\ run[t] \in GateRuns /\ task[t] \in GateTasks /\ task \in [TaskIds -> GateTasks] /\ run[t].number \in Nat
      /\ run' = [run EXCEPT ![t] = r] /\ UNCHANGED <<files, rules>>
      /\ task' = [task EXCEPT ![t].accepted = FALSE, ![t].stale = FALSE, ![t].bound = 0]
  BY DEF GateInv, Repair, GateRuns
<1>2. r \in GateRuns /\ r.number # 0 /\ r.status = "queued"
  <2>1. NoEvidence \in [target : Files \cup {0}, passed : BOOLEAN] /\ NoDep \in [number : Nat, target : Files \cup {0}]
    BY DEF NoEvidence, NoDep
  <2>2. run[t].number + 1 \in Nat /\ run[t].number + 1 # 0
    BY <1>1
  <2> QED
    BY <2>1, <2>2 DEF Attempt, GateRuns, Evidences
<1>3. task' = [task EXCEPT ![t] = k]
  BY <1>1
<1>4. k \in GateTasks /\ ~k.accepted /\ k.policy = task[t].policy
  BY <1>1 DEF GateTasks
<1> HIDE DEF r, k
<1>5. ~task'[t].accepted
  BY <1>1, <1>3, <1>4
<1> QED
  BY <1>1, <1>2, <1>3, <1>4, <1>5, RunSteps

LEMMA WorldSteps ==
  ASSUME GateInv, UNCHANGED <<task, run>>, files' \in [TaskIds -> Files], rules' \in [Stages -> Sources]
  PROVE  GateStepOK
<1>1. GateInv'
  BY DEF GateInv, AcceptedStandsOnEvidence
<1>2. \A t \in TaskIds : GrantedRight(t) /\ Tightened(task[t], task'[t]) /\ FromBaseline(t)
  BY DEF GrantedRight, Tightened, FromBaseline
<1> QED
  BY <1>1, <1>2 DEF GateStepOK

LEMMA GateStep == GateInv /\ [GateNext]_gateVars => GateStepOK
<1> SUFFICES ASSUME GateInv, [GateNext]_gateVars PROVE GateStepOK
  OBVIOUS
<1>1. files \in [TaskIds -> Files] /\ rules \in [Stages -> Sources]
  BY DEF GateInv
<1>2. ASSUME NEW t \in TaskIds, Edit(t) PROVE GateStepOK
  <2>1. PICK f \in FilesOf[t] : files' = [files EXCEPT ![t] = f]
    BY <1>2 DEF Edit
  <2>2. f \in Files
    BY DEF Files, TaskIds
  <2> QED
    BY <1>1, <1>2, <2>1, <2>2, WorldSteps DEF Edit
<1>3. CASE Configure
  BY <1>1, <1>3, WorldSteps DEF Configure
<1>4. CASE UNCHANGED gateVars
  BY <1>1, <1>4, WorldSteps DEF gateVars
<1>5. ASSUME NEW t \in TaskIds, NEW bound \in BOOLEAN, NEW review \in BOOLEAN, NEW passed \in BOOLEAN,
             Evaluate(t, bound, review, passed)
      PROVE  GateStepOK
  BY <1>5, EvaluateSteps
<1>6. ASSUME NEW t \in TaskIds, NEW s \in Stages, NEW own \in BOOLEAN, NEW passed \in BOOLEAN, Prove(t, s, own, passed)
      PROVE  GateStepOK
  BY <1>6, ProveSteps
<1>7. ASSUME NEW t \in TaskIds, Look(t) \/ Call(t) \/ Finish(t) \/ Repair(t) PROVE GateStepOK
  BY <1>7, LookSteps, CallSteps, FinishSteps, RepairSteps
<1> QED
  BY <1>2, <1>3, <1>4, <1>5, <1>6, <1>7 DEF GateNext

LEMMA GateInitHolds == GateInit => GateInv
<1> SUFFICES ASSUME GateInit PROVE GateInv
  OBVIOUS
<1>1. NoEvidence \in [target : Files \cup {0}, passed : BOOLEAN] /\ NoDep \in [number : Nat, target : Files \cup {0}]
  BY DEF NoEvidence, NoDep
<1>2. Attempt(1) \in GateRuns /\ Attempt(1).number = 1
  BY <1>1 DEF Attempt, GateRuns, Evidences
<1>3. \A t \in TaskIds : task[t] \in GateTasks /\ ~task[t].accepted
  BY DEF GateInit, GateTasks
<1>4. run \in [TaskIds -> GateRuns] /\ \A t \in TaskIds : run[t].number # 0
  <2>1. \A t \in TaskIds : run[t] = Attempt(1)
    BY DEF GateInit
  <2>2. run = [t \in TaskIds |-> Attempt(1)]
    BY DEF GateInit
  <2> QED
    BY <1>2, <2>1, <2>2
<1>5. task \in [TaskIds -> GateTasks]
  <2>1. task = [t \in TaskIds |-> [accepted |-> FALSE, stale |-> FALSE, bound |-> 0, review |-> FALSE, policy |-> rules]]
    BY DEF GateInit
  <2> QED
    BY <1>3, <2>1
<1>6. files \in [TaskIds -> Files] /\ rules \in [Stages -> Sources]
  BY DEF GateInit
<1> QED
  BY <1>3, <1>4, <1>5, <1>6 DEF GateInv, AcceptedStandsOnEvidence

(* For every set of stages, of contents and every number of runs: acceptance *)
(* is granted only with every stage of the tightest policy met for the files *)
(* as they are, rests on an ended run and an accepted upstream, and a run is *)
(* called from its baseline.                                                 *)
THEOREM GatesKeepSafety == GateSpec => GatesSafety
<1>1. GateInit => GateInv
  BY GateInitHolds
<1>2. GateInv /\ [GateNext]_gateVars => GateInv'
  BY GateStep DEF GateStepOK
<1>3. GateInv => GateTypeOK /\ AcceptedStandsOnEvidence
  BY GateInvTypes DEF GateInv
<1>4. GateInv /\ [GateNext]_gateVars
        => [\A t \in TaskIds : ~task[t].accepted /\ task'[t].accepted =>
              /\ task'[t].bound \in {0, files[t]}
              /\ \A s \in Stages : task'[t].policy[s] # "none" => StagePasses(run[t], s, task'[t].policy[s], files[t])
              /\ t = "down" => /\ task'["up"].accepted /\ task'["up"].bound = files["up"]
                               /\ run["down"].dep.number = run["up"].number]_gateVars
  BY GateStep DEF GateStepOK, GrantedRight
<1>5. GateInv /\ [GateNext]_gateVars
        => [\A t \in TaskIds, s \in Stages :
              /\ task[t].policy[s] # "none" => task'[t].policy[s] # "none"
              /\ task[t].policy[s] = "core" => task'[t].policy[s] = "core"]_gateVars
  BY GateStep DEF GateStepOK, Tightened
<1>6. GateInv /\ [GateNext]_gateVars
        => [\A t \in TaskIds : run[t].status = "queued" /\ run'[t].status = "sent" =>
              run[t].base \in {0, files[t]} /\ run'[t].base = files[t]]_gateVars
  BY GateStep DEF GateStepOK, FromBaseline
<1> QED
  BY <1>1, <1>2, <1>3, <1>4, <1>5, <1>6, PTL DEF GateSpec, GatesSafety, GrantNeedsEveryStage, PolicyOnlyTightens, CalledFromBaseline
=============================================================================
