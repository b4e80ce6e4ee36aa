-------------------------- MODULE ControlRunProofs --------------------------
(***************************************************************************)
(* Proofs about ControlRun, for every number of attempts, every limit of    *)
(* turns, every set of commands and every kind of failure.  First what each *)
(* transaction of ControlLedger leaves in the rows of a task when no         *)
(* transition of it is refused; then what the steps of ControlRun keep.     *)
(***************************************************************************)
EXTENDS ControlRun, ControlBookProofs, FiniteSetTheorems

-----------------------------------------------------------------------------
(* What a transaction finds and leaves. *)

(* The rows of a task whose run has not ended. *)
OpenBook(x) ==
  /\ x \in BookType /\ x.ok /\ x.attempt # 0
  /\ x.task = "ACTIVE" /\ x.run \notin RunEnds \cup {None}
  /\ x.action \notin ActionEnds \cup {None} /\ x.asg \notin RunEnds \cup {None}
  /\ x.outbox # "DONE" /\ x.turns[x.attempt] \in {"HELD", "UNCERTAIN"}

(* y is x after the end of its run. *)
Ends(x, y, end, turn) ==
  /\ y \in BookType /\ y.ok /\ y.attempt = x.attempt /\ SameIntent(x, y)
  /\ y.task = end /\ y.run = end /\ y.action \in ActionEnds /\ y.asg \in RunEnds
  /\ y.outbox = "DONE" /\ y.turns = [x.turns EXCEPT ![x.attempt] = turn]

(* y is x after a step of a run that goes on. *)
GoesOn(x, y) ==
  /\ OpenBook(y) /\ y.attempt = x.attempt
  /\ y.turns = x.turns \/ y.turns = [x.turns EXCEPT ![x.attempt] = "UNCERTAIN"]

(* What settle and finish_delivery set, and what they leave alone. *)
LEMMA SettleFields ==
  ASSUME NEW x \in BookType, x.attempt # 0, NEW amount \in {0, 1}
  PROVE  /\ Settle(x, amount) \in BookType /\ Settle(x, amount).ok = x.ok
         /\ Settle(x, amount).attempt = x.attempt /\ SameIntent(x, Settle(x, amount))
         /\ Settle(x, amount).task = x.task /\ Settle(x, amount).run = x.run
         /\ Settle(x, amount).asg = x.asg /\ Settle(x, amount).action = x.action
         /\ Settle(x, amount).session = x.session
         /\ Settle(x, amount).dispatched = x.dispatched
         /\ Settle(x, amount).outbox = "DONE"
         /\ Settle(x, amount).turns =
              [x.turns EXCEPT ![x.attempt] = IF amount = 0 THEN "free" ELSE "spent"]
<1> DEFINE t == [x.turns EXCEPT ![x.attempt] = IF amount = 0 THEN "free" ELSE "spent"]
           y == [x EXCEPT !.turns = t, !.outbox = "DONE"]
<1>1. x.attempt \in Attempts /\ x.turns \in [Attempts -> Turns]
  BY DEF BookType, Attempts
<1>2. t \in [Attempts -> Turns]
  BY <1>1 DEF Turns
<1>3. Settle(x, amount) = y
  BY DEF Settle
<1> HIDE DEF t
<1>4. y \in BookType
  BY <1>2 DEF BookType
<1>5. /\ y.ok = x.ok /\ y.attempt = x.attempt /\ SameIntent(x, y) /\ y.task = x.task
      /\ y.run = x.run /\ y.asg = x.asg /\ y.action = x.action /\ y.session = x.session
      /\ y.dispatched = x.dispatched /\ y.outbox = "DONE" /\ y.turns = t
  BY DEF BookType, SameIntent
<1> QED
  BY <1>3, <1>4, <1>5 DEF t

-----------------------------------------------------------------------------
(* The transactions that end a run. *)

(* _not_applied gives the turn back; the run is cancelled if that was asked  *)
(* for, and failed otherwise.                                                *)
LEMMA NotAppliedEnds ==
  ASSUME NEW x, OpenBook(x), NotApplied(x).ok
  PROVE  Ends(x, NotApplied(x), IF x.desired = "CANCELED" THEN "CANCELED" ELSE "FAILED", "free")
<1> DEFINE a == Move(x, "action", "FAILED")
           b == Move(a, "asg", "FAILED")
           c == Settle(b, 0)
           d == Move(c, "run", "CANCELING")
           e == Move(d, "run", "CANCELED")
           f == IF x.run = "PAUSING" THEN Move(c, "run", "RECONCILING") ELSE c
           g == Move(f, "run", "FAILED")
           z == IF x.desired = "CANCELED" THEN e ELSE g
           y == Move(z, "task", z.run)
<1>0. x \in BookType /\ x.attempt # 0 /\ NotApplied(x) = y
  BY DEF OpenBook, NotApplied
<1>1. a \in BookType /\ Beside(x, a) /\ (a.ok => a.action = "FAILED")
  BY <1>0, MoveAction, Statuses DEF ActionEnds, RunEnds
<1> HIDE DEF a
<1>2. b \in BookType /\ Beside(a, b) /\ b.action = a.action
      /\ (b.ok => a.ok /\ b.asg = "FAILED")
  BY <1>1, MoveAsg, Statuses DEF RunEnds
<1>3. b.attempt # 0
  BY <1>0, <1>1, <1>2 DEF Beside
<1> HIDE DEF b
<1>4. c \in BookType /\ c.ok = b.ok /\ c.attempt = b.attempt /\ SameIntent(b, c)
      /\ c.asg = b.asg /\ c.action = b.action /\ c.outbox = "DONE"
      /\ c.turns = [b.turns EXCEPT ![b.attempt] = "free"]
  BY <1>2, <1>3, SettleFields
<1> HIDE DEF c
<1>5. d \in BookType /\ Beside(c, d) /\ d.asg = c.asg /\ d.action = c.action /\ (d.ok => c.ok)
  BY <1>4, MoveRun, Statuses
<1>6. f \in BookType /\ Beside(c, f) /\ f.asg = c.asg /\ f.action = c.action /\ (f.ok => c.ok)
  BY <1>4, MoveRun, Statuses DEF Beside, SameIntent
<1> HIDE DEF d, f
<1>7. e \in BookType /\ Beside(d, e) /\ e.asg = d.asg /\ e.action = d.action
      /\ (e.ok => d.ok /\ e.run = "CANCELED")
  BY <1>5, MoveRun, Statuses DEF RunEnds
<1>8. g \in BookType /\ Beside(f, g) /\ g.asg = f.asg /\ g.action = f.action
      /\ (g.ok => f.ok /\ g.run = "FAILED")
  BY <1>6, MoveRun, Statuses DEF RunEnds
<1> HIDE DEF e, g
<1>9. z \in BookType /\ Beside(c, z) /\ z.asg = c.asg /\ z.action = c.action
      /\ (z.ok => c.ok /\ z.run = IF x.desired = "CANCELED" THEN "CANCELED" ELSE "FAILED")
  BY <1>5, <1>6, <1>7, <1>8 DEF Beside, SameIntent
<1> HIDE DEF z
<1>10. /\ z.run \in DOMAIN Edges.task => y \in BookType
       /\ Beside(z, y) /\ y.run = z.run /\ y.asg = z.asg /\ y.action = z.action
       /\ y.ok => z.ok /\ y.task = z.run
  BY <1>9, MoveTask
<1> HIDE DEF y
<1> QED
  BY <1>0, <1>1, <1>2, <1>4, <1>9, <1>10, Statuses
     DEF Ends, Beside, SameIntent, ActionEnds, RunEnds

(* _deny gives the turn back, the run is failed. *)
LEMMA DeniedEnds ==
  ASSUME NEW x, OpenBook(x), Denied(x).ok
  PROVE  Ends(x, Denied(x), "FAILED", "free")
<1> DEFINE a == Move(x, "action", "DENIED")
           b == Move(a, "asg", "CANCELED")
           c == Settle(b, 0)
           d == IF x.run = "QUEUED" THEN Move(c, "run", "PREPARING") ELSE c
           e == Move(d, "run", "FAILED")
           y == Move(e, "task", "FAILED")
<1>0. x \in BookType /\ x.attempt # 0 /\ Denied(x) = y
  BY DEF OpenBook, Denied
<1>1. a \in BookType /\ Beside(x, a) /\ (a.ok => a.action = "DENIED")
  BY <1>0, MoveAction, Statuses DEF ActionEnds
<1> HIDE DEF a
<1>2. b \in BookType /\ Beside(a, b) /\ b.action = a.action
      /\ (b.ok => a.ok /\ b.asg = "CANCELED")
  BY <1>1, MoveAsg, Statuses DEF RunEnds
<1>3. b.attempt # 0
  BY <1>0, <1>1, <1>2 DEF Beside
<1> HIDE DEF b
<1>4. c \in BookType /\ c.ok = b.ok /\ c.attempt = b.attempt /\ SameIntent(b, c)
      /\ c.asg = b.asg /\ c.action = b.action /\ c.outbox = "DONE"
      /\ c.turns = [b.turns EXCEPT ![b.attempt] = "free"]
  BY <1>2, <1>3, SettleFields
<1> HIDE DEF c
<1>5. d \in BookType /\ Beside(c, d) /\ d.asg = c.asg /\ d.action = c.action /\ (d.ok => c.ok)
  BY <1>4, MoveRun, Statuses DEF Beside, SameIntent
<1> HIDE DEF d
<1>6. e \in BookType /\ Beside(d, e) /\ e.asg = d.asg /\ e.action = d.action
      /\ (e.ok => d.ok /\ e.run = "FAILED")
  BY <1>5, MoveRun, Statuses DEF RunEnds
<1> HIDE DEF e
<1>7. y \in BookType /\ Beside(e, y) /\ y.run = e.run /\ y.asg = e.asg /\ y.action = e.action
      /\ (y.ok => e.ok /\ y.task = "FAILED")
  BY <1>6, MoveTask, Statuses DEF RunEnds
<1> HIDE DEF y
<1> QED
  BY <1>0, <1>1, <1>2, <1>4, <1>5, <1>6, <1>7 DEF Ends, Beside, SameIntent, ActionEnds, RunEnds

(* The end _undelivered_control and _cancel_not_applied share gives the turn *)
(* back, everything is cancelled.                                            *)
LEMMA CanceledUnappliedEnds ==
  ASSUME NEW x \in BookType, x.attempt # 0, CanceledUnapplied(x).ok
  PROVE  Ends(x, CanceledUnapplied(x), "CANCELED", "free") /\ x.ok
<1> DEFINE a == Move(x, "action", "CANCELED")
           b == Settle(a, 0)
           c == Move(b, "asg", "CANCELED")
           d == Move(c, "run", "CANCELED")
           y == Move(d, "task", "CANCELED")
<1>0. CanceledUnapplied(x) = y
  BY DEF CanceledUnapplied
<1>x. "CANCELED" \in DOMAIN Edges.asg
  BY Statuses DEF RunEnds
<1>1. a \in BookType /\ Beside(x, a) /\ (a.ok => x.ok /\ a.action = "CANCELED")
  BY MoveAction, Statuses DEF ActionEnds, RunEnds
<1>2. a.attempt # 0
  BY <1>1 DEF Beside
<1> HIDE DEF a
<1>3. b \in BookType /\ b.ok = a.ok /\ b.attempt = a.attempt /\ SameIntent(a, b)
      /\ b.action = a.action /\ b.outbox = "DONE"
      /\ b.turns = [a.turns EXCEPT ![a.attempt] = "free"]
  BY <1>1, <1>2, SettleFields
<1> HIDE DEF b
<1>4. c \in BookType /\ Beside(b, c) /\ c.action = b.action
      /\ (c.ok => b.ok /\ c.asg = "CANCELED")
  BY <1>3, <1>x, MoveAsg
<1> HIDE DEF c
<1>5. d \in BookType /\ Beside(c, d) /\ d.asg = c.asg /\ d.action = c.action
      /\ (d.ok => c.ok /\ d.run = "CANCELED")
  BY <1>4, MoveRun, Statuses DEF RunEnds
<1> HIDE DEF d
<1>6. y \in BookType /\ Beside(d, y) /\ y.run = d.run /\ y.asg = d.asg /\ y.action = d.action
      /\ (y.ok => d.ok /\ y.task = "CANCELED")
  BY <1>5, MoveTask, Statuses DEF RunEnds
<1> HIDE DEF y
<1> QED
  BY <1>0, <1>1, <1>3, <1>4, <1>5, <1>6 DEF Ends, Beside, SameIntent, ActionEnds, RunEnds

(* _cancel_not_applied, an executing action becoming unknown first. *)
LEMMA CancelNotAppliedEnds ==
  ASSUME NEW x, OpenBook(x), CancelNotApplied(x).ok
  PROVE  Ends(x, CancelNotApplied(x), "CANCELED", "free")
<1> DEFINE a == IF x.action = "EXECUTING" THEN Move(x, "action", "UNKNOWN_REMOTE") ELSE x
<1>1. x \in BookType /\ x.attempt # 0 /\ CancelNotApplied(x) = CanceledUnapplied(a)
  BY DEF OpenBook, CancelNotApplied
<1>2. a \in BookType /\ Beside(x, a)
  BY <1>1, MoveAction, Statuses DEF Beside, SameIntent
<1>3. a.attempt # 0
  BY <1>1, <1>2 DEF Beside
<1> HIDE DEF a
<1>4. Ends(a, CanceledUnapplied(a), "CANCELED", "free")
  BY <1>1, <1>2, <1>3, CanceledUnappliedEnds
<1> QED
  BY <1>1, <1>2, <1>4 DEF Ends, Beside, SameIntent

(* _complete: a cancellation that was accepted decides the end, and the turn *)
(* is spent unless nothing was sent.                                         *)
LEMMA CompletedEnds ==
  ASSUME NEW x, OpenBook(x), NEW passed \in BOOLEAN, Completed(x, passed).ok
  PROVE  \E end \in RunEnds :
           /\ end = "CANCELED" <=> x.desired = "CANCELED"
           /\ Ends(x, Completed(x, passed), end, IF x.unsent THEN "free" ELSE "spent")
<1> DEFINE amount == IF x.unsent THEN 0 ELSE 1
           end == IF x.desired = "CANCELED" THEN "CANCELED"
                  ELSE IF passed THEN "SUCCEEDED" ELSE "FAILED"
           a == Move(x, "action", "VERIFYING")
           b == Move(a, "action", "SUCCEEDED")
           v == Settle(b, amount)
           c == Move(v, "run", "CANCELING")
           d == Move(c, "asg", end)
           e == Move(v, "run", "RUNNING")
           f == Move(e, "asg", "VERIFYING")
           g == Move(f, "asg", end)
           h == IF x.desired = "CANCELED" THEN d ELSE g
           i == Move(h, "run", end)
           y == Move(i, "task", end)
<1>0. x \in BookType /\ x.attempt # 0 /\ Completed(x, passed) = y
  BY DEF OpenBook, Completed
<1>00. end \in RunEnds /\ amount \in {0, 1} /\ (end = "CANCELED" <=> x.desired = "CANCELED")
       /\ (amount = 0 <=> x.unsent)
  BY <1>0 DEF RunEnds
<1> HIDE DEF end, amount
<1>01. end \in DOMAIN Edges.task /\ end \in DOMAIN Edges.run /\ end \in DOMAIN Edges.asg
  BY <1>00, Statuses
<1>1. a \in BookType /\ Beside(x, a)
  BY <1>0, MoveAction, Statuses
<1> HIDE DEF a
<1>2. b \in BookType /\ Beside(a, b) /\ (b.ok => b.action = "SUCCEEDED")
  BY <1>1, MoveAction, Statuses DEF ActionEnds, RunEnds
<1>3. b.attempt # 0
  BY <1>0, <1>1, <1>2 DEF Beside
<1> HIDE DEF b
<1>4. v \in BookType /\ v.ok = b.ok /\ v.attempt = b.attempt /\ SameIntent(b, v)
      /\ v.action = b.action /\ v.outbox = "DONE"
      /\ v.turns = [b.turns EXCEPT ![b.attempt] = IF amount = 0 THEN "free" ELSE "spent"]
  BY <1>2, <1>3, <1>00, SettleFields
<1> HIDE DEF v
<1>5. c \in BookType /\ Beside(v, c) /\ c.action = v.action /\ (c.ok => v.ok)
  BY <1>4, MoveRun, Statuses
<1>6. e \in BookType /\ Beside(v, e) /\ e.action = v.action /\ (e.ok => v.ok)
  BY <1>4, MoveRun, Statuses
<1> HIDE DEF c, e
<1>7. d \in BookType /\ Beside(c, d) /\ d.action = c.action /\ (d.ok => c.ok /\ d.asg = end)
  BY <1>5, <1>01, MoveAsg
<1>8. f \in BookType /\ Beside(e, f) /\ f.action = e.action /\ (f.ok => e.ok)
  BY <1>6, MoveAsg, Statuses
<1> HIDE DEF d, f
<1>9. g \in BookType /\ Beside(f, g) /\ g.action = f.action /\ (g.ok => f.ok /\ g.asg = end)
  BY <1>8, <1>01, MoveAsg
<1> HIDE DEF g
<1>10. h \in BookType /\ Beside(v, h) /\ h.action = v.action /\ (h.ok => v.ok /\ h.asg = end)
  BY <1>5, <1>6, <1>7, <1>8, <1>9 DEF Beside, SameIntent
<1> HIDE DEF h
<1>11. i \in BookType /\ Beside(h, i) /\ i.asg = h.asg /\ i.action = h.action
       /\ (i.ok => h.ok /\ i.run = end)
  BY <1>10, <1>01, MoveRun
<1> HIDE DEF i
<1>12. y \in BookType /\ Beside(i, y) /\ y.run = i.run /\ y.asg = i.asg /\ y.action = i.action
       /\ (y.ok => i.ok /\ y.task = end)
  BY <1>11, <1>01, MoveTask
<1> HIDE DEF y
<1>13. Ends(x, y, end, IF amount = 0 THEN "free" ELSE "spent")
  BY <1>0, <1>00, <1>1, <1>2, <1>4, <1>10, <1>11, <1>12
     DEF Ends, Beside, SameIntent, ActionEnds, RunEnds
<1>14. (IF amount = 0 THEN "free" ELSE "spent") = (IF x.unsent THEN "free" ELSE "spent")
  BY <1>00
<1> QED
  BY <1>0, <1>00, <1>13, <1>14

-----------------------------------------------------------------------------
(* The transactions after which the run goes on. *)

(* What a chain of transitions of the run and the assignment to open         *)
(* statuses leaves open.                                                     *)
OpenRuns == {"QUEUED", "PREPARING", "RUNNING", "WAITING", "PAUSING", "PAUSED", "RECONCILING",
             "CANCELING"}

(* A transition of the Run to a status that is no end. *)
LEMMA RunGoesOn ==
  ASSUME NEW x, OpenBook(x), NEW to \in OpenRuns, Move(x, "run", to).ok
  PROVE  /\ GoesOn(x, Move(x, "run", to)) /\ SameIntent(x, Move(x, "run", to))
         /\ Move(x, "run", to).run = to
<1> DEFINE y == Move(x, "run", to)
<1>1. x \in BookType /\ to \in DOMAIN Edges.run /\ to \notin RunEnds \cup {None}
  BY Statuses DEF OpenBook, OpenRuns, RunEnds, None
<1>2. /\ y \in BookType /\ Beside(x, y) /\ y.task = x.task /\ y.asg = x.asg
      /\ y.action = x.action /\ y.run = to /\ y.ok
  BY <1>1, MoveRun
<1> HIDE DEF y
<1>3. GoesOn(x, y) /\ SameIntent(x, y) /\ y.run = to
  BY <1>1, <1>2 DEF OpenBook, GoesOn, Beside
<1> QED
  BY <1>3 DEF y

(* A transition of the Action to a status that is no end. *)
LEMMA ActionGoesOn ==
  ASSUME NEW x, OpenBook(x), NEW to \in {"EXECUTING", "UNKNOWN_REMOTE"}, Move(x, "action", to).ok
  PROVE  /\ GoesOn(x, Move(x, "action", to)) /\ SameIntent(x, Move(x, "action", to))
         /\ Move(x, "action", to).run = x.run
<1> DEFINE y == Move(x, "action", to)
<1>1. x \in BookType /\ to \in DOMAIN Edges.action /\ to \notin ActionEnds \cup {None}
  BY Statuses DEF OpenBook, ActionEnds, RunEnds, None
<1>2. /\ y \in BookType /\ Beside(x, y) /\ y.task = x.task /\ y.asg = x.asg
      /\ y.action = to /\ y.run = x.run /\ y.ok
  BY <1>1, MoveAction
<1> HIDE DEF y
<1>3. GoesOn(x, y) /\ SameIntent(x, y) /\ y.run = x.run
  BY <1>1, <1>2 DEF OpenBook, GoesOn, Beside
<1> QED
  BY <1>3 DEF y

(* GoesOn relates the first to the last book of a chain. *)
LEMMA GoesOnTwice ==
  ASSUME NEW x, NEW y, NEW z, OpenBook(x), GoesOn(x, y), GoesOn(y, z)
  PROVE  GoesOn(x, z)
<1>1. x.turns \in [Attempts -> Turns] /\ x.attempt \in Attempts
  BY DEF OpenBook, BookType, Attempts
<1> QED
  BY <1>1 DEF GoesOn

(* _run_pause, _run_cancel, _resume: the intent of the client and the run.  *)
LEMMA PausingGoesOn ==
  ASSUME NEW x, OpenBook(x), Pausing(x).ok
  PROVE  /\ GoesOn(x, Pausing(x)) /\ Pausing(x).desired = "PAUSED"
         /\ Pausing(x).owner = x.owner /\ Pausing(x).unsent = x.unsent
         /\ Pausing(x).run = "PAUSED" => x.run = "PAUSED"
<1> DEFINE y == [x EXCEPT !.desired = "PAUSED"]
           z == Pausing(x)
<1>1. /\ OpenBook(y) /\ GoesOn(x, y) /\ y.desired = "PAUSED" /\ y.owner = x.owner
      /\ y.unsent = x.unsent /\ y.run = x.run
  BY DEF OpenBook, GoesOn, BookType
<1>2. z = IF x.run \in {"PAUSING", "PAUSED"} THEN y ELSE Move(y, "run", "PAUSING")
  BY DEF Pausing
<1> HIDE DEF y, z
<1>3. Move(y, "run", "PAUSING").ok =>
        /\ GoesOn(y, Move(y, "run", "PAUSING")) /\ SameIntent(y, Move(y, "run", "PAUSING"))
        /\ Move(y, "run", "PAUSING").run = "PAUSING"
  BY <1>1, RunGoesOn DEF OpenRuns
<1>4. /\ GoesOn(x, z) /\ z.desired = "PAUSED" /\ z.owner = x.owner /\ z.unsent = x.unsent
      /\ z.run = "PAUSED" => x.run = "PAUSED"
  BY <1>1, <1>2, <1>3, GoesOnTwice DEF SameIntent, z
<1> QED
  BY <1>4 DEF z

(* A pause that was refused keeps the type of the book. *)
LEMMA PausingType ==
  ASSUME NEW x \in BookType
  PROVE  Pausing(x) \in BookType
<1> DEFINE y == [x EXCEPT !.desired = "PAUSED"]
<1>1. y \in BookType
  BY DEF BookType
<1> HIDE DEF y
<1>2. Move(y, "run", "PAUSING") \in BookType
  BY <1>1, MoveRun, Statuses
<1> QED
  BY <1>1, <1>2 DEF Pausing, y

(* _run_cancel: the intent is CANCELED and the Run is CANCELING. *)
LEMMA CancelingGoesOn ==
  ASSUME NEW x, OpenBook(x), Canceling(x).ok
  PROVE  /\ GoesOn(x, Canceling(x)) /\ Canceling(x).desired = "CANCELED"
         /\ Canceling(x).owner = x.owner /\ Canceling(x).unsent = x.unsent
         /\ Canceling(x).run = "CANCELING"
<1> DEFINE y == [x EXCEPT !.desired = "CANCELED"]
           z == Move(y, "run", "CANCELING")
<1>1. /\ OpenBook(y) /\ GoesOn(x, y) /\ y.desired = "CANCELED" /\ y.owner = x.owner
      /\ y.unsent = x.unsent
  BY DEF OpenBook, GoesOn, BookType
<1>2. z = Canceling(x)
  BY DEF Canceling
<1> HIDE DEF y
<1>3. GoesOn(y, z) /\ SameIntent(y, z) /\ z.run = "CANCELING"
  BY <1>1, <1>2, RunGoesOn DEF OpenRuns
<1> QED
  BY <1>1, <1>2, <1>3, GoesOnTwice DEF SameIntent

(* _resume: the Run is RECONCILING until a pass finds what became of it. *)
LEMMA ResumingGoesOn ==
  ASSUME NEW x, OpenBook(x), Resuming(x).ok
  PROVE  /\ GoesOn(x, Resuming(x)) /\ Resuming(x).desired = "RUNNING"
         /\ Resuming(x).owner = x.owner /\ Resuming(x).unsent = x.unsent
         /\ Resuming(x).run = "RECONCILING"
<1> DEFINE y == [x EXCEPT !.desired = "RUNNING"]
           z == Move(y, "run", "RECONCILING")
<1>1. /\ OpenBook(y) /\ GoesOn(x, y) /\ y.desired = "RUNNING" /\ y.owner = x.owner
      /\ y.unsent = x.unsent
  BY DEF OpenBook, GoesOn, BookType
<1>2. z = Resuming(x)
  BY DEF Resuming
<1> HIDE DEF y
<1>3. GoesOn(y, z) /\ SameIntent(y, z) /\ z.run = "RECONCILING"
  BY <1>1, <1>2, RunGoesOn DEF OpenRuns
<1> QED
  BY <1>1, <1>2, <1>3, GoesOnTwice DEF SameIntent

(* _dispatch, first transaction: a run that waits goes on as PREPARING. *)
LEMMA DeliveringGoesOn ==
  ASSUME NEW x, OpenBook(x), Delivering(x).ok
  PROVE  /\ GoesOn(x, Delivering(x)) /\ SameIntent(x, Delivering(x))
         /\ Delivering(x).run \in {x.run, "PREPARING"}
<1> DEFINE a == IF x.run \in {"QUEUED", "RECONCILING", "WAITING"}
                THEN Move(x, "run", "PREPARING") ELSE x
           b == Move(a, "action", "EXECUTING")
           c == Move(b, "asg", "RUNNING")
           y == [c EXCEPT !.dispatched = TRUE, !.outbox = "DELIVERING"]
<1>0. x \in BookType /\ Delivering(x) = y
  BY DEF OpenBook, Delivering
<1>1. a \in BookType /\ Beside(x, a) /\ a.task = x.task /\ (a.ok => a.run \in {x.run, "PREPARING"})
  BY <1>0, MoveRun, Statuses DEF Beside, SameIntent
<1> HIDE DEF a
<1>2. b \in BookType /\ Beside(a, b) /\ b.task = a.task /\ b.run = a.run
      /\ (b.ok => a.ok /\ b.action = "EXECUTING")
  BY <1>1, MoveAction, Statuses
<1> HIDE DEF b
<1>3. c \in BookType /\ Beside(b, c) /\ c.task = b.task /\ c.run = b.run /\ c.action = b.action
      /\ (c.ok => b.ok /\ c.asg = "RUNNING")
  BY <1>2, MoveAsg, Statuses
<1> HIDE DEF c
<1>4. /\ y \in BookType /\ y.attempt = c.attempt /\ SameIntent(c, y) /\ y.task = c.task
      /\ y.run = c.run /\ y.action = c.action /\ y.asg = c.asg /\ y.turns = c.turns
      /\ y.outbox = "DELIVERING" /\ y.ok = c.ok
  BY <1>3 DEF BookType, SameIntent
<1> HIDE DEF y
<1>5. y.run \in {x.run, "PREPARING"} /\ y.action = "EXECUTING" /\ y.asg = "RUNNING"
  BY <1>0, <1>1, <1>2, <1>3, <1>4
<1>6. y.attempt = x.attempt /\ y.turns = x.turns /\ SameIntent(x, y) /\ y.task = x.task
  BY <1>1, <1>2, <1>3, <1>4 DEF Beside, SameIntent
<1>7. "PREPARING" \notin RunEnds \cup {None} /\ "RUNNING" \notin RunEnds \cup {None}
      /\ "EXECUTING" \notin ActionEnds \cup {None}
  BY DEF RunEnds, ActionEnds, None
<1>8. OpenBook(y)
  BY <1>0, <1>4, <1>5, <1>6, <1>7 DEF OpenBook
<1> QED
  BY <1>0, <1>5, <1>6, <1>8 DEF GoesOn

(* _bind_session *)
LEMMA BoundGoesOn ==
  ASSUME NEW x, OpenBook(x), NEW status \in {"CREATING", "IDLE", "BUSY", "DISCONNECTED"},
         Bound(x, status).ok
  PROVE  GoesOn(x, Bound(x, status)) /\ SameIntent(x, Bound(x, status))
         /\ Bound(x, status).run = x.run
<1> DEFINE a == IF x.session = None THEN [x EXCEPT !.session = "CREATING"] ELSE x
           y == Move(a, "session", status)
<1>0. x \in BookType /\ Bound(x, status) = y
  BY DEF OpenBook, Bound
<1>1. "CREATING" \in DOMAIN Edges.session /\ status \in DOMAIN Edges.session
  BY Statuses
<1>2. OpenBook(a) /\ a.attempt = x.attempt /\ a.turns = x.turns /\ SameIntent(x, a)
      /\ a.run = x.run
  BY <1>1 DEF OpenBook, BookType, SameIntent
<1> HIDE DEF a
<1>3. a \in BookType
  BY <1>2 DEF OpenBook
<1>4. /\ y \in BookType /\ Beside(a, y) /\ y.task = a.task /\ y.asg = a.asg
      /\ y.action = a.action /\ y.run = a.run /\ y.ok
  BY <1>0, <1>1, <1>3, MoveSession
<1> HIDE DEF y
<1> QED
  BY <1>0, <1>2, <1>4 DEF OpenBook, GoesOn, Beside, SameIntent

(* _transfer_if_requested *)
LEMMA TransferredGoesOn ==
  ASSUME NEW x, OpenBook(x)
  PROVE  /\ GoesOn(x, Transferred(x)) /\ Transferred(x).run = x.run
         /\ Transferred(x).desired = x.desired /\ Transferred(x).unsent = x.unsent
         /\ Transferred(x).ok
BY DEF OpenBook, GoesOn, BookType, Transferred

(* _undelivered_control under a pause. *)
LEMMA UndeliveredPauses ==
  ASSUME NEW x, OpenBook(x), x.desired = "PAUSED", Undelivered(x).ok
  PROVE  /\ GoesOn(x, Undelivered(x)) /\ Undelivered(x).desired = "PAUSED"
         /\ Undelivered(x).unsent = x.unsent
<1> DEFINE a == Move(x, "run", "PAUSED")
           y == Transferred(a)
<1>1. Undelivered(x) = y
  BY DEF Undelivered
<1>2. a.ok
  <2>1. a \in BookType
    BY MoveRun, Statuses DEF OpenBook
  <2> HIDE DEF a
  <2> QED
    BY <1>1, <2>1 DEF Transferred, BookType
<1>3. GoesOn(x, a) /\ SameIntent(x, a)
  BY <1>2, RunGoesOn DEF OpenRuns
<1> HIDE DEF a
<1>4. GoesOn(a, y) /\ y.desired = a.desired /\ y.unsent = a.unsent
  BY <1>3, TransferredGoesOn DEF GoesOn
<1> QED
  BY <1>1, <1>3, <1>4, GoesOnTwice DEF SameIntent

(* _observe of an execution that stopped under a pause. *)
LEMMA PausedEndGoesOn ==
  ASSUME NEW x, OpenBook(x), x.desired = "PAUSED", PausedEnd(x).ok
  PROVE  /\ GoesOn(x, PausedEnd(x)) /\ PausedEnd(x).desired = "PAUSED"
         /\ PausedEnd(x).unsent = x.unsent
<1> DEFINE a == IF x.run = "RECONCILING" THEN Move(x, "run", "PAUSING") ELSE x
           b == Move(a, "run", "PAUSED")
           y == Transferred(b)
<1>0. x \in BookType /\ x.ok
  BY DEF OpenBook
<1>1. PausedEnd(x) = y
  BY DEF PausedEnd
<1>2. a \in BookType
  BY <1>0, MoveRun, Statuses
<1>3. a.ok => GoesOn(x, a) /\ SameIntent(x, a)
  <2>1. GoesOn(x, x) /\ SameIntent(x, x)
    BY DEF GoesOn, SameIntent
  <2>2. Move(x, "run", "PAUSING").ok =>
          GoesOn(x, Move(x, "run", "PAUSING")) /\ SameIntent(x, Move(x, "run", "PAUSING"))
    BY RunGoesOn DEF OpenRuns
  <2> QED
    BY <2>1, <2>2
<1> HIDE DEF a
<1>4. b \in BookType /\ (b.ok => a.ok)
  BY <1>2, MoveRun, Statuses
<1>5. b.ok => GoesOn(a, b) /\ SameIntent(a, b)
  <2>1. b.ok => OpenBook(a)
    BY <1>3, <1>4 DEF GoesOn
  <2> QED
    BY <2>1, RunGoesOn DEF OpenRuns
<1> HIDE DEF b
<1>6. b.ok
  BY <1>1, <1>4 DEF Transferred, BookType
<1>7. GoesOn(b, y) /\ y.desired = b.desired /\ y.unsent = b.unsent
  BY <1>5, <1>6, TransferredGoesOn DEF GoesOn
<1> QED
  BY <1>1, <1>3, <1>4, <1>5, <1>6, <1>7, GoesOnTwice DEF SameIntent

(* _unknown keeps the turn, as UNCERTAIN. *)
LEMMA UnknownGoesOn ==
  ASSUME NEW x, OpenBook(x), Unknown(x).ok
  PROVE  GoesOn(x, Unknown(x)) /\ SameIntent(x, Unknown(x)) /\ Unknown(x).run = "RECONCILING"
<1> DEFINE a == Move(x, "action", "UNKNOWN_REMOTE")
           b == [a EXCEPT !.turns[x.attempt] = "UNCERTAIN"]
           c == IF x.action = "UNKNOWN_REMOTE" THEN x ELSE b
           y == Move(c, "run", "RECONCILING")
<1>0. x \in BookType /\ x.attempt \in Attempts /\ Unknown(x) = y
  BY DEF OpenBook, Unknown, BookType, Attempts
<1>1. /\ a \in BookType /\ Beside(x, a)
      /\ a.ok => GoesOn(x, a)
  BY <1>0, MoveAction, ActionGoesOn, Statuses
<1> HIDE DEF a
<1>2. /\ b \in BookType /\ SameIntent(a, b) /\ b.ok = a.ok
      /\ b.turns = [a.turns EXCEPT ![x.attempt] = "UNCERTAIN"] /\ b.outbox = a.outbox
      /\ b.task = a.task /\ b.run = a.run /\ b.asg = a.asg /\ b.action = a.action
      /\ b.attempt = a.attempt
  BY <1>0, <1>1 DEF BookType, Turns, SameIntent
<1> HIDE DEF b
<1>3. b.ok => GoesOn(x, b) /\ SameIntent(x, b)
  <2> SUFFICES ASSUME b.ok PROVE GoesOn(x, b) /\ SameIntent(x, b)
    OBVIOUS
  <2>1. OpenBook(a) /\ a.attempt = x.attempt /\ a.turns = x.turns /\ SameIntent(x, a)
    BY <1>1, <1>2 DEF GoesOn, Beside
  <2>2. b.turns[b.attempt] = "UNCERTAIN"
    BY <1>0, <1>1, <1>2, <2>1 DEF BookType
  <2>3. OpenBook(b)
    BY <1>2, <2>1, <2>2 DEF OpenBook
  <2> QED
    BY <1>2, <2>1, <2>3 DEF GoesOn, SameIntent
<1>4. GoesOn(x, x) /\ SameIntent(x, x)
  BY DEF GoesOn, SameIntent
<1>5. c \in BookType /\ (c.ok => GoesOn(x, c) /\ SameIntent(x, c))
  BY <1>0, <1>2, <1>3, <1>4
<1> HIDE DEF c
<1>6. c.ok
  BY <1>0, <1>5, MoveRun
<1>7. GoesOn(c, y) /\ SameIntent(c, y) /\ y.run = "RECONCILING"
  BY <1>0, <1>5, <1>6, RunGoesOn DEF OpenRuns, GoesOn
<1> QED
  BY <1>0, <1>5, <1>6, <1>7, GoesOnTwice DEF SameIntent

-----------------------------------------------------------------------------
(* Starting a run, and the budget of turns. *)

(* _start and _admit: the rows of the next attempt, with its turn held. *)
LEMMA AdmittedOpens ==
  ASSUME NEW x \in BookType, x.attempt < MaxAttempts, Admitted(x).ok
  PROVE  /\ OpenBook(Admitted(x)) /\ Admitted(x).attempt = x.attempt + 1
         /\ Admitted(x).run = "QUEUED" /\ Admitted(x).desired = "RUNNING"
         /\ Admitted(x).owner = "runner" /\ ~Admitted(x).unsent
         /\ Admitted(x).action = "ADMITTED" /\ Admitted(x).asg = "READY"
         /\ Admitted(x).session = None /\ ~Admitted(x).dispatched
         /\ Admitted(x).turns = [x.turns EXCEPT ![x.attempt + 1] = "HELD"]
<1> DEFINE n == x.attempt + 1
           a == Move(x, "task", "ACTIVE")
           y == Admitted(x)
<1>1. n \in Attempts /\ n # 0 /\ x.attempt \in Nat
  BY ControlBookAssumption DEF BookType, Attempts
<1>2. a \in BookType /\ Beside(x, a) /\ (a.ok => a.task = "ACTIVE")
  BY MoveTask, Statuses
<1>3. y = [a EXCEPT
         !.attempt = n, !.run = "QUEUED", !.desired = "RUNNING", !.owner = "runner",
         !.takeover = FALSE, !.asg = "READY", !.session = None, !.granted = TRUE,
         !.lease = "fresh", !.action = "ADMITTED", !.dispatched = FALSE,
         !.unsent = FALSE, !.turns[n] = "HELD", !.outbox = "PENDING"]
  BY DEF Admitted
<1> HIDE DEF n, a, y
<1>4. /\ y \in BookType /\ y.attempt = n /\ y.run = "QUEUED" /\ y.desired = "RUNNING"
      /\ y.owner = "runner" /\ y.unsent = FALSE /\ y.asg = "READY" /\ y.action = "ADMITTED"
      /\ y.turns = [a.turns EXCEPT ![n] = "HELD"] /\ y.outbox = "PENDING" /\ y.ok = a.ok
      /\ y.task = a.task /\ y.session = None /\ y.dispatched = FALSE
  <2>1. /\ "QUEUED" \in DOMAIN Edges.run /\ "READY" \in DOMAIN Edges.asg
        /\ "ADMITTED" \in DOMAIN Edges.action /\ n \in 0 .. MaxAttempts
    BY <1>1, Statuses DEF Attempts
  <2> DEFINE t == [a.turns EXCEPT ![n] = "HELD"]
  <2>2. t \in [Attempts -> Turns]
    BY <1>1, <1>2 DEF BookType, Turns
  <2>3. y = [a EXCEPT
         !.attempt = n, !.run = "QUEUED", !.desired = "RUNNING", !.owner = "runner",
         !.takeover = FALSE, !.asg = "READY", !.session = None, !.granted = TRUE,
         !.lease = "fresh", !.action = "ADMITTED", !.dispatched = FALSE,
         !.unsent = FALSE, !.turns = t, !.outbox = "PENDING"]
    BY <1>2, <1>3 DEF BookType
  <2> HIDE DEF t
  <2>4. y = [task |-> a.task, run |-> "QUEUED", asg |-> "READY", session |-> None,
             action |-> "ADMITTED", attempt |-> n, desired |-> "RUNNING", owner |-> "runner",
             takeover |-> FALSE, lease |-> "fresh", granted |-> TRUE, dispatched |-> FALSE,
             unsent |-> FALSE, outbox |-> "PENDING", turns |-> t, ok |-> a.ok]
    BY <1>2, <2>3 DEF BookType
  <2>5. a.task \in DOMAIN Edges.task \cup {None} /\ a.ok \in BOOLEAN
    BY <1>2 DEF BookType
  <2>6. y \in BookType
    BY <2>1, <2>2, <2>4, <2>5 DEF BookType, Leases
  <2> QED
    BY <2>4, <2>6 DEF t
<1>5. y.ok
  BY DEF y
<1>6. y.turns[n] = "HELD"
  BY <1>1, <1>2, <1>4 DEF BookType
<1>7. OpenBook(y)
  BY <1>1, <1>2, <1>4, <1>5, <1>6 DEF OpenBook, RunEnds, ActionEnds, None
<1>8. y.turns = [x.turns EXCEPT ![n] = "HELD"]
  BY <1>2, <1>4 DEF Beside
<1> QED
  BY <1>4, <1>7, <1>8 DEF y, n

Taken(turns) == {a \in Attempts : turns[a] \notin {"none", "free"}}

(* The attempts that hold or spent a turn are finitely many. *)
LEMMA TakenFinite ==
  ASSUME NEW turns
  PROVE  IsFiniteSet(Taken(turns)) /\ Cardinality(Taken(turns)) \in Nat
<1>1. IsFiniteSet(Attempts)
  BY FS_Interval, ControlBookAssumption DEF Attempts
<1>2. IsFiniteSet(Taken(turns))
  BY <1>1, FS_Subset DEF Taken
<1> QED
  BY <1>2, FS_CardinalityType

(* Turns are taken by a reservation, one at a time; whatever becomes of a    *)
(* reservation takes no other.                                               *)
LEMMA TurnsKept ==
  ASSUME NEW x, NEW y,
         \A a \in Attempts : y.turns[a] \notin {"none", "free"} =>
                             x.turns[a] \notin {"none", "free"}
  PROVE  TurnsTaken(y) <= TurnsTaken(x)
<1>1. Taken(y.turns) \subseteq Taken(x.turns)
  BY DEF Taken
<1> QED
  BY <1>1, TakenFinite, FS_Subset DEF TurnsTaken, Taken

(* A reservation takes one turn. *)
LEMMA TurnAdded ==
  ASSUME NEW x \in BookType, NEW n \in Attempts, NEW y,
         y.turns = [x.turns EXCEPT ![n] = "HELD"]
  PROVE  TurnsTaken(y) <= TurnsTaken(x) + 1
<1>1. Taken(y.turns) \subseteq Taken(x.turns) \cup {n}
  BY DEF Taken, BookType
<1>2. /\ IsFiniteSet(Taken(x.turns) \cup {n})
      /\ Cardinality(Taken(x.turns) \cup {n}) <= Cardinality(Taken(x.turns)) + 1
  <2>1. IsFiniteSet(Taken(x.turns)) /\ Cardinality(Taken(x.turns)) \in Nat
    BY TakenFinite
  <2> DEFINE S == Taken(x.turns)
  <2> HIDE DEF S
  <2>2. IsFiniteSet(S \cup {n}) /\ Cardinality(S \cup {n}) <= Cardinality(S) + 1
    <3>1. IsFiniteSet(S) /\ Cardinality(S) \in Nat
      BY <2>1 DEF S
    <3>2. /\ IsFiniteSet(S \cup {n})
          /\ Cardinality(S \cup {n}) = IF n \in S THEN Cardinality(S) ELSE Cardinality(S) + 1
      BY <3>1, FS_AddElement
    <3> QED
      BY <3>1, <3>2
  <2> QED
    BY <2>2 DEF S
<1>3. Cardinality(Taken(y.turns)) <= Cardinality(Taken(x.turns) \cup {n})
  BY <1>1, <1>2, FS_Subset
<1>4. /\ Cardinality(Taken(y.turns)) \in Nat /\ Cardinality(Taken(x.turns)) \in Nat
      /\ Cardinality(Taken(x.turns) \cup {n}) \in Nat
  BY <1>2, TakenFinite, FS_CardinalityType
<1> QED
  BY <1>2, <1>3, <1>4 DEF TurnsTaken, Taken

(* A step of a run that has not ended changes no turn but its own, which is  *)
(* taken already.                                                            *)
LEMMA BudgetKept ==
  ASSUME NEW x, OpenBook(x), NEW t, NEW y, TurnsTaken(x) <= TurnLimit,
         y.turns = x.turns \/ y.turns = [x.turns EXCEPT ![x.attempt] = t]
  PROVE  TurnsTaken(y) <= TurnLimit
<1>1. TurnsTaken(y) <= TurnsTaken(x)
  <2>1. x.turns \in [Attempts -> Turns] /\ x.turns[x.attempt] \in {"HELD", "UNCERTAIN"}
    BY DEF OpenBook, BookType
  <2> QED
    BY <2>1, TurnsKept
<1>2. TurnsTaken(x) \in Nat /\ TurnsTaken(y) \in Nat
  BY TakenFinite DEF TurnsTaken, Taken
<1> QED
  BY <1>1, <1>2, ControlLedgerAssumption

(* _own renews the lease and nothing else. *)
LEMMA OwnedOpen ==
  ASSUME NEW x, OpenBook(x)
  PROVE  /\ OpenBook(Owned(x)) /\ GoesOn(x, Owned(x)) /\ SameIntent(x, Owned(x))
         /\ Owned(x).run = x.run /\ Owned(x).turns = x.turns /\ Owned(x).attempt = x.attempt
BY DEF Owned, OpenBook, GoesOn, BookType, SameIntent, Leases

(* An end is an end whether or not the lease was renewed first. *)
LEMMA OwnedEnds ==
  ASSUME NEW x, OpenBook(x), NEW y, NEW end, NEW turn, Ends(Owned(x), y, end, turn)
  PROVE  Ends(x, y, end, turn)
BY OwnedOpen DEF Ends, SameIntent

(* Likewise for a transaction after which the run goes on. *)
LEMMA OwnedGoesOn ==
  ASSUME NEW x, OpenBook(x), NEW y, GoesOn(Owned(x), y)
  PROVE  GoesOn(x, y)
BY OwnedOpen, GoesOnTwice

-----------------------------------------------------------------------------
(* Which transactions are refused: none that finds the rows shaped.         *)

(* The statuses of a run that goes on: the Run follows the intent, and an    *)
(* Action that was not delivered still waits, with its Assignment.           *)
Shaped(x) ==
  /\ x.desired = "RUNNING" =>
       x.run \in {"QUEUED", "PREPARING", "RUNNING", "WAITING", "RECONCILING"}
  /\ x.desired = "PAUSED" => x.run \in {"PAUSING", "PAUSED", "RECONCILING"}
  /\ x.desired = "CANCELED" => x.run \in {"CANCELING", "RECONCILING"}
  /\ x.dispatched =>
       x.action \in {"EXECUTING", "UNKNOWN_REMOTE"} /\ x.asg = "RUNNING" /\ x.run # "QUEUED"
  /\ ~x.dispatched =>
       /\ x.action = "ADMITTED" /\ x.asg = "READY"
       /\ x.run \notin {"PREPARING", "RUNNING", "WAITING"}
       /\ x.run = "RECONCILING" => x.desired = "RUNNING"
  /\ x.session \in {None, "CREATING", "IDLE", "BUSY", "DISCONNECTED"}

(* What the lemmas below use of a run that goes on. *)
LEMMA OpenFacts ==
  ASSUME NEW x, OpenBook(x)
  PROVE  /\ x \in BookType /\ x.ok /\ x.attempt # 0 /\ x.task = "ACTIVE"
         /\ x.dispatched \in BOOLEAN /\ x.desired \in {"RUNNING", "PAUSED", "CANCELED"}
BY DEF OpenBook, BookType

(* Statuses, one by one. *)
LEMMA EachStatus ==
  /\ "SUCCEEDED" \in DOMAIN Edges.task /\ "FAILED" \in DOMAIN Edges.task
  /\ "CANCELED" \in DOMAIN Edges.task
  /\ "PREPARING" \in DOMAIN Edges.run /\ "RUNNING" \in DOMAIN Edges.run
  /\ "WAITING" \in DOMAIN Edges.run /\ "PAUSING" \in DOMAIN Edges.run
  /\ "PAUSED" \in DOMAIN Edges.run /\ "RECONCILING" \in DOMAIN Edges.run
  /\ "CANCELING" \in DOMAIN Edges.run /\ "SUCCEEDED" \in DOMAIN Edges.run
  /\ "FAILED" \in DOMAIN Edges.run /\ "CANCELED" \in DOMAIN Edges.run
  /\ "RUNNING" \in DOMAIN Edges.asg /\ "VERIFYING" \in DOMAIN Edges.asg
  /\ "SUCCEEDED" \in DOMAIN Edges.asg /\ "FAILED" \in DOMAIN Edges.asg
  /\ "CANCELED" \in DOMAIN Edges.asg
  /\ "EXECUTING" \in DOMAIN Edges.action /\ "UNKNOWN_REMOTE" \in DOMAIN Edges.action
  /\ "VERIFYING" \in DOMAIN Edges.action /\ "SUCCEEDED" \in DOMAIN Edges.action
  /\ "FAILED" \in DOMAIN Edges.action /\ "CANCELED" \in DOMAIN Edges.action
  /\ "DENIED" \in DOMAIN Edges.action
BY Statuses DEF RunEnds, ActionEnds

(* A run that was submitted and is not paused can be found not applied. *)
LEMMA NotAppliedTaken ==
  ASSUME NEW x, OpenBook(x), Shaped(x), x.dispatched, x.run # "PAUSED"
  PROVE  NotApplied(x).ok
<1> DEFINE a == Move(x, "action", "FAILED")
           b == Move(a, "asg", "FAILED")
           c == Settle(b, 0)
           d == Move(c, "run", "CANCELING")
           e == Move(d, "run", "CANCELED")
           f == IF x.run = "PAUSING" THEN Move(c, "run", "RECONCILING") ELSE c
           g == Move(f, "run", "FAILED")
           z == IF x.desired = "CANCELED" THEN e ELSE g
           y == Move(z, "task", z.run)
<1>0. /\ x \in BookType /\ x.ok /\ x.attempt # 0 /\ x.task = "ACTIVE"
      /\ x.desired \in {"RUNNING", "PAUSED", "CANCELED"}
  BY OpenFacts
<1>1. NotApplied(x) = y
  BY DEF NotApplied
<1>2. /\ x.action \in {"EXECUTING", "UNKNOWN_REMOTE"} /\ x.asg = "RUNNING"
      /\ x.desired = "CANCELED" => x.run \in {"CANCELING", "RECONCILING"}
      /\ x.desired # "CANCELED" =>
           x.run \in {"PREPARING", "RUNNING", "WAITING", "PAUSING", "RECONCILING"}
  BY <1>0 DEF Shaped
<1>3. a \in BookType /\ a.ok /\ a.asg = "RUNNING" /\ a.run = x.run /\ a.task = x.task
      /\ Beside(x, a)
  BY <1>0, <1>2, ActionTaken, ActionEdges, EachStatus
<1> HIDE DEF a
<1>4. b \in BookType /\ b.ok /\ b.run = x.run /\ b.task = x.task /\ Beside(a, b)
  BY <1>3, AsgTaken, AsgEdges, EachStatus
<1>5. b.attempt # 0
  BY <1>0, <1>3, <1>4 DEF Beside
<1> HIDE DEF b
<1>6. c \in BookType /\ c.ok /\ c.run = x.run /\ c.task = "ACTIVE"
  BY <1>0, <1>4, <1>5, SettleFields
<1> HIDE DEF c
<1>7. CASE x.desired = "CANCELED"
  <2>1. d \in BookType /\ d.ok /\ d.run = "CANCELING" /\ d.task = "ACTIVE"
    BY <1>2, <1>6, <1>7, RunTaken, RunEdges, EachStatus
  <2> HIDE DEF d
  <2>2. e \in BookType /\ e.ok /\ e.run = "CANCELED" /\ e.task = "ACTIVE"
    BY <2>1, RunTaken, RunEdges, EachStatus
  <2> HIDE DEF e
  <2>3. y = Move(e, "task", "CANCELED")
    BY <1>7, <2>2
  <2> QED
    BY <1>1, <2>2, <2>3, TaskTaken, TaskEdges, EachStatus DEF RunEnds
<1>8. CASE x.desired # "CANCELED"
  <2>1. /\ f \in BookType /\ f.ok /\ f.task = "ACTIVE"
        /\ f.run \in {"PREPARING", "RUNNING", "WAITING", "RECONCILING"}
    BY <1>2, <1>6, <1>8, RunTaken, RunEdges, EachStatus
  <2> HIDE DEF f
  <2>2. g \in BookType /\ g.ok /\ g.run = "FAILED" /\ g.task = "ACTIVE"
    BY <2>1, RunTaken, RunEdges, EachStatus
  <2> HIDE DEF g
  <2>3. y = Move(g, "task", "FAILED")
    BY <1>8, <2>2
  <2> QED
    BY <1>1, <2>2, <2>3, TaskTaken, TaskEdges, EachStatus DEF RunEnds
<1> QED
  BY <1>7, <1>8

(* An Action that was not delivered can be denied. *)
LEMMA DeniedTaken ==
  ASSUME NEW x, OpenBook(x), Shaped(x), ~x.dispatched, x.desired = "RUNNING"
  PROVE  Denied(x).ok
<1> DEFINE a == Move(x, "action", "DENIED")
           b == Move(a, "asg", "CANCELED")
           c == Settle(b, 0)
           d == IF x.run = "QUEUED" THEN Move(c, "run", "PREPARING") ELSE c
           e == Move(d, "run", "FAILED")
           y == Move(e, "task", "FAILED")
<1>0. x \in BookType /\ x.ok /\ x.attempt # 0 /\ x.task = "ACTIVE"
  BY OpenFacts
<1>1. Denied(x) = y
  BY DEF Denied
<1>2. x.action = "ADMITTED" /\ x.asg = "READY" /\ x.run \in {"QUEUED", "RECONCILING"}
  BY DEF Shaped
<1>3. a \in BookType /\ a.ok /\ a.asg = "READY" /\ a.run = x.run /\ a.task = x.task
      /\ Beside(x, a)
  BY <1>0, <1>2, ActionTaken, ActionEdges, EachStatus
<1> HIDE DEF a
<1>4. b \in BookType /\ b.ok /\ b.run = x.run /\ b.task = x.task /\ Beside(a, b)
  BY <1>3, AsgTaken, AsgEdges, EachStatus
<1>5. b.attempt # 0
  BY <1>0, <1>3, <1>4 DEF Beside
<1> HIDE DEF b
<1>6. c \in BookType /\ c.ok /\ c.run = x.run /\ c.task = "ACTIVE"
  BY <1>0, <1>4, <1>5, SettleFields
<1> HIDE DEF c
<1>7. d \in BookType /\ d.ok /\ d.task = "ACTIVE" /\ d.run \in {"PREPARING", "RECONCILING"}
  BY <1>2, <1>6, RunTaken, RunEdges, EachStatus
<1> HIDE DEF d
<1>8. e \in BookType /\ e.ok /\ e.task = "ACTIVE"
  BY <1>7, RunTaken, RunEdges, EachStatus
<1> HIDE DEF e
<1> QED
  BY <1>1, <1>8, TaskTaken, TaskEdges, EachStatus DEF RunEnds

(* The end _undelivered_control and _cancel_not_applied share: the Action    *)
(* still waits or its outcome is unknown.                                    *)
LEMMA CanceledUnappliedTaken ==
  ASSUME NEW x \in BookType, x.ok, x.attempt # 0, x.task = "ACTIVE", x.run = "CANCELING",
         x.action \in {"ADMITTED", "UNKNOWN_REMOTE"}, x.asg \in {"READY", "RUNNING"}
  PROVE  CanceledUnapplied(x).ok
<1> DEFINE a == Move(x, "action", "CANCELED")
           b == Settle(a, 0)
           c == Move(b, "asg", "CANCELED")
           d == Move(c, "run", "CANCELED")
           y == Move(d, "task", "CANCELED")
<1>1. CanceledUnapplied(x) = y
  BY DEF CanceledUnapplied
<1>2. a \in BookType /\ a.ok /\ a.asg = x.asg /\ a.run = x.run /\ a.task = x.task
      /\ Beside(x, a)
  BY ActionTaken, ActionEdges, EachStatus
<1>3. a.attempt # 0
  BY <1>2 DEF Beside
<1> HIDE DEF a
<1>4. b \in BookType /\ b.ok /\ b.asg = x.asg /\ b.run = x.run /\ b.task = x.task
  BY <1>2, <1>3, SettleFields
<1> HIDE DEF b
<1>5. c \in BookType /\ c.ok /\ c.run = "CANCELING" /\ c.task = "ACTIVE"
  BY <1>4, AsgTaken, AsgEdges, EachStatus
<1> HIDE DEF c
<1>6. d \in BookType /\ d.ok /\ d.task = "ACTIVE"
  BY <1>5, RunTaken, RunEdges, EachStatus
<1> HIDE DEF d
<1> QED
  BY <1>1, <1>6, TaskTaken, TaskEdges, EachStatus DEF RunEnds

(* Nothing was sent: refused if the outcome was taken for unknown before. *)
LEMMA CancelNotAppliedTaken ==
  ASSUME NEW x, OpenBook(x), Shaped(x), x.dispatched, x.desired = "CANCELED",
         x.run # "RECONCILING"
  PROVE  CancelNotApplied(x).ok
<1> DEFINE a == IF x.action = "EXECUTING" THEN Move(x, "action", "UNKNOWN_REMOTE") ELSE x
<1>0. x \in BookType /\ x.ok /\ x.attempt # 0 /\ x.task = "ACTIVE"
  BY OpenFacts
<1>1. x.action \in {"EXECUTING", "UNKNOWN_REMOTE"} /\ x.asg = "RUNNING" /\ x.run = "CANCELING"
  BY DEF Shaped
<1>2. Move(x, "action", "UNKNOWN_REMOTE").attempt = x.attempt
  BY <1>0, MoveAction DEF Beside
<1>3. /\ a \in BookType /\ a.ok /\ a.action = "UNKNOWN_REMOTE" /\ a.asg = "RUNNING"
      /\ a.run = "CANCELING" /\ a.task = "ACTIVE" /\ a.attempt # 0
  BY <1>0, <1>1, <1>2, ActionTaken, ActionEdges, EachStatus
<1>4. CancelNotApplied(x) = CanceledUnapplied(a)
  BY DEF CancelNotApplied
<1> HIDE DEF a
<1> QED
  BY <1>3, <1>4, CanceledUnappliedTaken

(* The outcome of a run that was submitted and is not paused is recorded. *)
LEMMA CompletedTaken ==
  ASSUME NEW x, OpenBook(x), Shaped(x), x.dispatched, x.desired # "PAUSED",
         NEW passed \in BOOLEAN
  PROVE  Completed(x, passed).ok
<1> DEFINE amount == IF x.unsent THEN 0 ELSE 1
           end == IF x.desired = "CANCELED" THEN "CANCELED"
                  ELSE IF passed THEN "SUCCEEDED" ELSE "FAILED"
           a == Move(x, "action", "VERIFYING")
           b == Move(a, "action", "SUCCEEDED")
           v == Settle(b, amount)
           c == Move(v, "run", "CANCELING")
           d == Move(c, "asg", end)
           e == Move(v, "run", "RUNNING")
           f == Move(e, "asg", "VERIFYING")
           g == Move(f, "asg", end)
           h == IF x.desired = "CANCELED" THEN d ELSE g
           i == Move(h, "run", end)
           y == Move(i, "task", end)
<1>0. /\ x \in BookType /\ x.ok /\ x.attempt # 0 /\ x.task = "ACTIVE"
      /\ x.desired \in {"RUNNING", "CANCELED"}
  BY OpenFacts
<1>1. Completed(x, passed) = y
  BY DEF Completed
<1>2. /\ x.action \in {"EXECUTING", "UNKNOWN_REMOTE"} /\ x.asg = "RUNNING"
      /\ x.desired = "CANCELED" => x.run \in {"CANCELING", "RECONCILING"}
      /\ x.desired # "CANCELED" =>
           x.run \in {"PREPARING", "RUNNING", "WAITING", "RECONCILING"}
  BY <1>0 DEF Shaped
<1>3. /\ end \in RunEnds /\ (x.desired = "CANCELED" => end = "CANCELED")
      /\ (x.desired # "CANCELED" => end \in {"SUCCEEDED", "FAILED"})
  BY DEF RunEnds
<1>11. amount \in {0, 1}
  OBVIOUS
<1>4. end \in DOMAIN Edges.task /\ end \in DOMAIN Edges.run /\ end \in DOMAIN Edges.asg
  BY <1>3, Statuses
<1> HIDE DEF end, amount
<1>5. a \in BookType /\ a.ok /\ a.action = "VERIFYING" /\ a.asg = "RUNNING" /\ a.run = x.run
      /\ a.task = x.task /\ Beside(x, a)
  BY <1>0, <1>2, ActionTaken, ActionEdges, EachStatus
<1> HIDE DEF a
<1>6. b \in BookType /\ b.ok /\ b.asg = "RUNNING" /\ b.run = x.run /\ b.task = x.task
      /\ Beside(a, b)
  BY <1>5, ActionTaken, ActionEdges, EachStatus
<1>7. b.attempt # 0
  BY <1>0, <1>5, <1>6 DEF Beside
<1> HIDE DEF b
<1>12. /\ v \in BookType /\ v.ok = b.ok /\ v.asg = b.asg /\ v.run = b.run
       /\ v.task = b.task
  BY <1>11, <1>6, <1>7, SettleFields
<1>8. v \in BookType /\ v.ok /\ v.asg = "RUNNING" /\ v.run = x.run /\ v.task = "ACTIVE"
  BY <1>0, <1>5, <1>6, <1>12
<1> HIDE DEF v
<1>9. CASE x.desired = "CANCELED"
  <2>1. c \in BookType /\ c.ok /\ c.asg = "RUNNING" /\ c.run = "CANCELING" /\ c.task = "ACTIVE"
    BY <1>2, <1>8, <1>9, RunTaken, RunEdges, EachStatus
  <2> HIDE DEF c
  <2>2. d \in BookType /\ d.ok /\ d.run = "CANCELING" /\ d.task = "ACTIVE"
    BY <1>3, <1>4, <1>9, <2>1, AsgTaken, AsgEdges
  <2> HIDE DEF d
  <2>3. h = d
    BY <1>9
  <2> HIDE DEF h
  <2>4. i \in BookType /\ i.ok /\ i.task = "ACTIVE"
    BY <1>3, <1>4, <1>9, <2>2, <2>3, RunTaken, RunEdges
  <2> HIDE DEF i
  <2> QED
    BY <1>1, <1>3, <1>4, <2>4, TaskTaken, TaskEdges
<1>10. CASE x.desired # "CANCELED"
  <2>1. e \in BookType /\ e.ok /\ e.asg = "RUNNING" /\ e.run = "RUNNING" /\ e.task = "ACTIVE"
    BY <1>2, <1>8, <1>10, RunTaken, RunEdges, EachStatus
  <2> HIDE DEF e
  <2>2. f \in BookType /\ f.ok /\ f.asg = "VERIFYING" /\ f.run = "RUNNING" /\ f.task = "ACTIVE"
    BY <2>1, AsgTaken, AsgEdges, EachStatus
  <2> HIDE DEF f
  <2>3. g \in BookType /\ g.ok /\ g.run = "RUNNING" /\ g.task = "ACTIVE"
    BY <1>3, <1>4, <1>10, <2>2, AsgTaken, AsgEdges
  <2> HIDE DEF g
  <2>4. h = g
    BY <1>10
  <2> HIDE DEF h
  <2>5. i \in BookType /\ i.ok /\ i.task = "ACTIVE"
    BY <1>3, <1>4, <1>10, <2>3, <2>4, RunTaken, RunEdges
  <2> HIDE DEF i
  <2> QED
    BY <1>1, <1>3, <1>4, <2>5, TaskTaken, TaskEdges
<1> QED
  BY <1>9, <1>10

-----------------------------------------------------------------------------
(* The transactions that leave the run going on, and its rows shaped.       *)

(* What Shaped looks at. *)
SameShape(x, y) ==
  /\ y.desired = x.desired /\ y.run = x.run /\ y.asg = x.asg /\ y.action = x.action
  /\ y.session = x.session /\ y.dispatched = x.dispatched

LEMMA SameShaped ==
  ASSUME NEW x, NEW y, Shaped(x), SameShape(x, y)
  PROVE  Shaped(y)
BY DEF Shaped, SameShape

(* The delivery and the session are as they were. *)
Bindings(x, y) == y.dispatched = x.dispatched /\ y.session = x.session

LEMMA OwnedShape ==
  ASSUME NEW x \in BookType
  PROVE  SameShape(x, Owned(x)) /\ Owned(x).ok = x.ok
BY DEF Owned, BookType, SameShape

LEMMA TransferredShape ==
  ASSUME NEW x \in BookType
  PROVE  SameShape(x, Transferred(x)) /\ Transferred(x).ok = x.ok
BY DEF Transferred, BookType, SameShape

LEMMA PausingShaped ==
  ASSUME NEW x, OpenBook(x), Shaped(x), x.desired # "CANCELED", Pausing(x).ok
  PROVE  Shaped(Pausing(x)) /\ Bindings(x, Pausing(x))
<1> DEFINE y == [x EXCEPT !.desired = "PAUSED"]
           m == Move(y, "run", "PAUSING")
<1>0. x \in BookType /\ x.ok
  BY OpenFacts
<1>1. /\ y \in BookType /\ y.desired = "PAUSED" /\ y.run = x.run /\ y.asg = x.asg
      /\ y.action = x.action /\ Bindings(x, y)
  BY <1>0 DEF BookType, Bindings
<1>2. Pausing(x) = IF x.run \in {"PAUSING", "PAUSED"} THEN y ELSE m
  BY DEF Pausing
<1> HIDE DEF y
<1>3. /\ m \in BookType /\ m.desired = y.desired /\ m.asg = y.asg /\ m.action = y.action
      /\ Bindings(y, m) /\ (m.ok => m.run = "PAUSING")
  BY <1>1, MoveRun, EachStatus DEF Beside, SameIntent, Bindings
<1> HIDE DEF m
<1>4. CASE x.run \in {"PAUSING", "PAUSED"}
  BY <1>1, <1>2, <1>4 DEF Shaped, Bindings
<1>5. CASE x.run \notin {"PAUSING", "PAUSED"}
  BY <1>1, <1>2, <1>3, <1>5 DEF Shaped, Bindings
<1> QED
  BY <1>4, <1>5

LEMMA PausingRun ==
  ASSUME NEW x, OpenBook(x), Pausing(x).ok
  PROVE  Pausing(x).run \in {"PAUSING", "PAUSED"}
<1> DEFINE y == [x EXCEPT !.desired = "PAUSED"]
<1>1. y \in BookType /\ y.run = x.run
  BY OpenFacts DEF BookType
<1>2. Pausing(x) = IF x.run \in {"PAUSING", "PAUSED"} THEN y ELSE Move(y, "run", "PAUSING")
  BY DEF Pausing
<1> HIDE DEF y
<1>3. Move(y, "run", "PAUSING").ok => Move(y, "run", "PAUSING").run = "PAUSING"
  BY <1>1, MoveRun, EachStatus
<1> QED
  BY <1>1, <1>2, <1>3

(* A run that was not delivered is cancelled where it waits, not reconciled. *)
LEMMA CancelingShaped ==
  ASSUME NEW x, OpenBook(x), Shaped(x), Canceling(x).ok
  PROVE  Shaped(Canceling(x)) /\ Bindings(x, Canceling(x))
<1> DEFINE y == [x EXCEPT !.desired = "CANCELED"]
           m == Move(y, "run", "CANCELING")
<1>0. x \in BookType /\ x.ok
  BY OpenFacts
<1>1. /\ y \in BookType /\ y.desired = "CANCELED" /\ y.asg = x.asg
      /\ y.action = x.action /\ Bindings(x, y)
  BY <1>0 DEF BookType, Bindings
<1>2. Canceling(x) = m
  BY DEF Canceling
<1> HIDE DEF y
<1>3. /\ m.desired = y.desired /\ m.asg = y.asg /\ m.action = y.action
      /\ Bindings(y, m) /\ (m.ok => m.run = "CANCELING")
  BY <1>1, MoveRun, EachStatus DEF Beside, SameIntent, Bindings
<1> HIDE DEF m
<1> QED
  BY <1>1, <1>2, <1>3 DEF Shaped, Bindings

LEMMA ResumingShaped ==
  ASSUME NEW x, OpenBook(x), Shaped(x), Resuming(x).ok
  PROVE  Shaped(Resuming(x)) /\ Bindings(x, Resuming(x))
<1> DEFINE y == [x EXCEPT !.desired = "RUNNING"]
           m == Move(y, "run", "RECONCILING")
<1>0. x \in BookType /\ x.ok
  BY OpenFacts
<1>1. /\ y \in BookType /\ y.desired = "RUNNING" /\ y.asg = x.asg
      /\ y.action = x.action /\ Bindings(x, y)
  BY <1>0 DEF BookType, Bindings
<1>2. Resuming(x) = m
  BY DEF Resuming
<1> HIDE DEF y
<1>3. /\ m.desired = y.desired /\ m.asg = y.asg /\ m.action = y.action
      /\ Bindings(y, m) /\ (m.ok => m.run = "RECONCILING")
  BY <1>1, MoveRun, EachStatus DEF Beside, SameIntent, Bindings
<1> HIDE DEF m
<1> QED
  BY <1>1, <1>2, <1>3 DEF Shaped, Bindings

LEMMA DeliveringTaken ==
  ASSUME NEW x, OpenBook(x), Shaped(x), ~x.dispatched, x.desired = "RUNNING"
  PROVE  /\ Delivering(x).ok /\ Shaped(Delivering(x)) /\ Delivering(x).dispatched
         /\ Delivering(x).run = "PREPARING" /\ Delivering(x).session = x.session
<1> DEFINE a == IF x.run \in {"QUEUED", "RECONCILING", "WAITING"}
                THEN Move(x, "run", "PREPARING") ELSE x
           b == Move(a, "action", "EXECUTING")
           c == Move(b, "asg", "RUNNING")
           y == [c EXCEPT !.dispatched = TRUE, !.outbox = "DELIVERING"]
<1>0. x \in BookType /\ x.ok
  BY OpenFacts
<1>1. Delivering(x) = y
  BY DEF Delivering
<1>2. x.action = "ADMITTED" /\ x.asg = "READY" /\ x.run \in {"QUEUED", "RECONCILING"}
  BY DEF Shaped
<1>3. a = Move(x, "run", "PREPARING")
  BY <1>2
<1> HIDE DEF a
<1>4. /\ a \in BookType /\ a.ok /\ a.run = "PREPARING" /\ a.action = "ADMITTED"
      /\ a.asg = "READY" /\ a.session = x.session /\ Beside(x, a)
  BY <1>0, <1>2, <1>3, RunTaken, RunEdges, EachStatus
<1>5. /\ b \in BookType /\ b.ok /\ b.run = "PREPARING" /\ b.action = "EXECUTING"
      /\ b.asg = "READY" /\ b.session = x.session /\ Beside(a, b)
  BY <1>4, ActionTaken, ActionEdges, EachStatus
<1> HIDE DEF b
<1>6. /\ c \in BookType /\ c.ok /\ c.run = "PREPARING" /\ c.action = "EXECUTING"
      /\ c.asg = "RUNNING" /\ c.session = x.session /\ Beside(b, c)
  BY <1>5, AsgTaken, AsgEdges, EachStatus
<1>7. c.desired = "RUNNING"
  BY <1>4, <1>5, <1>6 DEF Beside, SameIntent
<1> HIDE DEF c
<1>8. /\ y.ok /\ y.run = "PREPARING" /\ y.action = "EXECUTING" /\ y.asg = "RUNNING"
      /\ y.session = x.session /\ y.desired = "RUNNING" /\ y.dispatched = TRUE
  BY <1>6, <1>7 DEF BookType
<1> HIDE DEF y
<1>9. Shaped(y)
  BY <1>8 DEF Shaped
<1> QED
  BY <1>1, <1>8, <1>9

LEMMA PausedTaken ==
  ASSUME NEW x \in BookType, x.ok, Shaped(x), x.desired = "PAUSED"
  PROVE  LET y == Transferred(Move(x, "run", "PAUSED"))
         IN  y.ok /\ Shaped(y) /\ Bindings(x, y)
<1> DEFINE a == Move(x, "run", "PAUSED")
           y == Transferred(a)
<1>1. x.run \in {"PAUSING", "PAUSED", "RECONCILING"}
  BY DEF Shaped
<1>2. /\ a \in BookType /\ a.ok /\ a.run = "PAUSED" /\ a.action = x.action
      /\ a.asg = x.asg /\ a.session = x.session /\ Beside(x, a)
  BY <1>1, RunTaken, RunEdges, EachStatus
<1> HIDE DEF a
<1>3. Shaped(a) /\ Bindings(x, a)
  BY <1>2 DEF Shaped, Beside, SameIntent, Bindings
<1>4. SameShape(a, y) /\ y.ok = a.ok
  BY <1>2, TransferredShape
<1> HIDE DEF y
<1>5. y.ok /\ Shaped(y) /\ Bindings(x, y)
  BY <1>2, <1>3, <1>4, SameShaped DEF SameShape, Bindings
<1> QED
  BY <1>5 DEF y, a

(* The intent changed before the delivery. *)
LEMMA UndeliveredTaken ==
  ASSUME NEW x, OpenBook(x), Shaped(x),
         x.desired = "PAUSED" \/ (x.desired = "CANCELED" /\ ~x.dispatched)
  PROVE  /\ Undelivered(x).ok
         /\ x.desired = "PAUSED" => Shaped(Undelivered(x)) /\ Bindings(x, Undelivered(x))
<1>0. x \in BookType /\ x.ok /\ x.attempt # 0 /\ x.task = "ACTIVE"
  BY OpenFacts
<1>1. CASE x.desired = "PAUSED"
  <2>1. Undelivered(x) = Transferred(Move(x, "run", "PAUSED"))
    BY <1>1 DEF Undelivered
  <2> QED
    BY <1>0, <1>1, <2>1, PausedTaken
<1>2. CASE x.desired = "CANCELED" /\ ~x.dispatched
  <2>1. Undelivered(x) = CanceledUnapplied(x)
    BY <1>2 DEF Undelivered
  <2>2. x.run = "CANCELING" /\ x.action = "ADMITTED" /\ x.asg = "READY"
    BY <1>2 DEF Shaped
  <2> QED
    BY <1>0, <1>2, <2>1, <2>2, CanceledUnappliedTaken
<1> QED
  BY <1>1, <1>2

LEMMA PausedEndTaken ==
  ASSUME NEW x, OpenBook(x), Shaped(x), x.desired = "PAUSED"
  PROVE  PausedEnd(x).ok /\ Shaped(PausedEnd(x)) /\ Bindings(x, PausedEnd(x))
<1> DEFINE a == IF x.run = "RECONCILING" THEN Move(x, "run", "PAUSING") ELSE x
<1>0. x \in BookType /\ x.ok
  BY OpenFacts
<1>1. PausedEnd(x) = Transferred(Move(a, "run", "PAUSED"))
  BY DEF PausedEnd
<1>2. CASE x.run = "RECONCILING"
  <2>1. a = Move(x, "run", "PAUSING")
    BY <1>2
  <2> HIDE DEF a
  <2>2. /\ a \in BookType /\ a.ok /\ a.run = "PAUSING" /\ a.action = x.action
        /\ a.asg = x.asg /\ a.session = x.session /\ Beside(x, a)
    BY <1>0, <1>2, <2>1, RunTaken, RunEdges, EachStatus
  <2>3. Shaped(a) /\ a.desired = "PAUSED" /\ Bindings(x, a)
    BY <2>2 DEF Shaped, Beside, SameIntent, Bindings
  <2> QED
    BY <1>1, <2>2, <2>3, PausedTaken DEF Bindings
<1>3. CASE x.run # "RECONCILING"
  <2>1. a = x
    BY <1>3
  <2> HIDE DEF a
  <2> QED
    BY <1>0, <1>1, <2>1, PausedTaken
<1> QED
  BY <1>2, <1>3

(* Whatever a run was doing, its outcome may become unknown. *)
LEMMA UnknownTaken ==
  ASSUME NEW x, OpenBook(x), Shaped(x), x.dispatched
  PROVE  Unknown(x).ok /\ Shaped(Unknown(x)) /\ Bindings(x, Unknown(x))
<1> DEFINE a == Move(x, "action", "UNKNOWN_REMOTE")
           b == [a EXCEPT !.turns[x.attempt] = "UNCERTAIN"]
           c == IF x.action = "UNKNOWN_REMOTE" THEN x ELSE b
           y == Move(c, "run", "RECONCILING")
<1>0. x \in BookType /\ x.ok /\ x.attempt \in Attempts
  BY OpenFacts DEF OpenBook, BookType, Attempts
<1>1. Unknown(x) = y
  BY DEF Unknown
<1>2. /\ x.action \in {"EXECUTING", "UNKNOWN_REMOTE"} /\ x.asg = "RUNNING"
      /\ x.run \in {"PREPARING", "RUNNING", "WAITING", "PAUSING", "PAUSED", "RECONCILING",
                    "CANCELING"}
  BY OpenFacts DEF Shaped
<1>3. /\ a \in BookType /\ a.ok /\ a.run = x.run /\ a.action = "UNKNOWN_REMOTE"
      /\ a.asg = "RUNNING" /\ a.session = x.session /\ Beside(x, a)
  BY <1>0, <1>2, ActionTaken, ActionEdges, EachStatus
<1> HIDE DEF a
<1>4. /\ b \in BookType /\ b.ok = a.ok /\ b.run = a.run /\ b.action = a.action
      /\ b.asg = a.asg /\ b.session = a.session /\ b.desired = a.desired
      /\ b.dispatched = a.dispatched
  <2> DEFINE t == [a.turns EXCEPT ![x.attempt] = "UNCERTAIN"]
  <2>1. b = [a EXCEPT !.turns = t]
    BY <1>3 DEF BookType
  <2>2. t \in [Attempts -> Turns]
    BY <1>0, <1>3 DEF BookType, Turns
  <2> HIDE DEF t, b
  <2>3. b \in BookType
    BY <1>3, <2>1, <2>2 DEF BookType
  <2>4. /\ b.ok = a.ok /\ b.run = a.run /\ b.action = a.action /\ b.asg = a.asg
        /\ b.session = a.session /\ b.desired = a.desired /\ b.dispatched = a.dispatched
    BY <1>3, <2>1 DEF BookType
  <2> QED
    BY <2>3, <2>4
<1> HIDE DEF b
<1>5. /\ c \in BookType /\ c.ok /\ c.run = x.run /\ c.action = "UNKNOWN_REMOTE"
      /\ c.asg = "RUNNING" /\ c.desired = x.desired /\ Bindings(x, c)
  BY <1>0, <1>2, <1>3, <1>4 DEF Beside, SameIntent, Bindings
<1> HIDE DEF c
<1>6. /\ y.ok /\ y.run = "RECONCILING" /\ y.action = "UNKNOWN_REMOTE" /\ y.asg = "RUNNING"
      /\ y.session = c.session /\ Beside(c, y)
  BY <1>2, <1>5, RunTaken, RunEdges, EachStatus
<1> HIDE DEF y
<1>7. y.desired = x.desired /\ Bindings(x, y)
  BY <1>5, <1>6 DEF Beside, SameIntent, Bindings
<1>8. Shaped(y)
  BY <1>6, <1>7, OpenFacts DEF Shaped, Bindings
<1> QED
  BY <1>1, <1>6, <1>7, <1>8

(* A session is bound once; what is connected stays connected or comes back. *)
LEMMA BoundTaken ==
  ASSUME NEW x, OpenBook(x), Shaped(x),
         NEW status \in {"CREATING", "IDLE", "BUSY", "DISCONNECTED"},
         status = "CREATING" => x.session \in {None, "CREATING"}
  PROVE  /\ Bound(x, status).ok /\ Shaped(Bound(x, status))
         /\ Bound(x, status).dispatched = x.dispatched /\ Bound(x, status).session = status
         /\ Bound(x, status).run = x.run
<1> DEFINE a == IF x.session = None THEN [x EXCEPT !.session = "CREATING"] ELSE x
           y == Move(a, "session", status)
<1>0. x \in BookType /\ x.ok
  BY OpenFacts
<1>1. Bound(x, status) = y
  BY DEF Bound
<1>2. status \in DOMAIN Edges.session /\ "CREATING" \in DOMAIN Edges.session
  BY Statuses
<1>3. /\ a \in BookType /\ a.ok /\ a.run = x.run /\ a.asg = x.asg /\ a.action = x.action
      /\ a.desired = x.desired /\ a.dispatched = x.dispatched
      /\ a.session = IF x.session = None THEN "CREATING" ELSE x.session
  BY <1>0, <1>2 DEF BookType
<1> HIDE DEF a
<1>4. a.session \in {"CREATING", "IDLE", "BUSY", "DISCONNECTED"}
      /\ (status = "CREATING" => a.session = "CREATING")
  BY <1>3 DEF Shaped
<1>5. a.session = status \/ status \in Edges.session[a.session]
  BY <1>4, SessionEdges
<1>6. /\ y.ok /\ y.session = status /\ y.run = a.run /\ y.asg = a.asg /\ y.action = a.action
      /\ Beside(a, y)
  BY <1>2, <1>3, <1>5, SessionTaken
<1> HIDE DEF y
<1>7. y.desired = x.desired /\ y.dispatched = x.dispatched
  BY <1>3, <1>6 DEF Beside, SameIntent
<1>8. Shaped(y)
  BY <1>3, <1>6, <1>7 DEF Shaped
<1> QED
  BY <1>1, <1>3, <1>6, <1>7, <1>8

-----------------------------------------------------------------------------
(* The inductive invariant. *)

LegacyType == [stage : Stages, cancel : BOOLEAN, receipt : Receipts, queued : BOOLEAN]
CoreType == [pc : Pcs, ret : {"idle", "owned"}, background : BOOLEAN, bypassed : BOOLEAN]

Working == legacy.stage \in {"called", "working", "waiting", "pend"}
Unasked == Uncalled \/ legacy.stage = "absent"
Settled == legacy.stage \in {"absent"} \cup LegacyEnds

(* The rows of a task before its first run, of a run that goes on and of one *)
(* that ended.                                                               *)
BlankRows ==
  book.attempt = 0 =>
    /\ book.task \in {None, "READY"} /\ book.run = None /\ book.desired = "RUNNING"
    /\ book.owner = "runner" /\ ~book.unsent /\ legacy = NoLegacy

OpenRows == OpenRun => OpenBook(book)

EndedRows ==
  book.attempt # 0 /\ Ended(book) =>
    /\ book.task = book.run /\ book.action \in ActionEnds /\ book.asg \in RunEnds
    /\ book.outbox = "DONE" /\ book.turns[book.attempt] \in {"free", "spent"}
    /\ Settled

(* Nothing was done yet for the attempts to come. *)
LaterAttempts ==
  \A a \in Attempts :
    a > book.attempt => book.turns[a] = "none" /\ stand[a] = "absent" /\ a \notin reached

PausedMeansPaused == book.run = "PAUSED" => book.desired = "PAUSED"

(* What the pass of advance has in hand between two transactions. *)
Handling ==
  /\ core.pc \in {"owned", "submit", "accepted", "calling", "control", "cancelled",
                  "reconcile", "settle"} => OpenRun
  /\ At("submit") => legacy.stage = "absent"
  /\ At("accepted") => legacy.stage = "queued"
  /\ At("calling") => legacy.stage = "called"
  /\ core.pc \in {"control", "cancelled", "reconcile", "settle"} => legacy.stage # "absent"
  /\ At("cancelled") => ~LegacyEnded /\ book.desired = "CANCELED"

(* What the receipts, the request of a cancellation and the mark of an       *)
(* undelivered run prove of the latest attempt.                              *)
Evidence ==
  /\ legacy.receipt # "none" => LegacyEnded /\ book.attempt \notin reached
  /\ legacy.receipt = "nospawn" => book.desired = "CANCELED"
  /\ legacy.cancel /\ ~LegacyEnded => book.desired = "CANCELED"
  /\ book.unsent => book.desired = "CANCELED" /\ (core.bypassed \/ book.attempt \notin reached)
  /\ Unasked => book.attempt \notin reached

Budget ==
  /\ core.bypassed \/ \A a \in reached : book.turns[a] \in {"HELD", "UNCERTAIN", "spent"}
  /\ TurnsTaken(book) <= TurnLimit

Quiet == ~core.bypassed /\ (book.run = "PAUSED" \/ book.owner = "human") => ~Working

StandOf(stage) ==
  IF stage = "absent" THEN "absent"
  ELSE IF stage \in {"queued", "torn", "kept"} THEN "accepted"
  ELSE IF stage \in LegacyEnds THEN stage ELSE "called"

Standing == book.attempt # 0 => stand[book.attempt] = StandOf(legacy.stage)

IInv ==
  /\ TypeOK /\ book.ok /\ BlankRows /\ OpenRows /\ EndedRows /\ LaterAttempts
  /\ CancelDecides /\ PausedMeansPaused /\ Handling /\ Evidence /\ Budget /\ Quiet /\ Standing

(* What the type invariant says of each variable. *)
LEMMA Types ==
  ASSUME IInv
  PROVE  /\ book \in BookType /\ legacy \in LegacyType
         /\ stand \in [Attempts -> {"absent", "accepted", "called"} \cup LegacyEnds]
         /\ reached \subseteq Attempts /\ drift \in BOOLEAN /\ refused \in BOOLEAN
         /\ core \in CoreType
         /\ book.attempt \in 0 .. MaxAttempts /\ book.turns \in [Attempts -> Turns]
         /\ book.attempt # 0 => book.attempt \in Attempts
BY DEF IInv, TypeOK, LegacyType, CoreType, BookType, Attempts

(* Nothing has happened yet. *)
LEMMA InitInv == Init => IInv
<1> SUFFICES ASSUME Init PROVE IInv
  OBVIOUS
<1>1. book \in BookType /\ book.turns = [a \in Attempts |-> "none"] /\ book.run = None
      /\ book.task = None /\ book.attempt = 0 /\ book.desired = "RUNNING"
      /\ book.owner = "runner" /\ book.unsent = FALSE /\ book.ok = TRUE
  BY ControlBookAssumption DEF Init, Blank, BookType, Leases, Turns
<1>2. TypeOK
  BY <1>1 DEF Init, TypeOK, NoLegacy, Stages, Receipts, Pcs, LegacyEnds
<1>3. Budget
  <2>1. Taken(book.turns) = {}
    BY <1>1 DEF Taken
  <2>2. TurnsTaken(book) = 0
    BY <2>1, FS_EmptySet DEF TurnsTaken, Taken
  <2> QED
    BY <2>2, ControlLedgerAssumption DEF Budget, Init
<1>4. ~Ended(book) /\ book.run # "PAUSED"
  BY <1>1 DEF Ended, RunEnds, None
<1> QED
  BY <1>1, <1>2, <1>3, <1>4
     DEF Init, IInv, BlankRows, OpenRows, OpenRun, EndedRows, LaterAttempts, CancelDecides,
         PausedMeansPaused, Handling, At, Evidence, Quiet, Standing, NoLegacy, LegacyEnded,
         LegacyEnds, Working, StandOf

-----------------------------------------------------------------------------
(* The kinds of step. *)

(* The book and what is known of the legacy run are left alone. *)
Elsewhere ==
  core' \in CoreType /\ core'.bypassed = core.bypassed /\ drift' \in BOOLEAN /\ refused' \in BOOLEAN

(* The places where nothing is in hand. *)
Free == {"down", "boot", "idle", "advance", "drain"}

(* Between two polls nothing is in hand. *)
LEMMA FreeHands ==
  ASSUME core'.pc \in Free
  PROVE  Handling'
BY DEF Free, Handling, At

(* A step that leaves the book and the legacy run alone. *)
LEMMA StandsKeeps ==
  ASSUME IInv, UNCHANGED book, KeepLegacy, Elsewhere, Handling'
  PROVE  IInv'
<1>1. TypeOK'
  BY DEF IInv, TypeOK, KeepLegacy, Elsewhere, CoreType
<1>2. TurnsTaken(book)' = TurnsTaken(book)
  BY DEF TurnsTaken
<1> QED
  BY <1>1, <1>2
     DEF IInv, KeepLegacy, Elsewhere, BlankRows, OpenRows, OpenRun, EndedRows, LaterAttempts,
         CancelDecides, PausedMeansPaused, Evidence, Budget, Quiet, Standing, Ended, Settled,
         Unasked, Uncalled, LegacyEnded, Working

(* A transaction after which the run goes on. *)
LEMMA GoesOnKeeps ==
  ASSUME IInv, OpenRun, GoesOn(book, book'), KeepLegacy, Elsewhere, Handling',
         book.desired = "CANCELED" => book'.desired = "CANCELED",
         book'.run = "PAUSED" => book'.desired = "PAUSED",
         book'.unsent => \/ book.unsent
                         \/ book'.desired = "CANCELED" /\ book.attempt \notin reached,
         ~core.bypassed /\ (book'.run = "PAUSED" \/ book'.owner = "human") => ~Working
  PROVE  IInv'
<1>1. OpenBook(book) /\ OpenBook(book') /\ book'.attempt = book.attempt
  BY DEF IInv, OpenRows, GoesOn
<1>2. TypeOK'
  BY <1>1 DEF IInv, TypeOK, KeepLegacy, Elsewhere, CoreType, OpenBook
<1>3. book.attempt \in Attempts /\ book.turns \in [Attempts -> Turns] /\ reached \subseteq Attempts
  BY <1>1, Types DEF OpenBook
<1>4. ~Ended(book)' /\ OpenRun'
  BY <1>1 DEF OpenBook, Ended, OpenRun
<1>5. LaterAttempts'
  <2>1. \A a \in Attempts : a # book.attempt => book'.turns[a] = book.turns[a]
    BY <1>3 DEF GoesOn
  <2>2. \A a \in Attempts : a > book.attempt => a # book.attempt
    BY <1>3 DEF Attempts
  <2> QED
    BY <1>1, <2>1, <2>2 DEF IInv, LaterAttempts, KeepLegacy
<1>6. Evidence'
  BY <1>1 DEF IInv, Evidence, KeepLegacy, Elsewhere, Unasked, Uncalled, LegacyEnded
<1>7. Budget'
  <2>1. TurnsTaken(book') <= TurnLimit
    BY <1>1, BudgetKept DEF IInv, Budget, GoesOn
  <2>2. core'.bypassed \/ \A a \in reached' : book'.turns[a] \in {"HELD", "UNCERTAIN", "spent"}
    BY <1>3 DEF IInv, Budget, GoesOn, KeepLegacy, Elsewhere
  <2> QED
    BY <2>1, <2>2 DEF Budget, TurnsTaken
<1>8. Quiet' /\ Standing' /\ BlankRows'
  BY <1>1 DEF IInv, Quiet, Standing, BlankRows, KeepLegacy, Elsewhere, Working, OpenBook
<1> QED
  BY <1>1, <1>2, <1>4, <1>5, <1>6, <1>7, <1>8
     DEF IInv, OpenRows, EndedRows, CancelDecides, PausedMeansPaused, OpenBook

(* A transaction that ends the run. *)
LEMMA EndsKeeps ==
  ASSUME IInv, OpenRun, NEW end \in RunEnds, NEW turn \in {"free", "spent"},
         Ends(book, book', end, turn), KeepLegacy, Elsewhere, Handling', Settled,
         end = "CANCELED" <=> book.desired = "CANCELED",
         turn = "free" => core.bypassed \/ book.attempt \notin reached
  PROVE  IInv'
<1>1. OpenBook(book) /\ book'.attempt = book.attempt /\ book' \in BookType
  BY DEF IInv, OpenRows, Ends
<1>2. TypeOK'
  BY <1>1 DEF IInv, TypeOK, KeepLegacy, Elsewhere, CoreType
<1>3. book.attempt \in Attempts /\ book.turns \in [Attempts -> Turns] /\ reached \subseteq Attempts
  BY <1>1, Types DEF OpenBook
<1>4. Ended(book)' /\ ~OpenRun' /\ book'.run = end /\ book'.run # "PAUSED"
  BY <1>1 DEF Ends, Ended, OpenRun, RunEnds
<1>5. LaterAttempts'
  <2>1. \A a \in Attempts : a # book.attempt => book'.turns[a] = book.turns[a]
    BY <1>3 DEF Ends
  <2>2. \A a \in Attempts : a > book.attempt => a # book.attempt
    BY <1>3 DEF Attempts
  <2> QED
    BY <1>1, <2>1, <2>2 DEF IInv, LaterAttempts, KeepLegacy
<1>6. Evidence' /\ CancelDecides'
  BY <1>1, <1>4 DEF IInv, Evidence, KeepLegacy, Elsewhere, Unasked, Uncalled, LegacyEnded, Ends,
                    SameIntent, CancelDecides
<1>7. Budget'
  <2>1. TurnsTaken(book') <= TurnLimit
    BY <1>1, BudgetKept DEF IInv, Budget, Ends
  <2>2. core'.bypassed \/ \A a \in reached' : book'.turns[a] \in {"HELD", "UNCERTAIN", "spent"}
    BY <1>3 DEF IInv, Budget, Ends, KeepLegacy, Elsewhere
  <2> QED
    BY <2>1, <2>2 DEF Budget, TurnsTaken
<1>8. Quiet' /\ Standing' /\ BlankRows' /\ PausedMeansPaused'
  BY <1>1, <1>4 DEF IInv, Quiet, Standing, BlankRows, PausedMeansPaused, KeepLegacy, Elsewhere,
                    Working, Settled, OpenBook, LegacyEnds
<1>9. EndedRows'
  BY <1>1, <1>3 DEF EndedRows, Ends, Settled, KeepLegacy
<1> QED
  BY <1>1, <1>2, <1>4, <1>5, <1>6, <1>7, <1>8, <1>9 DEF IInv, OpenRows, Ends

(* A step of the legacy run of the latest attempt. *)
LEMMA LegacyKeeps ==
  ASSUME IInv, OpenRun, KeepBook, legacy' \in LegacyType,
         core' \in CoreType, core.bypassed => core'.bypassed, drift' \in BOOLEAN,
         stand' = [stand EXCEPT ![book.attempt] = StandOf(legacy'.stage)],
         reached' \subseteq reached \cup {book.attempt}, Handling', Evidence', Quiet'
  PROVE  IInv'
<1>1. OpenBook(book) /\ book' = book /\ book.attempt \in Attempts /\ book.attempt # 0
  BY Types DEF IInv, OpenRows, OpenRun, KeepBook
<1>2. stand \in [Attempts -> {"absent", "accepted", "called"} \cup LegacyEnds]
  BY Types
<1>3. StandOf(legacy'.stage) \in {"absent", "accepted", "called"} \cup LegacyEnds
  BY DEF StandOf
<1>4. TypeOK'
  BY <1>1, <1>2, <1>3, Types DEF TypeOK, LegacyType, CoreType, KeepBook
<1>5. LaterAttempts'
  <2>1. \A a \in Attempts : a > book.attempt => a # book.attempt
    BY <1>1 DEF Attempts
  <2> QED
    BY <1>1, <1>2, <2>1 DEF IInv, LaterAttempts
<1>6. Budget'
  <2>1. book.turns[book.attempt] \in {"HELD", "UNCERTAIN"}
    BY <1>1 DEF OpenBook
  <2>2. core'.bypassed \/ \A a \in reached' : book'.turns[a] \in {"HELD", "UNCERTAIN", "spent"}
    BY <1>1, <2>1 DEF IInv, Budget
  <2>3. TurnsTaken(book') <= TurnLimit
    BY <1>1 DEF IInv, Budget
  <2> QED
    BY <2>2, <2>3 DEF Budget, TurnsTaken
<1>7. Standing'
  BY <1>1, <1>2 DEF Standing
<1> QED
  BY <1>1, <1>4, <1>5, <1>6, <1>7
     DEF IInv, BlankRows, OpenRows, OpenRun, EndedRows, CancelDecides, PausedMeansPaused, Ended

-----------------------------------------------------------------------------
(* One transaction of advance. *)

(* A move of the state-owning thread keeps the types of the rest. *)
LEMMA GotoElsewhere ==
  ASSUME IInv, NEW p \in Pcs, Goto(p), UNCHANGED drift, refused' \in BOOLEAN
  PROVE  Elsewhere /\ core'.pc = p
<1>1. core \in CoreType /\ drift \in BOOLEAN
  BY Types
<1> QED
  BY <1>1 DEF Goto, Elsewhere, CoreType

(* It commits or leaves the book alone, and then nothing is in hand. *)
LEMMA CommitCases ==
  ASSUME IInv, NEW x, NEW next \in Pcs, Commit(x, next)
  PROVE  /\ Elsewhere /\ KeepLegacy
         /\ \/ x.ok /\ book' = x /\ core'.pc = next
            \/ UNCHANGED book /\ core'.pc = "idle"
<1>1. refused' \in BOOLEAN /\ (Goto(next) \/ Goto("idle")) /\ UNCHANGED drift /\ KeepLegacy
  BY Types DEF Commit
<1>2. "idle" \in Pcs
  BY DEF Pcs
<1> QED
  BY <1>1, <1>2, GotoElsewhere DEF Commit

(* A transaction that was rolled back changed nothing. *)
LEMMA RollbackKeeps ==
  ASSUME IInv, Elsewhere, KeepLegacy, UNCHANGED book, core'.pc = "idle"
  PROVE  IInv'
BY FreeHands, StandsKeeps DEF Free

(* What the pass works on, and what a backend may still report of, is open. *)
LEMMA InHandOpen ==
  ASSUME IInv
  PROVE  /\ OpenRun => OpenBook(book) /\ OpenBook(Owned(book))
         /\ InHand(book) => OpenRun
         /\ core.pc \in {"owned", "submit", "accepted", "calling", "control", "cancelled",
                         "reconcile", "settle"} => OpenRun
         /\ ~Settled => OpenRun
<1>1. OpenRun => OpenBook(book)
  BY DEF IInv, OpenRows
<1>2. ~Settled => OpenRun
  BY DEF IInv, BlankRows, EndedRows, OpenRun, Settled, NoLegacy
<1> QED
  BY <1>1, <1>2, OwnedOpen DEF IInv, Handling, InHand, OpenRun

(* A transaction on a run whose lease is renewed first, after which the run  *)
(* goes on with its intent unchanged.                                        *)
LEMMA SameIntentKeeps ==
  ASSUME IInv, OpenRun, GoesOn(book, book'), SameIntent(book, book'),
         book'.run \in {book.run, "PREPARING", "RUNNING", "WAITING", "RECONCILING"},
         KeepLegacy, Elsewhere, Handling'
  PROVE  IInv'
BY GoesOnKeeps DEF SameIntent, IInv, PausedMeansPaused, Quiet

(* The Session is shown as one of four statuses. *)
LEMMA SessionOfType ==
  ASSUME NEW stage
  PROVE  SessionOf(stage) \in {"CREATING", "IDLE", "BUSY", "DISCONNECTED"}
BY Zenon DEF SessionOf

-----------------------------------------------------------------------------
(* Commands. *)

(* A command commits, and a poll follows in the same request. *)
LEMMA CommandedStep ==
  ASSUME IInv, NEW c, NEW x, Commanded(c, x), drift' \in BOOLEAN
  PROVE  /\ Elsewhere /\ Handling' /\ book' = x /\ x.ok
<1>1. core \in CoreType /\ refused \in BOOLEAN
  BY Types
<1>2. core'.pc = "advance" /\ core' \in CoreType /\ core'.bypassed = core.bypassed
  BY <1>1 DEF Commanded, Goto, CoreType, Pcs
<1> QED
  BY <1>1, <1>2, FreeHands DEF Commanded, Elsewhere, Free

(* task.create *)
LEMMA CreateKeeps ==
  ASSUME IInv, TaskCreate
  PROVE  IInv'
<1> DEFINE d == [book EXCEPT !.task = "DRAFT"]
           x == Move(d, "task", "READY")
<1>1. book \in BookType /\ book.attempt = 0
  BY Types DEF IInv, TaskCreate, OpenRows, EndedRows, OpenBook, OpenRun, None, Ended, RunEnds
<1>2. d \in BookType /\ SameIntent(book, d) /\ d.attempt = 0 /\ d.turns = book.turns /\ d.run = book.run
  BY <1>1 DEF BookType, Edges, SameIntent
<1> HIDE DEF d
<1>3. x \in BookType /\ Beside(d, x) /\ x.run = d.run /\ (x.ok => x.task = "READY")
  BY <1>2, MoveTask, Statuses
<1>4. Commanded("create", x) /\ KeepLegacy /\ drift' \in BOOLEAN
  BY DEF TaskCreate, d
<1> HIDE DEF x
<1>5. Elsewhere /\ Handling' /\ book' = x /\ x.ok
  BY <1>4, CommandedStep
<1>6. TypeOK'
  BY <1>3, <1>4, <1>5 DEF IInv, TypeOK, KeepLegacy, Elsewhere, CoreType
<1>7. TurnsTaken(book)' = TurnsTaken(book)
  BY <1>2, <1>3, <1>5 DEF TurnsTaken, Beside
<1>8. /\ book'.attempt = 0 /\ book'.turns = book.turns /\ book'.run = book.run
      /\ SameIntent(book, book') /\ book'.task = "READY" /\ book.attempt = 0
  BY <1>1, <1>2, <1>3, <1>5 DEF Beside, SameIntent
<1> QED
  BY <1>4, <1>5, <1>6, <1>7, <1>8
     DEF IInv, KeepLegacy, Elsewhere, BlankRows, OpenRows, OpenRun, EndedRows, LaterAttempts,
         CancelDecides, PausedMeansPaused, Evidence, Budget, Quiet, Standing, Ended, Settled,
         Unasked, Uncalled, LegacyEnded, Working, SameIntent

(* run.start and run.retry: the turn is reserved within the budget. *)
LEMMA StartKeeps ==
  ASSUME IInv, RunStart
  PROVE  IInv'
<1> DEFINE x == Admitted(book)
           n == book.attempt + 1
<1>1. book \in BookType /\ book.attempt < MaxAttempts /\ book.attempt \in Nat
  BY Types, ControlBookAssumption DEF RunStart
<1>2. Elsewhere /\ Handling' /\ book' = x /\ x.ok
  BY CommandedStep, Types DEF RunStart
<1>3. /\ OpenBook(x) /\ x.attempt = n /\ x.run = "QUEUED" /\ x.desired = "RUNNING"
      /\ x.owner = "runner" /\ ~x.unsent /\ x.turns = [book.turns EXCEPT ![n] = "HELD"]
  BY <1>1, <1>2, AdmittedOpens
<1> HIDE DEF x
<1>4. n \in Attempts /\ n > book.attempt /\ n # 0
  BY <1>1, ControlBookAssumption DEF Attempts
<1>5. legacy' = NoLegacy /\ stand' = stand /\ reached' = reached /\ drift' = drift
  BY DEF RunStart
<1>6. TypeOK'
  BY <1>2, <1>3, <1>5
     DEF IInv, TypeOK, Elsewhere, CoreType, OpenBook, NoLegacy, Stages, Receipts
<1>7. n \notin reached /\ stand[n] = "absent" /\ book.turns \in [Attempts -> Turns]
  BY <1>4, Types DEF IInv, LaterAttempts
<1>8. LaterAttempts'
  <2>1. \A a \in Attempts : a > n => a > book.attempt /\ a # n
    BY <1>1, <1>4 DEF Attempts
  <2> QED
    BY <1>2, <1>3, <1>5, <1>7, <2>1 DEF IInv, LaterAttempts
<1>9. Budget'
  <2>1. TurnsTaken(x) <= TurnsTaken(book) + 1
    BY <1>1, <1>3, <1>4, TurnAdded
  <2>2. TurnsTaken(book) + 1 <= TurnLimit
    BY DEF RunStart
  <2>3. TurnsTaken(x) \in Nat /\ TurnsTaken(book) \in Nat
    BY TakenFinite DEF TurnsTaken, Taken
  <2>4. TurnsTaken(x) <= TurnLimit
    BY <2>1, <2>2, <2>3, ControlLedgerAssumption
  <2>5. \A a \in reached : x.turns[a] = book.turns[a]
    BY <1>3, <1>7, Types
  <2> QED
    BY <1>2, <1>5, <2>4, <2>5 DEF IInv, Budget, Elsewhere, TurnsTaken
<1>10. /\ book'.attempt = n /\ n # 0 /\ ~Ended(book)' /\ book'.run = "QUEUED"
       /\ legacy'.stage = "absent" /\ legacy'.cancel = FALSE /\ legacy'.receipt = "none"
  BY <1>2, <1>3, <1>4, <1>5 DEF Ended, RunEnds, NoLegacy
<1> QED
  BY <1>2, <1>3, <1>5, <1>6, <1>7, <1>8, <1>9, <1>10
     DEF IInv, BlankRows, OpenRows, EndedRows, CancelDecides, PausedMeansPaused, Evidence, Quiet,
         Standing, StandOf, Unasked, Uncalled, LegacyEnded, Working, OpenBook

(* run.pause, run.cancel, run.resume, takeover and return_control. *)
LEMMA IntentKeeps ==
  ASSUME IInv, RunPause \/ RunCancel \/ RunResume \/ RunTakeover \/ RunReturnControl
  PROVE  IInv'
<1>1. OpenRun /\ OpenBook(book) /\ KeepLegacy /\ drift' \in BOOLEAN /\ reached' = reached
  BY Types, InHandOpen DEF RunPause, RunCancel, RunResume, RunTakeover, RunReturnControl, KeepLegacy
<1>2. CASE RunPause
  <2>1. Elsewhere /\ Handling' /\ book' = Pausing(book) /\ Pausing(book).ok
    BY <1>1, <1>2, CommandedStep DEF RunPause
  <2>2. /\ GoesOn(book, book') /\ book'.desired = "PAUSED" /\ book'.owner = book.owner
        /\ book'.unsent = book.unsent /\ (book'.run = "PAUSED" => book.run = "PAUSED")
    BY <1>1, <2>1, PausingGoesOn
  <2> QED
    BY <1>1, <1>2, <2>1, <2>2, GoesOnKeeps DEF RunPause, IInv, Quiet
<1>3. CASE RunCancel
  <2>1. Elsewhere /\ Handling' /\ book' = Canceling(book) /\ Canceling(book).ok
    BY <1>1, <1>3, CommandedStep DEF RunCancel
  <2>2. /\ GoesOn(book, book') /\ book'.desired = "CANCELED" /\ book'.owner = book.owner
        /\ book'.unsent = book.unsent /\ book'.run = "CANCELING"
    BY <1>1, <2>1, CancelingGoesOn
  <2> QED
    BY <1>1, <2>1, <2>2, GoesOnKeeps DEF IInv, Quiet
<1>4. CASE RunResume
  <2>1. Elsewhere /\ Handling' /\ book' = Resuming(book) /\ Resuming(book).ok
    BY <1>1, <1>4, CommandedStep DEF RunResume
  <2>2. /\ GoesOn(book, book') /\ book'.owner = book.owner
        /\ book'.unsent = book.unsent /\ book'.run = "RECONCILING"
    BY <1>1, <2>1, ResumingGoesOn
  <2> QED
    BY <1>1, <1>4, <2>1, <2>2, GoesOnKeeps DEF RunResume, IInv, Quiet
<1>5. CASE RunTakeover
  <2> DEFINE x == Pausing(book)
             y == [x EXCEPT !.takeover = TRUE]
  <2>1. Elsewhere /\ Handling' /\ book' = y /\ y.ok
    BY <1>1, <1>5, CommandedStep DEF RunTakeover
  <2>2. x.ok
    BY <2>1, PausingType DEF BookType
  <2>3. /\ GoesOn(book, x) /\ x.desired = "PAUSED" /\ x.owner = book.owner
        /\ x.unsent = book.unsent /\ (x.run = "PAUSED" => book.run = "PAUSED")
    BY <1>1, <2>2, PausingGoesOn
  <2> HIDE DEF x
  <2>4. /\ GoesOn(x, y) /\ y.desired = x.desired /\ y.owner = x.owner /\ y.unsent = x.unsent
        /\ y.run = x.run
    BY <2>3 DEF GoesOn, OpenBook, BookType
  <2>5. GoesOn(book, y)
    BY <1>1, <2>3, <2>4, GoesOnTwice
  <2> HIDE DEF y
  <2> QED
    BY <1>1, <1>5, <2>1, <2>3, <2>4, <2>5, GoesOnKeeps DEF RunTakeover, IInv, Quiet
<1>6. CASE RunReturnControl
  <2> DEFINE x == [book EXCEPT !.owner = "runner", !.takeover = FALSE]
  <2>1. Elsewhere /\ Handling' /\ book' = Resuming(x) /\ Resuming(x).ok
    BY <1>1, <1>6, CommandedStep DEF RunReturnControl, Returned
  <2>2. GoesOn(book, x) /\ OpenBook(x) /\ x.unsent = book.unsent
    BY <1>1 DEF GoesOn, OpenBook, BookType
  <2> HIDE DEF x
  <2>3. /\ GoesOn(x, book') /\ book'.owner = x.owner
        /\ book'.unsent = x.unsent /\ book'.run = "RECONCILING"
    BY <2>1, <2>2, ResumingGoesOn
  <2>4. GoesOn(book, book')
    BY <1>1, <2>2, <2>3, GoesOnTwice
  <2>5. ~core.bypassed => ~Working /\ book.desired # "CANCELED"
    BY <1>6 DEF RunReturnControl, IInv, Quiet, PausedMeansPaused
  <2> QED
    BY <1>1, <1>6, <2>1, <2>2, <2>3, <2>4, <2>5, GoesOnKeeps
       DEF RunReturnControl, IInv, PausedMeansPaused
<1> QED
  BY <1>2, <1>3, <1>4, <1>5, <1>6

(* The Grant is revoked or expires. *)
LEMMA RevokeKeeps ==
  ASSUME IInv, book' = [book EXCEPT !.granted = FALSE], KeepLegacy, Elsewhere, Handling'
  PROVE  IInv'
<1>1. book \in BookType
  BY Types
<1>2. /\ book' \in BookType /\ book'.ok = book.ok /\ book'.attempt = book.attempt
      /\ book'.task = book.task /\ book'.run = book.run /\ book'.asg = book.asg
      /\ book'.action = book.action /\ book'.outbox = book.outbox /\ book'.turns = book.turns
      /\ SameIntent(book, book')
  BY <1>1 DEF BookType, SameIntent
<1>3. TypeOK' /\ TurnsTaken(book)' = TurnsTaken(book)
  BY <1>2 DEF IInv, TypeOK, KeepLegacy, Elsewhere, CoreType, TurnsTaken
<1> QED
  BY <1>2, <1>3
     DEF IInv, KeepLegacy, Elsewhere, BlankRows, OpenRows, OpenRun, EndedRows, LaterAttempts,
         CancelDecides, PausedMeansPaused, Evidence, Budget, Quiet, Standing, Ended, Settled,
         Unasked, Uncalled, LegacyEnded, Working, SameIntent, OpenBook

(* Every command of a client. *)
LEMMA CommandKeeps ==
  ASSUME IInv, Command
  PROVE  IInv'
<1>1. CASE GrantRevoke
  <2>1. Elsewhere /\ Handling' /\ book' = [book EXCEPT !.granted = FALSE]
    BY <1>1, CommandedStep, Types DEF GrantRevoke
  <2> QED
    BY <1>1, <2>1, RevokeKeeps DEF GrantRevoke
<1> QED
  BY <1>1, CreateKeeps, StartKeeps, IntentKeeps DEF Command

-----------------------------------------------------------------------------
(* advance: steps that only move on. *)

(* A step that only moves the state-owning thread. *)
LEMMA MoveOnKeeps ==
  ASSUME IInv, NEW p \in Pcs, Goto(p), KeepBook, KeepLegacy, UNCHANGED drift, Handling'
  PROVE  IInv'
<1>1. refused' \in BOOLEAN
  BY Types DEF KeepBook
<1> QED
  BY <1>1, GotoElsewhere, StandsKeeps DEF KeepBook

(* Every such step of a pass, a poll or a boot. *)
LEMMA MovesOnKeeps ==
  ASSUME IInv,
         \/ Poll \/ AdvanceNothing \/ DispatchWaits \/ SubmitUndispatched \/ CancelRefused
         \/ NoCancel \/ CancelUnconfirmed \/ ReconcileSkips \/ DrainPasses \/ BootEnds
         \/ CommitFails
  PROVE  IInv'
<1> USE DEF Pcs, Goto, KeepBook, KeepLegacy
<1>1. core \in CoreType
  BY Types
<1>2. CASE Poll
  BY <1>1, <1>2, FreeHands, MoveOnKeeps DEF Poll, Free, CoreType
<1>3. CASE AdvanceNothing
  BY <1>1, <1>3, FreeHands, MoveOnKeeps DEF AdvanceNothing, Free, CoreType
<1>4. CASE DispatchWaits
  BY <1>1, <1>4, FreeHands, MoveOnKeeps DEF DispatchWaits, Free, CoreType
<1>5. CASE DrainPasses
  BY <1>1, <1>5, FreeHands, MoveOnKeeps DEF DrainPasses, Free, CoreType
<1>6. CASE BootEnds
  BY <1>1, <1>6, FreeHands, MoveOnKeeps DEF BootEnds, Free, CoreType
<1>7. CASE CommitFails
  BY <1>1, <1>7, FreeHands, MoveOnKeeps DEF CommitFails, Free, CoreType
<1>8. CASE SubmitUndispatched
  <2>1. Handling'
    BY <1>1, <1>8 DEF SubmitUndispatched, IInv, Handling, At, OpenRun, Ended, CoreType
  <2> QED
    BY <1>8, <2>1, MoveOnKeeps DEF SubmitUndispatched
<1>9. CASE CancelRefused \/ NoCancel \/ CancelUnconfirmed
  <2>1. Goto("reconcile") /\ core.pc \in {"control", "cancelled"}
    BY <1>9 DEF CancelRefused, NoCancel, CancelUnconfirmed, At
  <2>2. UNCHANGED <<book, refused, legacy, stand, reached, drift>>
    BY <1>9 DEF CancelRefused, NoCancel, CancelUnconfirmed
  <2>3. Handling'
    BY <1>1, <2>1, <2>2 DEF IInv, Handling, At, OpenRun, Ended, CoreType
  <2> QED
    BY <2>1, <2>2, <2>3, MoveOnKeeps
<1>10. CASE ReconcileSkips
  <2>1. Handling'
    BY <1>1, <1>10 DEF ReconcileSkips, IInv, Handling, At, OpenRun, Ended, CoreType
  <2> QED
    BY <1>10, <2>1, MoveOnKeeps DEF ReconcileSkips
<1> QED
  BY <1>2, <1>3, <1>4, <1>5, <1>6, <1>7, <1>8, <1>9, <1>10

-----------------------------------------------------------------------------
(* advance: the transactions. *)

(* A transaction that ends the run, or is rolled back. *)
LEMMA EndingKeeps ==
  ASSUME IInv, OpenRun, NEW x, Commit(x, "drain"), NEW end \in RunEnds, NEW turn \in {"free", "spent"},
         x.ok => Ends(book, x, end, turn), Settled,
         end = "CANCELED" <=> book.desired = "CANCELED",
         turn = "free" => core.bypassed \/ book.attempt \notin reached
  PROVE  IInv'
<1>1. /\ Elsewhere /\ KeepLegacy
      /\ \/ x.ok /\ book' = x /\ core'.pc = "drain"
         \/ UNCHANGED book /\ core'.pc = "idle"
  BY CommitCases DEF Pcs
<1>2. Handling'
  BY <1>1, FreeHands DEF Free
<1> QED
  BY <1>1, <1>2, RollbackKeeps, EndsKeeps

(* _own renews or takes over the lease. *)
LEMMA OwnsKeeps ==
  ASSUME IInv, AdvanceOwns
  PROVE  IInv'
<1>1. /\ Elsewhere /\ KeepLegacy
      /\ \/ book' = Owned(book) /\ core'.pc = "owned"
         \/ UNCHANGED book /\ core'.pc = "idle"
  BY CommitCases DEF AdvanceOwns, Pcs
<1>2. CASE book' = Owned(book) /\ core'.pc = "owned"
  <2>1. OpenRun /\ OpenBook(book)
    BY InHandOpen DEF AdvanceOwns
  <2>2. GoesOn(book, book') /\ SameIntent(book, book') /\ book'.run = book.run /\ OpenBook(book')
    BY <1>2, <2>1, OwnedOpen
  <2>3. Handling'
    BY <1>2, <2>2 DEF Handling, At, OpenRun, OpenBook, Ended
  <2> QED
    BY <1>1, <2>1, <2>2, <2>3, SameIntentKeeps
<1> QED
  BY <1>1, <1>2, RollbackKeeps

(* _not_applied: no intent of the core exists, the turn is given back. *)
LEMMA AbsentKeeps ==
  ASSUME IInv, LocalIntentAbsent \/ SubmitRefused
  PROVE  IInv'
<1> DEFINE x == NotApplied(Owned(book))
           end == IF book.desired = "CANCELED" THEN "CANCELED" ELSE "FAILED"
<1>1. OpenRun /\ OpenBook(book) /\ OpenBook(Owned(book)) /\ legacy.stage = "absent"
      /\ Commit(x, "drain")
  BY InHandOpen DEF LocalIntentAbsent, SubmitRefused, At, IInv, Handling
<1>2. x.ok => Ends(book, x, end, "free")
  <2>1. Owned(book).desired = book.desired
    BY <1>1, OwnedOpen DEF SameIntent
  <2> QED
    BY <1>1, <2>1, NotAppliedEnds, OwnedEnds
<1>3. book.attempt \notin reached /\ Settled /\ end \in RunEnds
  BY <1>1 DEF IInv, Evidence, Unasked, Settled, RunEnds
<1> HIDE DEF x
<1> QED
  BY <1>1, <1>2, <1>3, EndingKeeps

(* _deny: the guard refused, the turn is given back. *)
LEMMA DeniedKeeps ==
  ASSUME IInv, DispatchDenied
  PROVE  IInv'
<1>1. OpenRun /\ OpenBook(book) /\ legacy.stage = "absent" /\ book.desired = "RUNNING"
      /\ Commit(Denied(book), "drain")
  BY InHandOpen DEF DispatchDenied, NotDelivered, At
<1>2. Denied(book).ok => Ends(book, Denied(book), "FAILED", "free")
  BY <1>1, DeniedEnds
<1>3. book.attempt \notin reached /\ Settled /\ "FAILED" \in RunEnds
  BY <1>1 DEF IInv, Evidence, Unasked, Settled, RunEnds
<1> QED
  BY <1>1, <1>2, <1>3, EndingKeeps

(* _undelivered_control pauses a run that was not called, ... *)
LEMMA HeldKeeps ==
  ASSUME IInv, OpenRun, Unasked, book.desired = "PAUSED",
         NEW x, OpenBook(x), GoesOn(book, x), SameIntent(book, x), Commit(Undelivered(x), "drain")
  PROVE  IInv'
<1>1. /\ Elsewhere /\ KeepLegacy
      /\ \/ Undelivered(x).ok /\ book' = Undelivered(x) /\ core'.pc = "drain"
         \/ UNCHANGED book /\ core'.pc = "idle"
  BY CommitCases DEF Pcs
<1>2. CASE Undelivered(x).ok /\ book' = Undelivered(x) /\ core'.pc = "drain"
  <2>1. GoesOn(x, book') /\ book'.desired = "PAUSED" /\ book'.unsent = x.unsent
    BY <1>2, UndeliveredPauses DEF SameIntent
  <2>2. GoesOn(book, book')
    BY InHandOpen, <2>1, GoesOnTwice
  <2>3. ~Working
    BY DEF Unasked, Uncalled, Working
  <2>4. Handling'
    BY <1>2, FreeHands DEF Free
  <2> QED
    BY <1>1, <2>1, <2>2, <2>3, <2>4, GoesOnKeeps DEF SameIntent
<1> QED
  BY <1>1, <1>2, RollbackKeeps

(* ... and cancels one of which no intent exists. *)
LEMMA WithdrawnKeeps ==
  ASSUME IInv, OpenRun, legacy.stage = "absent", book.desired = "CANCELED",
         Commit(Undelivered(book), "drain")
  PROVE  IInv'
<1>1. OpenBook(book) /\ Undelivered(book) = CanceledUnapplied(book)
  BY InHandOpen DEF Undelivered
<1>2. Undelivered(book).ok => Ends(book, Undelivered(book), "CANCELED", "free")
  BY <1>1, CanceledUnappliedEnds DEF OpenBook
<1>3. Settled /\ book.attempt \notin reached /\ "CANCELED" \in RunEnds
  BY DEF IInv, Evidence, Unasked, Settled, RunEnds
<1> QED
  BY <1>2, <1>3, EndingKeeps

(* The intent changed before the delivery. *)
LEMMA ChangedIntentKeeps ==
  ASSUME IInv, IntentBeforeDelivery \/ HoldPaused
  PROVE  IInv'
<1>1. OpenRun /\ OpenBook(book) /\ book.desired \in {"RUNNING", "PAUSED", "CANCELED"}
  BY InHandOpen, Types DEF IntentBeforeDelivery, HoldPaused, At, BookType
<1>2. GoesOn(book, book) /\ SameIntent(book, book)
  BY <1>1 DEF GoesOn, SameIntent
<1>3. CASE IntentBeforeDelivery /\ book.desired = "PAUSED"
  BY <1>1, <1>2, <1>3, HeldKeeps DEF IntentBeforeDelivery, Unasked
<1>4. CASE IntentBeforeDelivery /\ book.desired = "CANCELED"
  BY <1>1, <1>4, WithdrawnKeeps DEF IntentBeforeDelivery
<1>5. CASE HoldPaused
  <2>1. OpenBook(Owned(book)) /\ GoesOn(book, Owned(book)) /\ SameIntent(book, Owned(book))
    BY <1>1, OwnedOpen
  <2> QED
    BY <1>1, <1>5, <2>1, HeldKeeps DEF HoldPaused, Unasked, Uncalled
<1>6. IntentBeforeDelivery => book.desired # "RUNNING"
  BY DEF IntentBeforeDelivery
<1> QED
  BY <1>1, <1>3, <1>4, <1>5, <1>6

(* A transaction that leaves the intent alone and goes on with the pass. *)
LEMMA PassKeeps ==
  ASSUME IInv, OpenRun, NEW x, NEW next \in {"submit", "control", "drain"}, Commit(x, next),
         x.ok => /\ GoesOn(book, x) /\ SameIntent(book, x)
                 /\ x.run \in {book.run, "PREPARING", "RUNNING", "WAITING", "RECONCILING"},
         next = "submit" => legacy.stage = "absent",
         next = "control" => legacy.stage # "absent"
  PROVE  IInv'
<1>1. /\ Elsewhere /\ KeepLegacy
      /\ \/ x.ok /\ book' = x /\ core'.pc = next
         \/ UNCHANGED book /\ core'.pc = "idle"
  BY CommitCases DEF Pcs
<1>2. CASE x.ok /\ book' = x /\ core'.pc = next
  <2>1. OpenRun'
    BY <1>2 DEF GoesOn, OpenBook, OpenRun, Ended
  <2>2. Handling'
    BY <1>1, <1>2, <2>1 DEF Handling, At, KeepLegacy
  <2> QED
    BY <1>1, <1>2, <2>2, SameIntentKeeps
<1> QED
  BY <1>1, <1>2, RollbackKeeps

(* _dispatch: the delivery is marked before the submission. *)
LEMMA DispatchKeeps ==
  ASSUME IInv, Dispatch
  PROVE  IInv'
<1>1. OpenRun /\ OpenBook(book) /\ legacy.stage = "absent" /\ Commit(Delivering(book), "submit")
  BY InHandOpen DEF Dispatch, NotDelivered, At
<1>2. Delivering(book).ok => /\ GoesOn(book, Delivering(book)) /\ SameIntent(book, Delivering(book))
                             /\ Delivering(book).run \in {book.run, "PREPARING"}
  BY <1>1, DeliveringGoesOn
<1> QED
  BY <1>1, <1>2, PassKeeps

(* _bind_session records what the core tells of the Session. *)
LEMMA BindsKeeps ==
  ASSUME IInv, ObserveBinds
  PROVE  IInv'
<1> DEFINE x == Bound(Owned(book), SessionOf(legacy.stage))
<1>1. /\ OpenRun /\ OpenBook(book) /\ OpenBook(Owned(book)) /\ legacy.stage # "absent"
      /\ Commit(x, "control")
  BY InHandOpen DEF ObserveBinds, At
<1>2. x.ok => /\ GoesOn(Owned(book), x) /\ SameIntent(Owned(book), x) /\ x.run = Owned(book).run
  BY <1>1, BoundGoesOn, SessionOfType
<1>3. SameIntent(book, Owned(book)) /\ Owned(book).run = book.run
  BY <1>1, OwnedOpen
<1> HIDE DEF x
<1>4. x.ok => GoesOn(book, x) /\ SameIntent(book, x) /\ x.run = book.run
  BY <1>1, <1>2, <1>3, OwnedGoesOn DEF SameIntent
<1> QED
  BY <1>1, <1>4, PassKeeps

(* The mark that a cancelled intent was never delivered. *)
LEMMA MarkUnsentKeeps ==
  ASSUME IInv, MarkUnsent
  PROVE  IInv'
<1> DEFINE x == [book EXCEPT !.unsent = TRUE]
<1>1. /\ OpenRun /\ OpenBook(book) /\ legacy.stage = "queued" /\ book.desired = "CANCELED"
      /\ Commit(x, "control")
  BY InHandOpen DEF MarkUnsent, At
<1>2. /\ GoesOn(book, x) /\ x.desired = book.desired /\ x.owner = book.owner /\ x.run = book.run
  BY <1>1 DEF GoesOn, OpenBook, BookType
<1> HIDE DEF x
<1>3. /\ Elsewhere /\ KeepLegacy
      /\ \/ x.ok /\ book' = x /\ core'.pc = "control"
         \/ UNCHANGED book /\ core'.pc = "idle"
  BY <1>1, CommitCases DEF Pcs
<1>4. CASE book' = x /\ core'.pc = "control"
  <2>1. OpenRun'
    BY <1>2, <1>4 DEF GoesOn, OpenBook, OpenRun, Ended
  <2>2. Handling'
    BY <1>1, <1>3, <1>4, <2>1 DEF Handling, At, KeepLegacy
  <2>3. book.attempt \notin reached /\ ~Working
    BY <1>1 DEF IInv, Evidence, Unasked, Uncalled, Working
  <2> QED
    BY <1>1, <1>2, <1>3, <1>4, <2>2, <2>3, GoesOnKeeps DEF IInv, PausedMeansPaused
<1> QED
  BY <1>3, <1>4, RollbackKeeps

(* The Run follows the legacy run. *)
LEMMA FollowingGoesOn ==
  ASSUME NEW x, OpenBook(x), Following(x).ok
  PROVE  /\ GoesOn(x, Following(x)) /\ SameIntent(x, Following(x))
         /\ Following(x).run \in {"WAITING", "RUNNING"}
<1> DEFINE y == IF x.action = "UNKNOWN_REMOTE" THEN Move(x, "action", "EXECUTING") ELSE x
           to == IF legacy.stage = "waiting" THEN "WAITING" ELSE "RUNNING"
           z == Move(y, "run", to)
<1>1. x \in BookType /\ Following(x) = z
  BY DEF OpenBook, Following
<1>2. GoesOn(x, x) /\ SameIntent(x, x)
  BY DEF GoesOn, SameIntent
<1>3. y \in BookType /\ (y.ok => GoesOn(x, y) /\ SameIntent(x, y))
  BY <1>1, <1>2, MoveAction, ActionGoesOn, Statuses
<1>4. to \in OpenRuns /\ to \in {"WAITING", "RUNNING"}
  BY DEF OpenRuns
<1> HIDE DEF y, to
<1>5. y.ok
  BY <1>1, <1>3, MoveRun
<1>6. GoesOn(y, z) /\ SameIntent(y, z) /\ z.run = to
  BY <1>1, <1>3, <1>4, <1>5, RunGoesOn DEF GoesOn
<1> QED
  BY <1>1, <1>3, <1>4, <1>5, <1>6, GoesOnTwice DEF SameIntent

(* _observe, last transaction, of a run that is not over. *)
LEMMA SettlesOpenKeeps ==
  ASSUME IInv, SettleUnknown \/ SettleFollows
  PROVE  IInv'
<1> DEFINE o == Owned(book)
<1>1. OpenRun /\ OpenBook(book) /\ OpenBook(o)
  BY InHandOpen DEF SettleUnknown, SettleFollows, At
<1>2. GoesOn(book, o) /\ SameIntent(book, o) /\ o.run = book.run
  BY <1>1, OwnedOpen
<1> HIDE DEF o
<1>3. CASE SettleUnknown
  <2>1. Commit(Unknown(o), "drain")
    BY <1>3 DEF SettleUnknown, o
  <2>2. Unknown(o).ok => GoesOn(o, Unknown(o)) /\ SameIntent(o, Unknown(o))
                         /\ Unknown(o).run = "RECONCILING"
    BY <1>1, UnknownGoesOn
  <2>3. Unknown(o).ok => GoesOn(book, Unknown(o)) /\ SameIntent(book, Unknown(o))
    BY <1>1, <1>2, <2>2, GoesOnTwice DEF SameIntent
  <2> QED
    BY <1>1, <2>1, <2>2, <2>3, PassKeeps
<1>4. CASE SettleFollows
  <2> DEFINE x == IF book.desired = "RUNNING" THEN Following(o) ELSE o
  <2>1. Commit(x, "drain")
    BY <1>4 DEF SettleFollows, o
  <2>2. Following(o).ok => GoesOn(o, Following(o)) /\ SameIntent(o, Following(o))
                           /\ Following(o).run \in {"WAITING", "RUNNING"}
    BY <1>1, FollowingGoesOn
  <2>3. Following(o).ok => GoesOn(book, Following(o)) /\ SameIntent(book, Following(o))
    BY <1>1, <1>2, <2>2, GoesOnTwice DEF SameIntent
  <2>4. x.ok => /\ GoesOn(book, x) /\ SameIntent(book, x)
                /\ x.run \in {book.run, "PREPARING", "RUNNING", "WAITING", "RECONCILING"}
    BY <1>2, <2>2, <2>3
  <2> HIDE DEF x
  <2> QED
    BY <1>1, <2>1, <2>4, PassKeeps
<1> QED
  BY <1>3, <1>4

(* _observe, last transaction, of a run that is over. *)
LEMMA SettleEndKeeps ==
  ASSUME IInv, SettleEnd
  PROVE  IInv'
<1> DEFINE x == Owned(book)
<1>1. OpenRun /\ OpenBook(book) /\ OpenBook(x) /\ LegacyEnded /\ Settled
  BY InHandOpen DEF SettleEnd, At, LegacyEnded, Settled
<1>2. SameIntent(book, x) /\ GoesOn(book, x)
  BY <1>1, OwnedOpen
<1>3. \A y, end, turn : Ends(x, y, end, turn) => Ends(book, y, end, turn)
  BY <1>1, OwnedEnds
<1> HIDE DEF x
<1>4. CASE legacy.receipt = "nospawn" \/ (x.unsent /\ legacy.receipt # "notsent")
  <2>1. Commit(CancelNotApplied(x), "drain")
    BY <1>4 DEF SettleEnd, x
  <2>2. CancelNotApplied(x).ok => Ends(book, CancelNotApplied(x), "CANCELED", "free")
    BY <1>1, <1>3, CancelNotAppliedEnds
  <2>3. book.desired = "CANCELED" /\ (core.bypassed \/ book.attempt \notin reached)
    BY <1>2, <1>4 DEF IInv, Evidence, SameIntent
  <2> QED
    BY <1>1, <2>1, <2>2, <2>3, EndingKeeps DEF RunEnds
<1>5. CASE legacy.receipt = "notsent"
  <2> DEFINE end == IF x.desired = "CANCELED" THEN "CANCELED" ELSE "FAILED"
  <2>1. Commit(NotApplied(x), "drain")
    BY <1>5 DEF SettleEnd, x
  <2>2. NotApplied(x).ok => Ends(book, NotApplied(x), end, "free")
    BY <1>1, <1>3, NotAppliedEnds
  <2>3. book.attempt \notin reached /\ end \in RunEnds /\ (end = "CANCELED" <=> book.desired = "CANCELED")
    BY <1>2, <1>5 DEF IInv, Evidence, SameIntent, RunEnds
  <2> QED
    BY <1>1, <2>1, <2>2, <2>3, EndingKeeps
<1>6. CASE legacy.receipt \notin {"nospawn", "notsent"} /\ ~x.unsent /\ x.desired = "PAUSED"
  <2>1. Commit(PausedEnd(x), "drain")
    BY <1>6 DEF SettleEnd, x
  <2>2. /\ Elsewhere /\ KeepLegacy
        /\ \/ PausedEnd(x).ok /\ book' = PausedEnd(x) /\ core'.pc = "drain"
           \/ UNCHANGED book /\ core'.pc = "idle"
    BY <2>1, CommitCases DEF Pcs
  <2>3. CASE PausedEnd(x).ok /\ book' = PausedEnd(x) /\ core'.pc = "drain"
    <3>1. GoesOn(x, book') /\ book'.desired = "PAUSED" /\ book'.unsent = x.unsent
      BY <1>1, <1>6, <2>3, PausedEndGoesOn
    <3>2. GoesOn(book, book')
      BY <1>1, <1>2, <3>1, GoesOnTwice
    <3>3. ~Working /\ Handling'
      BY <1>1, <2>3, FreeHands DEF LegacyEnded, LegacyEnds, Working, Free
    <3> QED
      BY <1>1, <1>2, <1>6, <2>2, <3>1, <3>2, <3>3, GoesOnKeeps DEF SameIntent
  <2> QED
    BY <2>2, <2>3, RollbackKeeps
<1>7. CASE legacy.receipt \notin {"nospawn", "notsent"} /\ ~x.unsent /\ x.desired # "PAUSED"
  <2>1. PICK passed \in MayPass : Commit(Completed(x, passed), "drain")
    BY <1>7 DEF SettleEnd, x
  <2>2. passed \in BOOLEAN
    BY DEF MayPass
  <2> DEFINE y == Completed(x, passed)
  <2> HIDE DEF y
  <2>5. Commit(y, "drain")
    BY <2>1 DEF y
  <2>3. CASE y.ok
    <3>1. PICK end \in RunEnds : /\ end = "CANCELED" <=> x.desired = "CANCELED"
                                 /\ Ends(x, y, end, "spent")
      BY <1>1, <1>7, <2>2, <2>3, CompletedEnds DEF y
    <3>2. Ends(book, y, end, "spent") /\ (end = "CANCELED" <=> book.desired = "CANCELED")
      BY <1>2, <1>3, <3>1 DEF SameIntent
    <3> QED
      BY <1>1, <2>5, <3>2, EndingKeeps
  <2>4. CASE ~y.ok
    BY <2>4, <2>5, CommitCases, RollbackKeeps DEF Pcs
  <2> QED
    BY <2>3, <2>4
<1> QED
  BY <1>4, <1>5, <1>6, <1>7

-----------------------------------------------------------------------------
(* The legacy run. *)

(* It comes to a stage from which it is reported further, or ends. *)
LEMMA LegacyToKeeps ==
  ASSUME IInv, ~Settled, KeepBook, NEW stage \in Stages, NEW receipt \in Receipts,
         LegacyTo(stage, receipt), core' \in CoreType, core'.bypassed = core.bypassed,
         drift' \in BOOLEAN, Handling',
         stage \in LegacyEnds \/ StandOf(stage) = StandOf(legacy.stage),
         receipt # "none" => stage \in LegacyEnds,
         receipt = "nospawn" => book.desired = "CANCELED"
  PROVE  IInv'
<1>1. OpenRun /\ book' = book /\ book.attempt # 0 /\ book.attempt \in Attempts
  BY InHandOpen, Types DEF KeepBook, OpenRun
<1>2. legacy \in LegacyType /\ stand \in [Attempts -> {"absent", "accepted", "called"} \cup LegacyEnds]
  BY Types
<1>3. /\ legacy' \in LegacyType /\ legacy'.stage = stage /\ legacy'.receipt = receipt
      /\ legacy'.cancel = legacy.cancel
  BY <1>2 DEF LegacyTo, LegacyType
<1>4. reached' \subseteq reached /\ (receipt # "none" => book.attempt \notin reached')
  BY DEF LegacyTo
<1>5. stand' = [stand EXCEPT ![book.attempt] = StandOf(stage)]
  <2>1. CASE stage \in LegacyEnds
    BY <2>1 DEF LegacyTo, StandOf, LegacyEnds
  <2>2. CASE stage \notin LegacyEnds
    <3>1. stand' = stand /\ StandOf(stage) = stand[book.attempt]
      BY <1>1, <2>2 DEF LegacyTo, IInv, Standing
    <3> QED
      BY <1>1, <1>2, <3>1
  <2> QED
    BY <2>1, <2>2
<1>6. (Working' => Working) /\ (Unasked' => Unasked) /\ ~LegacyEnded
  <2>1. ~LegacyEnded /\ legacy.stage # "absent" /\ legacy.stage \in Stages
    BY <1>2 DEF LegacyEnded, Settled, LegacyType
  <2>2. CASE stage \in LegacyEnds
    BY <1>3, <2>1, <2>2 DEF Working, Unasked, Uncalled, LegacyEnds
  <2>3. CASE StandOf(stage) = StandOf(legacy.stage)
    <3>1. stage \in {"called", "working", "waiting", "pend"} => StandOf(legacy.stage) = "called"
      BY <2>3 DEF StandOf, LegacyEnds
    <3>2. stage \in {"absent", "queued", "torn", "kept"} => StandOf(legacy.stage) \in {"absent", "accepted"}
      BY <2>3 DEF StandOf, LegacyEnds
    <3>3. StandOf(legacy.stage) = "called" => Working
      BY <2>1 DEF StandOf, Working, Stages, LegacyEnded
    <3>4. StandOf(legacy.stage) \in {"absent", "accepted"} => Unasked
      BY <2>1 DEF StandOf, Unasked, Uncalled, LegacyEnded
    <3> QED
      BY <1>3, <2>1, <3>1, <3>2, <3>3, <3>4 DEF Working, Unasked, Uncalled
  <2> QED
    BY <2>2, <2>3
<1>7. Evidence'
  BY <1>1, <1>3, <1>4, <1>6 DEF IInv, Evidence, LegacyEnded
<1>8. Quiet'
  BY <1>1, <1>6 DEF IInv, Quiet
<1> QED
  BY <1>1, <1>3, <1>4, <1>5, <1>7, <1>8, LegacyKeeps

(* A note is made of it. *)
LEMMA NoteKeeps ==
  ASSUME IInv, OpenRun, KeepBook, legacy' \in LegacyType, legacy'.stage = legacy.stage,
         legacy'.receipt = legacy.receipt, core' \in CoreType,
         core'.bypassed = core.bypassed, UNCHANGED <<stand, reached, drift>>, Handling',
         legacy'.cancel => legacy.cancel \/ book.desired = "CANCELED"
  PROVE  IInv'
<1>1. book' = book /\ book.attempt # 0 /\ book.attempt \in Attempts /\ drift \in BOOLEAN
  BY Types DEF KeepBook, OpenRun
<1>2. stand' = [stand EXCEPT ![book.attempt] = StandOf(legacy'.stage)]
  BY <1>1, Types DEF IInv, Standing
<1>3. Evidence' /\ Quiet'
  BY <1>1 DEF IInv, Evidence, Quiet, Unasked, Uncalled, LegacyEnded, Working
<1> QED
  BY <1>1, <1>2, <1>3, LegacyKeeps

(* Its backend is called: as the intent allows, or by a restart. *)
LEMMA CalledKeeps ==
  ASSUME IInv, legacy.stage = "queued", KeepBook, UNCHANGED drift,
         legacy' = [legacy EXCEPT !.stage = "called", !.queued = FALSE],
         stand' = [stand EXCEPT ![book.attempt] = "called"],
         reached' = reached \cup {book.attempt}, core' \in CoreType, Handling',
         core.bypassed => core'.bypassed, core'.bypassed \/ MayAdvance(book)
  PROVE  IInv'
<1>1. OpenRun /\ book' = book /\ drift \in BOOLEAN
  BY InHandOpen, Types DEF KeepBook, Settled, LegacyEnds
<1>2. legacy \in LegacyType
  BY Types
<1>3. /\ legacy' \in LegacyType /\ legacy'.stage = "called" /\ legacy'.receipt = legacy.receipt
      /\ legacy'.cancel = legacy.cancel
  BY <1>2 DEF LegacyType, Stages
<1>4. legacy.receipt = "none" /\ ~LegacyEnded
  BY DEF IInv, Evidence, LegacyEnded, LegacyEnds
<1>5. Evidence'
  BY <1>1, <1>3, <1>4
     DEF IInv, Evidence, Unasked, Uncalled, LegacyEnded, LegacyEnds, MayAdvance
<1>6. Quiet'
  BY <1>1, <1>3 DEF IInv, Quiet, PausedMeansPaused, MayAdvance
<1>7. StandOf(legacy'.stage) = "called"
  BY <1>3 DEF StandOf, LegacyEnds
<1> QED
  BY <1>1, <1>3, <1>5, <1>6, <1>7, LegacyKeeps

(* The submission: an intent is committed, queued or called. *)
LEMMA SubmitKeeps ==
  ASSUME IInv, SubmitCommits \/ SubmitQueues \/ SubmitCalls
  PROVE  IInv'
<1>1. OpenRun /\ drift \in BOOLEAN /\ core \in CoreType /\ legacy \in LegacyType
  BY InHandOpen, Types DEF SubmitCommits, SubmitQueues, SubmitCalls, At
<1>2. CASE SubmitCommits
  <2>1. legacy.stage = "absent" /\ book' = book
    BY <1>2 DEF SubmitCommits, IInv, Handling, KeepBook
  <2>2. /\ legacy' \in LegacyType /\ legacy'.stage = "queued" /\ legacy'.cancel = FALSE
        /\ legacy'.receipt = "none"
    BY <1>2 DEF SubmitCommits, NoLegacy, LegacyType, Stages, Receipts
  <2>3. core' \in CoreType /\ core'.pc = "accepted" /\ core'.bypassed = core.bypassed
    BY <1>1, <1>2 DEF SubmitCommits, Goto, CoreType, Pcs
  <2>4. Handling'
    BY <1>1, <2>1, <2>2, <2>3 DEF Handling, At, OpenRun, Ended
  <2>5. Evidence' /\ Quiet'
    BY <1>2, <2>1, <2>2, <2>3
       DEF SubmitCommits, IInv, Evidence, Quiet, Unasked, Uncalled, LegacyEnded, LegacyEnds, Working
  <2>6. StandOf(legacy'.stage) = "accepted"
    BY <2>2 DEF StandOf
  <2> QED
    BY <1>1, <1>2, <2>2, <2>3, <2>4, <2>5, <2>6, LegacyKeeps DEF SubmitCommits
<1>3. CASE SubmitQueues
  <2>1. /\ legacy' \in LegacyType /\ legacy'.stage = legacy.stage
        /\ legacy'.receipt = legacy.receipt /\ legacy'.cancel = legacy.cancel
    BY <1>1, <1>3 DEF SubmitQueues, LegacyType
  <2>2. core' \in CoreType /\ core'.pc = "owned" /\ core'.bypassed = core.bypassed
    BY <1>1, <1>3 DEF SubmitQueues, Goto, CoreType, Pcs
  <2>3. Handling'
    BY <1>1, <1>3, <2>2 DEF SubmitQueues, KeepBook, Handling, At, OpenRun, Ended
  <2> QED
    BY <1>1, <1>3, <2>1, <2>2, <2>3, NoteKeeps DEF SubmitQueues
<1>4. CASE SubmitCalls
  <2>1. legacy.stage = "queued" /\ MayAdvance(book) /\ book' = book
    BY <1>4 DEF SubmitCalls, IInv, Handling, Guarded, CallBackend, KeepBook
  <2>2. /\ core' \in CoreType /\ core'.bypassed = core.bypassed
        /\ core'.pc \in {"owned", "calling"}
    BY <1>1, <1>4 DEF SubmitCalls, CallBackend, CoreType, Pcs
  <2>3. legacy'.stage = "called"
    BY <1>1, <1>4 DEF SubmitCalls, CallBackend, LegacyType
  <2>4. Handling'
    BY <1>1, <2>1, <2>2, <2>3 DEF Handling, At, OpenRun, Ended
  <2> QED
    BY <1>4, <2>1, <2>2, <2>4, CalledKeeps DEF SubmitCalls, CallBackend
<1> QED
  BY <1>2, <1>3, <1>4

(* The cancellation of what was submitted. *)
LEMMA CancelKeeps ==
  ASSUME IInv, RequestCancel \/ CancelQueued \/ CancelKept \/ CancelConfirmed
  PROVE  IInv'
<1>1. OpenRun /\ drift \in BOOLEAN /\ core \in CoreType /\ legacy \in LegacyType
  BY InHandOpen, Types DEF RequestCancel, CancelQueued, CancelKept, CancelConfirmed, At
<1>2. CASE RequestCancel
  <2>1. /\ legacy' \in LegacyType /\ legacy'.stage = legacy.stage
        /\ legacy'.receipt = legacy.receipt
    BY <1>1, <1>2 DEF RequestCancel, LegacyType
  <2>2. core' \in CoreType /\ core'.pc = "cancelled" /\ core'.bypassed = core.bypassed
    BY <1>1, <1>2 DEF RequestCancel, Goto, CoreType, Pcs
  <2>3. book.desired = "CANCELED" /\ ~LegacyEnded /\ legacy.stage # "absent" /\ book' = book
    BY <1>2 DEF RequestCancel, MustCancel, IInv, Handling, At, KeepBook
  <2>4. Handling'
    BY <1>1, <2>1, <2>2, <2>3 DEF Handling, At, OpenRun, Ended, LegacyEnded
  <2> QED
    BY <1>1, <1>2, <2>1, <2>2, <2>3, <2>4, NoteKeeps DEF RequestCancel
<1>3. CASE CancelQueued \/ CancelKept \/ CancelConfirmed
  <2>1. /\ At("cancelled") /\ ~LegacyEnded /\ legacy.stage # "absent"
        /\ book.desired = "CANCELED" /\ KeepBook /\ UNCHANGED drift
    BY <1>3 DEF CancelQueued, CancelKept, CancelConfirmed, IInv, Handling, At
  <2>2. /\ core' \in CoreType /\ core'.bypassed = core.bypassed
        /\ core'.pc \in {"idle", "reconcile"}
    BY <1>1, <1>3 DEF CancelQueued, CancelKept, CancelConfirmed, Goto, CoreType, Pcs
  <2>3. PICK stage \in LegacyEnds \cup {"kept"}, receipt \in Receipts :
          /\ LegacyTo(stage, receipt)
          /\ receipt # "none" => stage \in LegacyEnds
          /\ stage \in LegacyEnds \/ StandOf(stage) = StandOf(legacy.stage)
    <3>1. {"cancelled", "succeeded"} \subseteq LegacyEnds /\ {"none", "nospawn"} \subseteq Receipts
      BY DEF LegacyEnds, Receipts
    <3>2. CASE CancelQueued
      BY <3>1, <3>2 DEF CancelQueued
    <3>3. CASE CancelKept
      <4>1. StandOf("kept") = StandOf(legacy.stage)
        BY <3>3 DEF CancelKept, StandOf
      <4> QED
        BY <3>1, <3>3, <4>1 DEF CancelKept
    <3>4. CASE CancelConfirmed
      BY <3>1, <3>4 DEF CancelConfirmed
    <3> QED
      BY <1>3, <3>2, <3>3, <3>4
  <2>4. legacy'.stage = stage /\ stage # "absent" /\ stage \in Stages
    BY <1>1, <2>3 DEF LegacyTo, LegacyType, LegacyEnds, Stages
  <2>5. Handling'
    BY <1>1, <2>1, <2>2, <2>4 DEF Handling, At, OpenRun, Ended, KeepBook
  <2>6. ~Settled
    BY <2>1 DEF Settled, LegacyEnded
  <2> QED
    BY <1>1, <2>1, <2>2, <2>3, <2>4, <2>5, <2>6, LegacyToKeeps
<1> QED
  BY <1>2, <1>3

(* The outcome is looked up, the drain of the queue fails a run, a call in   *)
(* place returns.                                                            *)
LEMMA ReturnsKeeps ==
  ASSUME IInv, ReconcileSettles \/ DrainRefuses \/ CallReturns \/ BootRefuses
  PROVE  IInv'
<1>1. drift \in BOOLEAN /\ core \in CoreType /\ legacy \in LegacyType
  BY Types
<1>2. /\ ~Settled /\ KeepBook /\ UNCHANGED drift
      /\ legacy.stage \in {"called", "pend", "kept", "queued", "torn"}
      /\ legacy.stage # "called" => ~At("calling")
  BY DEF ReconcileSettles, DrainRefuses, CallReturns, BootRefuses, InQueue, IInv, Handling, Settled,
         LegacyEnds, At
<1>3. OpenRun
  BY <1>2, InHandOpen
<1>4. /\ core' \in CoreType /\ core'.bypassed = core.bypassed
      /\ core'.pc \in {"settle", "idle", "owned"}
  BY <1>1 DEF ReconcileSettles, DrainRefuses, CallReturns, BootRefuses, Goto, CoreType, Pcs
<1>5. PICK stage \in LegacyEnds \cup {"waiting", "pend"}, receipt \in Receipts :
        /\ LegacyTo(stage, receipt)
        /\ receipt # "none" => stage \in LegacyEnds
        /\ receipt # "nospawn"
        /\ stage \in LegacyEnds \/ legacy.stage = "called"
  <2>1. "failed" \in LegacyEnds /\ {"none", "notsent"} \subseteq Receipts
    BY DEF LegacyEnds, Receipts
  <2>2. CASE ReconcileSettles
    BY <2>1, <2>2 DEF ReconcileSettles
  <2>3. CASE DrainRefuses \/ BootRefuses
    BY <2>1, <2>3 DEF DrainRefuses, BootRefuses
  <2>4. CASE CallReturns
    <3>1. legacy.stage = "called"
      BY <2>4 DEF CallReturns, IInv, Handling
    <3> QED
      BY <2>1, <2>4, <3>1 DEF CallReturns
  <2> QED
    BY <2>2, <2>3, <2>4
<1>6. legacy'.stage = stage /\ stage # "absent" /\ stage \in Stages
  BY <1>1, <1>5 DEF LegacyTo, LegacyType, LegacyEnds, Stages
<1>7. Handling'
  BY <1>2, <1>3, <1>4, <1>6 DEF Handling, At, OpenRun, Ended, KeepBook
<1>8. stage \in LegacyEnds \/ StandOf(stage) = StandOf(legacy.stage)
  BY <1>5 DEF StandOf, LegacyEnds
<1> QED
  BY <1>1, <1>2, <1>4, <1>5, <1>6, <1>7, <1>8, LegacyToKeeps

(* The queue calls what the intent allows; a restart calls whatever it holds. *)
LEMMA QueueCallsKeeps ==
  ASSUME IInv, DrainCalls \/ BootCalls
  PROVE  IInv'
<1>1. core \in CoreType /\ legacy \in LegacyType
  BY Types
<1>2. legacy.stage = "queued" /\ KeepBook /\ UNCHANGED drift
  BY DEF DrainCalls, BootCalls, CallBackend
<1>3. OpenRun
  BY <1>2, InHandOpen DEF Settled, LegacyEnds
<1>4. /\ core' \in CoreType /\ core'.pc \in {"idle", "calling"}
      /\ core.bypassed => core'.bypassed
      /\ core'.bypassed \/ MayAdvance(book)
  <2>1. MayAdvance(book) \in BOOLEAN
    BY DEF MayAdvance
  <2>2. CASE DrainCalls
    BY <1>1, <2>2 DEF DrainCalls, CallBackend, CoreType, Pcs
  <2>3. CASE BootCalls
    BY <1>1, <2>1, <2>3 DEF BootCalls, CoreType, Pcs
  <2> QED
    BY <2>2, <2>3
<1>5. legacy'.stage = "called"
  BY <1>1 DEF DrainCalls, BootCalls, CallBackend, LegacyType
<1>6. Handling'
  BY <1>2, <1>3, <1>4, <1>5 DEF Handling, At, OpenRun, Ended, KeepBook
<1> QED
  BY <1>2, <1>4, <1>6, CalledKeeps DEF DrainCalls, BootCalls, CallBackend

(* What workers report, in time or late. *)
LEMMA ReportsKeep ==
  ASSUME IInv, WorkerReports \/ WorkerEnds \/ WorkerUnknown \/ LateEnd
  PROVE  IInv'
<1>1. drift \in BOOLEAN /\ core \in CoreType /\ legacy \in LegacyType
  BY Types
<1>2. /\ KeepBook /\ UNCHANGED drift /\ UNCHANGED core /\ Reporting
      /\ legacy.stage \in {"called", "working", "waiting", "pend", "kept"}
  BY DEF WorkerReports, WorkerEnds, WorkerUnknown, LateEnd
<1>3. ~Settled /\ ~LegacyEnded
  BY <1>2 DEF Settled, LegacyEnded, LegacyEnds
<1>4. Handling'
  BY <1>2, FreeHands DEF Reporting, Free
<1>5. PICK stage \in LegacyEnds \cup {"waiting", "working", "pend"}, receipt \in Receipts :
        /\ LegacyTo(stage, receipt)
        /\ receipt # "none" => stage \in LegacyEnds
        /\ receipt = "nospawn" => legacy.cancel
        /\ stage \in LegacyEnds \/ legacy.stage # "kept"
  <2>1. {"failed", "cancelled"} \subseteq LegacyEnds /\ {"none", "notsent", "nospawn"} \subseteq Receipts
    BY DEF LegacyEnds, Receipts
  <2>2. CASE WorkerReports
    BY <2>1, <2>2 DEF WorkerReports
  <2>3. CASE WorkerEnds
    BY <2>1, <2>3 DEF WorkerEnds
  <2>4. CASE WorkerUnknown
    BY <2>1, <2>4 DEF WorkerUnknown
  <2>5. CASE LateEnd
    BY <2>1, <2>5 DEF LateEnd
  <2> QED
    BY <2>2, <2>3, <2>4, <2>5
<1>6. stage \in Stages
  BY DEF Stages
<1>7. stage \in LegacyEnds \/ StandOf(stage) = StandOf(legacy.stage)
  BY <1>2, <1>5 DEF StandOf, LegacyEnds
<1>8. receipt = "nospawn" => book.desired = "CANCELED"
  BY <1>3, <1>5 DEF IInv, Evidence
<1> QED
  BY <1>1, <1>2, <1>3, <1>4, <1>5, <1>6, <1>7, <1>8, LegacyToKeeps

(* An operator ends what is open and not being worked on. *)
LEMMA TerminateKeeps ==
  ASSUME IInv, OperatorTerminates
  PROVE  IInv'
<1>1. drift \in BOOLEAN /\ core \in CoreType /\ legacy \in LegacyType
  BY Types
<1>2. /\ ~Settled /\ ~LegacyEnded /\ KeepBook /\ UNCHANGED <<reached, drift, core>> /\ At("idle")
  BY DEF OperatorTerminates, Settled, LegacyEnded, LegacyEnds
<1>3. OpenRun /\ Handling'
  BY <1>2, InHandOpen, FreeHands DEF At, Free
<1>4. legacy' \in LegacyType /\ legacy'.stage = "cancelled" /\ legacy'.receipt = legacy.receipt
  BY <1>1 DEF OperatorTerminates, LegacyType, Stages, LegacyEnds
<1>5. Evidence' /\ Quiet'
  BY <1>2, <1>4 DEF IInv, Evidence, Quiet, KeepBook, Unasked, Uncalled, LegacyEnded, LegacyEnds, Working
<1>6. StandOf(legacy'.stage) = "cancelled"
  BY <1>4 DEF StandOf, LegacyEnds
<1> QED
  BY <1>1, <1>2, <1>3, <1>4, <1>5, <1>6, LegacyKeeps DEF OperatorTerminates

-----------------------------------------------------------------------------
(* Time, crashes and restarts. *)

(* The lease and the Grant decide nothing the invariant tells. *)
SameRows(x, y) ==
  /\ y \in BookType /\ y.ok = x.ok /\ y.attempt = x.attempt /\ y.task = x.task
  /\ y.run = x.run /\ y.asg = x.asg /\ y.action = x.action /\ y.outbox = x.outbox
  /\ y.turns = x.turns /\ SameIntent(x, y)

(* A lease ages, a Grant expires. *)
LEMMA TimeKeeps ==
  ASSUME IInv, LeaseAges \/ GrantExpires
  PROVE  IInv'
<1>1. core' = core /\ drift' = drift /\ refused' = refused /\ KeepLegacy /\ OpenRun
  BY InHandOpen DEF LeaseAges, GrantExpires
<1>2. Elsewhere
  BY <1>1, Types DEF Elsewhere
<1>3. CASE LeaseAges
  <2> DEFINE lease == IF book.lease = "fresh" THEN "aging" ELSE "expired"
  <2>1. lease \in Leases /\ book' = [book EXCEPT !.lease = lease]
    BY <1>3 DEF LeaseAges, Leases
  <2> HIDE DEF lease
  <2>2. OpenBook(book)
    BY <1>1, InHandOpen
  <2>3. GoesOn(book, book') /\ SameIntent(book, book') /\ book'.run = book.run
    BY <2>1, <2>2 DEF GoesOn, OpenBook, BookType, SameIntent
  <2>4. Handling'
    BY <1>1, <2>3 DEF IInv, Handling, At, OpenRun, Ended, GoesOn, KeepLegacy, LegacyEnded, SameIntent
  <2> QED
    BY <1>1, <1>2, <2>3, <2>4, SameIntentKeeps
<1>4. CASE GrantExpires
  <2>1. book' = [book EXCEPT !.granted = FALSE] /\ book \in BookType
    BY <1>4, Types DEF GrantExpires
  <2>2. /\ book'.attempt = book.attempt /\ book'.run = book.run /\ book'.desired = book.desired
    BY <2>1 DEF BookType
  <2>3. Handling'
    BY <1>1, <2>2 DEF IInv, Handling, At, OpenRun, Ended, KeepLegacy, LegacyEnded
  <2> QED
    BY <1>1, <1>2, <2>1, <2>3, RevokeKeeps
<1> QED
  BY <1>3, <1>4

(* The process stops: its lease becomes that of a worker that is gone. *)
LEMMA StopKeeps ==
  ASSUME IInv, Crash \/ CrashInDispatch
  PROVE  IInv'
<1>1. core \in CoreType /\ legacy \in LegacyType /\ book \in BookType
  BY Types
<1>2. PICK stage : /\ Stop(stage)
                   /\ stage = legacy.stage \/ (legacy.stage = "queued" /\ stage = "torn")
  <2>1. Crash => Stop(legacy.stage)
    BY DEF Crash
  <2>2. CrashInDispatch => legacy.stage = "queued" /\ Stop("torn")
    BY DEF CrashInDispatch
  <2> QED
    BY <2>1, <2>2
<1>3. UNCHANGED <<stand, reached, drift, refused>>
  BY <1>2 DEF Stop
<1>4. core' \in CoreType /\ core'.pc = "down" /\ core'.bypassed = core.bypassed
  BY <1>1, <1>2 DEF Stop, Goto, CoreType, Pcs
<1>5. Handling'
  BY <1>4, FreeHands DEF Free
<1>6. /\ legacy' \in LegacyType /\ legacy'.stage = stage /\ legacy'.cancel = legacy.cancel
      /\ legacy'.receipt = legacy.receipt
  BY <1>1, <1>2 DEF Stop, LegacyType, Stages
<1>7. SameRows(book, book')
  BY <1>1, <1>2 DEF Stop, SameRows, BookType, SameIntent, Leases
<1>8. TypeOK' /\ TurnsTaken(book)' = TurnsTaken(book)
  BY <1>3, <1>4, <1>6, <1>7 DEF IInv, TypeOK, SameRows, LegacyType, CoreType, TurnsTaken
<1>9. BlankRows'
  <2>1. legacy = NoLegacy => legacy' = NoLegacy
    <3>1. legacy = NoLegacy => stage = "absent"
      <4>1. stage = legacy.stage \/ legacy.stage = "queued"
        BY <1>2
      <4> QED
        BY <4>1 DEF NoLegacy
    <3>2. legacy'.queued = FALSE
      BY <1>1, <1>2 DEF Stop, LegacyType
    <3>3. legacy = NoLegacy => legacy.cancel = FALSE /\ legacy.receipt = "none"
      BY DEF NoLegacy
    <3>4. legacy' = [stage |-> legacy'.stage, cancel |-> legacy'.cancel,
                     receipt |-> legacy'.receipt, queued |-> legacy'.queued]
      BY <1>6 DEF LegacyType
    <3> QED
      BY <1>6, <3>1, <3>2, <3>3, <3>4 DEF NoLegacy
  <2> QED
    BY <1>7, <2>1 DEF IInv, BlankRows, SameRows, SameIntent
<1>10. /\ Working' <=> Working
       /\ Unasked' <=> Unasked
       /\ Settled' <=> Settled
       /\ LegacyEnded' <=> LegacyEnded
       /\ StandOf(legacy'.stage) = StandOf(legacy.stage)
  BY <1>2, <1>6 DEF Working, Unasked, Uncalled, Settled, LegacyEnded, LegacyEnds, StandOf
<1>11. OpenRows' /\ EndedRows' /\ LaterAttempts' /\ CancelDecides' /\ PausedMeansPaused'
  BY <1>3, <1>7, <1>10 DEF IInv, OpenRows, OpenRun, OpenBook, Ended, EndedRows, LaterAttempts,
                           CancelDecides, PausedMeansPaused, SameRows, SameIntent
<1>12. Evidence' /\ Budget' /\ Quiet' /\ Standing'
  BY <1>3, <1>4, <1>6, <1>7, <1>8, <1>10
     DEF IInv, Evidence, Budget, Quiet, Standing, SameRows, SameIntent
<1> QED
  BY <1>5, <1>7, <1>8, <1>9, <1>11, <1>12 DEF IInv, SameRows

(* Another process: what was not called is queued again, what was is settled *)
(* by evidence or left unknown.                                              *)
LEMMA RestartKeeps ==
  ASSUME IInv, Restart
  PROVE  IInv'
<1>1. core \in CoreType /\ legacy \in LegacyType
  BY Types
<1>2. /\ core' \in CoreType /\ core'.pc = "boot" /\ core'.bypassed = core.bypassed
      /\ drift' \in BOOLEAN /\ refused' \in BOOLEAN /\ KeepBook
  BY <1>1, Types, ControlRunAssumption DEF Restart, CoreType, Pcs, KeepBook
<1>3. Handling'
  BY <1>2, FreeHands DEF Free
<1>4. CASE KeepLegacy
  BY <1>2, <1>3, <1>4, StandsKeeps DEF Elsewhere, KeepBook
<1>5. CASE /\ legacy.stage \in {"queued", "torn"}
           /\ legacy' = [legacy EXCEPT !.queued = TRUE]
           /\ UNCHANGED <<stand, reached>>
  <2>1. /\ legacy' \in LegacyType /\ legacy'.stage = legacy.stage
        /\ legacy'.receipt = legacy.receipt /\ legacy'.cancel = legacy.cancel
    BY <1>1, <1>5 DEF LegacyType
  <2>2. OpenRun /\ book' = book
    BY <1>2, <1>5, InHandOpen DEF Settled, LegacyEnds, KeepBook
  <2>3. stand' = [stand EXCEPT ![book.attempt] = StandOf(legacy'.stage)]
    BY <1>5, <2>1, <2>2, Types DEF IInv, Standing, OpenRun
  <2>4. Evidence' /\ Quiet'
    BY <1>2, <1>5, <2>1, <2>2 DEF IInv, Evidence, Quiet, Unasked, Uncalled, LegacyEnded, Working
  <2> QED
    BY <1>2, <1>3, <1>5, <2>1, <2>2, <2>3, <2>4, LegacyKeeps
<1>6. CASE \E stage \in Stages :
             /\ LegacyTo(stage, "none") /\ ~Settled
             /\ stage \in LegacyEnds \/ StandOf(stage) = StandOf(legacy.stage)
  BY <1>2, <1>3, <1>6, LegacyToKeeps DEF Receipts
<1>7. \/ KeepLegacy
      \/ /\ legacy.stage \in {"queued", "torn"}
         /\ legacy' = [legacy EXCEPT !.queued = TRUE]
         /\ UNCHANGED <<stand, reached>>
      \/ \E stage \in Stages :
           /\ LegacyTo(stage, "none") /\ ~Settled
           /\ stage \in LegacyEnds \/ StandOf(stage) = StandOf(legacy.stage)
  <2>1. {"pend", "cancelled", "failed", "kept"} \subseteq Stages /\ {"cancelled", "failed"} \subseteq LegacyEnds
    BY DEF Stages, LegacyEnds
  <2>2. legacy.stage \in {"called", "working", "waiting", "pend"} =>
          ~Settled /\ StandOf("pend") = StandOf(legacy.stage)
    BY DEF Settled, StandOf, LegacyEnds
  <2>3. legacy.stage = "kept" => ~Settled
    BY DEF Settled, LegacyEnds
  <2>4. CASE legacy.stage \in {"called", "working", "waiting", "pend"}
    BY <2>1, <2>2, <2>4 DEF Restart, LegacyEnds
  <2>5. CASE legacy.stage = "kept"
    BY <2>1, <2>3, <2>5 DEF Restart, LegacyEnds
  <2>6. CASE legacy.stage \in {"queued", "torn"} \/ legacy.stage \in LegacyEnds \cup {"absent"}
    BY <2>6 DEF Restart, LegacyEnds
  <2> QED
    BY <1>1, <2>4, <2>5, <2>6 DEF LegacyType, Stages
<1> QED
  BY <1>4, <1>5, <1>6, <1>7

-----------------------------------------------------------------------------

(* Every step keeps the invariant. *)
LEMMA StepKeeps ==
  ASSUME IInv, Next
  PROVE  IInv'
<1>1. CASE Command
  BY <1>1, CommandKeeps
<1>2. CASE Advance
  BY <1>2, MovesOnKeeps, OwnsKeeps, AbsentKeeps, ChangedIntentKeeps, DispatchKeeps, DeniedKeeps,
     SubmitKeeps, BindsKeeps, MarkUnsentKeeps, CancelKeeps, ReturnsKeeps, SettlesOpenKeeps,
     SettleEndKeeps
     DEF Advance
<1>3. CASE Poll \/ Drain \/ CallReturns \/ Boot
  BY <1>3, MovesOnKeeps, QueueCallsKeeps, ReturnsKeeps, RestartKeeps DEF Drain, Boot
<1>4. CASE World
  BY <1>4, ReportsKeep, TerminateKeeps, TimeKeeps, MovesOnKeeps, StopKeeps DEF World
<1> QED
  BY <1>1, <1>2, <1>3, <1>4 DEF Next, CoreStep

(* The inductive invariant holds in every reachable state. *)
THEOREM Invariance == Spec => []IInv
<1>1. ASSUME IInv, UNCHANGED vars PROVE IInv'
  <2>1. UNCHANGED <<book, legacy, stand, reached, drift, core, refused>>
    BY <1>1 DEF vars
  <2>2. Handling'
    BY <1>1, <2>1 DEF IInv, Handling, At, OpenRun, Ended, LegacyEnded
  <2>3. Elsewhere
    BY <1>1, <2>1, Types DEF Elsewhere
  <2> QED
    BY <1>1, <2>1, <2>2, <2>3, StandsKeeps DEF KeepLegacy
<1> QED
  BY InitInv, StepKeeps, <1>1, PTL DEF Spec

-----------------------------------------------------------------------------
(* The rows of a task agree with each other and with its cancellation: what   *)
(* ends a run ends its Action, Assignment, delivery and turn, and sets the   *)
(* Task, in one transaction (_complete, _not_applied, _deny,                  *)
(* _undelivered_control), and cancelling is what CANCELED means.             *)
THEOREM BookAgrees == Spec => []BookConsistent
<1>1. ASSUME IInv PROVE BookConsistent
  <2>1. TypeOK /\ CancelDecides
    BY <1>1 DEF IInv
  <2>2. ASSUME book.attempt # 0
        PROVE  /\ book.action \in ActionEnds <=> Ended(book)
               /\ book.asg \in RunEnds <=> Ended(book)
               /\ book.outbox = "DONE" <=> Ended(book)
               /\ book.turns[book.attempt] \in {"free", "spent"} <=> Ended(book)
               /\ book.task = book.run <=> Ended(book)
    <3>1. CASE OpenRun
      <4>1. book.run \in DOMAIN Edges.run \cup {None} /\ book.task = "ACTIVE"
        BY <1>1, <3>1 DEF IInv, OpenRows, OpenBook, BookType
      <4>2. book.task # book.run
        BY <4>1, Statuses DEF None
      <4> QED
        BY <1>1, <3>1, <4>2 DEF IInv, OpenRows, OpenBook, OpenRun
    <3>2. CASE Ended(book)
      BY <1>1, <2>2, <3>2 DEF IInv, EndedRows
    <3> QED
      BY <2>2, <3>1, <3>2 DEF OpenRun
  <2>5. EndTogether
    <3> DEFINE closed == {book.action \in ActionEnds, book.asg \in RunEnds, book.outbox = "DONE",
                          book.turns[book.attempt] \in {"free", "spent"}, book.task = book.run}
    <3>1. SUFFICES ASSUME book.attempt # 0 PROVE closed = {Ended(book)}
      BY DEF EndTogether
    <3>2. /\ (book.action \in ActionEnds) = Ended(book) /\ (book.asg \in RunEnds) = Ended(book)
          /\ (book.outbox = "DONE") = Ended(book)
          /\ (book.turns[book.attempt] \in {"free", "spent"}) = Ended(book)
          /\ (book.task = book.run) = Ended(book)
      BY <2>2, <3>1 DEF Ended
    <3> QED
      BY <3>2, Zenon
  <2> QED
    BY <2>1, <2>5 DEF BookConsistent
<1> QED
  BY Invariance, <1>1, PTL

(* Providers see at most TurnLimit prompts of the task: every attempt whose   *)
(* prompt may have been sent holds a turn of the budget or has spent it      *)
(* (reserve, settle and every caller of _settle_reservation).                *)
THEOREM BudgetCovers == Spec => []TurnsCoverCalls
<1>1. ASSUME IInv PROVE TurnsCoverCalls
  <2>1. SUFFICES ASSUME ~core.bypassed
                 PROVE  /\ \A a \in reached : book.turns[a] \in {"HELD", "UNCERTAIN", "spent"}
                        /\ Cardinality(reached) <= TurnLimit
    BY DEF TurnsCoverCalls
  <2>2. /\ \A a \in reached : book.turns[a] \in {"HELD", "UNCERTAIN", "spent"}
        /\ TurnsTaken(book) <= TurnLimit
    BY <1>1, <2>1 DEF IInv, Budget
  <2>3. reached \subseteq Taken(book.turns)
    BY <1>1, <2>2, Types DEF Taken
  <2>4. /\ IsFiniteSet(reached) /\ Cardinality(reached) <= Cardinality(Taken(book.turns))
        /\ Cardinality(reached) \in Nat /\ Cardinality(Taken(book.turns)) \in Nat
    BY <2>3, TakenFinite, FS_Subset, FS_CardinalityType
  <2>5. TurnsTaken(book) = Cardinality(Taken(book.turns))
    BY DEF TurnsTaken, Taken
  <2> QED
    BY <2>2, <2>4, <2>5, ControlLedgerAssumption
<1> QED
  BY Invariance, <1>1, PTL

(* No backend works on a run that is shown as PAUSED or belongs to a human,   *)
(* nor is its outcome open, unless a restart called it against the intent.   *)
THEOREM PausedStandsStill == Spec => []PausedIsQuiet
<1>1. ASSUME IInv PROVE PausedIsQuiet
  BY <1>1 DEF IInv, Quiet, PausedIsQuiet, Working
<1> QED
  BY Invariance, <1>1, PTL

-----------------------------------------------------------------------------
(* The refinement of RunPromise. *)

(* The submission accepts the attempt. *)
LEMMA AcceptMoves ==
  ASSUME IInv, OpenRun, legacy.stage = "absent", stand' = [stand EXCEPT ![book.attempt] = "accepted"]
  PROVE  Core!Next
<1>1. book.attempt \in Attempts /\ stand[book.attempt] = "absent"
  BY Types DEF IInv, Standing, StandOf, OpenRun
<1> QED
  BY <1>1 DEF Core!Next, Core!Accept, Core!Move

(* A queued intent is called. *)
LEMMA CallMoves ==
  ASSUME IInv, legacy.stage = "queued", stand' = [stand EXCEPT ![book.attempt] = "called"]
  PROVE  Core!Next
<1>1. OpenRun
  BY InHandOpen DEF Settled, LegacyEnds
<1>2. book.attempt \in Attempts /\ stand[book.attempt] = "accepted"
  BY <1>1, Types DEF IInv, Standing, StandOf, OpenRun
<1> QED
  BY <1>2 DEF Core!Next, Core!Call, Core!Move

(* An end: of a run that was called any, of one that was not never success. *)
LEMMA EndMoves ==
  ASSUME IInv, ~Settled, NEW end \in LegacyEnds, stand' = [stand EXCEPT ![book.attempt] = end],
         Uncalled => end # "succeeded"
  PROVE  Core!Next
<1>1. OpenRun /\ end \in Core!Outcomes
  BY InHandOpen DEF LegacyEnds, Core!Outcomes
<1>2. book.attempt \in Attempts /\ stand[book.attempt] = StandOf(legacy.stage)
  BY <1>1, Types DEF IInv, Standing, OpenRun
<1>3. CASE Uncalled
  <2>1. StandOf(legacy.stage) = "accepted"
    BY <1>3 DEF Uncalled, StandOf
  <2> QED
    BY <1>1, <1>2, <1>3, <2>1 DEF Core!Next, Core!Refuse, Core!Move
<1>4. CASE ~Uncalled
  <2>1. StandOf(legacy.stage) = "called"
    BY <1>4 DEF Uncalled, StandOf, Settled, LegacyEnds
  <2> QED
    BY <1>1, <1>2, <2>1 DEF Core!Next, Core!Settle, Core!Move
<1> QED
  BY <1>3, <1>4

(* A report ends the attempt or leaves it where it is. *)
LEMMA LegacyMoves ==
  ASSUME IInv, ~Settled, NEW stage, NEW receipt, LegacyTo(stage, receipt),
         Uncalled => stage # "succeeded"
  PROVE  Core!Next \/ UNCHANGED stand
<1>1. CASE stage \in LegacyEnds
  BY <1>1, EndMoves DEF LegacyTo
<1>2. CASE stage \notin LegacyEnds
  BY <1>2 DEF LegacyTo
<1> QED
  BY <1>1, <1>2

(* Every step of a pass. *)
LEMMA AdvanceMoves ==
  ASSUME IInv, Advance
  PROVE  Core!Next \/ UNCHANGED stand
<1>1. CASE SubmitCommits
  <2>1. OpenRun /\ legacy.stage = "absent"
    BY <1>1, InHandOpen DEF SubmitCommits, At, IInv, Handling
  <2> QED
    BY <1>1, <2>1, AcceptMoves DEF SubmitCommits
<1>2. CASE SubmitCalls
  <2>1. legacy.stage = "queued"
    BY <1>2 DEF SubmitCalls, IInv, Handling
  <2> QED
    BY <1>2, <2>1, CallMoves DEF SubmitCalls, CallBackend
<1>3. CASE CancelQueued
  BY <1>3, LegacyMoves DEF CancelQueued, Settled, LegacyEnds
<1>4. CASE CancelKept
  BY <1>4, LegacyMoves DEF CancelKept, Settled, LegacyEnds
<1>5. CASE CancelConfirmed
  <2>1. ~Settled
    BY <1>5 DEF CancelConfirmed, IInv, Handling, Settled, LegacyEnded, At
  <2> QED
    BY <1>5, <2>1, LegacyMoves DEF CancelConfirmed
<1>6. CASE ReconcileSettles
  BY <1>6, LegacyMoves DEF ReconcileSettles, Settled, LegacyEnds, Uncalled
<1>7. CASE \/ AdvanceNothing \/ AdvanceOwns \/ LocalIntentAbsent \/ IntentBeforeDelivery
           \/ DispatchWaits \/ Dispatch \/ DispatchDenied \/ SubmitRefused \/ SubmitQueues
           \/ SubmitUndispatched \/ ObserveBinds \/ HoldPaused \/ MarkUnsent \/ RequestCancel
           \/ CancelRefused \/ NoCancel \/ CancelUnconfirmed \/ ReconcileSkips
  BY <1>7 DEF AdvanceNothing, AdvanceOwns, LocalIntentAbsent, IntentBeforeDelivery, DispatchWaits,
              Dispatch, DispatchDenied, SubmitRefused, SubmitQueues, SubmitUndispatched,
              ObserveBinds, HoldPaused, MarkUnsent, RequestCancel, CancelRefused, NoCancel,
              CancelUnconfirmed, ReconcileSkips, Commit, KeepLegacy
<1>8. CASE SettleEnd \/ SettleUnknown \/ SettleFollows
  BY <1>8 DEF SettleEnd, SettleUnknown, SettleFollows, Commit, KeepLegacy
<1> QED
  BY <1>1, <1>2, <1>3, <1>4, <1>5, <1>6, <1>7, <1>8 DEF Advance

(* Every step of workers, operators and time, and every crash. *)
LEMMA WorldMoves ==
  ASSUME IInv, World
  PROVE  Core!Next \/ UNCHANGED stand
<1>1. CASE WorkerReports \/ WorkerEnds \/ WorkerUnknown
  <2>1. ~Settled /\ ~Uncalled
    BY <1>1 DEF WorkerReports, WorkerEnds, WorkerUnknown, Settled, LegacyEnds, Uncalled
  <2> QED
    BY <1>1, <2>1, LegacyMoves DEF WorkerReports, WorkerEnds, WorkerUnknown
<1>2. CASE LateEnd
  BY <1>2, LegacyMoves DEF LateEnd, Settled, LegacyEnds, Uncalled
<1>3. CASE OperatorTerminates
  BY <1>3, EndMoves DEF OperatorTerminates, Settled, LegacyEnds
<1>4. CASE LeaseAges \/ GrantExpires \/ CommitFails \/ Crash \/ CrashInDispatch
  BY <1>4 DEF LeaseAges, GrantExpires, CommitFails, Crash, CrashInDispatch, Stop, KeepLegacy
<1> QED
  BY <1>1, <1>2, <1>3, <1>4 DEF World

(* The drain of the queue, a call in place, and a boot. *)
LEMMA CoreMoves ==
  ASSUME IInv, Poll \/ Drain \/ CallReturns \/ Boot
  PROVE  Core!Next \/ UNCHANGED stand
<1>1. CASE DrainCalls \/ BootCalls
  BY <1>1, CallMoves DEF DrainCalls, BootCalls, CallBackend
<1>2. CASE DrainRefuses \/ BootRefuses
  BY <1>2, LegacyMoves DEF DrainRefuses, BootRefuses, InQueue, Settled, LegacyEnds
<1>3. CASE CallReturns
  <2>1. legacy.stage = "called"
    BY <1>3 DEF CallReturns, IInv, Handling
  <2>2. ~Settled /\ ~Uncalled
    BY <2>1 DEF Settled, LegacyEnds, Uncalled
  <2> QED
    BY <1>3, <2>2, LegacyMoves DEF CallReturns
<1>4. CASE Restart
  BY <1>4, LegacyMoves DEF Restart, KeepLegacy, Settled, LegacyEnds, Uncalled
<1>5. CASE Poll \/ DrainPasses \/ BootEnds
  BY <1>5 DEF Poll, DrainPasses, BootEnds, KeepLegacy
<1> QED
  BY <1>1, <1>2, <1>3, <1>4, <1>5 DEF Drain, Boot

(* The legacy run of every attempt moves as RunPromise says: it is called at  *)
(* most once, ends once, and succeeds only after it was called, whatever     *)
(* commands, crashes, restarts and late results come between.                *)
THEOREM PromiseHolds == Spec => PromiseKept
<1>1. Init => Core!Init
  BY DEF Init, Core!Init
<1>2. ASSUME IInv, [Next]_vars PROVE [Core!Next]_stand
  <2>1. CASE Command
    BY <2>1 DEF Command, TaskCreate, RunStart, RunPause, RunCancel, RunResume, RunTakeover,
                RunReturnControl, GrantRevoke, KeepLegacy
  <2>2. CASE UNCHANGED vars
    BY <2>2 DEF vars
  <2> QED
    BY <1>2, <2>1, <2>2, AdvanceMoves, WorldMoves, CoreMoves DEF Next, CoreStep
<1> QED
  BY Invariance, <1>1, <1>2, PTL DEF Spec, PromiseKept, Core!Spec

-----------------------------------------------------------------------------
(* The one way past the intent: a call of a backend that legacy_may_advance   *)
(* does not allow is made by the drain that ends the restore of the          *)
(* scheduler, and by nothing else (the core's guard is not installed yet).   *)
CallsAskUnlessBooting == [][reached' \subseteq reached \/ MayAdvance(book) \/ At("boot")]_vars

(* Every other call of a backend asks legacy_may_advance first. *)
THEOREM OnlyBootBypasses == Spec => CallsAskUnlessBooting
<1>1. ASSUME Next PROVE reached' \subseteq reached \/ MayAdvance(book) \/ At("boot")
  <2>1. \A stage, receipt : LegacyTo(stage, receipt) => reached' \subseteq reached
    BY DEF LegacyTo
  <2>2. CASE Command
    BY <2>2 DEF Command, TaskCreate, RunStart, RunPause, RunCancel, RunResume, RunTakeover,
                RunReturnControl, GrantRevoke, KeepLegacy
  <2>3. CASE SubmitCalls \/ DrainCalls \/ BootCalls
    BY <2>3 DEF SubmitCalls, DrainCalls, BootCalls, Guarded
  <2>4. CASE CancelQueued \/ CancelKept \/ CancelConfirmed \/ ReconcileSettles \/ DrainRefuses
             \/ CallReturns \/ BootRefuses \/ Restart
    BY <2>1, <2>4 DEF CancelQueued, CancelKept, CancelConfirmed, ReconcileSettles, DrainRefuses,
                      CallReturns, BootRefuses, Restart, KeepLegacy
  <2>5. CASE WorkerReports \/ WorkerEnds \/ WorkerUnknown \/ LateEnd
    BY <2>1, <2>5 DEF WorkerReports, WorkerEnds, WorkerUnknown, LateEnd
  <2>6. CASE \/ AdvanceNothing \/ AdvanceOwns \/ LocalIntentAbsent \/ IntentBeforeDelivery
             \/ DispatchWaits \/ Dispatch \/ DispatchDenied \/ SubmitRefused \/ SubmitCommits
             \/ SubmitQueues \/ SubmitUndispatched \/ ObserveBinds \/ HoldPaused \/ MarkUnsent
             \/ RequestCancel \/ CancelRefused \/ NoCancel \/ CancelUnconfirmed \/ ReconcileSkips
    BY <2>6 DEF AdvanceNothing, AdvanceOwns, LocalIntentAbsent, IntentBeforeDelivery,
                DispatchWaits, Dispatch, DispatchDenied, SubmitRefused, SubmitCommits, SubmitQueues,
                SubmitUndispatched, ObserveBinds, HoldPaused, MarkUnsent, RequestCancel,
                CancelRefused, NoCancel, CancelUnconfirmed, ReconcileSkips, Commit, KeepLegacy
  <2>7. CASE SettleEnd \/ SettleUnknown \/ SettleFollows
    BY <2>7 DEF SettleEnd, SettleUnknown, SettleFollows, Commit, KeepLegacy
  <2>8. CASE \/ Poll \/ DrainPasses \/ BootEnds \/ OperatorTerminates \/ LeaseAges \/ GrantExpires
             \/ CommitFails \/ Crash \/ CrashInDispatch
    BY <2>8 DEF Poll, DrainPasses, BootEnds, OperatorTerminates, LeaseAges, GrantExpires,
                CommitFails, Crash, CrashInDispatch, Stop, KeepLegacy
  <2>9. CASE Advance
    BY <2>3, <2>4, <2>6, <2>7, <2>9, Zenon DEF Advance
  <2>10. CASE Drain \/ Boot \/ World
    BY <2>3, <2>4, <2>5, <2>8, <2>10, Zenon DEF Drain, Boot, World
  <2> QED
    BY <1>1, <2>2, <2>4, <2>8, <2>9, <2>10, Zenon DEF Next, CoreStep
<1>2. ASSUME [Next]_vars PROVE [reached' \subseteq reached \/ MayAdvance(book) \/ At("boot")]_vars
  BY <1>1, <1>2
<1> QED
  BY <1>2, PTL DEF Spec, CallsAskUnlessBooting

-----------------------------------------------------------------------------
(* Which transitions are refused. *)

(* What the book of a run that goes on and its legacy run tell of each other. *)
Meets ==
  /\ ~book.dispatched => legacy.stage = "absent"
  /\ book.dispatched /\ legacy.stage = "absent" => book.run \in {"PREPARING", "PAUSING", "CANCELING"}
  /\ legacy.stage \in {"absent", "queued"} => book.session \in {None, "CREATING"}
  /\ book.run = "PAUSED" /\ ~core.bypassed => legacy.receipt = "none"
  /\ At("submit") => book.dispatched

Shape == OpenRun => Shaped(book) /\ Meets

(* A refused transition is a late proof or the doing of a restart. *)
Spared == refused' # refused => LateProof \/ core.bypassed

(* How a step may move the legacy run and the state-owning thread. *)
Progress ==
  /\ \/ legacy'.stage = legacy.stage
     \/ legacy'.stage \notin {"absent", "queued"} /\ legacy.stage # "absent"
     \/ legacy'.stage = "queued" /\ At("submit")
  /\ legacy'.receipt # "none" => legacy'.receipt = legacy.receipt \/ Working
  /\ core.bypassed => core'.bypassed
  /\ At("submit")' => At("submit")

(* A step that leaves the rows shaped. *)
LEMMA Reshapes ==
  ASSUME IInv, Shape, OpenRun, Progress, Shaped(book'), Bindings(book, book'),
         book.dispatched /\ legacy.stage = "absent" =>
           book'.run \in {"PREPARING", "PAUSING", "CANCELING"},
         book'.run = "PAUSED" => book.run = "PAUSED" \/ legacy'.receipt = "none"
  PROVE  Shape'
<1>1. Meets /\ book'.dispatched = book.dispatched /\ book'.session = book.session
  BY DEF Shape, Bindings
<1>2. At("submit") => legacy.stage = "absent" /\ book.dispatched
  BY <1>1 DEF Meets, IInv, Handling
<1>3. ~book'.dispatched => legacy'.stage = "absent"
  BY <1>1, <1>2 DEF Meets, Progress
<1>4. legacy'.stage = "absent" => legacy.stage = "absent"
  BY DEF Progress
<1>5. legacy'.stage \in {"absent", "queued"} => book'.session \in {None, "CREATING"}
  <2>1. legacy'.stage \in {"absent", "queued"} => legacy.stage \in {"absent", "queued"}
    BY <1>2 DEF Progress
  <2> QED
    BY <1>1, <2>1 DEF Meets
<1>6. book'.run = "PAUSED" /\ ~core'.bypassed => legacy'.receipt = "none"
  <2>1. book.run = "PAUSED" /\ ~core.bypassed => ~Working /\ legacy.receipt = "none"
    BY <1>1 DEF Meets, IInv, Quiet
  <2> QED
    BY <2>1 DEF Progress
<1>7. Meets'
  BY <1>1, <1>3, <1>4, <1>5, <1>6 DEF Meets, Progress
<1> QED
  BY <1>7 DEF Shape

(* A step that leaves the book alone. *)
LEMMA LeftAlone ==
  ASSUME IInv, Shape, Progress, UNCHANGED book
  PROVE  Shape'
<1>1. CASE OpenRun
  <2>1. Shaped(book) /\ Meets
    BY <1>1 DEF Shape
  <2>2. Shaped(book') /\ Bindings(book, book')
    BY <2>1 DEF Bindings
  <2>3. book.dispatched /\ legacy.stage = "absent" =>
          book'.run \in {"PREPARING", "PAUSING", "CANCELING"}
    BY <2>1 DEF Meets
  <2>4. book'.run = "PAUSED" => book.run = "PAUSED"
    OBVIOUS
  <2> QED
    BY <1>1, <2>2, <2>3, <2>4, Reshapes
<1>2. CASE ~OpenRun
  BY <1>2 DEF Shape, OpenRun, Ended
<1> QED
  BY <1>1, <1>2

(* A step that moves the thread, not to the submission, and leaves the legacy *)
(* run alone.                                                                *)
LEMMA QuietProgress ==
  ASSUME KeepLegacy, core.bypassed => core'.bypassed, core'.pc # "submit" \/ core'.pc = core.pc
  PROVE  Progress
BY DEF Progress, KeepLegacy, At

(* A transaction that ended the run. *)
LEMMA EndedShape ==
  ASSUME NEW end \in RunEnds, book'.run = end
  PROVE  Shape'
BY DEF Shape, OpenRun, Ended

(* One transaction of advance: whether it is refused. *)
LEMMA CommitTaken ==
  ASSUME IInv, NEW x, NEW next \in Pcs, Commit(x, next)
  PROVE  /\ KeepLegacy /\ core'.bypassed = core.bypassed
         /\ \/ x.ok /\ book' = x /\ core'.pc = next /\ refused' = refused
            \/ ~x.ok /\ UNCHANGED book /\ core'.pc = "idle"
<1>1. core \in CoreType
  BY Types
<1>2. CASE x.ok
  BY <1>1, <1>2 DEF Commit, Goto, CoreType
<1>3. CASE ~x.ok
  BY <1>1, <1>3 DEF Commit, Goto, CoreType
<1> QED
  BY <1>2, <1>3

(* A transaction that ends the run, refused as a late proof at most. *)
LEMMA EndingTaken ==
  ASSUME IInv, Shape, NEW x, Commit(x, "drain"), x.ok \/ LateProof \/ core.bypassed,
         x.ok => x.run \in RunEnds
  PROVE  Shape' /\ Spared
<1>1. /\ KeepLegacy /\ core'.bypassed = core.bypassed
      /\ \/ x.ok /\ book' = x /\ core'.pc = "drain" /\ refused' = refused
         \/ ~x.ok /\ UNCHANGED book /\ core'.pc = "idle"
  BY CommitTaken DEF Pcs
<1>2. CASE x.ok /\ book' = x /\ core'.pc = "drain" /\ refused' = refused
  BY <1>2, EndedShape DEF Spared
<1>3. CASE ~x.ok /\ UNCHANGED book /\ core'.pc = "idle"
  BY <1>1, <1>3, QuietProgress, LeftAlone DEF Spared
<1> QED
  BY <1>1, <1>2, <1>3

(* A transaction after which the run goes on, never refused. *)
LEMMA GoingOnTaken ==
  ASSUME IInv, Shape, OpenRun, NEW x, NEW next \in Pcs \ {"submit"}, Commit(x, next),
         x.ok, Shaped(x), Bindings(book, x),
         book.dispatched /\ legacy.stage = "absent" => x.run \in {"PREPARING", "PAUSING", "CANCELING"},
         x.run = "PAUSED" => book.run = "PAUSED" \/ legacy.receipt = "none"
  PROVE  Shape' /\ Spared
<1>1. KeepLegacy /\ core'.bypassed = core.bypassed /\ book' = x /\ core'.pc = next /\ refused' = refused
  BY CommitTaken
<1>2. Progress
  BY <1>1, QuietProgress
<1>3. legacy' = legacy
  BY <1>1 DEF KeepLegacy
<1> QED
  BY <1>1, <1>2, <1>3, Reshapes DEF Spared

(* What a pass has in hand: a delivery was marked when an intent exists.     *)
LEMMA OwnedFacts ==
  ASSUME IInv, Shape, OpenRun
  PROVE  /\ OpenBook(book) /\ Shaped(book) /\ Meets
         /\ OpenBook(Owned(book)) /\ Shaped(Owned(book)) /\ Bindings(book, Owned(book))
         /\ Owned(book).run = book.run /\ Owned(book).desired = book.desired
         /\ Owned(book).unsent = book.unsent
<1>1. OpenBook(book) /\ OpenBook(Owned(book)) /\ Shaped(book) /\ Meets
  BY InHandOpen DEF Shape
<1>2. SameShape(book, Owned(book)) /\ Owned(book).unsent = book.unsent
  BY <1>1, OwnedShape, OwnedOpen DEF OpenBook, SameIntent
<1> QED
  BY <1>1, <1>2, SameShaped DEF SameShape, Bindings

-----------------------------------------------------------------------------
(* The transactions of advance, one by one. *)

(* _own *)
LEMMA OwnsTaken ==
  ASSUME IInv, Shape, AdvanceOwns
  PROVE  Shape' /\ Spared
<1>1. OpenRun /\ Commit(Owned(book), "owned")
  BY InHandOpen DEF AdvanceOwns
<1>2. "owned" \in Pcs \ {"submit"}
  BY DEF Pcs
<1>3. Owned(book).ok
  BY <1>1, OwnedFacts DEF OpenBook
<1> QED
  BY <1>1, <1>2, <1>3, OwnedFacts, GoingOnTaken DEF Meets

(* _not_applied of what was submitted at most: the run is not PAUSED. *)
LEMMA AbsentTaken ==
  ASSUME IInv, Shape, LocalIntentAbsent \/ SubmitRefused
  PROVE  Shape' /\ Spared
<1> DEFINE o == Owned(book)
           end == IF o.desired = "CANCELED" THEN "CANCELED" ELSE "FAILED"
<1>1. OpenRun /\ legacy.stage = "absent" /\ Commit(NotApplied(o), "drain")
  BY InHandOpen DEF LocalIntentAbsent, SubmitRefused, At, IInv, Handling
<1>2. book.dispatched
  BY <1>1, OwnedFacts DEF LocalIntentAbsent, SubmitRefused, Meets
<1>3. book.run # "PAUSED"
  BY <1>1, <1>2, OwnedFacts DEF Meets
<1>4. OpenBook(o) /\ Shaped(o) /\ o.dispatched /\ o.run # "PAUSED"
  BY <1>1, <1>2, <1>3, OwnedFacts DEF Bindings
<1> HIDE DEF o
<1>5. NotApplied(o).ok
  BY <1>4, NotAppliedTaken
<1>6. NotApplied(o).run \in RunEnds
  BY <1>4, <1>5, NotAppliedEnds DEF Ends, RunEnds
<1> QED
  BY <1>1, <1>5, <1>6, EndingTaken

(* _deny *)
LEMMA DenialTaken ==
  ASSUME IInv, Shape, DispatchDenied
  PROVE  Shape' /\ Spared
<1>1. OpenRun /\ ~book.dispatched /\ book.desired = "RUNNING" /\ Commit(Denied(book), "drain")
  BY InHandOpen DEF DispatchDenied, NotDelivered, At
<1>2. Denied(book).ok
  BY <1>1, OwnedFacts, DeniedTaken
<1>3. Denied(book).run \in RunEnds
  BY <1>1, <1>2, OwnedFacts, DeniedEnds DEF Ends, RunEnds
<1> QED
  BY <1>1, <1>2, <1>3, EndingTaken

(* _dispatch *)
LEMMA DispatchTaken ==
  ASSUME IInv, Shape, Dispatch
  PROVE  Shape' /\ Spared
<1> DEFINE x == Delivering(book)
<1>1. /\ OpenRun /\ legacy.stage = "absent" /\ ~book.dispatched /\ book.desired = "RUNNING"
      /\ Commit(x, "submit")
  BY InHandOpen DEF Dispatch, NotDelivered, At
<1>2. x.ok /\ Shaped(x) /\ x.dispatched /\ x.run = "PREPARING" /\ x.session = book.session
  BY <1>1, OwnedFacts, DeliveringTaken
<1> HIDE DEF x
<1>3. /\ KeepLegacy /\ book' = x /\ core'.pc = "submit" /\ refused' = refused
  BY <1>1, <1>2, CommitTaken DEF Pcs
<1>4. book.session \in {None, "CREATING"}
  BY <1>1, OwnedFacts DEF Meets
<1>5. Meets'
  BY <1>1, <1>2, <1>3, <1>4 DEF Meets, KeepLegacy
<1> QED
  BY <1>2, <1>3, <1>5 DEF Shape, Spared

(* _undelivered_control *)
LEMMA UndeliveredIsTaken ==
  ASSUME IInv, Shape, IntentBeforeDelivery \/ HoldPaused
  PROVE  Shape' /\ Spared
<1>1. OpenRun /\ legacy.stage \in {"absent", "queued"}
  BY InHandOpen DEF IntentBeforeDelivery, HoldPaused, At
<1>2. /\ "drain" \in Pcs \ {"submit"} /\ "CANCELED" \in RunEnds
      /\ book.desired \in {"RUNNING", "PAUSED", "CANCELED"}
      /\ legacy.receipt = "none"
  BY <1>1, Types DEF Pcs, RunEnds, BookType, IInv, Evidence, LegacyEnded, LegacyEnds
<1>3. ASSUME NEW x, OpenBook(x), Shaped(x), x.desired = "PAUSED", Bindings(book, x),
             Commit(Undelivered(x), "drain"), ~(book.dispatched /\ legacy.stage = "absent")
      PROVE  Shape' /\ Spared
  <2> DEFINE y == Undelivered(x)
  <2>1. y.ok /\ Shaped(y) /\ Bindings(x, y)
    BY <1>3, UndeliveredTaken
  <2> HIDE DEF y
  <2>2. Bindings(book, y) /\ Commit(y, "drain")
    BY <1>3, <2>1 DEF Bindings, y
  <2> QED
    BY <1>1, <1>2, <1>3, <2>1, <2>2, GoingOnTaken
<1>4. CASE HoldPaused
  BY <1>1, <1>3, <1>4, OwnedFacts DEF HoldPaused
<1>5. CASE IntentBeforeDelivery /\ book.desired = "PAUSED"
  <2>1. Bindings(book, book)
    BY DEF Bindings
  <2> QED
    BY <1>1, <1>3, <1>5, <2>1, OwnedFacts DEF IntentBeforeDelivery
<1>6. CASE IntentBeforeDelivery /\ book.desired = "CANCELED"
  <2>1. ~book.dispatched /\ Commit(Undelivered(book), "drain")
    BY <1>6 DEF IntentBeforeDelivery
  <2>2. Undelivered(book).ok
    BY <1>1, <1>6, <2>1, OwnedFacts, UndeliveredTaken
  <2>3. Undelivered(book) = CanceledUnapplied(book)
    BY <1>6 DEF Undelivered
  <2>4. book \in BookType /\ book.attempt # 0
    BY <1>1, OwnedFacts DEF OpenBook
  <2>5. Undelivered(book).run \in RunEnds
    BY <1>2, <2>2, <2>3, <2>4, CanceledUnappliedEnds DEF Ends
  <2> QED
    BY <2>1, <2>2, <2>5, EndingTaken
<1>7. IntentBeforeDelivery => book.desired # "RUNNING"
  BY DEF IntentBeforeDelivery
<1> QED
  BY <1>2, <1>4, <1>5, <1>6, <1>7

(* _bind_session *)
LEMMA BindingTaken ==
  ASSUME IInv, Shape, ObserveBinds
  PROVE  Shape' /\ Spared
<1> DEFINE o == Owned(book)
           status == SessionOf(legacy.stage)
           x == Bound(o, status)
<1>1. OpenRun /\ legacy.stage # "absent" /\ Commit(x, "control")
  BY InHandOpen DEF ObserveBinds, At
<1>2. status \in {"CREATING", "IDLE", "BUSY", "DISCONNECTED"}
  BY SessionOfType
<1>3. legacy \in LegacyType
  BY Types
<1>4. /\ status = "CREATING" => legacy.stage = "queued"
      /\ legacy.stage = "queued" => status = "CREATING"
  BY <1>3 DEF SessionOf, LegacyType, Stages, LegacyEnds
<1>5. OpenBook(o) /\ Shaped(o) /\ Bindings(book, o) /\ o.run = book.run /\ Meets
  BY <1>1, OwnedFacts
<1>6. status = "CREATING" => o.session \in {None, "CREATING"}
  BY <1>4, <1>5 DEF Meets, Bindings
<1> HIDE DEF o, status
<1>7. x.ok /\ Shaped(x) /\ x.dispatched = o.dispatched /\ x.session = status /\ x.run = o.run
  BY <1>2, <1>5, <1>6, BoundTaken
<1> HIDE DEF x
<1>8. /\ KeepLegacy /\ core'.bypassed = core.bypassed /\ book' = x /\ core'.pc = "control"
      /\ refused' = refused
  BY <1>1, <1>7, CommitTaken DEF Pcs
<1>9. Meets'
  BY <1>1, <1>4, <1>5, <1>7, <1>8 DEF Meets, KeepLegacy, Bindings, At
<1> QED
  BY <1>7, <1>8, <1>9 DEF Shape, Spared

(* The mark of a cancelled intent that was never delivered. *)
LEMMA MarkTaken ==
  ASSUME IInv, Shape, MarkUnsent
  PROVE  Shape' /\ Spared
<1> DEFINE x == [book EXCEPT !.unsent = TRUE]
<1>1. OpenRun /\ legacy.stage = "queued" /\ Commit(x, "control")
  BY InHandOpen DEF MarkUnsent, At
<1>2. SameShape(book, x) /\ x.ok
  BY <1>1, OwnedFacts DEF OpenBook, BookType, SameShape
<1> HIDE DEF x
<1>3. Shaped(x) /\ Bindings(book, x) /\ x.run = book.run
  BY <1>1, <1>2, OwnedFacts, SameShaped DEF SameShape, Bindings
<1>4. "control" \in Pcs \ {"submit"}
  BY DEF Pcs
<1> QED
  BY <1>1, <1>2, <1>3, <1>4, GoingOnTaken

(* The Run follows the legacy run. *)
LEMMA FollowingTaken ==
  ASSUME NEW x, OpenBook(x), Shaped(x), x.dispatched, x.desired = "RUNNING"
  PROVE  /\ Following(x).ok /\ Shaped(Following(x)) /\ Bindings(x, Following(x))
         /\ Following(x).run # "PAUSED"
<1> DEFINE y == IF x.action = "UNKNOWN_REMOTE" THEN Move(x, "action", "EXECUTING") ELSE x
           to == IF legacy.stage = "waiting" THEN "WAITING" ELSE "RUNNING"
           z == Move(y, "run", to)
<1>0. x \in BookType /\ x.ok
  BY OpenFacts
<1>1. Following(x) = z
  BY DEF Following
<1>2. /\ x.action \in {"EXECUTING", "UNKNOWN_REMOTE"} /\ x.asg = "RUNNING"
      /\ x.run \in {"PREPARING", "RUNNING", "WAITING", "RECONCILING"}
  BY DEF Shaped
<1>3. /\ y \in BookType /\ y.ok /\ y.run = x.run /\ y.action = "EXECUTING"
      /\ y.asg = "RUNNING" /\ y.session = x.session /\ Beside(x, y)
  <2>1. CASE x.action = "UNKNOWN_REMOTE"
    <3>1. y = Move(x, "action", "EXECUTING")
      BY <2>1
    <3> HIDE DEF y
    <3> QED
      BY <1>0, <1>2, <2>1, <3>1, ActionTaken, ActionEdges, EachStatus
  <2>2. CASE x.action = "EXECUTING"
    <3>1. y = x
      BY <2>2
    <3> HIDE DEF y
    <3> QED
      BY <1>0, <1>2, <2>2, <3>1 DEF Beside, SameIntent
  <2> QED
    BY <1>2, <2>1, <2>2
<1>4. to \in {"WAITING", "RUNNING"} /\ to \in DOMAIN Edges.run
  BY EachStatus
<1> HIDE DEF y, to
<1>5. y.run = to \/ to \in Edges.run[y.run]
  BY <1>2, <1>3, <1>4, RunEdges
<1>6. /\ z.ok /\ z.run = to /\ z.action = "EXECUTING" /\ z.asg = "RUNNING"
      /\ z.session = x.session /\ Beside(y, z)
  BY <1>3, <1>4, <1>5, RunTaken
<1> HIDE DEF z
<1>7. z.desired = "RUNNING" /\ Bindings(x, z)
  BY <1>3, <1>6 DEF Beside, SameIntent, Bindings
<1>8. Shaped(z)
  BY <1>4, <1>6, <1>7 DEF Shaped, Bindings
<1> QED
  BY <1>1, <1>4, <1>6, <1>7, <1>8

(* _observe, last transaction, of a run that is not over. *)
LEMMA ObservationTaken ==
  ASSUME IInv, Shape, SettleUnknown \/ SettleFollows
  PROVE  Shape' /\ Spared
<1> DEFINE o == Owned(book)
<1>1. OpenRun /\ legacy.stage # "absent" /\ "drain" \in Pcs \ {"submit"}
  BY InHandOpen DEF SettleUnknown, SettleFollows, At, Pcs
<1>2. /\ OpenBook(o) /\ Shaped(o) /\ Bindings(book, o) /\ o.run = book.run
      /\ o.desired = book.desired /\ o.dispatched /\ o.ok
  BY <1>1, OwnedFacts DEF Meets, Bindings, OpenBook
<1>3. ASSUME NEW x, x.ok, Shaped(x), Bindings(o, x), Commit(x, "drain"),
             x.run = "PAUSED" => book.run = "PAUSED"
      PROVE  Shape' /\ Spared
  <2>1. Bindings(book, x)
    BY <1>2, <1>3 DEF Bindings
  <2> QED
    BY <1>1, <1>3, <2>1, GoingOnTaken
<1>4. CASE SettleUnknown
  <2> DEFINE x == Unknown(o)
  <2>1. Commit(x, "drain")
    BY <1>4 DEF SettleUnknown
  <2>2. x.ok /\ Shaped(x) /\ Bindings(o, x)
    BY <1>2, UnknownTaken
  <2>3. x.run = "RECONCILING"
    BY <1>2, <2>2, UnknownGoesOn
  <2> HIDE DEF x
  <2> QED
    BY <1>3, <2>1, <2>2, <2>3
<1>5. CASE SettleFollows /\ book.desired = "RUNNING"
  <2> DEFINE x == Following(o)
  <2>1. Commit(x, "drain")
    BY <1>5 DEF SettleFollows
  <2>2. x.ok /\ Shaped(x) /\ Bindings(o, x) /\ x.run # "PAUSED"
    BY <1>2, <1>5, FollowingTaken
  <2> HIDE DEF x
  <2> QED
    BY <1>3, <2>1, <2>2
<1>6. CASE SettleFollows /\ book.desired # "RUNNING"
  <2>1. Commit(o, "drain") /\ Bindings(o, o)
    BY <1>6 DEF SettleFollows, Bindings
  <2> QED
    BY <1>2, <1>3, <2>1
<1> QED
  BY <1>4, <1>5, <1>6

(* _observe, last transaction, of a run that is over: one of which nothing   *)
(* was sent is refused if its outcome was taken for unknown before.          *)
LEMMA SettlementTaken ==
  ASSUME IInv, Shape, SettleEnd
  PROVE  Shape' /\ Spared
<1> DEFINE o == Owned(book)
<1>1. OpenRun /\ legacy.stage # "absent" /\ "drain" \in Pcs \ {"submit"}
  BY InHandOpen DEF SettleEnd, At, Pcs, LegacyEnded, LegacyEnds
<1>2. /\ OpenBook(o) /\ Shaped(o) /\ Bindings(book, o) /\ o.run = book.run
      /\ o.desired = book.desired /\ o.unsent = book.unsent /\ o.dispatched /\ Meets
  BY <1>1, OwnedFacts DEF Meets, Bindings
<1> HIDE DEF o
<1>3. CASE legacy.receipt = "nospawn" \/ (o.unsent /\ legacy.receipt # "notsent")
  <2> DEFINE x == CancelNotApplied(o)
  <2>1. Commit(x, "drain")
    BY <1>3 DEF SettleEnd, o
  <2>2. o.desired = "CANCELED"
    BY <1>2, <1>3 DEF IInv, Evidence
  <2>3. x.ok \/ LateProof
    <3>1. o.run # "RECONCILING" => x.ok
      BY <1>2, <2>2, CancelNotAppliedTaken
    <3> QED
      BY <1>2, <1>3, <3>1 DEF LateProof
  <2>4. x.ok => x.run \in RunEnds
    BY <1>2, CancelNotAppliedEnds DEF Ends, RunEnds
  <2> HIDE DEF x
  <2> QED
    BY <2>1, <2>3, <2>4, EndingTaken
<1>4. CASE legacy.receipt = "notsent"
  <2> DEFINE x == NotApplied(o)
  <2>1. Commit(x, "drain")
    BY <1>4 DEF SettleEnd, o
  <2>2. o.run # "PAUSED" \/ core.bypassed
    BY <1>2, <1>4 DEF Meets
  <2>3. x.ok \/ core.bypassed
    BY <1>2, <2>2, NotAppliedTaken
  <2>4. x.ok => x.run \in RunEnds
    BY <1>2, NotAppliedEnds DEF Ends, RunEnds
  <2> HIDE DEF x
  <2> QED
    BY <2>1, <2>3, <2>4, EndingTaken
<1>5. CASE legacy.receipt \notin {"nospawn", "notsent"} /\ ~o.unsent /\ o.desired = "PAUSED"
  <2> DEFINE x == PausedEnd(o)
  <2>1. Commit(x, "drain")
    BY <1>5 DEF SettleEnd, o
  <2>2. x.ok /\ Shaped(x) /\ Bindings(o, x)
    BY <1>2, <1>5, PausedEndTaken
  <2> HIDE DEF x
  <2>3. Bindings(book, x)
    BY <1>2, <2>2 DEF Bindings
  <2>4. legacy.receipt = "none"
    BY <1>5, Types DEF LegacyType, Receipts
  <2> QED
    BY <1>1, <2>1, <2>2, <2>3, <2>4, GoingOnTaken
<1>6. CASE legacy.receipt \notin {"nospawn", "notsent"} /\ ~o.unsent /\ o.desired # "PAUSED"
  <2>1. PICK passed \in MayPass : Commit(Completed(o, passed), "drain")
    BY <1>6 DEF SettleEnd, o
  <2>2. passed \in BOOLEAN
    BY DEF MayPass
  <2> DEFINE x == Completed(o, passed)
  <2>3. x.ok
    BY <1>2, <1>6, <2>2, CompletedTaken
  <2>4. x.run \in RunEnds
    <3>1. PICK end \in RunEnds : Ends(o, x, end, IF o.unsent THEN "free" ELSE "spent")
      BY <1>2, <2>2, <2>3, CompletedEnds
    <3> QED
      BY <3>1 DEF Ends
  <2>5. Commit(x, "drain")
    BY <2>1
  <2> HIDE DEF x
  <2> QED
    BY <2>3, <2>4, <2>5, EndingTaken
<1> QED
  BY <1>3, <1>4, <1>5, <1>6

-----------------------------------------------------------------------------
(* Commands leave the rows shaped. *)

(* A command that changes the intent of a run that goes on. *)
LEMMA IntentShapes ==
  ASSUME IInv, Shape, OpenRun, NEW c, NEW x, Commanded(c, x), KeepLegacy,
         Shaped(x), Bindings(book, x),
         book.dispatched /\ legacy.stage = "absent" => x.run \in {"PREPARING", "PAUSING", "CANCELING"},
         x.run = "PAUSED" => book.run = "PAUSED"
  PROVE  Shape'
<1>1. core'.pc = "advance" /\ core'.bypassed = core.bypassed /\ book' = x
  BY Types DEF Commanded, Goto, CoreType
<1>2. Progress
  BY <1>1, QuietProgress
<1> QED
  BY <1>1, <1>2, Reshapes

LEMMA CommandShapes ==
  ASSUME IInv, Shape, Command
  PROVE  Shape'
<1>1. CASE TaskCreate
  <2>1. book.attempt = 0
    BY <1>1 DEF TaskCreate, IInv, OpenRows, OpenBook, EndedRows, OpenRun, None, Ended, RunEnds
  <2> DEFINE d == [book EXCEPT !.task = "DRAFT"]
             x == Move(d, "task", "READY")
  <2>2. d \in BookType /\ d.attempt = 0
    BY <2>1, Types DEF BookType, Edges
  <2> HIDE DEF d
  <2>3. x.attempt = 0
    BY <2>2, MoveTask DEF Beside
  <2>4. book' = x
    BY <1>1 DEF TaskCreate, Commanded, d
  <2> HIDE DEF x
  <2> QED
    BY <2>3, <2>4 DEF Shape, OpenRun
<1>2. CASE RunStart
  <2> DEFINE x == Admitted(book)
  <2>1. book' = x /\ x.ok /\ legacy' = NoLegacy /\ core'.pc = "advance"
    BY <1>2, Types DEF RunStart, Commanded, Goto, CoreType
  <2>2. /\ x.run = "QUEUED" /\ x.desired = "RUNNING" /\ x.action = "ADMITTED" /\ x.asg = "READY"
        /\ x.session = None /\ ~x.dispatched
    BY <1>2, <2>1, Types, AdmittedOpens DEF RunStart
  <2> HIDE DEF x
  <2>3. Shaped(x)
    BY <2>2 DEF Shaped
  <2>4. Meets'
    BY <2>1, <2>2 DEF Meets, NoLegacy, At
  <2> QED
    BY <2>1, <2>3, <2>4 DEF Shape
<1>3. CASE RunPause \/ RunTakeover
  <2> DEFINE p == Pausing(book)
             t == [p EXCEPT !.takeover = TRUE]
  <2>1. OpenRun /\ book.desired # "CANCELED" /\ KeepLegacy
    BY <1>3 DEF RunPause, RunTakeover
  <2>2. p \in BookType
    BY Types, PausingType
  <2>3. (RunPause => Commanded("pause", p) /\ p.ok) /\ (RunTakeover => Commanded("takeover", t) /\ t.ok)
    BY DEF RunPause, RunTakeover, Commanded
  <2>4. p.ok
    <3> HIDE DEF p
    <3> QED
      BY <1>3, <2>2, <2>3 DEF BookType
  <2>5. Shaped(p) /\ Bindings(book, p)
    BY <2>1, <2>4, OwnedFacts, PausingShaped
  <2>6. (p.run = "PAUSED" => book.run = "PAUSED") /\ p.desired = "PAUSED"
    BY <2>1, <2>4, OwnedFacts, PausingGoesOn
  <2> HIDE DEF p
  <2>7. book.dispatched /\ legacy.stage = "absent" => p.run \in {"PREPARING", "PAUSING", "CANCELING"}
    <3>1. p.run \in {"PAUSING", "PAUSED"}
      BY <2>1, <2>4, OwnedFacts, PausingRun DEF p
    <3> QED
      BY <2>1, <2>6, <3>1, OwnedFacts DEF Meets
  <2>8. CASE RunPause
    BY <2>1, <2>3, <2>5, <2>6, <2>7, <2>8, IntentShapes
  <2>9. CASE RunTakeover
    <3>1. SameShape(p, t) /\ t.run = p.run
      BY <2>2 DEF BookType, SameShape
    <3> HIDE DEF t
    <3>2. Shaped(t) /\ Bindings(book, t)
      BY <2>5, <3>1, SameShaped DEF SameShape, Bindings
    <3> QED
      BY <2>1, <2>3, <2>6, <2>7, <2>9, <3>1, <3>2, IntentShapes
  <2> QED
    BY <1>3, <2>8, <2>9
<1>4. CASE RunCancel
  <2> DEFINE x == Canceling(book)
  <2>1. OpenRun /\ KeepLegacy /\ Commanded("cancel", x) /\ x.ok
    BY <1>4 DEF RunCancel, Commanded
  <2>2. Shaped(x) /\ Bindings(book, x)
    BY <2>1, OwnedFacts, CancelingShaped
  <2>3. x.run = "CANCELING"
    BY <2>1, OwnedFacts, CancelingGoesOn
  <2> HIDE DEF x
  <2> QED
    BY <2>1, <2>2, <2>3, IntentShapes
<1>5. ASSUME OpenRun, book.run = "PAUSED", KeepLegacy, NEW y, OpenBook(y), Shaped(y),
             Bindings(book, y), NEW c, Commanded(c, Resuming(y))
      PROVE  Shape'
  <2> DEFINE x == Resuming(y)
  <2>1. x.ok
    BY <1>5 DEF Commanded
  <2>2. Shaped(x) /\ Bindings(y, x)
    BY <1>5, <2>1, ResumingShaped
  <2>3. x.run = "RECONCILING"
    BY <1>5, <2>1, ResumingGoesOn
  <2>4. Commanded(c, x)
    BY <1>5
  <2> HIDE DEF x
  <2>5. Bindings(book, x)
    BY <1>5, <2>2 DEF Bindings
  <2>6. ~(book.dispatched /\ legacy.stage = "absent")
    BY <1>5, OwnedFacts DEF Meets
  <2> QED
    BY <1>5, <2>2, <2>3, <2>4, <2>5, <2>6, IntentShapes
<1>6. CASE RunResume
  <2>1. Bindings(book, book)
    BY DEF Bindings
  <2> QED
    BY <1>5, <1>6, <2>1, OwnedFacts DEF RunResume
<1>7. CASE RunReturnControl
  <2> DEFINE y == [book EXCEPT !.owner = "runner", !.takeover = FALSE]
  <2>1. OpenRun /\ book.run = "PAUSED" /\ KeepLegacy /\ Commanded("return_control", Resuming(y))
    BY <1>7 DEF RunReturnControl, Returned
  <2>2. OpenBook(book)
    BY <2>1, OwnedFacts
  <2>3. OpenBook(y) /\ SameShape(book, y)
    BY <2>2 DEF OpenBook, BookType, SameShape
  <2> HIDE DEF y
  <2>4. Shaped(y) /\ Bindings(book, y)
    BY <2>1, <2>3, OwnedFacts, SameShaped DEF SameShape, Bindings
  <2> QED
    BY <1>5, <2>1, <2>3, <2>4
<1>8. CASE GrantRevoke
  <2> DEFINE x == [book EXCEPT !.granted = FALSE]
  <2>1. Commanded("revoke", x) /\ KeepLegacy
    BY <1>8 DEF GrantRevoke
  <2>2. SameShape(book, x) /\ x.attempt = book.attempt /\ x.run = book.run
    BY Types DEF BookType, SameShape
  <2> HIDE DEF x
  <2>3. CASE OpenRun
    <3>1. Shaped(x) /\ Bindings(book, x)
      BY <2>2, <2>3, OwnedFacts, SameShaped DEF SameShape, Bindings
    <3> QED
      BY <2>1, <2>2, <2>3, <3>1, OwnedFacts, IntentShapes DEF Meets
  <2>4. CASE ~OpenRun
    BY <2>1, <2>2, <2>4 DEF Commanded, Shape, OpenRun, Ended
  <2> QED
    BY <2>3, <2>4
<1> QED
  BY <1>1, <1>2, <1>3, <1>4, <1>6, <1>7, <1>8 DEF Command

-----------------------------------------------------------------------------
(* Steps that leave the book alone. *)

(* The legacy run comes to a stage, with a receipt if it was called. *)
LEMMA StageProgress ==
  ASSUME NEW stage, NEW receipt, LegacyTo(stage, receipt), legacy \in LegacyType,
         legacy.stage # "absent", stage \notin {"absent", "queued"},
         receipt # "none" => Working, core.bypassed => core'.bypassed,
         core'.pc # "submit" \/ core'.pc = core.pc
  PROVE  Progress
<1>1. legacy'.stage = stage /\ legacy'.receipt = receipt
  BY DEF LegacyTo, LegacyType
<1> QED
  BY <1>1 DEF Progress, At

(* It stays where it is. *)
LEMMA NoteProgress ==
  ASSUME legacy'.stage = legacy.stage, legacy'.receipt = legacy.receipt,
         core.bypassed => core'.bypassed, core'.pc # "submit" \/ core'.pc = core.pc
  PROVE  Progress
BY DEF Progress, At

(* A move of the thread to another place than the submission. *)
LEMMA GotoPlace ==
  ASSUME IInv, NEW p, Goto(p)
  PROVE  core'.pc = p /\ core'.bypassed = core.bypassed
BY Types DEF Goto, CoreType

(* Steps that only move on. *)
LEMMA MovesOnProgress ==
  ASSUME IInv,
         \/ Poll \/ AdvanceNothing \/ DispatchWaits \/ SubmitUndispatched \/ CancelRefused
         \/ NoCancel \/ CancelUnconfirmed \/ ReconcileSkips \/ DrainPasses \/ BootEnds
         \/ CommitFails
  PROVE  KeepBook /\ Progress
<1>1. PICK p \in {"advance", "drain", "owned", "reconcile", "settle", "idle"} : Goto(p)
  BY DEF Poll, AdvanceNothing, DispatchWaits, SubmitUndispatched, CancelRefused, NoCancel,
         CancelUnconfirmed, ReconcileSkips, DrainPasses, BootEnds, CommitFails
<1>2. KeepBook /\ KeepLegacy
  BY DEF Poll, AdvanceNothing, DispatchWaits, SubmitUndispatched, CancelRefused, NoCancel,
         CancelUnconfirmed, ReconcileSkips, DrainPasses, BootEnds, CommitFails
<1> QED
  BY <1>1, <1>2, GotoPlace, QuietProgress

(* The submission. *)
LEMMA SubmitProgress ==
  ASSUME IInv, SubmitCommits \/ SubmitQueues \/ SubmitCalls \/ RequestCancel
  PROVE  KeepBook /\ Progress
<1>1. legacy \in LegacyType /\ core \in CoreType
  BY Types
<1>2. CASE SubmitCommits
  <2>1. legacy'.stage = "queued" /\ legacy'.receipt = "none" /\ At("submit")
    BY <1>2 DEF SubmitCommits, NoLegacy
  <2>2. core'.pc = "accepted" /\ core'.bypassed = core.bypassed
    BY <1>2, GotoPlace DEF SubmitCommits
  <2> QED
    BY <1>2, <2>1, <2>2 DEF SubmitCommits, Progress
<1>3. CASE SubmitQueues \/ RequestCancel
  <2>1. legacy'.stage = legacy.stage /\ legacy'.receipt = legacy.receipt
    BY <1>1, <1>3 DEF SubmitQueues, RequestCancel, LegacyType
  <2>2. core'.pc \in {"owned", "cancelled"} /\ core'.bypassed = core.bypassed
    BY <1>3, GotoPlace DEF SubmitQueues, RequestCancel
  <2> QED
    BY <1>3, <2>1, <2>2, NoteProgress DEF SubmitQueues, RequestCancel
<1>4. CASE SubmitCalls
  <2>1. legacy.stage = "queued"
    BY <1>4 DEF SubmitCalls, IInv, Handling
  <2>2. /\ legacy'.stage = "called" /\ legacy'.receipt = legacy.receipt
        /\ core'.pc \in {"owned", "calling"} /\ core'.bypassed = core.bypassed
    BY <1>1, <1>4 DEF SubmitCalls, CallBackend, LegacyType, CoreType
  <2> QED
    BY <1>4, <2>1, <2>2 DEF SubmitCalls, CallBackend, Progress, At
<1> QED
  BY <1>2, <1>3, <1>4

(* The queue calls a backend. *)
LEMMA QueueProgress ==
  ASSUME IInv, DrainCalls \/ BootCalls
  PROVE  KeepBook /\ Progress
<1>1. legacy \in LegacyType /\ core \in CoreType
  BY Types
<1>2. /\ legacy.stage = "queued" /\ legacy'.stage = "called" /\ legacy'.receipt = legacy.receipt
      /\ KeepBook
  BY <1>1 DEF DrainCalls, BootCalls, CallBackend, LegacyType
<1>3. core'.pc \in {"idle", "calling"} /\ (core.bypassed => core'.bypassed)
  <2>1. CASE DrainCalls
    BY <1>1, <2>1 DEF DrainCalls, CallBackend, CoreType
  <2>2. CASE BootCalls
    BY <1>1, <2>2 DEF BootCalls, CoreType
  <2> QED
    BY <2>1, <2>2
<1> QED
  BY <1>2, <1>3 DEF Progress, At

(* A cancellation, a result, a lookup and a refusal. *)
LEMMA ResultProgress ==
  ASSUME IInv,
         \/ CancelQueued \/ CancelKept \/ CancelConfirmed \/ ReconcileSettles \/ DrainRefuses
         \/ CallReturns \/ BootRefuses
  PROVE  KeepBook /\ Progress
<1>1. legacy \in LegacyType /\ core \in CoreType
  BY Types
<1>2. /\ At("cancelled") => legacy.stage # "absent"
      /\ At("calling") => legacy.stage = "called"
  BY DEF IInv, Handling, At
<1>3. core'.pc \in {"reconcile", "idle", "settle", "owned"} /\ core'.bypassed = core.bypassed
  <2>1. core.ret \in {"idle", "owned"}
    BY <1>1 DEF CoreType
  <2>2. PICK p \in {"reconcile", "idle", "settle", "owned"} : Goto(p)
    BY <2>1 DEF CancelQueued, CancelKept, CancelConfirmed, ReconcileSettles, DrainRefuses,
                CallReturns, BootRefuses
  <2> QED
    BY <2>2, GotoPlace
<1>4. PICK stage \in LegacyEnds \cup {"kept", "waiting", "pend"}, receipt \in Receipts :
        LegacyTo(stage, receipt) /\ (receipt # "none" => legacy.stage = "called")
  <2>1. /\ {"failed", "cancelled", "succeeded"} \subseteq LegacyEnds
        /\ {"none", "notsent", "nospawn"} \subseteq Receipts
    BY DEF LegacyEnds, Receipts
  <2>2. CASE CancelQueued \/ CancelKept \/ ReconcileSettles \/ DrainRefuses \/ BootRefuses
    BY <2>1, <2>2 DEF CancelQueued, CancelKept, ReconcileSettles, DrainRefuses, BootRefuses
  <2>3. CASE CancelConfirmed
    BY <2>1, <2>3 DEF CancelConfirmed
  <2>4. CASE CallReturns
    BY <1>2, <2>1, <2>4 DEF CallReturns
  <2> QED
    BY <2>2, <2>3, <2>4
<1>5. stage \notin {"absent", "queued"} /\ (receipt # "none" => Working)
  BY <1>4 DEF LegacyEnds, Working
<1>6. legacy.stage # "absent" /\ KeepBook
  BY <1>2 DEF CancelQueued, CancelKept, CancelConfirmed, ReconcileSettles, DrainRefuses,
              CallReturns, BootRefuses, InQueue
<1> QED
  BY <1>1, <1>3, <1>4, <1>5, <1>6, StageProgress

(* What workers report and operators end. *)
LEMMA ReportProgress ==
  ASSUME IInv, WorkerReports \/ WorkerEnds \/ WorkerUnknown \/ LateEnd \/ OperatorTerminates
  PROVE  KeepBook /\ Progress
<1>1. legacy \in LegacyType
  BY Types
<1>2. core' = core /\ KeepBook /\ legacy.stage # "absent"
  BY DEF WorkerReports, WorkerEnds, WorkerUnknown, LateEnd, OperatorTerminates
<1>3. CASE OperatorTerminates
  <2>1. legacy'.stage = "cancelled" /\ legacy'.receipt = legacy.receipt
    BY <1>1, <1>3 DEF OperatorTerminates, LegacyType
  <2> QED
    BY <1>2, <2>1 DEF Progress, At
<1>4. CASE WorkerReports \/ WorkerEnds \/ WorkerUnknown \/ LateEnd
  <2>1. PICK stage \in LegacyEnds \cup {"waiting", "working", "pend"}, receipt \in Receipts :
          LegacyTo(stage, receipt) /\ (receipt # "none" => Working)
    <3>1. /\ {"failed", "cancelled"} \subseteq LegacyEnds
          /\ {"none", "notsent", "nospawn"} \subseteq Receipts
      BY DEF LegacyEnds, Receipts
    <3>2. CASE WorkerReports
      BY <3>1, <3>2 DEF WorkerReports
    <3>3. CASE WorkerEnds
      BY <3>1, <3>3 DEF WorkerEnds, Working
    <3>4. CASE WorkerUnknown
      BY <3>1, <3>4 DEF WorkerUnknown
    <3>5. CASE LateEnd
      BY <3>1, <3>5 DEF LateEnd, Working
    <3> QED
      BY <1>4, <3>2, <3>3, <3>4, <3>5
  <2>2. stage \notin {"absent", "queued"}
    BY DEF LegacyEnds
  <2> QED
    BY <1>1, <1>2, <2>1, <2>2, StageProgress
<1> QED
  BY <1>3, <1>4

(* A restart. *)
LEMMA RestartProgress ==
  ASSUME IInv, Restart
  PROVE  KeepBook /\ Progress
<1>1. legacy \in LegacyType /\ core \in CoreType
  BY Types
<1>2. KeepBook /\ core'.pc = "boot" /\ core'.bypassed = core.bypassed
  BY <1>1 DEF Restart, CoreType
<1>3. CASE KeepLegacy
  BY <1>2, <1>3, QuietProgress
<1>4. CASE legacy' = [legacy EXCEPT !.queued = TRUE]
  <2>1. legacy'.stage = legacy.stage /\ legacy'.receipt = legacy.receipt
    BY <1>1, <1>4 DEF LegacyType
  <2> QED
    BY <1>2, <2>1, NoteProgress
<1>5. CASE /\ legacy.stage # "absent"
           /\ \E stage \in {"pend", "cancelled", "failed", "kept"} : LegacyTo(stage, "none")
  <2>1. PICK stage \in {"pend", "cancelled", "failed", "kept"} : LegacyTo(stage, "none")
    BY <1>5
  <2> QED
    BY <1>1, <1>2, <1>5, <2>1, StageProgress
<1> QED
  BY <1>3, <1>4, <1>5 DEF Restart

-----------------------------------------------------------------------------
(* Time and crashes. *)

(* A step that changes nothing of the book that Shaped looks at. *)
LEMMA AgedShapes ==
  ASSUME IInv, Shape, Progress, SameShape(book, book'), book'.attempt = book.attempt
  PROVE  Shape'
<1>1. CASE OpenRun
  <2>1. Shaped(book') /\ Bindings(book, book') /\ book'.run = book.run
    BY <1>1, OwnedFacts, SameShaped DEF SameShape, Bindings
  <2> QED
    BY <1>1, <2>1, OwnedFacts, Reshapes DEF Meets
<1>2. CASE ~OpenRun
  BY <1>2 DEF SameShape, Shape, OpenRun, Ended
<1> QED
  BY <1>1, <1>2

LEMMA TimeShapes ==
  ASSUME IInv, Shape, LeaseAges \/ GrantExpires \/ Crash \/ CrashInDispatch
  PROVE  Shape' /\ UNCHANGED refused
<1>1. book \in BookType /\ legacy \in LegacyType
  BY Types
<1>2. CASE LeaseAges \/ GrantExpires
  <2>1. SameShape(book, book') /\ book'.attempt = book.attempt
    BY <1>1, <1>2 DEF LeaseAges, GrantExpires, SameShape, BookType
  <2>2. KeepLegacy /\ core' = core /\ refused' = refused
    BY <1>2 DEF LeaseAges, GrantExpires
  <2> QED
    BY <2>1, <2>2, QuietProgress, AgedShapes
<1>3. CASE Crash \/ CrashInDispatch
  <2>1. PICK stage : Stop(stage) /\ (stage = legacy.stage \/ (legacy.stage = "queued" /\ stage = "torn"))
    <3>1. Crash => Stop(legacy.stage)
      BY DEF Crash
    <3>2. CrashInDispatch => legacy.stage = "queued" /\ Stop("torn")
      BY DEF CrashInDispatch
    <3> QED
      BY <1>3, <3>1, <3>2
  <2>2. SameShape(book, book') /\ book'.attempt = book.attempt
    BY <1>1, <2>1 DEF Stop, SameShape, BookType
  <2>3. legacy'.stage = stage /\ legacy'.receipt = legacy.receipt /\ refused' = refused
    BY <1>1, <2>1 DEF Stop, LegacyType
  <2>4. core'.pc = "down" /\ core'.bypassed = core.bypassed
    BY <2>1, GotoPlace DEF Stop
  <2>5. Progress
    BY <2>1, <2>3, <2>4 DEF Progress, At
  <2> QED
    BY <2>2, <2>3, <2>5, AgedShapes
<1> QED
  BY <1>2, <1>3

-----------------------------------------------------------------------------

(* Nothing has happened yet. *)
LEMMA InitShape == Init => Shape
BY DEF Init, Shape, OpenRun, Blank

(* Every step leaves the rows shaped, and a transition it refuses is a late   *)
(* proof or follows what a restart did.                                      *)
LEMMA StepTaken ==
  ASSUME IInv, Shape, Next
  PROVE  Shape' /\ Spared
<1>1. ASSUME KeepBook, Progress PROVE Shape' /\ Spared
  BY <1>1, LeftAlone DEF KeepBook, Spared
<1>2. CASE Command
  <2>1. UNCHANGED refused
    BY <1>2 DEF Command, TaskCreate, RunStart, RunPause, RunCancel, RunResume, RunTakeover,
                RunReturnControl, GrantRevoke, Commanded
  <2> QED
    BY <1>2, <2>1, CommandShapes DEF Spared
<1>3. CASE Advance
  <2>1. CASE \/ AdvanceOwns \/ LocalIntentAbsent \/ IntentBeforeDelivery \/ Dispatch \/ DispatchDenied
             \/ SubmitRefused \/ ObserveBinds \/ HoldPaused \/ MarkUnsent
             \/ SettleEnd \/ SettleUnknown \/ SettleFollows
    BY <2>1, OwnsTaken, AbsentTaken, UndeliveredIsTaken, DispatchTaken, DenialTaken, BindingTaken,
       MarkTaken, SettlementTaken, ObservationTaken
  <2>2. CASE \/ AdvanceNothing \/ DispatchWaits \/ SubmitCommits \/ SubmitQueues \/ SubmitUndispatched
             \/ SubmitCalls \/ RequestCancel \/ CancelRefused \/ NoCancel \/ CancelQueued
             \/ CancelKept \/ CancelConfirmed \/ CancelUnconfirmed \/ ReconcileSkips
             \/ ReconcileSettles
    BY <1>1, <2>2, MovesOnProgress, SubmitProgress, ResultProgress
  <2> QED
    BY <1>3, <2>1, <2>2 DEF Advance
<1>4. CASE Poll \/ Drain \/ CallReturns \/ Boot
  BY <1>1, <1>4, MovesOnProgress, QueueProgress, ResultProgress, RestartProgress DEF Drain, Boot
<1>5. CASE World
  <2>1. CASE LeaseAges \/ GrantExpires \/ Crash \/ CrashInDispatch
    BY <2>1, TimeShapes DEF Spared
  <2>2. CASE WorkerReports \/ WorkerEnds \/ WorkerUnknown \/ LateEnd \/ OperatorTerminates
             \/ CommitFails
    BY <1>1, <2>2, ReportProgress, MovesOnProgress
  <2> QED
    BY <1>5, <2>1, <2>2 DEF World
<1> QED
  BY <1>2, <1>3, <1>4, <1>5 DEF Next, CoreStep

(* The statuses of an open run always fit each other and its legacy run: the  *)
(* Run follows the intent, an Action that was not delivered still waits with *)
(* its Assignment, no intent of the core exists before the delivery, and a   *)
(* Session goes on CREATING while the intent waits.                          *)
THEOREM ShapeInvariance == Spec => []Shape
<1>1. ASSUME IInv, Shape, [Next]_vars PROVE Shape'
  <2>1. CASE UNCHANGED vars
    <3>1. UNCHANGED book /\ KeepLegacy /\ core' = core
      BY <2>1 DEF vars, KeepLegacy
    <3> QED
      BY <1>1, <3>1, QuietProgress, LeftAlone
  <2> QED
    BY <1>1, <2>1, StepTaken
<1> QED
  BY InitShape, <1>1, Invariance, PTL DEF Spec

(* No pass of advance is ever stuck on a transition that the tables of        *)
(* state-machines.json refuse, except where the proof that nothing was sent  *)
(* comes after the outcome was taken for unknown, or a restart has called a  *)
(* backend against the intent.                                               *)
THEOREM NothingRefused == Spec => NoRefusedTransition
<1>1. ASSUME IInv, Shape, [Next]_vars
      PROVE  [refused' # refused => LateProof \/ core.bypassed]_vars
  BY <1>1, StepTaken DEF Spared
<1> QED
  BY <1>1, Invariance, ShapeInvariance, PTL DEF Spec, NoRefusedTransition
=============================================================================
