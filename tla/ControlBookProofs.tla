------------------------- MODULE ControlBookProofs -------------------------
(***************************************************************************)
(* Lemmas about the transitions of ControlBook: what Move makes of the rows *)
(* of a task, which transitions are taken and what they leave alone.        *)
(***************************************************************************)
EXTENDS ControlBook, TLAPS

-----------------------------------------------------------------------------
(* What a transition does. *)

(* A transition to the present status changes nothing. *)
LEMMA MoveStays ==
  ASSUME NEW x, NEW kind, NEW to, x[kind] = to
  PROVE  Move(x, kind, to) = x
BY DEF Move

(* One along an edge sets the status. *)
LEMMA MoveTakes ==
  ASSUME NEW x, NEW kind, NEW to, x[kind] # to, to \in Edges[kind][x[kind]]
  PROVE  Move(x, kind, to) = [x EXCEPT ![kind] = to]
BY DEF Move

(* Any other is refused. *)
LEMMA MoveRefused ==
  ASSUME NEW x, NEW kind, NEW to, x[kind] # to, to \notin Edges[kind][x[kind]]
  PROVE  Move(x, kind, to) = [x EXCEPT !.ok = FALSE]
BY DEF Move

(* So a transition stays, takes the edge or is refused. *)
LEMMA MoveCases ==
  ASSUME NEW x, NEW kind, NEW to
  PROVE  \/ Move(x, kind, to) = x /\ x[kind] = to
         \/ Move(x, kind, to) = [x EXCEPT ![kind] = to]
         \/ Move(x, kind, to) = [x EXCEPT !.ok = FALSE]
BY MoveStays, MoveTakes, MoveRefused

SameIntent(x, y) ==
  /\ y.desired = x.desired /\ y.owner = x.owner /\ y.takeover = x.takeover
  /\ y.unsent = x.unsent

(* What no transition touches. *)
Beside(x, y) ==
  /\ y.attempt = x.attempt /\ SameIntent(x, y)
  /\ y.turns = x.turns /\ y.outbox = x.outbox /\ y.dispatched = x.dispatched

(* A transition of the task leaves the rest alone; if it is not refused, it sets *)
(* the status and follows transitions that were not refused.                 *)
LEMMA MoveTask ==
  ASSUME NEW x \in BookType, NEW to
  PROVE  /\ to \in DOMAIN Edges.task => Move(x, "task", to) \in BookType
         /\ Beside(x, Move(x, "task", to))
         /\ Move(x, "task", to).run = x.run
         /\ Move(x, "task", to).asg = x.asg
         /\ Move(x, "task", to).session = x.session
         /\ Move(x, "task", to).action = x.action
         /\ Move(x, "task", to).ok => x.ok /\ Move(x, "task", to).task = to
         /\ x.task = to \/ to \in Edges.task[x.task] => Move(x, "task", to).ok = x.ok
<1> DEFINE u == [x EXCEPT !.task = to]
           v == [x EXCEPT !.ok = FALSE]
<1>1. /\ u.ok = x.ok /\ u.task = to /\ (to \in DOMAIN Edges.task => u \in BookType)
      /\ Beside(x, u) /\ u.run = x.run /\ u.asg = x.asg /\ u.session = x.session /\ u.action = x.action
  BY DEF BookType, Beside, SameIntent
<1>2. /\ v.ok = FALSE /\ v \in BookType
      /\ Beside(x, v) /\ v.run = x.run /\ v.asg = x.asg /\ v.session = x.session /\ v.action = x.action
  BY DEF BookType, Beside, SameIntent
<1>3. Beside(x, x)
  BY DEF Beside, SameIntent
<1> HIDE DEF u, v
<1> DEFINE y == Move(x, "task", to)
<1>4. (y = x /\ x.task = to) \/ y = u \/ y = v
  BY MoveCases DEF u, v
<1> HIDE DEF y
<1>5. /\ to \in DOMAIN Edges.task => y \in BookType
      /\ Beside(x, y) /\ y.run = x.run /\ y.asg = x.asg /\ y.session = x.session /\ y.action = x.action
      /\ y.ok => x.ok /\ y.task = to
  BY <1>1, <1>2, <1>3, <1>4
<1>6. x.task = to => y = x
  BY MoveStays DEF y
<1>7. x.task # to /\ to \in Edges.task[x.task] => y = u
  BY MoveTakes DEF y, u
<1>8. x.task = to \/ to \in Edges.task[x.task] => y.ok = x.ok
  BY <1>1, <1>6, <1>7
<1> QED
  BY <1>5, <1>8 DEF y

(* A transition of the run leaves the rest alone; if it is not refused, it sets *)
(* the status and follows transitions that were not refused.                 *)
LEMMA MoveRun ==
  ASSUME NEW x \in BookType, NEW to
  PROVE  /\ to \in DOMAIN Edges.run => Move(x, "run", to) \in BookType
         /\ Beside(x, Move(x, "run", to))
         /\ Move(x, "run", to).task = x.task
         /\ Move(x, "run", to).asg = x.asg
         /\ Move(x, "run", to).session = x.session
         /\ Move(x, "run", to).action = x.action
         /\ Move(x, "run", to).ok => x.ok /\ Move(x, "run", to).run = to
         /\ x.run = to \/ to \in Edges.run[x.run] => Move(x, "run", to).ok = x.ok
<1> DEFINE u == [x EXCEPT !.run = to]
           v == [x EXCEPT !.ok = FALSE]
<1>1. /\ u.ok = x.ok /\ u.run = to /\ (to \in DOMAIN Edges.run => u \in BookType)
      /\ Beside(x, u) /\ u.task = x.task /\ u.asg = x.asg /\ u.session = x.session /\ u.action = x.action
  BY DEF BookType, Beside, SameIntent
<1>2. /\ v.ok = FALSE /\ v \in BookType
      /\ Beside(x, v) /\ v.task = x.task /\ v.asg = x.asg /\ v.session = x.session /\ v.action = x.action
  BY DEF BookType, Beside, SameIntent
<1>3. Beside(x, x)
  BY DEF Beside, SameIntent
<1> HIDE DEF u, v
<1> DEFINE y == Move(x, "run", to)
<1>4. (y = x /\ x.run = to) \/ y = u \/ y = v
  BY MoveCases DEF u, v
<1> HIDE DEF y
<1>5. /\ to \in DOMAIN Edges.run => y \in BookType
      /\ Beside(x, y) /\ y.task = x.task /\ y.asg = x.asg /\ y.session = x.session /\ y.action = x.action
      /\ y.ok => x.ok /\ y.run = to
  BY <1>1, <1>2, <1>3, <1>4
<1>6. x.run = to => y = x
  BY MoveStays DEF y
<1>7. x.run # to /\ to \in Edges.run[x.run] => y = u
  BY MoveTakes DEF y, u
<1>8. x.run = to \/ to \in Edges.run[x.run] => y.ok = x.ok
  BY <1>1, <1>6, <1>7
<1> QED
  BY <1>5, <1>8 DEF y

(* A transition of the asg leaves the rest alone; if it is not refused, it sets *)
(* the status and follows transitions that were not refused.                 *)
LEMMA MoveAsg ==
  ASSUME NEW x \in BookType, NEW to
  PROVE  /\ to \in DOMAIN Edges.asg => Move(x, "asg", to) \in BookType
         /\ Beside(x, Move(x, "asg", to))
         /\ Move(x, "asg", to).task = x.task
         /\ Move(x, "asg", to).run = x.run
         /\ Move(x, "asg", to).session = x.session
         /\ Move(x, "asg", to).action = x.action
         /\ Move(x, "asg", to).ok => x.ok /\ Move(x, "asg", to).asg = to
         /\ x.asg = to \/ to \in Edges.asg[x.asg] => Move(x, "asg", to).ok = x.ok
<1> DEFINE u == [x EXCEPT !.asg = to]
           v == [x EXCEPT !.ok = FALSE]
<1>1. /\ u.ok = x.ok /\ u.asg = to /\ (to \in DOMAIN Edges.asg => u \in BookType)
      /\ Beside(x, u) /\ u.task = x.task /\ u.run = x.run /\ u.session = x.session /\ u.action = x.action
  BY DEF BookType, Beside, SameIntent
<1>2. /\ v.ok = FALSE /\ v \in BookType
      /\ Beside(x, v) /\ v.task = x.task /\ v.run = x.run /\ v.session = x.session /\ v.action = x.action
  BY DEF BookType, Beside, SameIntent
<1>3. Beside(x, x)
  BY DEF Beside, SameIntent
<1> HIDE DEF u, v
<1> DEFINE y == Move(x, "asg", to)
<1>4. (y = x /\ x.asg = to) \/ y = u \/ y = v
  BY MoveCases DEF u, v
<1> HIDE DEF y
<1>5. /\ to \in DOMAIN Edges.asg => y \in BookType
      /\ Beside(x, y) /\ y.task = x.task /\ y.run = x.run /\ y.session = x.session /\ y.action = x.action
      /\ y.ok => x.ok /\ y.asg = to
  BY <1>1, <1>2, <1>3, <1>4
<1>6. x.asg = to => y = x
  BY MoveStays DEF y
<1>7. x.asg # to /\ to \in Edges.asg[x.asg] => y = u
  BY MoveTakes DEF y, u
<1>8. x.asg = to \/ to \in Edges.asg[x.asg] => y.ok = x.ok
  BY <1>1, <1>6, <1>7
<1> QED
  BY <1>5, <1>8 DEF y

(* A transition of the session leaves the rest alone; if it is not refused, it sets *)
(* the status and follows transitions that were not refused.                 *)
LEMMA MoveSession ==
  ASSUME NEW x \in BookType, NEW to
  PROVE  /\ to \in DOMAIN Edges.session => Move(x, "session", to) \in BookType
         /\ Beside(x, Move(x, "session", to))
         /\ Move(x, "session", to).task = x.task
         /\ Move(x, "session", to).run = x.run
         /\ Move(x, "session", to).asg = x.asg
         /\ Move(x, "session", to).action = x.action
         /\ Move(x, "session", to).ok => x.ok /\ Move(x, "session", to).session = to
         /\ x.session = to \/ to \in Edges.session[x.session] => Move(x, "session", to).ok = x.ok
<1> DEFINE u == [x EXCEPT !.session = to]
           v == [x EXCEPT !.ok = FALSE]
<1>1. /\ u.ok = x.ok /\ u.session = to /\ (to \in DOMAIN Edges.session => u \in BookType)
      /\ Beside(x, u) /\ u.task = x.task /\ u.run = x.run /\ u.asg = x.asg /\ u.action = x.action
  BY DEF BookType, Beside, SameIntent
<1>2. /\ v.ok = FALSE /\ v \in BookType
      /\ Beside(x, v) /\ v.task = x.task /\ v.run = x.run /\ v.asg = x.asg /\ v.action = x.action
  BY DEF BookType, Beside, SameIntent
<1>3. Beside(x, x)
  BY DEF Beside, SameIntent
<1> HIDE DEF u, v
<1> DEFINE y == Move(x, "session", to)
<1>4. (y = x /\ x.session = to) \/ y = u \/ y = v
  BY MoveCases DEF u, v
<1> HIDE DEF y
<1>5. /\ to \in DOMAIN Edges.session => y \in BookType
      /\ Beside(x, y) /\ y.task = x.task /\ y.run = x.run /\ y.asg = x.asg /\ y.action = x.action
      /\ y.ok => x.ok /\ y.session = to
  BY <1>1, <1>2, <1>3, <1>4
<1>6. x.session = to => y = x
  BY MoveStays DEF y
<1>7. x.session # to /\ to \in Edges.session[x.session] => y = u
  BY MoveTakes DEF y, u
<1>8. x.session = to \/ to \in Edges.session[x.session] => y.ok = x.ok
  BY <1>1, <1>6, <1>7
<1> QED
  BY <1>5, <1>8 DEF y

(* A transition of the action leaves the rest alone; if it is not refused, it sets *)
(* the status and follows transitions that were not refused.                 *)
LEMMA MoveAction ==
  ASSUME NEW x \in BookType, NEW to
  PROVE  /\ to \in DOMAIN Edges.action => Move(x, "action", to) \in BookType
         /\ Beside(x, Move(x, "action", to))
         /\ Move(x, "action", to).task = x.task
         /\ Move(x, "action", to).run = x.run
         /\ Move(x, "action", to).asg = x.asg
         /\ Move(x, "action", to).session = x.session
         /\ Move(x, "action", to).ok => x.ok /\ Move(x, "action", to).action = to
         /\ x.action = to \/ to \in Edges.action[x.action] => Move(x, "action", to).ok = x.ok
<1> DEFINE u == [x EXCEPT !.action = to]
           v == [x EXCEPT !.ok = FALSE]
<1>1. /\ u.ok = x.ok /\ u.action = to /\ (to \in DOMAIN Edges.action => u \in BookType)
      /\ Beside(x, u) /\ u.task = x.task /\ u.run = x.run /\ u.asg = x.asg /\ u.session = x.session
  BY DEF BookType, Beside, SameIntent
<1>2. /\ v.ok = FALSE /\ v \in BookType
      /\ Beside(x, v) /\ v.task = x.task /\ v.run = x.run /\ v.asg = x.asg /\ v.session = x.session
  BY DEF BookType, Beside, SameIntent
<1>3. Beside(x, x)
  BY DEF Beside, SameIntent
<1> HIDE DEF u, v
<1> DEFINE y == Move(x, "action", to)
<1>4. (y = x /\ x.action = to) \/ y = u \/ y = v
  BY MoveCases DEF u, v
<1> HIDE DEF y
<1>5. /\ to \in DOMAIN Edges.action => y \in BookType
      /\ Beside(x, y) /\ y.task = x.task /\ y.run = x.run /\ y.asg = x.asg /\ y.session = x.session
      /\ y.ok => x.ok /\ y.action = to
  BY <1>1, <1>2, <1>3, <1>4
<1>6. x.action = to => y = x
  BY MoveStays DEF y
<1>7. x.action # to /\ to \in Edges.action[x.action] => y = u
  BY MoveTakes DEF y, u
<1>8. x.action = to \/ to \in Edges.action[x.action] => y.ok = x.ok
  BY <1>1, <1>6, <1>7
<1> QED
  BY <1>5, <1>8 DEF y

(* The statuses the transactions move to. *)
LEMMA Statuses ==
  /\ RunEnds \cup {"READY", "ACTIVE"} \subseteq DOMAIN Edges.task
  /\ RunEnds \cup {"QUEUED", "PREPARING", "RUNNING", "WAITING", "PAUSING", "PAUSED", "RECONCILING",
                   "CANCELING"} \subseteq DOMAIN Edges.run
  /\ RunEnds \cup {"READY", "RUNNING", "VERIFYING"} \subseteq DOMAIN Edges.asg
  /\ {"CREATING", "IDLE", "BUSY", "DISCONNECTED"} \subseteq DOMAIN Edges.session
  /\ ActionEnds \cup {"ADMITTED", "EXECUTING", "VERIFYING", "UNKNOWN_REMOTE"}
       \subseteq DOMAIN Edges.action
  /\ None \notin DOMAIN Edges.run \cup DOMAIN Edges.asg \cup DOMAIN Edges.action
  /\ "ACTIVE" \notin DOMAIN Edges.run
BY DEF Edges, RunEnds, ActionEnds, None

-----------------------------------------------------------------------------
(* Transitions that are taken. *)

(* A transition of the Task to its status or along an edge is not refused. *)
LEMMA TaskTaken ==
  ASSUME NEW x \in BookType, x.ok, NEW to \in DOMAIN Edges.task,
         x.task = to \/ to \in Edges.task[x.task]
  PROVE  /\ Move(x, "task", to) \in BookType /\ Move(x, "task", to).ok
         /\ Move(x, "task", to).task = to /\ Beside(x, Move(x, "task", to))
         /\ Move(x, "task", to).run = x.run /\ Move(x, "task", to).asg = x.asg
         /\ Move(x, "task", to).session = x.session /\ Move(x, "task", to).action = x.action
BY MoveTask

(* A transition of the Run to its status or along an edge is not refused. *)
LEMMA RunTaken ==
  ASSUME NEW x \in BookType, x.ok, NEW to \in DOMAIN Edges.run,
         x.run = to \/ to \in Edges.run[x.run]
  PROVE  /\ Move(x, "run", to) \in BookType /\ Move(x, "run", to).ok
         /\ Move(x, "run", to).run = to /\ Beside(x, Move(x, "run", to))
         /\ Move(x, "run", to).task = x.task /\ Move(x, "run", to).asg = x.asg
         /\ Move(x, "run", to).session = x.session /\ Move(x, "run", to).action = x.action
BY MoveRun

(* A transition of the Assignment to its status or along an edge is not refused. *)
LEMMA AsgTaken ==
  ASSUME NEW x \in BookType, x.ok, NEW to \in DOMAIN Edges.asg,
         x.asg = to \/ to \in Edges.asg[x.asg]
  PROVE  /\ Move(x, "asg", to) \in BookType /\ Move(x, "asg", to).ok
         /\ Move(x, "asg", to).asg = to /\ Beside(x, Move(x, "asg", to))
         /\ Move(x, "asg", to).task = x.task /\ Move(x, "asg", to).run = x.run
         /\ Move(x, "asg", to).session = x.session /\ Move(x, "asg", to).action = x.action
BY MoveAsg

(* A transition of the session to its status or along an edge is not refused. *)
LEMMA SessionTaken ==
  ASSUME NEW x \in BookType, x.ok, NEW to \in DOMAIN Edges.session,
         x.session = to \/ to \in Edges.session[x.session]
  PROVE  /\ Move(x, "session", to) \in BookType /\ Move(x, "session", to).ok
         /\ Move(x, "session", to).session = to /\ Beside(x, Move(x, "session", to))
         /\ Move(x, "session", to).task = x.task /\ Move(x, "session", to).run = x.run
         /\ Move(x, "session", to).asg = x.asg /\ Move(x, "session", to).action = x.action
BY MoveSession

(* A transition of the Action to its status or along an edge is not refused. *)
LEMMA ActionTaken ==
  ASSUME NEW x \in BookType, x.ok, NEW to \in DOMAIN Edges.action,
         x.action = to \/ to \in Edges.action[x.action]
  PROVE  /\ Move(x, "action", to) \in BookType /\ Move(x, "action", to).ok
         /\ Move(x, "action", to).action = to /\ Beside(x, Move(x, "action", to))
         /\ Move(x, "action", to).task = x.task /\ Move(x, "action", to).run = x.run
         /\ Move(x, "action", to).asg = x.asg /\ Move(x, "action", to).session = x.session
BY MoveAction

(* The edges the transactions take. *)
LEMMA TaskEdges == \A t \in RunEnds : t \in Edges.task["ACTIVE"]
BY DEF Edges, RunEnds

LEMMA RunEdges ==
  /\ \A r \in {"PREPARING", "RUNNING", "WAITING", "RECONCILING"} : "FAILED" \in Edges.run[r]
  /\ \A r \in {"PAUSING", "RECONCILING"} : "PAUSED" \in Edges.run[r]
  /\ \A r \in {"QUEUED", "RECONCILING"} : "PREPARING" \in Edges.run[r]
  /\ \A r \in {"PREPARING", "WAITING", "RECONCILING"} : "RUNNING" \in Edges.run[r]
  /\ \A r \in {"PREPARING", "RUNNING", "RECONCILING"} : "WAITING" \in Edges.run[r]
  /\ \A r \in {"PREPARING", "RUNNING", "WAITING", "PAUSING", "PAUSED", "CANCELING"} :
       "RECONCILING" \in Edges.run[r]
  /\ "PAUSING" \in Edges.run["RECONCILING"] /\ "CANCELING" \in Edges.run["RECONCILING"]
  /\ "CANCELED" \in Edges.run["CANCELING"]
  /\ "SUCCEEDED" \in Edges.run["RUNNING"] /\ "FAILED" \in Edges.run["RUNNING"]
BY DEF Edges

LEMMA AsgEdges ==
  /\ \A t \in {"FAILED", "CANCELED", "VERIFYING"} : t \in Edges.asg["RUNNING"]
  /\ \A t \in {"RUNNING", "CANCELED"} : t \in Edges.asg["READY"]
  /\ \A t \in {"SUCCEEDED", "FAILED"} : t \in Edges.asg["VERIFYING"]
BY DEF Edges

LEMMA SessionEdges ==
  \A s \in {"CREATING", "IDLE", "BUSY", "DISCONNECTED"}, t \in {"IDLE", "BUSY", "DISCONNECTED"} :
    s = t \/ t \in Edges.session[s]
BY DEF Edges

LEMMA ActionEdges ==
  /\ \A t \in {"EXECUTING", "DENIED", "CANCELED"} : t \in Edges.action["ADMITTED"]
  /\ \A a \in {"EXECUTING", "UNKNOWN_REMOTE"}, t \in {"VERIFYING", "FAILED"} :
       t \in Edges.action[a]
  /\ "UNKNOWN_REMOTE" \in Edges.action["EXECUTING"] /\ "EXECUTING" \in Edges.action["UNKNOWN_REMOTE"]
  /\ "CANCELED" \in Edges.action["UNKNOWN_REMOTE"] /\ "SUCCEEDED" \in Edges.action["VERIFYING"]
BY DEF Edges
=============================================================================
