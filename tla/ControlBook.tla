---------------------------- MODULE ControlBook ----------------------------
(***************************************************************************)
(* The durable book of one task of runner-control/v1: the rows of its Task, *)
(* its latest Run with Assignment, Session, Action, Grant, lease, outbox    *)
(* entry, and the Reservation of every attempt; and the transition of one   *)
(* row, by the tables.  Constant level.                                     *)
(*                                                                          *)
(*   task, run, asg, session, action   status of the entity                 *)
(*   attempt    run.attempt, 0 before the first run.start                   *)
(*   desired    run.desired_state           owner     run.control_owner     *)
(*   takeover   extensions asterun.takeover_requested                       *)
(*   lease      the row of control_leases as this process sees it: "foreign" *)
(*              was claimed by a process that is gone, "aging" has less than *)
(*              the 30 of its 60 seconds left that _own wants                *)
(*   granted    the Grant is ACTIVE and not past its expiry                 *)
(*   dispatched action.dispatched_at is set                                 *)
(*   unsent     extensions asterun.not_delivered                            *)
(*   outbox     status of the delivery                                      *)
(*   turns      reservation of one turn per attempt: SETTLED as "spent" (1  *)
(*              turn) or "free" (0 turns)                                   *)
(*   ok         FALSE when a transition was refused: the transaction raises *)
(***************************************************************************)
EXTENDS Naturals, FiniteSets

CONSTANT MaxAttempts   \* bound: runs of the task (run.start and run.retry)

ASSUME ControlBookAssumption == MaxAttempts \in Nat \ {0}

Attempts == 1 .. MaxAttempts

RunEnds == {"SUCCEEDED", "FAILED", "CANCELED"}
ActionEnds == RunEnds \cup {"DENIED"}

(* state-machines.json *)
Edges ==
  [task |->
     [DRAFT |-> {"READY", "CANCELED"}, READY |-> {"ACTIVE", "CANCELED"},
      ACTIVE |-> RunEnds, FAILED |-> {"ACTIVE"}, SUCCEEDED |-> {}, CANCELED |-> {}],
   run |->
     [QUEUED |-> {"PREPARING", "PAUSING", "CANCELING", "WAITING"},
      PREPARING |-> {"RUNNING", "WAITING", "PAUSING", "RECONCILING", "CANCELING", "FAILED"},
      RUNNING |-> {"WAITING", "PAUSING", "RECONCILING", "CANCELING", "SUCCEEDED", "FAILED"},
      WAITING |-> {"PREPARING", "RUNNING", "PAUSING", "RECONCILING", "CANCELING", "FAILED"},
      PAUSING |-> {"PAUSED", "RECONCILING", "CANCELING"},
      PAUSED |-> {"RECONCILING", "CANCELING"},
      RECONCILING |-> {"PREPARING", "RUNNING", "WAITING", "PAUSING", "PAUSED",
                       "CANCELING", "SUCCEEDED", "FAILED"},
      CANCELING |-> {"CANCELED", "RECONCILING"},
      SUCCEEDED |-> {}, FAILED |-> {}, CANCELED |-> {}],
   asg |->
     [PENDING |-> {"READY", "CANCELED"}, READY |-> {"RUNNING", "WAITING", "CANCELED"},
      RUNNING |-> {"WAITING", "VERIFYING", "FAILED", "CANCELED"},
      WAITING |-> {"RUNNING", "VERIFYING", "FAILED", "CANCELED"},
      VERIFYING |-> {"SUCCEEDED", "FAILED", "WAITING"},
      SUCCEEDED |-> {}, FAILED |-> {}, CANCELED |-> {}],
   session |->
     [CREATING |-> {"IDLE", "BUSY", "DISCONNECTED", "LOST"},
      IDLE |-> {"BUSY", "DISCONNECTED", "CLOSED"},
      BUSY |-> {"IDLE", "INTERRUPTING", "DISCONNECTED"},
      INTERRUPTING |-> {"IDLE", "DISCONNECTED"},
      DISCONNECTED |-> {"IDLE", "BUSY", "LOST"}, LOST |-> {}, CLOSED |-> {}],
   action |->
     [PLANNED |-> {"WAITING_APPROVAL", "ADMITTED", "DENIED", "CANCELED"},
      WAITING_APPROVAL |-> {"ADMITTED", "DENIED", "CANCELED"},
      ADMITTED |-> {"EXECUTING", "DENIED", "CANCELED", "UNKNOWN_REMOTE"},
      EXECUTING |-> {"VERIFYING", "FAILED", "UNKNOWN_REMOTE"},
      VERIFYING |-> {"SUCCEEDED", "FAILED", "UNKNOWN_REMOTE"},
      UNKNOWN_REMOTE |-> {"EXECUTING", "VERIFYING", "FAILED", "CANCELED"},
      SUCCEEDED |-> {}, FAILED |-> {}, DENIED |-> {}, CANCELED |-> {}]]

None == "none"   \* no such row yet

Leases == {"fresh", "aging", "expired", "foreign"}
Turns == {"none", "HELD", "UNCERTAIN", "free", "spent"}

BookType ==
  [task : DOMAIN Edges.task \cup {None}, run : DOMAIN Edges.run \cup {None},
   asg : DOMAIN Edges.asg \cup {None}, session : DOMAIN Edges.session \cup {None},
   action : DOMAIN Edges.action \cup {None}, attempt : 0 .. MaxAttempts,
   desired : {"RUNNING", "PAUSED", "CANCELED"}, owner : {"runner", "human"},
   takeover : BOOLEAN, lease : Leases, granted : BOOLEAN, dispatched : BOOLEAN,
   unsent : BOOLEAN, outbox : {None, "PENDING", "DELIVERING", "DONE"},
   turns : [Attempts -> Turns], ok : BOOLEAN]

Blank ==
  [task |-> None, run |-> None, asg |-> None, session |-> None, action |-> None,
   attempt |-> 0, desired |-> "RUNNING", owner |-> "runner", takeover |-> FALSE,
   lease |-> "fresh", granted |-> FALSE, dispatched |-> FALSE, unsent |-> FALSE,
   outbox |-> None, turns |-> [a \in Attempts |-> "none"], ok |-> TRUE]

Ended(x) == x.run \in RunEnds

InHand(x) == x.attempt # 0 /\ ~Ended(x) /\ x.action \notin ActionEnds

-----------------------------------------------------------------------------
(* transition: staying is no transition; an edge the table lacks raises. *)
Move(x, kind, to) ==
  IF x[kind] = to THEN x
  ELSE IF to \in Edges[kind][x[kind]] THEN [x EXCEPT ![kind] = to]
  ELSE [x EXCEPT !.ok = FALSE]
=============================================================================
