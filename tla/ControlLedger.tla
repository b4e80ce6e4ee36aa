--------------------------- MODULE ControlLedger ---------------------------
(***************************************************************************)
(* What each transaction of control.py makes of the rows of a task: the     *)
(* commands, the delivery, the passes of advance and the ends of a run.     *)
(* Constant level.                                                          *)
(***************************************************************************)
EXTENDS ControlBook

CONSTANT TurnLimit   \* limit of the task's budget in turns

ASSUME ControlLedgerAssumption == TurnLimit \in Nat

(* settle and finish_delivery *)
Settle(x, amount) ==
  [x EXCEPT !.turns[x.attempt] = IF amount = 0 THEN "free" ELSE "spent",
            !.outbox = "DONE"]

(* _budget_totals: held and settled turns. *)
TurnsTaken(x) == Cardinality({a \in Attempts : x.turns[a] \notin {"none", "free"}})

(* _start and _admit: Run, Assignment, Grant, lease, Action, Reservation and *)
(* outbox entry in the transaction of the command.                           *)
Admitted(x) ==
  LET n == x.attempt + 1
  IN  [Move(x, "task", "ACTIVE") EXCEPT
         !.attempt = n, !.run = "QUEUED", !.desired = "RUNNING", !.owner = "runner",
         !.takeover = FALSE, !.asg = "READY", !.session = None, !.granted = TRUE,
         !.lease = "fresh", !.action = "ADMITTED", !.dispatched = FALSE,
         !.unsent = FALSE, !.turns[n] = "HELD", !.outbox = "PENDING"]

(* _run_pause, _run_cancel, _resume *)
Pausing(x) ==
  LET y == [x EXCEPT !.desired = "PAUSED"]
  IN  IF x.run \in {"PAUSING", "PAUSED"} THEN y ELSE Move(y, "run", "PAUSING")

Canceling(x) == Move([x EXCEPT !.desired = "CANCELED"], "run", "CANCELING")
Resuming(x) == Move([x EXCEPT !.desired = "RUNNING"], "run", "RECONCILING")

(* _own: the holder renews a lease with less than 30 seconds left; a process *)
(* that holds the instance lock takes over the lease of one that is gone.    *)
Owned(x) == [x EXCEPT !.lease = "fresh"]

(* _transfer_if_requested *)
Transferred(x) == IF x.takeover THEN [x EXCEPT !.owner = "human"] ELSE x

MayAdvanceOwned(x) == x.owner = "runner"   \* mutant: the intent is not asked for

(* legacy_may_advance *)
MayAdvance(x) == x.desired = "RUNNING" /\ x.owner = "runner"

-----------------------------------------------------------------------------
(* The transactions of advance. *)

(* _dispatch, first transaction *)
Delivering(x) ==
  LET y == IF x.run \in {"QUEUED", "RECONCILING", "WAITING"}
           THEN Move(x, "run", "PREPARING") ELSE x
      z == Move(Move(y, "action", "EXECUTING"), "asg", "RUNNING")
  IN  [z EXCEPT !.dispatched = TRUE, !.outbox = "DELIVERING"]

NotAppliedKeepsTurn(x) ==   \* mutant: the reservation is not settled
  LET y == Move(Move(x, "action", "FAILED"), "asg", "FAILED")
      z == Move(Move(y, "run", "RECONCILING"), "run", "FAILED")
  IN  Move(z, "task", z.run)

NotAppliedAtOnce(x) ==   \* mutant: a pause under way is not left through RECONCILING
  LET y == Settle(Move(Move(x, "action", "FAILED"), "asg", "FAILED"), 0)
      end == IF x.desired = "CANCELED" THEN "CANCELED" ELSE "FAILED"
  IN  Move(Move(y, "run", end), "task", end)

(* _bind_session: what the legacy run tells of its session. *)
Bound(x, status) ==
  Move(IF x.session = None THEN [x EXCEPT !.session = "CREATING"] ELSE x,
       "session", status)

(* _not_applied: nothing was submitted. *)
NotApplied(x) ==
  LET y == Settle(Move(Move(x, "action", "FAILED"), "asg", "FAILED"), 0)
      z == IF x.desired = "CANCELED"
           THEN Move(Move(y, "run", "CANCELING"), "run", "CANCELED")
           ELSE Move(IF x.run = "PAUSING" THEN Move(y, "run", "RECONCILING") ELSE y,
                     "run", "FAILED")
  IN  Move(z, "task", z.run)

(* _deny: the guard refused before anything was delivered. *)
Denied(x) ==
  LET y == Settle(Move(Move(x, "action", "DENIED"), "asg", "CANCELED"), 0)
      z == IF x.run = "QUEUED" THEN Move(y, "run", "PREPARING") ELSE y
  IN  Move(Move(z, "run", "FAILED"), "task", "FAILED")

(* The end _undelivered_control and _cancel_not_applied share. *)
CanceledUnapplied(x) ==
  Move(Move(Move(Settle(Move(x, "action", "CANCELED"), 0), "asg", "CANCELED"),
            "run", "CANCELED"),
       "task", "CANCELED")

(* _undelivered_control: the intent changed before the action was delivered. *)
Undelivered(x) ==
  IF x.desired = "PAUSED" THEN Transferred(Move(x, "run", "PAUSED"))
                          ELSE CanceledUnapplied(x)

(* _cancel_not_applied *)
CancelNotApplied(x) ==
  CanceledUnapplied(
    IF x.action = "EXECUTING" THEN Move(x, "action", "UNKNOWN_REMOTE") ELSE x)

(* _unknown *)
Unknown(x) ==
  Move(IF x.action = "UNKNOWN_REMOTE" THEN x
       ELSE [Move(x, "action", "UNKNOWN_REMOTE") EXCEPT !.turns[x.attempt] = "UNCERTAIN"],
       "run", "RECONCILING")

(* _observe, last transaction, of an execution that stopped under a pause. *)
PausedEnd(x) ==
  LET y == IF x.run = "RECONCILING" THEN Move(x, "run", "PAUSING") ELSE x
  IN  Transferred(Move(y, "run", "PAUSED"))

SettledFirst(x, passed) ==   \* mutant: a late success overrides a cancellation
  LET v == Settle(Move(Move(x, "action", "VERIFYING"), "action", "SUCCEEDED"), 1)
      end == IF passed THEN "SUCCEEDED" ELSE "FAILED"
      y == Move(Move(Move(v, "run", "RECONCILING"), "run", "RUNNING"), "run", end)
  IN  Move(Move(Move(y, "asg", "VERIFYING"), "asg", end), "task", end)

CanceledIsFree(x, passed) ==   \* mutant: a cancelled execution costs no turn
  LET v == Settle(Move(Move(x, "action", "VERIFYING"), "action", "SUCCEEDED"),
                  IF x.desired = "CANCELED" THEN 0 ELSE 1)
      end == IF x.desired = "CANCELED" THEN "CANCELED"
             ELSE IF passed THEN "SUCCEEDED" ELSE "FAILED"
      y == IF x.desired = "CANCELED"
           THEN Move(Move(v, "run", "CANCELING"), "asg", end)
           ELSE Move(Move(Move(v, "run", "RUNNING"), "asg", "VERIFYING"), "asg", end)
  IN  Move(Move(y, "run", end), "task", end)

(* _complete: the turn is consumed whatever became of it; a cancellation     *)
(* that was accepted decides the outcome.                                    *)
Completed(x, passed) ==
  LET v == Settle(Move(Move(x, "action", "VERIFYING"), "action", "SUCCEEDED"),
                  IF x.unsent THEN 0 ELSE 1)
      end == IF x.desired = "CANCELED" THEN "CANCELED"
             ELSE IF passed THEN "SUCCEEDED" ELSE "FAILED"
      y == IF x.desired = "CANCELED"
           THEN Move(Move(v, "run", "CANCELING"), "asg", end)
           ELSE Move(Move(Move(v, "run", "RUNNING"), "asg", "VERIFYING"), "asg", end)
  IN  Move(Move(y, "run", end), "task", end)
=============================================================================
