----------------------------- MODULE RunPromise -----------------------------
(***************************************************************************)
(* What asterun promises about one attempt at a task, whatever fails        *)
(* underneath: an accepted run is either refused without the backend having *)
(* been told of it, or the backend is told exactly once and the run then    *)
(* waits, possibly for ever, for one final outcome.  Only a backend can     *)
(* report success.  RunLifecycle implements this specification.             *)
(***************************************************************************)
CONSTANTS
  Runs,       \* run ids
  Inherited   \* runs an earlier version of the program had called already

VARIABLE promise   \* promise[r]: where the attempt stands

Outcomes == {"succeeded", "failed", "cancelled"}

Init == promise = [r \in Runs |-> IF r \in Inherited THEN "called" ELSE "absent"]

Move(r, from, to) ==
  /\ promise[r] = from
  /\ promise' = [promise EXCEPT ![r] = to]

Accept(r)    == Move(r, "absent", "accepted")
Call(r)      == Move(r, "accepted", "called")
Settle(r, o) == Move(r, "called", o)
Refuse(r, o) == o # "succeeded" /\ Move(r, "accepted", o)

Next ==
  \E r \in Runs :
    \/ Accept(r) \/ Call(r)
    \/ \E o \in Outcomes : Settle(r, o) \/ Refuse(r, o)

Spec == Init /\ [][Next]_promise
=============================================================================
