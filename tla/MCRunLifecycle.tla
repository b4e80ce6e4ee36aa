--------------------------- MODULE MCRunLifecycle ---------------------------
(* Small instances of RunLifecycle for TLC.                                 *)
EXTENDS RunLifecycle, TLC

CONSTANTS r1, r2, r3, b1, b2, w1, w2

Two == {r1, r2}
Three == {r1, r2, r3}

(* Every run on the same backend, in a workspace of its own. *)
OneBackend == [r \in Runs |-> b1]
OwnWorkspace == [r \in Runs |-> IF r = r1 THEN w1 ELSE w2]

(* r1 and r3 share a workspace, r1 and r2 a backend. *)
SomeBackends == [r \in Runs |-> IF r = r3 THEN b2 ELSE b1]
SomeWorkspaces == [r \in Runs |-> IF r = r2 THEN w2 ELSE w1]

None == {}
=============================================================================
