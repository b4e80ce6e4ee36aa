--------------------------- MODULE MCControlRun ---------------------------
(* Model-checking instances of ControlRun. *)
EXTENDS ControlRun

MCModes == BOOLEAN
MCBackground == {TRUE}
MCSteady == {FALSE}
MCAll == {"create", "start", "pause", "cancel", "resume", "takeover",
          "return_control", "revoke", "terminate"}
=============================================================================
