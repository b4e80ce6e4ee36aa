----------------------------- MODULE MCSettling -----------------------------
(* What must come to an end: a controlled task that is cancelled, a check, a *)
(* quality flow, the end of a context segment, a request to a client, news   *)
(* of a review. Each part is checked under the fairness of its own module.   *)
(* The parts share no state, so a behaviour follows one of them and leaves   *)
(* the others at rest, where their fairness asks for nothing.                *)
EXTENDS MCControlRun, CheckRuntime, QualityFlow, ContextSegments, RpcLine, ReviewInbox

VARIABLE part

MCJobs == 1 .. 2
MCSegRuns == 1 .. 4

MCVars == <<part, vars, checkVars, flowVars, segVars, rpcVars, inboxVars>>

MCInit ==
  /\ part \in {"control", "checks", "flow", "segments", "rpc", "inbox"}
  /\ Init /\ CheckInit /\ FlowInit /\ SegInit /\ RpcInit /\ InboxInit
  /\ part # "checks" => target = 1 /\ check = 1
  /\ part # "flow" => tree = 1
  /\ part # "segments" => enforce

MCNext ==
  /\ UNCHANGED part
  /\ \/ /\ part = "control" /\ Next
        /\ UNCHANGED <<checkVars, flowVars, segVars, rpcVars, inboxVars>>
     \/ /\ part = "checks" /\ CheckNext
        /\ UNCHANGED <<vars, flowVars, segVars, rpcVars, inboxVars>>
     \/ /\ part = "flow" /\ FlowNext
        /\ UNCHANGED <<vars, checkVars, segVars, rpcVars, inboxVars>>
     \/ /\ part = "segments" /\ SegNext
        /\ UNCHANGED <<vars, checkVars, flowVars, rpcVars, inboxVars>>
     \/ /\ part = "rpc" /\ RpcNext
        /\ UNCHANGED <<vars, checkVars, flowVars, segVars, inboxVars>>
     \/ /\ part = "inbox" /\ InboxNext
        /\ UNCHANGED <<vars, checkVars, flowVars, segVars, rpcVars>>

MCSpec == MCInit /\ [][MCNext]_MCVars

-----------------------------------------------------------------------------
(* Each part under the fairness of its own module.                           *)

(* A cancelled task ends, if the host polls and its worker ends at some time. *)
FairlyCancelFinishes ==
  part = "control" /\ ControlFairness => CancelFinishes

(* What a task ended with gets into its book, under the same fairness.        *)
FairlyEndIsRecorded ==
  part = "control" /\ ControlFairness => EndIsRecorded

(* A check that was asked for ends, if the core drains and threads go on.     *)
FairlyCheckSettles == part = "checks" /\ CheckFairness => CheckSettles

(* A quality flow comes to rest, if its steps are advanced and its runs end.  *)
FairlyFlowSettles == part = "flow" /\ FlowFairness => FlowSettles

(* The end of a segment is decided, whatever restart came in between.         *)
FairlyEndIsDecided == part = "segments" /\ SegFairness => EndIsDecided

(* A request to Codex comes to an end, answered or not.                       *)
FairlyRequestsEnd == part = "rpc" /\ RpcFairness => RequestsEnd

(* News of a review is delivered and receipted in the end.                    *)
FairlyNewsIsDelivered == part = "inbox" /\ InboxFairness => NewsIsDelivered

-----------------------------------------------------------------------------
(* A controlled task: what was asked of it comes to its end, what it ended    *)
(* with is recorded, and a takeover does not outlive its pause.              *)
ControlSettles == []TakeoverEndsWithPause /\ FairlyCancelFinishes /\ FairlyEndIsRecorded

(* What decides on acceptance comes to rest: a check, a quality flow.         *)
AcceptanceSettles == FairlyCheckSettles /\ FairlyFlowSettles

(* Nobody waits for ever: for what follows a segment, for Codex, for news.    *)
EndsAreHeard == FairlyEndIsDecided /\ FairlyRequestsEnd /\ FairlyNewsIsDelivered
=============================================================================
