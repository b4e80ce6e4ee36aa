------------------------------- MODULE AgyRun -------------------------------
(***************************************************************************)
(* One run of the Antigravity command line: the probe of the binary that   *)
(* may update itself at any time, the process and its two-way event        *)
(* stream, and the judgement of what the stream proved. A run that is      *)
(* proved neither finished nor unsent ends as unknown (pending_reconcile). *)
(* The core's side of the same run is RunLifecycle. An event is a record   *)
(* of the fields the code branches on; "bad" stands for every malformed,   *)
(* oversized or duplicated frame. Binaries are numbered, and a number is   *)
(* both the identity of a file and the version it prints.                  *)
(***************************************************************************)
EXTENDS Naturals, FiniteSets

CONSTANTS Steps,         \* step indices of the native run
          MaxAgyEvents,  \* bound: frames the native process writes
          MaxUpdates     \* bound: times the binary is replaced

ASSUME AgyAssumption == MaxAgyEvents \in Nat /\ MaxUpdates \in Nat

VARIABLES binary,    \* the file at the configured path, by number
          cache,     \* _PROBE_CACHE: number of a file -> version, 0 is none
          probe,     \* [before, version, tries] of dispatch_stream's loop
          agyAt,     \* where dispatch_stream, run or _exchange stands
          cancelAsked,     \* the run id is in _cancelled (cancel was called)
          stateCancelled, \* state.cancelled is set
          early,     \* history: cancel was called before run registered
          stopping,  \* the core stops or the backend is closed
          native,    \* the process: "none", "runs", "ok", "failed"
          group,     \* some process of its group is alive
          launched,  \* history: the binary the process was started from
          sent,      \* history: a byte of the prompt was written
          stream,    \* the _Run fields that events and stderr fill
          seen,      \* history: step records that were accepted
          out        \* what run returned

agyVars == <<binary, cache, probe, agyAt, cancelAsked, stateCancelled, early, stopping,
             native, group, launched, sent, stream, seen, out>>

StepStates == {"ACTIVE", "DONE", "ERROR"}
Denials == {"policy", "review"}
StepRecords ==
  [i : Steps, st : StepStates, kind : {"text", "subagent"}, spawns : {FALSE}, err : {"none"}]
  \union [i : Steps, st : StepStates, kind : {"tool"}, spawns : {FALSE},
          err : {"none", "other"} \union Denials]
  \union [i : Steps, st : {"ACTIVE"}, kind : {"tool"}, spawns : {TRUE}, err : {"none"}]
Results == [st : {"SUCCESS"}, error : BOOLEAN, text : BOOLEAN]
  \union [st : {"ERROR", "CANCELED", "RUNNING"}, error : {FALSE}, text : {FALSE}]

NoStream == [init |-> FALSE, events |-> 0, state |-> [i \in Steps |-> "none"],
             kind |-> [i \in Steps |-> "none"], toolErrors |-> {}, stepErrors |-> {},
             subagents |-> {}, policy |-> {}, review |-> {}, soft |-> FALSE, named |-> FALSE,
             result |-> "none", error |-> FALSE, text |-> FALSE, attempted |-> FALSE]
NoOut == [status |-> "none", terminated |-> FALSE, sentAs |-> "none", version |-> 0,
          updated |-> FALSE, delegated |-> FALSE]

AgyInit ==
  /\ binary = 1 /\ cache \in [1 .. MaxUpdates + 1 -> {0}] \union {[b \in 1 .. MaxUpdates + 1 |-> IF b = 1 THEN 1 ELSE 0]}
  /\ probe = [before |-> 0, version |-> 0, tries |-> 0]
  /\ agyAt = "look" /\ cancelAsked = FALSE /\ stateCancelled = FALSE /\ early = FALSE /\ stopping = FALSE
  /\ native = "none" /\ group = FALSE /\ launched = 0 /\ sent = FALSE
  /\ stream = NoStream /\ seen = {} /\ out = NoOut

probeVars == <<binary, cache, probe>>
callVars == <<cancelAsked, stateCancelled, early, stopping>>
procVars == <<native, group, launched, sent>>

(* What run hands back: the receipt says may_have_been_sent as soon as the *)
(* prompt was attempted, and the version that was probed.                  *)
Outcome(status, terminated, delegated) ==
  [status |-> status, terminated |-> terminated, delegated |-> delegated,
   sentAs |-> IF stream.attempted THEN "may_have_been_sent" ELSE "not_sent",
   version |-> probe.version, updated |-> FALSE]
UnconfirmedEnd == Outcome("pending_reconcile", FALSE, FALSE)

-----------------------------------------------------------------------------
(* Before the process: preflight and the probe of the binary.              *)

(* _preflight and the checks of the prompt and the workspace refuse a run  *)
(* before anything is started; the binary is probed at most three times.   *)
Refuse ==
  /\ agyAt = "look"
  /\ out' = Outcome("failed", TRUE, FALSE) /\ agyAt' = "ended"
  /\ UNCHANGED <<probeVars, callVars, procVars, stream, seen>>

Look ==
  /\ agyAt = "look"
  /\ probe' = [probe EXCEPT !.before = binary, !.version = cache[binary]]
  /\ agyAt' = IF cache[binary] = 0 THEN "ask" ELSE "compare"
  /\ UNCHANGED <<binary, cache, callVars, procVars, stream, seen, out>>

Read ==
  /\ agyAt = "ask"
  /\ probe' = [probe EXCEPT !.version = binary] /\ agyAt' = "keep"
  /\ UNCHANGED <<binary, cache, callVars, procVars, stream, seen, out>>

(* Output that may belong to a binary replaced during the probe is not     *)
(* kept.                                                                   *)
Keep == cache' = IF binary = probe.before
                 THEN [cache EXCEPT ![binary] = probe.version] ELSE cache
KeepProbe ==
  /\ agyAt = "keep" /\ Keep /\ agyAt' = "compare"
  /\ UNCHANGED <<binary, probe, callVars, procVars, stream, seen, out>>

SameFile == binary = probe.before
Compare ==
  /\ agyAt = "compare"
  /\ \/ SameFile
        /\ probe' = [probe EXCEPT !.before = binary]
        /\ agyAt' = "register" /\ out' = out
     \/ ~SameFile /\ probe.tries < 2
        /\ probe' = [probe EXCEPT !.tries = @ + 1]
        /\ agyAt' = "look" /\ out' = out
     \/ ~SameFile /\ probe.tries >= 2
        /\ probe' = probe /\ agyAt' = "ended" /\ out' = Outcome("failed", TRUE, FALSE)
  /\ UNCHANGED <<binary, cache, callVars, procVars, stream, seen>>

(* run registers itself under the lock and takes over a cancellation that  *)
(* came before it.                                                         *)
TakesCancel == cancelAsked
Register ==
  /\ agyAt = "register"
  /\ stateCancelled' = (stateCancelled \/ TakesCancel) /\ agyAt' = "spawn"
  /\ UNCHANGED <<probeVars, cancelAsked, early, stopping, procVars, stream, seen, out>>

Spawn ==
  /\ agyAt = "spawn"
  /\ \/ /\ stopping /\ out' = UnconfirmedEnd /\ agyAt' = "report" /\ UNCHANGED procVars
     \/ /\ ~stopping /\ stateCancelled /\ out' = Outcome("cancelled", TRUE, FALSE)
        /\ agyAt' = "report" /\ UNCHANGED procVars
     \/ /\ ~stopping /\ ~stateCancelled /\ out' = Outcome("failed", TRUE, FALSE)
        /\ agyAt' = "report" /\ UNCHANGED procVars
     \/ /\ ~stopping /\ ~stateCancelled /\ out' = out /\ agyAt' = "loop"
        /\ native' = "runs" /\ group' = TRUE /\ launched' = binary /\ UNCHANGED sent
  /\ UNCHANGED <<probeVars, callVars, stream, seen>>

-----------------------------------------------------------------------------
(* The exchange.                                                           *)

(* A protocol error, the deadline, a limit or a stop ends the exchange; a  *)
(* process is cleaned up and the result stays unknown.                     *)
ToUnknown ==
  /\ out' = UnconfirmedEnd /\ agyAt' = "cleanup"
  /\ UNCHANGED <<probeVars, callVars, procVars, stream, seen>>

Halted == agyAt \in {"loop", "winding"} /\ stopping /\ ToUnknown
Deadline == agyAt \in {"loop", "winding"} /\ ToUnknown

(* A cancellation before the prompt ends the run as unknown; after it the  *)
(* process gets an interrupt and a short grace.                            *)
BeforePrompt == UnconfirmedEnd
SeeCancel ==
  /\ agyAt = "loop" /\ stateCancelled
  /\ IF stream.attempted THEN out' = out /\ agyAt' = "winding"
                         ELSE out' = BeforePrompt /\ agyAt' = "cleanup"
  /\ UNCHANGED <<probeVars, callVars, procVars, stream, seen>>
GraceOver == agyAt = "winding" /\ native = "runs" /\ ToUnknown

(* The receipt is published before the first byte is written, and what was *)
(* asked meanwhile is looked at between the two.                           *)
AttemptedWhenSent == sent
Attempted == TRUE
Publish ==
  /\ agyAt = "loop" /\ ~stream.attempted /\ ~stateCancelled
  /\ stream' = [stream EXCEPT !.attempted = Attempted] /\ agyAt' = "published"
  /\ UNCHANGED <<probeVars, callVars, procVars, seen, out>>
LookAgain ==
  /\ agyAt = "published"
  /\ IF stopping \/ stateCancelled THEN ToUnknown
     ELSE /\ agyAt' = "write"
          /\ UNCHANGED <<probeVars, callVars, procVars, stream, seen, out>>
Write ==
  /\ agyAt = "write"
  /\ \/ sent' = TRUE /\ agyAt' = "loop" /\ out' = out
     \/ sent' = sent /\ agyAt' = "cleanup" /\ out' = UnconfirmedEnd
  /\ UNCHANGED <<probeVars, callVars, native, group, launched, stream, seen>>

Reading == agyAt \in {"loop", "winding"} /\ native # "none" /\ stream.events < MaxAgyEvents

InitEvent(good) ==
  /\ Reading
  /\ IF good /\ stream.events = 0 /\ stream.result = "none"
     THEN /\ stream' = [stream EXCEPT !.init = TRUE, !.events = 1]
          /\ UNCHANGED <<probeVars, callVars, procVars, agyAt, seen, out>>
     ELSE ToUnknown

(* A step is accepted while it has not ended and keeps its kind. (A tool   *)
(* step that invokes a delegate may turn into one; the exchange is left at *)
(* its first frame, so that second frame is never read.)                   *)
Acceptable(e) ==
  /\ stream.init /\ stream.result = "none"
  /\ stream.state[e.i] \notin {"DONE", "ERROR"}
  /\ stream.kind[e.i] \in {"none", e.kind}

(* Only the latest final record of a step is evidence of a denial.         *)
DenialOf(e, held, what) ==
  IF e.kind = "tool" /\ e.st = "ERROR" /\ e.err = what THEN held \union {e.i} ELSE held \ {e.i}

StepErrors(e) == IF e.st = "ERROR" THEN stream.stepErrors \union {e.i} ELSE stream.stepErrors
ToolErrors(e) ==
  IF (e.kind \in {"tool", "subagent"} /\ e.st = "ERROR") \/ e.err # "none"
  THEN stream.toolErrors \union {e.i} ELSE stream.toolErrors

Delegates(e) == e.kind = "subagent" \/ e.spawns
StepEvent(e) ==
  /\ Reading
  /\ IF ~Acceptable(e) THEN ToUnknown
     ELSE /\ stream' = [stream EXCEPT !.events = @ + 1,
                          !.state[e.i] = e.st, !.kind[e.i] = e.kind,
                          !.stepErrors = StepErrors(e), !.toolErrors = ToolErrors(e),
                          !.policy = DenialOf(e, @, "policy"), !.review = DenialOf(e, @, "review"),
                          !.subagents = IF Delegates(e) THEN @ \union {e.i} ELSE @,
                          !.text = @ \/ e.kind = "text"]
          /\ seen' = seen \union {e}
          /\ agyAt' = IF stream'.subagents # {} THEN "delegated" ELSE agyAt
          /\ UNCHANGED <<probeVars, callVars, procVars, out>>

ResultEvent(r) ==
  /\ Reading
  /\ IF stream.result # "none" THEN ToUnknown
     ELSE /\ stream' = [stream EXCEPT !.events = @ + 1, !.result = r.st,
                                     !.error = r.error, !.text = r.text]
          /\ UNCHANGED <<probeVars, callVars, procVars, agyAt, seen, out>>

BadEvent == Reading /\ ToUnknown

(* A line on stderr may say that a tool was denied, and may name it.       *)
Stderr(named) ==
  /\ agyAt \in {"loop", "winding"} /\ native # "none" /\ ~(stream.soft /\ stream.named)
  /\ stream' = [stream EXCEPT !.soft = TRUE, !.named = @ \/ named]
  /\ UNCHANGED <<probeVars, callVars, procVars, agyAt, seen, out>>

Leave == agyAt \in {"loop", "winding"} /\ native \notin {"none", "runs"} /\ agyAt' = "judge"
         /\ UNCHANGED <<probeVars, callVars, procVars, stream, seen, out>>

-----------------------------------------------------------------------------
(* The judgement.                                                          *)

Errors == stream.toolErrors \union stream.stepErrors
UnexplainedSteps == stream.stepErrors \ (stream.policy \union stream.review)
Unexplained == Errors \ (stream.policy \union stream.review)
SettledSteps == \A i \in Steps : stream.state[i] # "ACTIVE"
SoftDenied == stream.soft \/ stream.review # {}

Judged ==
  CASE stream.result = "none" -> UnconfirmedEnd
    [] stream.result = "ERROR" -> Outcome("failed", TRUE, FALSE)
    [] stream.result = "CANCELED" -> Outcome("cancelled", TRUE, FALSE)
    [] stream.result = "RUNNING" -> UnconfirmedEnd
    [] stream.result = "SUCCESS" /\ ~(stream.init /\ native = "ok" /\ SettledSteps) -> UnconfirmedEnd
    [] OTHER ->
         IF SoftDenied \/ stream.error \/ Unexplained # {} \/ (stream.policy # {} /\ ~stream.text)
         THEN Outcome("failed", TRUE, FALSE) ELSE Outcome("succeeded", TRUE, FALSE)
Judge ==
  /\ agyAt = "judge" /\ out' = Judged /\ agyAt' = "cleanup"
  /\ UNCHANGED <<probeVars, callVars, procVars, stream, seen>>

(* Delegated work is never accepted: the whole group is ended, and the run *)
(* is over only when no process of the group is left.                      *)
GroupGone(alive) == ~alive
StopDelegated(alive) ==
  /\ agyAt = "delegated"
  /\ native' = IF native = "runs" /\ ~alive THEN "failed" ELSE native
  /\ group' = alive
  /\ out' = IF GroupGone(alive) THEN Outcome("failed", TRUE, TRUE) ELSE UnconfirmedEnd
  /\ agyAt' = "report"
  /\ UNCHANGED <<probeVars, callVars, launched, sent, stream, seen>>

(* The end of run signals the group; a process it cannot end stays.        *)
Cleanup(alive) ==
  /\ agyAt = "cleanup"
  /\ native' = IF native = "runs" /\ ~alive THEN "failed" ELSE native
  /\ group' = alive /\ agyAt' = "report"
  /\ UNCHANGED <<probeVars, callVars, launched, sent, stream, seen, out>>

Updated == binary # probe.before
Report ==
  /\ agyAt = "report" /\ agyAt' = "ended"
  /\ out' = [out EXCEPT !.updated = Updated]
  /\ UNCHANGED <<probeVars, callVars, procVars, stream, seen>>

-----------------------------------------------------------------------------
(* Around the run.                                                         *)
Running == agyAt \notin {"look", "ask", "keep", "compare", "register", "ended"}
CancelCall ==
  /\ ~cancelAsked /\ agyAt # "ended" /\ cancelAsked' = TRUE
  /\ stateCancelled' = (stateCancelled \/ Running) /\ early' = ~Running
  /\ UNCHANGED <<probeVars, agyAt, stopping, procVars, stream, seen, out>>
StopCall == /\ ~stopping /\ agyAt # "ended" /\ stopping' = TRUE
            /\ UNCHANGED <<probeVars, agyAt, cancelAsked, stateCancelled, early, procVars, stream, seen, out>>
UpdateBinary == /\ binary <= MaxUpdates /\ agyAt # "ended" /\ binary' = binary + 1
                /\ UNCHANGED <<cache, probe, agyAt, callVars, procVars, stream, seen, out>>
Exit(how) == /\ native = "runs" /\ agyAt \in {"loop", "winding"}
             /\ native' = how
             /\ UNCHANGED <<probeVars, agyAt, callVars, group, launched, sent, stream, seen, out>>

AgyNext ==
  \/ Refuse \/ Look \/ Read \/ KeepProbe \/ Compare \/ Register \/ Spawn
  \/ Halted \/ Deadline \/ SeeCancel \/ GraceOver \/ Publish \/ LookAgain \/ Write
  \/ \E good \in BOOLEAN : InitEvent(good)
  \/ \E e \in StepRecords : StepEvent(e)
  \/ \E r \in Results : ResultEvent(r)
  \/ BadEvent \/ \E named \in BOOLEAN : Stderr(named)
  \/ Leave \/ Judge \/ Report
  \/ \E alive \in BOOLEAN : StopDelegated(alive) \/ Cleanup(alive)
  \/ CancelCall \/ StopCall \/ UpdateBinary
  \/ \E how \in {"ok", "failed"} : Exit(how)

AgySpec == AgyInit /\ [][AgyNext]_agyVars

-----------------------------------------------------------------------------
Ended == agyAt = "ended"
AgyTypeOK ==
  /\ binary \in 1 .. MaxUpdates + 1 /\ probe.tries \in 0 .. 2
  /\ native \in {"none", "runs", "ok", "failed"} /\ group \in BOOLEAN
  /\ stream.policy \union stream.review \subseteq stream.stepErrors
  /\ out.status \in {"none", "failed", "cancelled", "succeeded", "pending_reconcile"}
  /\ Ended => out.status # "none"

(* A run is reported as a success only if the stream proved one: it began  *)
(* and ended as it must, every step is over, and each step that reported   *)
(* an error at any time was denied by policy in its final record. An error *)
(* in an earlier frame is not excused by a later one.                      *)
SuccessIsProved ==
  Ended /\ out.status = "succeeded" =>
    /\ stream.init /\ stream.result = "SUCCESS" /\ stream.subagents = {} /\ ~SoftDenied
    /\ \A e \in seen : e.st = "ERROR" \/ e.err # "none" =>
         \E f \in seen : f.i = e.i /\ f.st = "ERROR" /\ f.kind = "tool" /\ f.err = "policy"
    /\ \A e \in seen : \E f \in seen : f.i = e.i /\ f.st # "ACTIVE"

(* The denials counted for a run are those of the final record of each     *)
(* step; a denial an earlier frame mentioned is gone.                      *)
DenialsAreFinal ==
  /\ stream.policy = {i \in Steps : \E e \in seen :
                        e.i = i /\ e.st = "ERROR" /\ e.kind = "tool" /\ e.err = "policy"}
  /\ stream.review = {i \in Steps : \E e \in seen :
                        e.i = i /\ e.st = "ERROR" /\ e.kind = "tool" /\ e.err = "review"}

(* The receipt of a run says not_sent only when no byte of the prompt was  *)
(* written, so the core may send that prompt again.                        *)
NotSentIsTrue == out.sentAs = "not_sent" => ~sent

(* Delegated work is never accepted, and its run is over only when no      *)
(* process is left that could go on working.                               *)
DelegateEndsWithGroup ==
  out.status # "none" /\ stream.subagents # {} =>
    \/ out.status = "pending_reconcile"
    \/ out.status = "failed" /\ ~group

(* A cancellation that was asked before the run registered is not lost: no *)
(* process is started for it.                                              *)
EarlyCancelStartsNothing == early => native = "none"

(* A cancelled run was cancelled before a process existed, or its own      *)
(* stream said that it was interrupted.                                    *)
CancelledIsProved ==
  out.status = "cancelled" => native = "none" \/ stream.result = "CANCELED"

(* The version recorded for a run is that of the binary the process was    *)
(* started from, unless the run says that the binary was replaced.         *)
VersionIsTrue ==
  Ended /\ launched # 0 => out.version = launched \/ out.updated

(* Whatever the stream says and whoever cancels or replaces the binary: the  *)
(* run is reported as what was proved of it, and as unknown otherwise.       *)
AgySafety ==
  /\ [](AgyTypeOK /\ SuccessIsProved /\ DenialsAreFinal /\ NotSentIsTrue
        /\ DelegateEndsWithGroup /\ EarlyCancelStartsNothing
        /\ CancelledIsProved /\ VersionIsTrue)
=============================================================================
