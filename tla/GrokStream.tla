------------------------------ MODULE GrokStream ------------------------------
(***************************************************************************)
(* What a Grok coding run is judged by (backends/grok_code.py): the events    *)
(* its process writes, one line each, its exit code and the close of its      *)
(* pipes.  An end that proves anything is taken as the result; all else is    *)
(* of unknown outcome and only core-held evidence may settle it later.        *)
(*                                                                          *)
(*   legacy   the run was read by a reader that called any nonzero exit an    *)
(*            error                                                          *)
(*   slog     lines taken, in their order                                     *)
(*   got      what the reader remembers of the lines it took                 *)
(*   sexit    exit code of the process; pipes of it and of its tools         *)
(*   answer   the result, and the native record that goes with it            *)
(*                                                                          *)
(* Thoughts, text and usage lines decide nothing and are left out; all tool  *)
(* lines carry one call id, which calls may use again.                       *)
(***************************************************************************)
EXTENDS Integers, Sequences

CONSTANT MaxLines      \* bound on the lines of a run

ASSUME GrokStreamAssumption == MaxLines \in Nat

VARIABLES legacy, slog, got, sexit, pipes, answer

streamVars == <<legacy, slog, got, sexit, pipes, answer>>

StillRunning == -1
Stops == {"end_turn", "cancelled", "max_tokens", "paused"}   \* "paused" stands for reasons not known
Calls == {"edit", "other"}                 \* kind of a tool call
Outcomes == {"completed", "denied"}        \* of a tool update
StreamLines == Stops \cup Calls \cup Outcomes \cup {"limit", "error", "garbage", "foreign"}

NothingRead == [end |-> "none", limit |-> FALSE, denial |-> FALSE, named |-> FALSE, effect |-> "none",
                edits |-> 0, failed |-> FALSE, garbage |-> FALSE, provider |-> "none"]
NoAnswerYet == [status |-> "none", error |-> "none", stop |-> "none", exit |-> StillRunning, provider |-> "none",
                edits |-> 0, clean |-> TRUE]

StreamInit ==
  /\ legacy \in BOOLEAN /\ slog = <<>> /\ got = NothingRead
  /\ sexit = StillRunning /\ pipes = "open" /\ answer = NoAnswerYet

StreamTypeOK ==
  /\ Len(slog) <= MaxLines /\ sexit \in {StillRunning, 0, 1, 2}
  /\ got.end \in Stops \cup {"none"} /\ got.effect \in {"none", "edit"} /\ got.edits \in Nat
  /\ answer.status \in {"none", "succeeded", "failed", "cancelled", "pending"} /\ answer.exit \in {StillRunning, 0, 1, 2}

-----------------------------------------------------------------------------
(* The process and its tools.  Lines it wrote may be read after it exited.   *)

ExitProcess(code) ==
  /\ sexit = StillRunning /\ sexit' = code /\ UNCHANGED <<legacy, slog, got, pipes, answer>>

(* The last process that holds the pipes ends.                               *)
ClosePipes == sexit # StillRunning /\ pipes = "open" /\ pipes' = "closed" /\ UNCHANGED <<legacy, slog, got, sexit, answer>>

-----------------------------------------------------------------------------
(* The reader.                                                              *)

StillReading == answer.status = "none"

EffectOf(e) == IF e = "edit" THEN e ELSE "none"

(* remember_tool: the id now belongs to this call.                           *)
Called(g, e) == [g EXCEPT !.named = TRUE, !.denial = FALSE, !.effect = EffectOf(e)]

(* note_completed: a call counts once.                                       *)
NotedCall(g) == [g EXCEPT !.denial = FALSE, !.effect = "none", !.edits = IF g.effect = "edit" THEN @ + 1 ELSE @]

UpdatedCall(g, e) ==
  CASE e = "completed" -> NotedCall(g)
    [] e = "denied" -> [g EXCEPT !.denial = g.named]

EndTaken(g, e) == [g EXCEPT !.end = e]

GarbageSkipped(g) == g   \* mutant: a line that is no JSON is skipped

(* Drained for the diagnostics behind it, but never part of a success.       *)
Garbage(g) == [g EXCEPT !.garbage = TRUE]

Took(g, e) ==
  CASE e \in Calls -> Called(g, e)
    [] e \in Outcomes -> UpdatedCall(g, e)
    [] e \in Stops -> EndTaken(g, e)
    [] e = "limit" -> [g EXCEPT !.limit = TRUE, !.provider = "turn_limit"]
    [] e = "error" -> [g EXCEPT !.failed = TRUE, !.provider = "quota_exhausted"]
    [] e = "garbage" -> Garbage(g)

(* Lines no reader goes on after.                                            *)
Broken(e) == e = "foreign" \/ (got.end # "none" /\ e # "garbage")

TakeLine(e) ==
  /\ StillReading /\ pipes = "open" /\ Len(slog) < MaxLines /\ ~Broken(e)
  /\ got' = Took(got, e) /\ slog' = Append(slog, e)
  /\ UNCHANGED <<legacy, sexit, pipes, answer>>

(* The record keeps the end, the exit code and what the provider reported.   *)
AnswerWith(status, error) ==
  \E clean \in {TRUE, error # "nonzero_exit"} :
    answer' = [status |-> status, error |-> error, stop |-> got.end, exit |-> sexit, provider |-> got.provider,
               edits |-> IF error = "permission_denied" THEN got.edits ELSE 0, clean |-> clean]

KeepStream == UNCHANGED <<legacy, slog, got, sexit, pipes>>

(* A timeout, a stop of the core, pipes that stay open after the exit.        *)
AbandonTurn == StillReading /\ AnswerWith("pending", "abandoned") /\ KeepStream

RaiseBroken == pipes = "open" /\ (\E e \in StreamLines : Broken(e)) /\ AbandonTurn

(* incomplete_terminal                                                       *)
Incomplete(g) ==
  CASE g.end = "max_tokens" \/ (g.limit /\ g.end \in {"end_turn", "cancelled"}) -> "incomplete"
    [] g.end = "cancelled" /\ g.denial -> "permission_denied"
    [] g.end = "cancelled" -> "cancelled"
    [] OTHER -> "none"

Drained == StillReading /\ sexit # StillRunning /\ pipes = "closed"

(* The judgement after the loop, in the order of the code.                   *)
Judgement ==
  CASE got.garbage -> "invalid_stdout_json"
    [] sexit # 0 /\ (legacy \/ ~(sexit = 1 /\ Incomplete(got) # "none")) -> "nonzero_exit"
    [] got.end = "none" -> "missing_end"
    [] got.end = "max_tokens" \/ got.limit -> "incomplete"
    [] got.failed -> "native_error"
    [] got.end = "end_turn" -> "succeeded"
    [] got.end = "cancelled" -> IF got.denial THEN "permission_denied" ELSE "cancelled"
    [] OTHER -> "unknown_stop_reason"

StatusOf(judgement) ==
  CASE judgement \in {"succeeded", "cancelled"} -> judgement
    [] judgement \in {"incomplete", "permission_denied"} -> "failed"
    [] OTHER -> "pending"

JudgeTurn == Drained /\ AnswerWith(StatusOf(Judgement), Judgement) /\ KeepStream

-----------------------------------------------------------------------------
(* reconcile_recorded_terminal: later, from the record alone.                *)

RecordedAny == answer.status = "pending" /\ answer.exit # StillRunning   \* mutant: any recorded exit is a proof

Recorded == answer.status = "pending" /\ answer.error = "nonzero_exit" /\ answer.exit = 1 /\ answer.clean

RecordedEnd ==
  Incomplete([NothingRead EXCEPT !.end = answer.stop, !.limit = answer.provider = "turn_limit"])

ReconcileRecorded ==
  /\ Recorded /\ RecordedEnd # "none"
  /\ answer' = [answer EXCEPT !.status = IF RecordedEnd = "cancelled" THEN "cancelled" ELSE "failed"]
  /\ KeepStream

StreamNext ==
  \/ \E e \in StreamLines : TakeLine(e)
  \/ \E code \in 0 .. 2 : ExitProcess(code)
  \/ ClosePipes \/ RaiseBroken \/ AbandonTurn \/ JudgeTurn \/ ReconcileRecorded

StreamSpec == StreamInit /\ [][StreamNext]_streamVars

-----------------------------------------------------------------------------
Has(e) == \E i \in DOMAIN slog : slog[i] = e
StopLines == {i \in DOMAIN slog : slog[i] \in Stops}
ToolLines == {i \in DOMAIN slog : slog[i] \in Calls \cup Outcomes}

(* A run succeeded only when everything it wrote was read and says so: an     *)
(* end of its turn, nothing broken, failed or cut off before or after it.     *)
WholeSuccess ==
  answer.status = "succeeded" =>
    /\ sexit = 0 /\ pipes = "closed"
    /\ \E i \in StopLines : slog[i] = "end_turn" /\ StopLines = {i}
    /\ \A e \in {"limit", "error", "garbage", "foreign"} : ~Has(e)

(* A cancelled turn is a refused permission exactly when the last tool line   *)
(* is the refusal of a call, and a turn limit is neither.                     *)
DenialDecides ==
  answer.exit \in {0, 1} /\ answer.error \in {"permission_denied", "cancelled"} =>
    /\ ~Has("limit")
    /\ (answer.error = "permission_denied") <=>
         (\E i \in ToolLines : /\ slog[i] = "denied" /\ \A j \in ToolLines : j <= i
                               /\ \E c \in ToolLines : slog[c] \in Calls)

EditCompleted(i) ==
  slog[i] = "edit" /\ \E j \in i + 1 .. Len(slog) :
    slog[j] = "completed" /\ \A k \in i + 1 .. j - 1 : slog[k] \notin Calls

(* Edits made before a refusal are reported, each once, however often the id  *)
(* of a call is used again or its completion repeated.                        *)
EditsTold ==
  answer.error = "permission_denied" =>
    answer.edits = Len(SelectSeq([i \in DOMAIN slog |-> i], EditCompleted))

(* What the record settles later is never a success, and only what the end it *)
(* holds proves.                                                              *)
SettledByEvidence ==
  [][answer.status = "pending" /\ answer'.status # "pending" =>
       /\ answer'.status \in {"failed", "cancelled"} /\ ~Has("garbage")
       /\ Incomplete(got) # "none" /\ (answer'.status = "cancelled" => got.end = "cancelled")]_streamVars

(* However the lines, the exit and the close of the pipes mix: success is a  *)
(* whole stream, and a refusal is told from other ends.                      *)
StreamSafety ==
  /\ [](StreamTypeOK /\ WholeSuccess /\ DenialDecides /\ EditsTold)
  /\ SettledByEvidence
=============================================================================
