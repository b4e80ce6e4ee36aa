----------------------------- MODULE CodexThread -----------------------------
(***************************************************************************)
(* One run on a Codex app server (backends/codex_runtime.py, codex.py,        *)
(* codex_context.py): a worker thread of the core connects, opens or resumes   *)
(* a thread, may compact it, sends one work turn and watches it.  The reader    *)
(* thread of the connection applies the server's messages to the session.      *)
(* Everything the worker wants kept it publishes; the core commits it before    *)
(* the worker goes on.  The core may stop or die at any point; a later core     *)
(* only looks the recorded turn up.                                          *)
(*                                                                          *)
(*   style     how the run gets its thread                                   *)
(*   turnsAt   the turns the server keeps: thread, kind, status               *)
(*   kept      what the core committed: status, thread, turn, phase of the    *)
(*             context transition, a read outside the fixed scope             *)
(*   cpc       step of the worker                                            *)
(*   sess      the session: thread, turn, status, pending request             *)
(*   asks      requests handed to the worker (SimpleQueue of the read scope)   *)
(*   wire      messages of the server not read yet                           *)
(***************************************************************************)
EXTENDS Integers, Sequences, FiniteSets

CONSTANTS
  Styles,          \* of "new", "scoped", "resume", "fresh", "compact"
  MaxAsks,         \* bound on requests of the server
  MaxCodexRestarts \* bound on restarts of the core

ASSUME CodexAssumption == MaxAsks \in Nat /\ MaxCodexRestarts \in Nat /\ Styles # {}

VARIABLES style, turnsAt, kept, cpc, sess, asks, wire, conn, cancelled, halting, asked, refused, codexRestarts

cdxVars == <<style, turnsAt, kept, cpc, sess, asks, wire, conn, cancelled, halting, asked, refused, codexRestarts>>

Transition == style \in {"fresh", "compact"}
Continues == style \in {"resume", "fresh", "compact"}   \* native names an existing thread
Scoped == style = "scoped"
TurnEnds == {"completed", "failed", "interrupted"}      \* TERMINALS
RunEnds == {"succeeded", "failed", "cancelled"}

EndOf(s) == CASE s = "completed" -> "succeeded" [] s = "failed" -> "failed" [] OTHER -> "cancelled"
NoThread == 0
NoTurn == 0
NoSession == [thread |-> NoThread, turn |-> NoTurn, status |-> "idle", pending |-> "none"]
SourceTurn == 1       \* the turn the previous run recorded, on thread 1
ThreadIds == 0 .. 2

(* Another client may have gone on with the source thread.                   *)
CodexInit ==
  /\ style \in Styles
  /\ turnsAt \in {<<[thread |-> 1, kind |-> "source", status |-> "completed"]>>} \cup
       {<<[thread |-> 1, kind |-> "source", status |-> "completed"], [thread |-> 1, kind |-> "other", status |-> s]>> : s \in {"running", "completed"}}
  /\ kept = [status |-> "dispatching", thread |-> NoThread, turn |-> NoTurn, phase |-> "prepared", violated |-> FALSE]
  /\ cpc = "connect" /\ sess = NoSession /\ asks = <<>> /\ wire = <<>> /\ conn = FALSE
  /\ cancelled = FALSE /\ halting = FALSE /\ asked = 0 /\ refused = FALSE /\ codexRestarts = 0

-----------------------------------------------------------------------------
(* Reports: publish returns when the core has committed; while the core      *)
(* stops it fails, and the update may have been committed or not.            *)

ServerSide == <<turnsAt, asked, refused>>
CoreSide == <<style, cancelled, halting, codexRestarts>>

Closed == /\ cpc' = "ended" /\ conn' = FALSE /\ sess' = NoSession /\ asks' = <<>> /\ wire' = <<>>
          /\ cancelled' = FALSE /\ UNCHANGED <<style, halting, codexRestarts, turnsAt, asked, refused>>

(* publish(update), then the step "next".                                    *)
Published(update, next) ==
  /\ kept' = update
  /\ IF halting THEN Closed ELSE cpc' = next /\ UNCHANGED <<sess, asks, wire, conn, CoreSide, ServerSide>>

(* The worker ends; its result is one more update.  It is not sent twice.    *)
Ends(update) ==
  /\ kept' = update \/ (halting /\ UNCHANGED kept)
  /\ Closed

(* An exception: unknown once turn/start may be out, otherwise a fixed-scope *)
(* run is known not to have been sent.                                       *)
SentMaybe == {"sent", "phase_started", "service", "watch", "refuse"}

Doubt == [kept EXCEPT !.status = "pending", !.turn = IF cpc \in SentMaybe /\ Scoped /\ sess.turn # NoTurn THEN sess.turn ELSE @,
                      !.violated = @ \/ (Scoped /\ cpc \in SentMaybe /\ asks # <<>>)]

Raised == IF Scoped /\ cpc \notin SentMaybe THEN [kept EXCEPT !.status = "failed"] ELSE Doubt

Raises == Ends(Raised)

-----------------------------------------------------------------------------
(* The worker before its turn is out (CodexRuntime.run).                     *)

At(step) == cpc = step

Connect ==
  /\ At("connect")
  /\ \/ Raises
     \/ /\ ~halting /\ conn' = TRUE /\ cpc' = IF Continues THEN "read" ELSE "open"
        /\ UNCHANGED <<kept, sess, asks, wire, CoreSide, ServerSide>>

Latest(thread) == CHOOSE i \in DOMAIN turnsAt : turnsAt[i].thread = thread /\ \A j \in DOMAIN turnsAt : turnsAt[j].thread = thread => j <= i

(* _read(check_latest): the newest turn is the known one, and it is over.    *)
LatestKnown(known) == Latest(1) = known /\ turnsAt[known].status \in TurnEnds

ReadSource ==
  /\ At("read")
  /\ \/ Raises
     \/ /\ conn /\ LatestKnown(SourceTurn) /\ cpc' = IF style = "fresh" THEN "create_phase" ELSE "open"
        /\ UNCHANGED <<kept, sess, asks, wire, conn, CoreSide, ServerSide>>

CreatePhase == At("create_phase") /\ Published([kept EXCEPT !.phase = "session_create_requested"], "open")

(* thread/start or thread/resume; its answer may be lost.                    *)
OpenSession ==
  /\ At("open")
  /\ \/ Raises
     \/ /\ conn /\ cpc' = "bind"
        /\ sess' = [NoSession EXCEPT !.thread = IF style \in {"resume", "compact"} THEN 1 ELSE 2]
        /\ UNCHANGED <<kept, asks, wire, conn, CoreSide, ServerSide>>

BoundLater == kept   \* mutant: the thread is recorded with its first turn

Bound == [kept EXCEPT !.thread = sess.thread, !.phase = IF Transition THEN "session_bound" ELSE @]

(* Without this commit no turn is started.                                   *)
BindSession == At("bind") /\ Published(Bound, "check")

CancelledHere == [kept EXCEPT !.status = "cancelled"]

StopsHere == cancelled

CheckCancelled ==
  /\ At("check")
  /\ \/ halting /\ Raises
     \/ ~halting /\ StopsHere /\ Ends(CancelledHere)
     \/ /\ ~halting /\ ~StopsHere
        /\ cpc' = CASE style = "compact" -> "compact_read" [] style = "fresh" -> "prompt_phase" [] OTHER -> "send"
        /\ UNCHANGED <<kept, sess, asks, wire, conn, CoreSide, ServerSide>>

-----------------------------------------------------------------------------
(* thread/compact/start (codex_context.compact).                             *)

CompactIntent ==
  /\ At("compact_read")
  /\ \/ Raises
     \/ conn /\ LatestKnown(SourceTurn) /\ Published([kept EXCEPT !.phase = "compaction_requested", !.thread = 1], "compact_send")

Started(kind) ==
  /\ turnsAt' = Append(turnsAt, [thread |-> sess.thread, kind |-> kind, status |-> "running"])
  /\ wire' = Append(wire, [what |-> "started", turn |-> Len(turnsAt) + 1, ask |-> "none"])

CompactSend ==
  /\ At("compact_send")
  /\ \/ Raises
     \/ ~halting /\ ~cancelled /\ conn /\ Started("compact") /\ cpc' = "compact_ack"
        /\ UNCHANGED <<kept, sess, asks, conn, CoreSide, asked, refused>>

CompactAck ==
  /\ At("compact_ack")
  /\ Raises \/ (conn /\ Published([kept EXCEPT !.phase = "compaction_acknowledged"], "compact_wait"))

Compacted == sess.turn # NoTurn /\ sess.status = "completed" /\ turnsAt[Latest(1)].status = "completed" /\ Latest(1) = sess.turn

CompactWait ==
  /\ At("compact_wait")
  /\ Raises \/ (conn /\ ~halting /\ ~cancelled /\ sess.pending = "none" /\ Compacted
                /\ Published([kept EXCEPT !.phase = "compaction_completed"], "prompt_phase"))

-----------------------------------------------------------------------------
(* The work turn.                                                            *)

PromptPhase ==
  /\ At("prompt_phase")
  /\ \/ (halting \/ cancelled) /\ Raises
     \/ ~halting /\ ~cancelled /\ Published([kept EXCEPT !.phase = "prompt_requested"], "send")

(* The session is reset, then turn/start is written; it may never arrive.    *)
SendTurn ==
  /\ At("send") /\ cpc' = "sent" /\ sess' = [sess EXCEPT !.turn = NoTurn, !.status = "running", !.pending = "none"]
  /\ \/ conn /\ Started("work")
     \/ UNCHANGED <<turnsAt, wire>>
  /\ UNCHANGED <<kept, asks, conn, CoreSide, asked, refused>>

WorkTurns == {i \in DOMAIN turnsAt : turnsAt[i].kind = "work"}

TurnAnswered ==
  /\ At("sent")
  /\ \/ Raises
     \/ /\ conn /\ WorkTurns # {} /\ sess' = [sess EXCEPT !.turn = CHOOSE i \in WorkTurns : TRUE]
        /\ cpc' = IF Transition THEN "phase_started" ELSE "service"
        /\ UNCHANGED <<kept, asks, wire, conn, CoreSide, ServerSide>>

StartedPhase ==
  At("phase_started") /\ Published([kept EXCEPT !.phase = "prompt_started", !.turn = sess.turn, !.status = "running"], "service")

-----------------------------------------------------------------------------
(* Watching: the requests handed over first, then one look at the session.   *)

Fits == sess.pending = Head(asks) /\ Head(asks) = "read"

ServeRead ==
  /\ At("service") /\ asks # <<>> /\ Fits
  /\ asks' = Tail(asks) /\ sess' = [sess EXCEPT !.pending = "none", !.status = IF @ \in TurnEnds THEN @ ELSE "running"]
  /\ UNCHANGED <<kept, cpc, wire, conn, CoreSide, ServerSide>>

LatchedNow == [kept EXCEPT !.status = "running", !.turn = sess.turn, !.violated = TRUE]

(* latch_violation: the failure is committed before the server is answered.  *)
LatchViolation == At("service") /\ asks # <<>> /\ ~Fits /\ Published(LatchedNow, "refuse")

RefuseAsk ==
  /\ At("refuse") /\ asks' = Tail(asks) /\ refused' = TRUE /\ cpc' = "service"
  /\ sess' = [sess EXCEPT !.pending = "none", !.status = IF @ \in TurnEnds THEN @ ELSE "running"]
  /\ UNCHANGED <<kept, wire, conn, CoreSide, turnsAt, asked>>

ServiceDone ==
  /\ At("service") /\ asks = <<>> /\ cpc' = "watch"
  /\ UNCHANGED <<kept, sess, asks, wire, conn, CoreSide, ServerSide>>

Final == [kept EXCEPT !.status = IF kept.violated THEN "failed" ELSE EndOf(sess.status), !.turn = sess.turn]

WatchEnds == At("watch") /\ sess.status \in TurnEnds /\ Ends(Final)

WatchDoubts ==
  /\ At("watch") /\ sess.status \notin TurnEnds /\ (~conn \/ sess.status = "unknown")
  /\ Ends([kept EXCEPT !.status = "pending", !.turn = sess.turn])

(* A snapshot is published; then a cancellation interrupts the turn, once.   *)
WatchGoesOn ==
  /\ At("watch") /\ ~halting /\ conn /\ sess.status \in {"running", "waiting_input"}
  /\ Published([kept EXCEPT !.status = IF sess.pending # "none" /\ ~Scoped THEN "waiting" ELSE "running", !.turn = sess.turn],
               IF cancelled THEN "interrupt" ELSE "service")

Interrupt ==
  /\ At("interrupt") /\ cancelled' = FALSE /\ cpc' = "service"
  /\ \/ /\ conn /\ turnsAt[sess.turn].status = "running"
        /\ turnsAt' = [turnsAt EXCEPT ![sess.turn].status = "interrupted"]
        /\ wire' = Append(wire, [what |-> "interrupted", turn |-> sess.turn, ask |-> "none"])
     \/ UNCHANGED <<turnsAt, wire>>
  /\ UNCHANGED <<style, kept, sess, asks, conn, halting, asked, refused, codexRestarts>>

InterruptFails == At("interrupt") /\ Raises

WatchHalts == cpc \in {"watch", "service"} /\ halting /\ Raises

-----------------------------------------------------------------------------
(* The reader thread (CodexSession.handle_message).                          *)

Takes(m) == sess.turn = NoTurn \/ m.turn = sess.turn

ReadWire ==
  /\ wire # <<>> /\ sess # NoSession /\ wire' = Tail(wire)
  /\ LET m == Head(wire) IN
     IF ~Takes(m) THEN UNCHANGED <<sess, asks>>
     ELSE IF m.what = "ask"
       THEN /\ sess' = [sess EXCEPT !.pending = m.ask, !.status = "waiting_input"]
            /\ asks' = IF Scoped THEN Append(asks, m.ask) ELSE asks
     ELSE IF m.what = "error" THEN sess' = [sess EXCEPT !.status = "unknown"] /\ UNCHANGED asks
     ELSE /\ sess' = [sess EXCEPT !.turn = m.turn, !.pending = IF m.what = "started" THEN @ ELSE "none",
                                  !.status = IF m.what = "started" THEN "running" ELSE m.what]
          /\ UNCHANGED asks
  /\ UNCHANGED <<kept, cpc, conn, CoreSide, ServerSide>>

-----------------------------------------------------------------------------
(* The app server.                                                           *)

ServerEnds(i, s) ==
  /\ turnsAt[i].status = "running" /\ turnsAt[i].kind # "other" /\ turnsAt' = [turnsAt EXCEPT ![i].status = s]
  /\ wire' = IF conn THEN Append(wire, [what |-> s, turn |-> i, ask |-> "none"]) ELSE wire
  /\ UNCHANGED <<kept, cpc, sess, asks, conn, CoreSide, asked, refused>>

ServerAsks(i, what) ==
  /\ conn /\ turnsAt[i].status = "running" /\ turnsAt[i].kind = "work" /\ asked < MaxAsks /\ asked' = asked + 1
  /\ wire' = Append(wire, [what |-> "ask", turn |-> i, ask |-> what])
  /\ UNCHANGED <<kept, cpc, sess, asks, conn, CoreSide, turnsAt, refused>>

ServerErrs(i) ==
  /\ conn /\ turnsAt[i].status = "running" /\ turnsAt[i].kind = "work" /\ asked < MaxAsks /\ asked' = asked + 1
  /\ wire' = Append(wire, [what |-> "error", turn |-> i, ask |-> "none"])
  /\ UNCHANGED <<kept, cpc, sess, asks, conn, CoreSide, turnsAt, refused>>

ConnectionDies == conn /\ conn' = FALSE /\ UNCHANGED <<kept, cpc, sess, asks, wire, CoreSide, ServerSide>>

-----------------------------------------------------------------------------
(* The core: cancel, answer an approval, stop, die, reconcile.               *)

RequestCancel ==
  /\ ~halting /\ cpc # "ended" /\ ~cancelled /\ cancelled' = TRUE
  /\ UNCHANGED <<style, kept, cpc, sess, asks, wire, conn, halting, codexRestarts, turnsAt, asked, refused>>

(* respond: only a request that is still pending on this connection.         *)
AnswerApproval ==
  /\ ~Scoped /\ kept.status = "waiting" /\ sess.pending # "none" /\ conn
  /\ sess' = [sess EXCEPT !.pending = "none", !.status = "running"]
  /\ UNCHANGED <<kept, cpc, asks, wire, conn, CoreSide, ServerSide>>

Halt ==
  /\ ~halting /\ halting' = TRUE
  /\ UNCHANGED <<style, kept, cpc, sess, asks, wire, conn, cancelled, codexRestarts, turnsAt, asked, refused>>

RestoredRun == IF kept.status \in RunEnds THEN kept ELSE [kept EXCEPT !.status = "pending"]

(* The process dies, with its threads, its connection and its flags.         *)
RestartCodex ==
  /\ codexRestarts < MaxCodexRestarts /\ codexRestarts' = codexRestarts + 1
  /\ cpc' = "ended" /\ sess' = NoSession /\ asks' = <<>> /\ wire' = <<>> /\ conn' = FALSE /\ cancelled' = FALSE /\ halting' = FALSE
  /\ kept' = RestoredRun
  /\ UNCHANGED <<style, turnsAt, asked, refused>>

PhaseDone == Transition => kept.phase = "prompt_started"

LooksUpLatest == turnsAt[Len(turnsAt)].status   \* mutant: the newest turn of all stands for the run

LooksUp == IF kept.turn \in DOMAIN turnsAt THEN turnsAt[kept.turn].status ELSE "unknown"

(* reconcile: the recorded turn is looked up; nothing is ever sent again.    *)
ReconcileRun ==
  /\ cpc = "ended" /\ ~halting /\ kept.status = "pending" /\ PhaseDone /\ kept.thread # NoThread
  /\ LooksUp \in TurnEnds
  /\ kept' = [kept EXCEPT !.status = IF kept.violated THEN "failed" ELSE EndOf(LooksUp)]
  /\ UNCHANGED <<cpc, sess, asks, wire, conn, CoreSide, ServerSide>>

CodexNext ==
  \/ Connect \/ ReadSource \/ CreatePhase \/ OpenSession \/ BindSession \/ CheckCancelled
  \/ CompactIntent \/ CompactSend \/ CompactAck \/ CompactWait
  \/ PromptPhase \/ SendTurn \/ TurnAnswered \/ StartedPhase
  \/ ServeRead \/ LatchViolation \/ RefuseAsk \/ ServiceDone
  \/ WatchEnds \/ WatchDoubts \/ WatchGoesOn \/ Interrupt \/ InterruptFails \/ WatchHalts \/ ReadWire
  \/ \E i \in DOMAIN turnsAt : \/ \E s \in TurnEnds : ServerEnds(i, s)
                               \/ \E what \in {"read", "foreign"} : ServerAsks(i, what)
                               \/ ServerErrs(i)
  \/ ConnectionDies \/ RequestCancel \/ AnswerApproval \/ Halt \/ RestartCodex \/ ReconcileRun

CodexSpec == CodexInit /\ [][CodexNext]_cdxVars

-----------------------------------------------------------------------------
CodexTypeOK ==
  /\ kept.status \in {"dispatching", "running", "waiting", "pending"} \cup RunEnds
  /\ kept.thread \in ThreadIds /\ kept.turn \in 0 .. Len(turnsAt) /\ sess.turn \in 0 .. Len(turnsAt)
  /\ sess.pending \in {"none", "read", "foreign"} /\ asked \in 0 .. MaxAsks
  /\ sess.status \in {"idle", "running", "waiting_input", "unknown"} \cup TurnEnds

(* The prompt reaches the server once at most, and never before the core has *)
(* a durable reference to the thread it went to.                             *)
PromptHasReference ==
  /\ Cardinality(WorkTurns) <= 1
  /\ \A i \in WorkTurns : kept.thread = turnsAt[i].thread

(* A run is over only as its own work turn is: never by the turn of the run   *)
(* before, a compaction, another client's turn or a guess.                    *)
EndedByItsTurn ==
  /\ kept.status = "succeeded" => kept.turn \in WorkTurns /\ turnsAt[kept.turn].status = "completed"
  /\ kept.status = "cancelled" => \A i \in WorkTurns : kept.turn = i /\ turnsAt[i].status = "interrupted"

(* Where the run reports that nothing was sent, nothing was.                 *)
ReportedUnsent ==
  /\ kept.status = "cancelled" /\ kept.turn = NoTurn => WorkTurns = {}
  /\ Scoped /\ kept.status = "failed" /\ kept.turn = NoTurn => WorkTurns = {}

(* A source thread another client went on with gets no turn of ours.         *)
OnlyOnKnownThread ==
  \A i \in DOMAIN turnsAt : turnsAt[i].kind \in {"work", "compact"} /\ turnsAt[i].thread = 1 =>
    \A j \in DOMAIN turnsAt : turnsAt[j].kind # "other"

(* A request outside the fixed scope fails the run, though the core dies     *)
(* right after the refusal and a later core finds the turn completed.        *)
RefusalSticks == refused => kept.violated /\ kept.status # "succeeded"

(* A prompt follows a compaction that is complete in the server's history.   *)
CompactedFirst ==
  style = "compact" /\ WorkTurns # {} =>
    \E i \in DOMAIN turnsAt : turnsAt[i].kind = "compact" /\ turnsAt[i].status = "completed"

(* The end of a run is not rewritten.                                        *)
RunEndStays == [][kept.status \in RunEnds => kept'.status = kept.status]_cdxVars

(* Wherever the core dies and whatever order the messages come in: one       *)
(* prompt, on a thread the core knows, and an end that is the one of its own *)
(* turn.                                                                     *)
ThreadSafety ==
  /\ [](CodexTypeOK /\ PromptHasReference /\ EndedByItsTurn
        /\ ReportedUnsent /\ OnlyOnKnownThread /\ RefusalSticks
        /\ CompactedFirst)
  /\ RunEndStays
=============================================================================
