--------------------------- MODULE ConversationTurns ---------------------------
(***************************************************************************)
(* One conversation over its tasks (application.py).  The conversation's record  *)
(* binds it to an account and a host, names the native thread and turn, and the  *)
(* task that owns it; a submission in the conversation is judged by that record  *)
(* and by the owner alone.  Repairs and continuations start runs of an older     *)
(* task again, and results of older runs are recorded late.                    *)
(*                                                                          *)
(*   session    the record; none before the first submission                  *)
(*   turns      the current run of each task submitted in the conversation       *)
(*   account    the account and host the core runs under                       *)
(*   threads    the native threads, with the account and the reading scope each   *)
(*              was made under                                               *)
(*   uses       every use of a thread: under which account and scope             *)
(***************************************************************************)
EXTENDS Integers, FiniteSets, Sequences

CONSTANTS Tasks,          \* tasks submitted in the conversation
          Accounts,       \* accounts the core may run under
          Scopes,         \* fixed reading scopes a submission may ask for
          MaxThreads,     \* bound on the threads
          MaxAgain,       \* bound on the repairs and continuations
          MaxAccountMoves        \* bound on restarts under another account

ASSUME ConversationTurnsAssumption ==
  /\ MaxThreads \in Nat /\ MaxAgain \in Nat /\ MaxAccountMoves \in Nat

VARIABLES session, turns, account, threads, uses, again, moves

convVars == <<session, turns, account, threads, uses, again, moves>>

NoTask == "none"
NoTurnYet == [status |-> "none", role |-> "none", scope |-> "none", account |-> "none", thread |-> 0, paused |-> FALSE]
NoBinding == [owner |-> NoTask, native |-> 0, account |-> "none"]

Unended == {"queued", "running", "pending"}
Statuses == {"none", "ended"} \union Unended
Roles == {"none", "worker", "repair", "segment"}

ConvInit ==
  /\ session = NoBinding /\ turns = [t \in Tasks |-> NoTurnYet] /\ account \in Accounts
  /\ threads = <<>> /\ uses = {} /\ again = 0 /\ moves = 0

ConvTypeOK ==
  /\ session.owner \in Tasks \union {NoTask} /\ session.native \in 0 .. Len(threads)
  /\ \A t \in Tasks : turns[t].status \in Statuses /\ turns[t].role \in Roles /\ turns[t].thread \in 0 .. Len(threads)
  /\ session.native # 0 => \E t \in Tasks : turns[t].status # "none"
  /\ Cardinality({t \in Tasks : turns[t].status = "running"}) <= 1

Begun == session # NoBinding
Turn(t, r) == turns' = [turns EXCEPT ![t] = r]

-----------------------------------------------------------------------------
(* task.submit in the conversation.                                          *)
BindingHolds == session.account = account

NothingOpen == TRUE   \* mutant: an unfinished run does not hold the next turn back
OwnerSettled == session.owner = NoTask \/ turns[session.owner].status \notin Unended

ScopeFixed(scope) == session.owner = NoTask \/ turns[session.owner].scope = scope

SubmitFirst(t, scope) ==
  /\ ~Begun /\ session' = [owner |-> t, native |-> 0, account |-> account]
  /\ Turn(t, [NoTurnYet EXCEPT !.status = "queued", !.role = "worker", !.scope = scope, !.account = account])
  /\ UNCHANGED <<account, threads, uses, again, moves>>

SubmitNext(t, scope) ==
  /\ Begun /\ turns[t].status = "none" /\ BindingHolds
  /\ session.owner # NoTask => ~turns[session.owner].paused
  /\ ScopeFixed(scope) /\ OwnerSettled
  /\ session' = [session EXCEPT !.owner = t]
  /\ Turn(t, [NoTurnYet EXCEPT !.status = "queued", !.role = "worker", !.scope = scope, !.account = account])
  /\ UNCHANGED <<account, threads, uses, again, moves>>

(* A repair, or the next segment, of a task whose run has ended.  The task is       *)
(* bound to its account and its conversation to the core's; who owns the           *)
(* conversation by now is not asked.                                           *)
RunAgain(t, role) ==
  /\ turns[t].status = "ended" /\ ~turns[t].paused /\ again < MaxAgain /\ again' = again + 1
  /\ turns[t].account = account /\ BindingHolds
  /\ Turn(t, [turns[t] EXCEPT !.status = "queued", !.role = role])
  /\ UNCHANGED <<session, account, threads, uses, moves>>

-----------------------------------------------------------------------------
(* Dispatch, under the workspace's slot.                                       *)

Use(i, t) == uses' = uses \union {[thread |-> i, account |-> account, scope |-> turns[t].scope]}

SlotFree(t) == \A u \in Tasks : turns[u].status # "running"

MayStart(t) == turns[t].status = "queued" /\ ~turns[t].paused /\ BindingHolds /\ SlotFree(t)

(* The thread the record names is continued; a segment may go on in its own source  *)
(* thread or in a new one.                                                     *)
DispatchContinues(t) ==
  /\ MayStart(t)
  /\ \E i \in {session.native} \union (IF turns[t].role = "segment" THEN {turns[t].thread} ELSE {}) :
       /\ i # 0 /\ Use(i, t) /\ Turn(t, [turns[t] EXCEPT !.status = "running", !.thread = i])
  /\ UNCHANGED <<session, account, threads, again, moves>>

DispatchBegins(t) ==
  LET i == Len(threads) + 1 IN
  /\ MayStart(t) /\ (session.native = 0 \/ turns[t].role = "segment")
  /\ i <= MaxThreads /\ threads' = Append(threads, [account |-> account, scope |-> turns[t].scope])
  /\ uses' = uses \union {[thread |-> i, account |-> account, scope |-> turns[t].scope]}
  /\ Turn(t, [turns[t] EXCEPT !.status = "running", !.thread = i])
  /\ UNCHANGED <<session, account, again, moves>>

-----------------------------------------------------------------------------
(* Results.  What is recorded with a native reference makes the task the owner and  *)
(* its thread the conversation's.                                             *)

RecordedFor(t) == [session EXCEPT !.owner = t, !.native = turns[t].thread]

Progress(t) ==
  /\ turns[t].status = "running" /\ session' = RecordedFor(t)
  /\ UNCHANGED <<turns, account, threads, uses, again, moves>>

Result(t, status) ==
  /\ turns[t].status \in {"running", "pending"} /\ status # turns[t].status
  /\ Turn(t, [turns[t] EXCEPT !.status = status])
  /\ session' \in {session, RecordedFor(t)}
  /\ UNCHANGED <<account, threads, uses, again, moves>>

(* A refused dispatch and a cancellation before it.                              *)
EndsUnsent(t) ==
  /\ turns[t].status = "queued" /\ Turn(t, [turns[t] EXCEPT !.status = "ended"])
  /\ UNCHANGED <<session, account, threads, uses, again, moves>>

ResumeAnyway == TRUE   \* mutant: resumed whoever the core is now

ResumeBound == BindingHolds

(* session.resume with native: the thread is attached to, nothing is sent.          *)
ResumeNative ==
  /\ Begun /\ session.native # 0 /\ ResumeBound /\ OwnerSettled
  /\ session.owner # NoTask /\ Use(session.native, session.owner)
  /\ UNCHANGED <<session, turns, account, threads, again, moves>>

HandOver(t) ==
  /\ turns[t].status # "none" /\ Turn(t, [turns[t] EXCEPT !.paused = ~@])
  /\ UNCHANGED <<session, account, threads, uses, again, moves>>

(* The core stops and comes back, perhaps under another account or host; a run that   *)
(* was under way is undecided.                                                 *)
ComesBack ==
  /\ moves < MaxAccountMoves /\ moves' = moves + 1 /\ account' \in Accounts
  /\ turns' = [t \in Tasks |-> IF turns[t].status = "running" THEN [turns[t] EXCEPT !.status = "pending"] ELSE turns[t]]
  /\ UNCHANGED <<session, threads, uses, again>>

ConvNext ==
  \/ \E t \in Tasks :
       \/ \E s \in Scopes : SubmitFirst(t, s) \/ SubmitNext(t, s)
       \/ \E role \in {"repair", "segment"} : RunAgain(t, role)
       \/ DispatchContinues(t) \/ DispatchBegins(t) \/ Progress(t)
       \/ \E status \in {"ended", "pending"} : Result(t, status)
       \/ EndsUnsent(t) \/ HandOver(t)
  \/ ResumeNative \/ ComesBack

ConvSpec == ConvInit /\ [][ConvNext]_convVars

-----------------------------------------------------------------------------
(* Every task of the conversation has the reading scope of the first.            *)
ScopeIsFixed ==
  \A t, u \in Tasks : turns[t].status # "none" /\ turns[u].status # "none" => turns[t].scope = turns[u].scope

(* A thread is used only under the account and the scope it was made under, over     *)
(* restarts, repairs, continuations and resumption.                              *)
ThreadsStayTheirs ==
  \A u \in uses : threads[u.thread] = [account |-> u.account, scope |-> u.scope]

OpenTurns == {t \in Tasks : turns[t].status \in Unended}

(* The conversation has one run that is not over, as long as no older task is run    *)
(* again.                                                                    *)
OneOpenRun == (\A t \in Tasks : turns[t].role \in {"none", "worker"}) => Cardinality(OpenTurns) <= 1

(* Refuted, see the README: no turn is dispatched while the conversation still    *)
(* has an unfinished or undecided run (application.py:772), said of every turn.   *)
OneOpenRunAlways == Cardinality(OpenTurns) <= 1

(* Over restarts, repairs and late results: a conversation keeps its scope,  *)
(* its threads their owner, and its turns come one by one.                   *)
ConvSafety ==
  /\ [](ConvTypeOK /\ ScopeIsFixed /\ ThreadsStayTheirs /\ OneOpenRun)
=============================================================================
