------------------------------ MODULE RpcLine ------------------------------
(***************************************************************************)
(* LineJsonRpcTransport: several threads ask over one pair of pipes and    *)
(* one reader collects the answers. An answer waits in an inbox that keeps *)
(* the newest InboxCap answers, because a caller that gave up never takes  *)
(* the answer that arrives late. What a message says is left out; "line"   *)
(* is the peer's end of the pipes, "heard" the order in which the answers  *)
(* were read.                                                              *)
(***************************************************************************)
EXTENDS Naturals, Sequences, SequencesExt

CONSTANTS Threads,    \* threads of the core that use the connection
          InboxCap,   \* answers the inbox keeps (128 in the code)
          MaxIds      \* bound: requests numbered on one connection

VARIABLES lastId,     \* _id_counter
          call,       \* thread -> its present or last request
          line,       \* ids the peer has read and not answered
          inbox,      \* _responses, the oldest entry first
          running,    \* _running: the connection is in use
          reading,    \* the reader thread has not ended
          open,       \* proc is set: the connection has not been closed
          heard       \* history: the answers in the order they arrived, and
                      \* whether the connection was still in use

rpcVars == <<lastId, call, line, inbox, running, reading, open, heard>>

CallStates == {"idle", "numbered", "waits", "answered", "timeout", "closed"}

RpcInit ==
  /\ lastId = 0 /\ call = [t \in Threads |-> [id |-> 0, at |-> "idle"]]
  /\ line = {} /\ inbox = <<>> /\ heard = <<>>
  /\ running = TRUE /\ reading = TRUE /\ open = TRUE

Resting(t) == call[t].at \notin {"numbered", "waits"}

(* request numbers itself under the lock and only then takes the write     *)
(* lock, so two requests may be written in the other order.                *)
Number(t) ==
  /\ Resting(t) /\ lastId < MaxIds
  /\ lastId' = lastId + 1
  /\ call' = [call EXCEPT ![t] = [id |-> lastId + 1, at |-> "numbered"]]
  /\ UNCHANGED <<line, inbox, running, reading, open, heard>>

(* _send fails when close has taken the process away, and may fail when    *)
(* the peer has gone.                                                      *)
Send(t) ==
  /\ call[t].at = "numbered"
  /\ \/ open /\ line' = line \union {call[t].id}
        /\ call' = [call EXCEPT ![t].at = "waits"]
     \/ (open => ~running) /\ line' = line
        /\ call' = [call EXCEPT ![t].at = "closed"]
  /\ UNCHANGED <<lastId, inbox, running, reading, open, heard>>

DropNewest(s) == IF Len(s) > InboxCap THEN Front(s) ELSE s
Newest(s) == IF Len(s) > InboxCap THEN Tail(s) ELSE s

(* The reader puts an answer into the inbox and drops the oldest one if    *)
(* the inbox is over its limit, whoever may still wait for that one. The   *)
(* line it reads while the connection is closed is still taken in.         *)
Hear(i) ==
  /\ reading /\ i \in line
  /\ line' = line \ {i} /\ reading' = running
  /\ inbox' = Newest(Append(inbox, i))
  /\ heard' = Append(heard, [id |-> i, live |-> running])
  /\ UNCHANGED <<lastId, call, running, open>>

Here(t) == call[t].id \in ToSet(inbox)

(* The waiting thread looks at the inbox first, then at the connection,    *)
(* then at its deadline.                                                   *)
Take(t) ==
  /\ call[t].at = "waits" /\ Here(t)
  /\ inbox' = SelectSeq(inbox, LAMBDA i : i # call[t].id)
  /\ call' = [call EXCEPT ![t].at = "answered"]
  /\ UNCHANGED <<lastId, line, running, reading, open, heard>>

AbandonWhenClosed(t) ==
  /\ call[t].at = "waits" /\ ~Here(t) /\ ~running
  /\ call' = [call EXCEPT ![t].at = "closed"]
  /\ UNCHANGED <<lastId, line, inbox, running, reading, open, heard>>
Abandon(t) ==
  /\ call[t].at = "waits" /\ ~Here(t)
  /\ call' = [call EXCEPT ![t].at = IF running THEN "timeout" ELSE "closed"]
  /\ UNCHANGED <<lastId, line, inbox, running, reading, open, heard>>

(* The reader stops: the peer ended or sent an overlong line, or the reader *)
(* found the connection closed. Every waiting thread is woken.             *)
Hangup == /\ reading /\ reading' = FALSE /\ running' = FALSE
          /\ UNCHANGED <<lastId, call, line, inbox, open, heard>>
CloseLine == /\ open /\ open' = FALSE /\ running' = FALSE
             /\ UNCHANGED <<lastId, call, line, inbox, reading, heard>>

RpcNext ==
  \/ \E t \in Threads : Number(t) \/ Send(t) \/ Take(t) \/ Abandon(t)
  \/ \E i \in line : Hear(i)
  \/ Hangup \/ CloseLine

RpcSpec == RpcInit /\ [][RpcNext]_rpcVars
RpcFairness == \A t \in Threads : WF_rpcVars(Send(t)) /\ WF_rpcVars(Take(t) \/ Abandon(t))

-----------------------------------------------------------------------------
RpcTypeOK ==
  /\ lastId \in 0 .. MaxIds /\ line \subseteq 1 .. lastId
  /\ call \in [Threads -> [id : 0 .. MaxIds, at : CallStates]]
  /\ Len(inbox) <= InboxCap /\ ToSet(inbox) \subseteq 1 .. lastId
  /\ running \in BOOLEAN /\ reading \in BOOLEAN /\ open \in BOOLEAN
  /\ heard \in Seq([id : 1 .. lastId, live : BOOLEAN])

(* Answers that arrived after the n-th.                                    *)
Later(n) == Len(heard) - n

(* The answer of a thread that still waits can be pushed out of the inbox  *)
(* only by InboxCap answers that arrived after it: late answers nobody     *)
(* takes do not cost a waiting thread its own.                             *)
AwaitedIsKept ==
  \A t \in Threads, n \in DOMAIN heard :
    call[t].at = "waits" /\ heard[n].id = call[t].id => Here(t) \/ Later(n) >= InboxCap

(* A connection that ends does not take away what was answered before: a   *)
(* thread is told that the connection closed only if its answer had not    *)
(* arrived while the connection was in use, or was pushed out.             *)
AnswerBeatsClose ==
  \A t \in Threads, n \in DOMAIN heard :
    call[t].at = "closed" /\ heard[n].id = call[t].id => ~heard[n].live \/ Later(n) >= InboxCap

(* Every request ends, whatever the peer does: with its answer, at its     *)
(* deadline, or with the connection.                                       *)
RequestsEnd == \A t \in Threads : []<>Resting(t)

(* An answer that arrived in time is not lost to late answers or to the      *)
(* close.                                                                    *)
LineSafety ==
  /\ [](RpcTypeOK /\ AwaitedIsKept /\ AnswerBeatsClose)
=============================================================================
