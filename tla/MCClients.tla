----------------------------- MODULE MCClients -----------------------------
(* Instances of the parts that talk to a coding client: the thread and the   *)
(* line to Codex, a run of Antigravity, the stream, the launch and the       *)
(* session of Grok. The parts share no state, so a behaviour follows one of  *)
(* them and leaves the others at rest.                                       *)
EXTENDS CodexThread, RpcLine, AgyRun, GrokStream, GrokLaunch, GrokSession

VARIABLE part

MCVars ==
  <<part, cdxVars, rpcVars, agyVars, streamVars, launchVars, sessVars>>

MCInit ==
  /\ part \in {"codex", "rpc", "agy", "stream", "launch", "grok"}
  /\ CodexInit /\ RpcInit /\ AgyInit /\ StreamInit /\ LaunchInit /\ SessInit
  /\ part # "codex" => style = "new" /\ Len(turnsAt) = 1
  /\ part # "agy" => cache[1] = 0
  /\ part # "stream" => ~legacy

(* A binary replaced while its process runs is not looked at before the end.  *)
UpdatedAsRead ==
  binary' # binary => agyAt \in {"look", "ask", "keep", "compare", "register", "spawn", "report"}

(* The fifth line of a run read from its stream is the one that ends it, and  *)
(* an exit in the middle of longer streams is left out.                       *)
LastLineStops == Len(slog') = MaxLines => slog'[MaxLines] \in Stops
ExitAsRead == sexit' # sexit => got.end # "none" \/ Len(slog) <= 2

(* Runs that differ by their name alone take their first steps in one order.  *)
UsersInTurn ==
  LET moved == [u \in Users |-> users'[u].at # "idle"]
  IN  (moved["o"] => moved["n"]) /\ (moved["n"] => moved["m"])

MCNext ==
  /\ UNCHANGED part
  /\ \/ /\ part = "codex" /\ CodexNext
        /\ UNCHANGED <<rpcVars, agyVars, streamVars, launchVars, sessVars>>
     \/ /\ part = "rpc" /\ RpcNext
        /\ UNCHANGED <<cdxVars, agyVars, streamVars, launchVars, sessVars>>
     \/ /\ part = "agy" /\ AgyNext /\ UpdatedAsRead
        /\ UNCHANGED <<cdxVars, rpcVars, streamVars, launchVars, sessVars>>
     \/ /\ part = "stream" /\ StreamNext /\ LastLineStops /\ ExitAsRead
        /\ UNCHANGED <<cdxVars, rpcVars, agyVars, launchVars, sessVars>>
     \/ /\ part = "launch" /\ LaunchNext
        /\ UNCHANGED <<cdxVars, rpcVars, agyVars, streamVars, sessVars>>
     \/ /\ part = "grok" /\ SessNext /\ UsersInTurn
        /\ UNCHANGED <<cdxVars, rpcVars, agyVars, streamVars, launchVars>>

MCSpec == MCInit /\ [][MCNext]_MCVars

-----------------------------------------------------------------------------
(* A run on Codex: its thread and the line to the server.                    *)
CodexSafety == ThreadSafety /\ LineSafety
=============================================================================
