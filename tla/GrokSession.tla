------------------------------ MODULE GrokSession -----------------------------
(***************************************************************************)
(* Who may continue a native Grok session (backends/grok_session.py).  A       *)
(* session the core made has a binding file beside it, made with O_EXCL under  *)
(* the lock of the session and replaced after every run with the hashes of     *)
(* the logs the run left.  A later run continues the session only when its own *)
(* binding and the logs are still what the file says.                          *)
(*                                                                          *)
(*   users      runs of any core process that use the session: their step, the *)
(*              binding they computed before the lock and the hash of the first  *)
(*              log they have read                                            *)
(*   lease      holder of the file lock, freed by the death of its process     *)
(*   marker     the binding file; "cut" is one whose writer died               *)
(*   logs       versions of summary.json and updates.jsonl, and whether the    *)
(*              last line of the second is complete                           *)
(*   grokAccount  what binding() computes now: credentials, binary, profile      *)
(*   clis       native processes that write to the session                    *)
(*   tampered   somebody wrote while no run held the session, or the core of a   *)
(*              run died after its process wrote (for the properties)            *)
(*                                                                          *)
(* A log is hashed in one step: the code refuses one that changed meanwhile.   *)
(***************************************************************************)
EXTENDS Integers, FiniteSets

CONSTANTS Users,          \* runs that use the session, one after the other or at once
          MaxWrites,      \* bound on the writes to either log
          MaxAccounts     \* bound on the bindings there are

ASSUME GrokSessionAssumption == MaxWrites \in Nat /\ MaxAccounts \in Nat \ {0}

VARIABLES users, lease, marker, logs, grokAccount, clis, tampered

sessVars == <<users, lease, marker, logs, grokAccount, clis, tampered>>

Nobody == "nobody"
GrokAccounts == 1 .. MaxAccounts
Unhashed == [summary |-> -1, updates |-> -1]
NoMarker == [state |-> "none", binding |-> 0, hash |-> Unhashed]
Idle == [at |-> "idle", expected |-> 0, first |-> -1]
Hash == [summary : -1 .. MaxWrites, updates : -1 .. MaxWrites]

SessInit ==
  /\ users = [u \in Users |-> Idle] /\ lease = Nobody /\ marker = NoMarker
  /\ logs = [summary |-> 0, updates |-> 0, whole |-> TRUE] /\ grokAccount = 1 /\ clis = {} /\ tampered = FALSE

SessTypeOK ==
  /\ lease \in Users \cup {Nobody} /\ grokAccount \in GrokAccounts /\ clis \subseteq Users
  /\ marker.state \in {"none", "cut", "kept"} /\ marker.binding \in 0 .. MaxAccounts /\ marker.hash \in Hash
  /\ logs.summary \in 0 .. MaxWrites /\ logs.updates \in 0 .. MaxWrites /\ logs.whole \in BOOLEAN
  /\ \A u \in Users : /\ users[u].expected \in 0 .. MaxAccounts /\ users[u].first \in -1 .. MaxWrites
                      /\ lease = u <=> users[u].at \notin {"idle", "bound", "over"}

UserAt(u, step) == users[u].at = step
UserGoes(u, step) == users' = [users EXCEPT ![u].at = step]

-----------------------------------------------------------------------------
(* A core orders a continuation only after the run before it has ended; one     *)
(* whose core died has ended when its processes are gone.  Two cores that use   *)
(* one home may still order at the same time.                                 *)
Settled == clis = {}

Bind(u) ==
  /\ UserAt(u, "idle") /\ Settled
  /\ users' = [users EXCEPT ![u] = [Idle EXCEPT !.at = "bound", !.expected = grokAccount]]
  /\ UNCHANGED <<lease, marker, logs, grokAccount, clis, tampered>>

LeaseShared(u) == TRUE   \* mutant: the lock is not asked for

LeaseFree(u) == lease = Nobody

Lock(u) ==
  /\ UserAt(u, "bound")
  /\ IF LeaseFree(u) THEN UserGoes(u, "locked") /\ lease' = u ELSE UserGoes(u, "over") /\ UNCHANGED lease
  /\ UNCHANGED <<marker, logs, grokAccount, clis, tampered>>

Release(u) == IF lease = u THEN Nobody ELSE lease

RefuseUser(u) == UserGoes(u, "over") /\ lease' = Release(u)

(* A run that was given a new session id makes the file first.                *)
CreateSession(u) ==
  /\ UserAt(u, "locked") /\ marker.state = "none"
  /\ \/ UserGoes(u, "ready") /\ marker' = [state |-> "kept", binding |-> users[u].expected, hash |-> Unhashed] /\ UNCHANGED lease
     \/ RefuseUser(u) /\ marker' = [NoMarker EXCEPT !.state = "cut"]      \* dies while it writes
  /\ UNCHANGED <<logs, grokAccount, clis, tampered>>

CreateSecond(u) ==
  /\ UserAt(u, "locked") /\ marker.state # "none" /\ RefuseUser(u)
  /\ UNCHANGED <<marker, logs, grokAccount, clis, tampered>>

SameBinding(u) == marker.state = "kept" /\ marker.binding = users[u].expected

(* A continuation compares, one after the other, the binding, the hash of the  *)
(* first log, that of the second, and the last line.                          *)
CheckBinding(u) ==
  /\ UserAt(u, "locked") /\ marker.state # "none"
  /\ IF SameBinding(u)
       THEN users' = [users EXCEPT ![u].at = "compared", ![u].first = logs.summary] /\ UNCHANGED lease
       ELSE RefuseUser(u)
  /\ UNCHANGED <<marker, logs, grokAccount, clis, tampered>>

HashOfFirst(u) == marker.hash.summary = users[u].first   \* mutant: only the summary is compared

HashHolds(u) == marker.hash = [summary |-> users[u].first, updates |-> logs.updates]

CheckLogs(u) ==
  /\ UserAt(u, "compared")
  /\ IF HashHolds(u) /\ logs.whole THEN UserGoes(u, "ready") /\ UNCHANGED lease ELSE RefuseUser(u)
  /\ UNCHANGED <<marker, logs, grokAccount, clis, tampered>>

StartCli(u) ==
  /\ UserAt(u, "ready") /\ UserGoes(u, "running") /\ clis' = clis \cup {u}
  /\ UNCHANGED <<lease, marker, logs, grokAccount, tampered>>

(* resume_native: only asks, and leaves the file as it is.                    *)
AnswerCheck(u) ==
  /\ UserAt(u, "ready") /\ marker.hash # Unhashed /\ RefuseUser(u)
  /\ UNCHANGED <<marker, logs, grokAccount, clis, tampered>>

(* The native process ended, or its group was killed in the middle of a line.  *)
EndCli(u) ==
  /\ UserAt(u, "running") /\ UserGoes(u, "ended") /\ clis' = clis \ {u}
  /\ UNCHANGED <<lease, marker, logs, grokAccount, tampered>>

HashFirst(u) ==
  /\ UserAt(u, "ended") /\ users' = [users EXCEPT ![u].at = "hashing", ![u].first = logs.summary]
  /\ UNCHANGED <<lease, marker, logs, grokAccount, clis, tampered>>

(* update_after: the file is replaced as a whole; logs that move or miss give   *)
(* no hash, and the session is not continued again.                           *)
Update(u) ==
  /\ UserAt(u, "hashing") /\ UserGoes(u, "over") /\ lease' = Release(u)
  /\ \E hash \in {[summary |-> users[u].first, updates |-> logs.updates], Unhashed} :
       marker' = [state |-> "kept", binding |-> users[u].expected, hash |-> hash]
  /\ UNCHANGED <<logs, grokAccount, clis, tampered>>

-----------------------------------------------------------------------------
(* What the environment does.                                               *)

Written(log) ==
  /\ logs[log] < MaxWrites /\ tampered' = (tampered \/ lease = Nobody)
  /\ \E whole \in BOOLEAN : logs' = [logs EXCEPT ![log] = @ + 1, !.whole = IF log = "updates" THEN whole ELSE @]

WriteByCli(log) == clis # {} /\ Written(log) /\ UNCHANGED <<users, lease, marker, grokAccount, clis>>

(* Somebody uses the session by hand.                                        *)
WriteByHand(log) == marker.state # "none" /\ Written(log) /\ UNCHANGED <<users, lease, marker, grokAccount, clis>>

SignIn == grokAccount < MaxAccounts /\ grokAccount' = grokAccount + 1 /\ UNCHANGED <<users, lease, marker, logs, clis, tampered>>

Left == [summary |-> logs.summary, updates |-> logs.updates]

(* The core of a run dies; its native process may go on for a while.          *)
CoreDies(u) ==
  /\ users[u].at \notin {"idle", "over"} /\ UserGoes(u, "over") /\ lease' = Release(u)
  /\ tampered' = (tampered \/ (users[u].at \in {"running", "ended", "hashing"} /\ marker.hash # Left)) /\ UNCHANGED <<marker, logs, grokAccount, clis>>

LeftCliEnds(u) == u \in clis /\ UserAt(u, "over") /\ clis' = clis \ {u} /\ UNCHANGED <<users, lease, marker, logs, grokAccount, tampered>>

SessNext ==
  \/ \E u \in Users : \/ Bind(u) \/ Lock(u) \/ CreateSession(u) \/ CreateSecond(u) \/ CheckBinding(u) \/ CheckLogs(u)
                      \/ StartCli(u) \/ AnswerCheck(u) \/ EndCli(u) \/ HashFirst(u) \/ Update(u)
                      \/ CoreDies(u) \/ LeftCliEnds(u)
  \/ \E log \in {"summary", "updates"} : WriteByCli(log) \/ WriteByHand(log)
  \/ SignIn

SessSpec == SessInit /\ [][SessNext]_sessVars

-----------------------------------------------------------------------------
(* Two runs that are both watched never write to one session at once.         *)
OneManagedWriter == Cardinality({u \in clis : UserAt(u, "running")}) <= 1

(* A session is only ever used under the binding it was made with.            *)
BindingNeverMoves == [][marker.state = "kept" => marker'.binding = marker.binding]_marker

(* A session is continued from where the last watched run left it: once a line  *)
(* was added by hand, by a process left behind or by a run whose core died, it  *)
(* is not continued again.                                                   *)
EntersOwnEnd == [][\A u \in Users : UserAt(u, "compared") /\ users'[u].at = "ready" => ~tampered]_users

(* Whoever else writes and whatever dies: a native session has one watched   *)
(* writer, one binding, and goes on from the end that was watched.           *)
SessSafety ==
  /\ [](SessTypeOK /\ OneManagedWriter)
  /\ BindingNeverMoves /\ EntersOwnEnd
=============================================================================
