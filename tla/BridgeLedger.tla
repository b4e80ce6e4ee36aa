----------------------------- MODULE BridgeLedger -----------------------------
(***************************************************************************)
(* The ledger of the GrokBot adapter (integrations/grokbot/scripts/        *)
(* bridge.py): requests that become tasks of an Asterun core, tasks that   *)
(* are observed by polls, and notifications that hosts claim, send to a    *)
(* chat and acknowledge. Every command is a process of its own, so several *)
(* submissions, polls and hosts run at once and any of them may end        *)
(* between two transactions; the core answers late, twice or not at all.   *)
(***************************************************************************)
EXTENDS Integers, FiniteSets, Sequences, SequencesExt, FiniteSetsExt

CONSTANTS Requests,   \* request ids of one binding
          Callers,    \* submit processes
          Pollers,    \* poll processes
          Hosts,      \* hosts that deliver notifications
          Limit,      \* poll --limit
          MaxCoreRuns, MaxEvents, MaxSeq, MaxLosses

ASSUME BridgeAssumption == Limit > 0 /\ MaxCoreRuns > 0

VARIABLES coreTasks,    \* the tasks of the core, by request
          row,     \* submissions
          caller,
          obs,     \* observations
          poller,
          box,     \* deliveries: key -> row
          host,
          sentMessages,    \* history: key -> messages that reached the chat
          ended,   \* history: requests retired, with the run they ended with
          losses   \* answers lost and processes that died

bridgeVars == <<coreTasks, row, caller, obs, poller, box, host, sentMessages, ended, losses>>

(* One waiting state and one end stand for the others of NOTIFY_STATUSES.  *)
Terminals == {"succeeded"}
Notified == {"waiting_auth"} \union Terminals
DeliveryKeys == [r : Requests, run : 1 .. MaxCoreRuns, st : Notified]
NoTask == [made |-> 0, run |-> 0, st |-> "none", ev |-> 0]
NoObs == [on |-> FALSE, run |-> 0, st |-> "none", cur |-> 0, seq |-> 0]
IdlePoll == [at |-> "idle", list |-> <<>>, seq |-> 0, run |-> 0, st |-> "none", ev |-> 0]
NoRow == [state |-> "none", content |-> 0]
NoHost == [holds |-> {}, content |-> 0, sent |-> FALSE]

BridgeInit ==
  /\ coreTasks = [r \in Requests |-> NoTask] /\ row = [r \in Requests |-> "none"]
  /\ caller = [c \in Callers |-> [at |-> "idle", r |-> CHOOSE r \in Requests : TRUE, run |-> 0]]
  /\ obs = [r \in Requests |-> NoObs] /\ poller = [p \in Pollers |-> IdlePoll]
  /\ box = [k \in DeliveryKeys |-> NoRow] /\ host = [h \in Hosts |-> NoHost]
  /\ sentMessages = [k \in DeliveryKeys |-> 0] /\ ended = {} /\ losses = 0

-----------------------------------------------------------------------------
(* submit: the intent is committed with the key the core will be asked     *)
(* by, and every repetition of the request asks by that key.               *)
MayAsk(r) == row[r] # "submitted"
SubmitIntent(c, r) ==
  /\ caller[c].at = "idle" /\ MayAsk(r)
  /\ row' = [row EXCEPT ![r] = "intended"]
  /\ caller' = [caller EXCEPT ![c] = [at |-> "intended", r |-> r, run |-> 0]]
  /\ UNCHANGED <<coreTasks, obs, poller, box, host, sentMessages, ended, losses>>

(* The core makes the task the first time it is asked by a key and finds   *)
(* it afterwards; the answer may be lost on the way.                       *)
AskedAnew(r) == [coreTasks[r] EXCEPT !.made = @ + 1, !.run = 1, !.st = "running", !.ev = 0]
Asked(r) == IF coreTasks[r].made = 0 THEN AskedAnew(r) ELSE coreTasks[r]
AskCore(c) ==
  LET r == caller[c].r IN
  /\ caller[c].at = "intended" /\ coreTasks[r].made < 3
  /\ coreTasks' = [coreTasks EXCEPT ![r] = Asked(r)]
  /\ \/ caller' = [caller EXCEPT ![c].at = "answered", ![c].run = Asked(r).run] /\ UNCHANGED losses
     \/ losses < MaxLosses /\ losses' = losses + 1 /\ caller' = [caller EXCEPT ![c].at = "idle"]
  /\ UNCHANGED <<row, obs, poller, box, host, sentMessages, ended>>

LastSeq == Max({obs[r].seq : r \in Requests} \union {0})

(* The first answer makes the observation; a later one, of a process that  *)
(* asked at the same time, leaves it as the polls have made it.            *)
Registered(r, run) ==
  IF row[r] = "submitted" THEN obs[r]
  ELSE [on |-> TRUE, run |-> run, st |-> "none", cur |-> 0, seq |-> LastSeq + 1]
RecordTask(c) ==
  LET r == caller[c].r IN
  /\ caller[c].at = "answered"
  /\ obs' = [obs EXCEPT ![r] = Registered(r, caller[c].run)]
  /\ row' = [row EXCEPT ![r] = "submitted"]
  /\ caller' = [caller EXCEPT ![c].at = "idle"]
  /\ UNCHANGED <<coreTasks, poller, box, host, sentMessages, ended, losses>>

CallerDies(c) ==
  /\ caller[c].at # "idle" /\ losses < MaxLosses /\ losses' = losses + 1
  /\ caller' = [caller EXCEPT ![c].at = "idle"]
  /\ UNCHANGED <<coreTasks, row, obs, poller, box, host, sentMessages, ended>>

-----------------------------------------------------------------------------
(* The core's task moves on: a run has another event, with its status the  *)
(* same or changed, and a run that has ended may be followed by another.   *)
CoreMoves(r, st) ==
  /\ coreTasks[r].made > 0 /\ coreTasks[r].st \notin Terminals /\ coreTasks[r].ev < MaxEvents
  /\ coreTasks' = [coreTasks EXCEPT ![r].st = st, ![r].ev = @ + 1]
  /\ UNCHANGED <<row, caller, obs, poller, box, host, sentMessages, ended, losses>>
CoreRunsAgain(r) ==
  /\ coreTasks[r].st \in Terminals /\ coreTasks[r].run < MaxCoreRuns
  /\ coreTasks' = [coreTasks EXCEPT ![r].run = @ + 1, ![r].st = "running", ![r].ev = 0]
  /\ UNCHANGED <<row, caller, obs, poller, box, host, sentMessages, ended, losses>>

-----------------------------------------------------------------------------
(* poll lists the observed tasks that have waited longest, then takes them *)
(* one by one: the turn is written before the core is asked.               *)
Observed == {r \in Requests : obs[r].on}
ByTurn == SetToSortSeq(Observed, LAMBDA a, b : obs[a].seq < obs[b].seq)
Listing ==
  LET n == IF Limit < Len(ByTurn) THEN Limit ELSE Len(ByTurn)
  IN [i \in 1 .. n |-> [r |-> ByTurn[i], seq |-> obs[ByTurn[i]].seq]]
PollStarts(p) ==
  /\ poller[p].at = "idle" /\ Observed # {}
  /\ poller' = [poller EXCEPT ![p] = [IdlePoll EXCEPT !.at = "next", !.list = Listing]]
  /\ UNCHANGED <<coreTasks, row, caller, obs, box, host, sentMessages, ended, losses>>

NextItem(p) == IF Len(poller[p].list) = 1 THEN IdlePoll
               ELSE [IdlePoll EXCEPT !.at = "next", !.list = Tail(poller[p].list)]

(* A task that another poll has taken since the listing is left to it.     *)
TakeTurn(p) ==
  LET item == Head(poller[p].list)  r == item.r IN
  /\ poller[p].at = "next" /\ LastSeq < MaxSeq
  /\ IF ~obs[r].on \/ obs[r].seq # item.seq
     THEN poller' = [poller EXCEPT ![p] = NextItem(p)] /\ UNCHANGED obs
     ELSE /\ obs' = [obs EXCEPT ![r].seq = LastSeq + 1]
          /\ poller' = [poller EXCEPT ![p].at = "task", ![p].seq = LastSeq + 1]
  /\ UNCHANGED <<coreTasks, row, caller, box, host, sentMessages, ended, losses>>

(* Two reads of the core: the task with its run, then the events of that   *)
(* run. A run that changed in between is an error of this item.            *)
ReadTask(p) ==
  LET r == Head(poller[p].list).r IN
  /\ poller[p].at = "task"
  /\ poller' = [poller EXCEPT ![p].at = "events", ![p].run = coreTasks[r].run, ![p].st = coreTasks[r].st]
  /\ UNCHANGED <<coreTasks, row, caller, obs, box, host, sentMessages, ended, losses>>
ReadEventsBlind(p) ==
  [poller[p] EXCEPT !.at = "commit", !.ev = coreTasks[Head(poller[p].list).r].ev]
ReadEventsOf(p) ==
  IF coreTasks[Head(poller[p].list).r].run # poller[p].run THEN NextItem(p) ELSE ReadEventsBlind(p)
ReadEvents(p) ==
  /\ poller[p].at = "events"
  /\ poller' = [poller EXCEPT ![p] = ReadEventsOf(p)]
  /\ UNCHANGED <<coreTasks, row, caller, obs, box, host, sentMessages, ended, losses>>
ReadFails(p) ==
  /\ poller[p].at \in {"task", "events"} /\ losses < MaxLosses /\ losses' = losses + 1
  /\ poller' = [poller EXCEPT ![p] = NextItem(p)]
  /\ UNCHANGED <<coreTasks, row, caller, obs, box, host, sentMessages, ended>>

NewKey(p) == [r |-> Head(poller[p].list).r, run |-> poller[p].run, st |-> poller[p].st]

(* What the poll found replaces what was not yet claimed. The state it     *)
(* found becomes a notification, or an unsent one of the same state comes  *)
(* back; one that is being sent or was delivered keeps its content.        *)
Filed(p) ==
  [k \in DeliveryKeys |->
     CASE k = NewKey(p) /\ box[k].state \in {"none", "superseded"} ->
            [state |-> "pending", content |-> poller[p].ev]
       [] k # NewKey(p) /\ k.r = NewKey(p).r /\ box[k].state = "pending" ->
            [box[k] EXCEPT !.state = "superseded"]
       [] OTHER -> box[k]]

(* Observation ends when the current run has ended and its notification    *)
(* was delivered.                                                          *)
RetiredAtEnd(p) == poller[p].st \in Terminals
Retired(p) == poller[p].st \in Terminals /\ box[NewKey(p)].state = "delivered"

CurrentAlways(p) == obs[Head(poller[p].list).r].on
Current(p) == LET o == obs[Head(poller[p].list).r] IN o.on /\ o.seq = poller[p].seq
CommitPoll(p) ==
  LET r == Head(poller[p].list).r IN
  /\ poller[p].at = "commit"
  /\ IF Current(p)
     THEN /\ box' = Filed(p)
          /\ obs' = [obs EXCEPT ![r].run = poller[p].run, ![r].st = poller[p].st,
                                ![r].cur = poller[p].ev, ![r].on = ~Retired(p)]
          /\ ended' = IF Retired(p) THEN ended \union {<<r, poller[p].run>>} ELSE ended
     ELSE UNCHANGED <<box, obs, ended>>
  /\ poller' = [poller EXCEPT ![p] = NextItem(p)]
  /\ UNCHANGED <<coreTasks, row, caller, host, sentMessages, losses>>

PollerDies(p) ==
  /\ poller[p].at # "idle" /\ losses < MaxLosses /\ losses' = losses + 1
  /\ poller' = [poller EXCEPT ![p] = IdlePoll]
  /\ UNCHANGED <<coreTasks, row, caller, obs, box, host, sentMessages, ended>>

-----------------------------------------------------------------------------
(* claim hands a notification out once; a host that finds it claimed does  *)
(* not send it.                                                            *)
Claimable(k) == box[k].state = "pending"
ClaimDelivery(h, k) ==
  /\ host[h].holds = {} /\ Claimable(k)
  /\ box' = [box EXCEPT ![k].state = "sending"]
  /\ host' = [host EXCEPT ![h] = [holds |-> {k}, content |-> box[k].content, sent |-> FALSE]]
  /\ UNCHANGED <<coreTasks, row, caller, obs, poller, sentMessages, ended, losses>>

SendToUser(h, k) ==
  /\ k \in host[h].holds /\ ~host[h].sent
  /\ host' = [host EXCEPT ![h].sent = TRUE] /\ sentMessages' = [sentMessages EXCEPT ![k] = @ + 1]
  /\ UNCHANGED <<coreTasks, row, caller, obs, poller, box, ended, losses>>

(* ack names the content that was sent and is refused for another, for a   *)
(* notification that was not claimed and for one delivered with another    *)
(* message.                                                                *)
AckFits(h, k) == box[k].state = "sending" /\ box[k].content = host[h].content
AckDelivery(h, k) ==
  /\ k \in host[h].holds /\ host[h].sent
  /\ box' = IF AckFits(h, k) THEN [box EXCEPT ![k].state = "delivered"] ELSE box
  /\ host' = [host EXCEPT ![h] = NoHost]
  /\ UNCHANGED <<coreTasks, row, caller, obs, poller, sentMessages, ended, losses>>

HostDies(h) ==
  /\ host[h].holds # {} /\ losses < MaxLosses /\ losses' = losses + 1
  /\ host' = [host EXCEPT ![h] = NoHost]
  /\ UNCHANGED <<coreTasks, row, caller, obs, poller, box, sentMessages, ended>>

(* resolve --not-sent: the operator has checked that no host is left that  *)
(* holds the message and that it did not reach the chat.                   *)
ResolveDelivery(k) ==
  /\ box[k].state = "sending" /\ sentMessages[k] = 0 /\ \A h \in Hosts : k \notin host[h].holds
  /\ box' = [box EXCEPT ![k].state = "pending"]
  /\ UNCHANGED <<coreTasks, row, caller, obs, poller, host, sentMessages, ended, losses>>

BridgeNext ==
  \/ \E c \in Callers : (\E r \in Requests : SubmitIntent(c, r)) \/ AskCore(c) \/ RecordTask(c) \/ CallerDies(c)
  \/ \E r \in Requests : CoreRunsAgain(r) \/ \E st \in Notified \union {"running"} : CoreMoves(r, st)
  \/ \E p \in Pollers : PollStarts(p) \/ TakeTurn(p) \/ ReadTask(p) \/ ReadEvents(p)
                        \/ ReadFails(p) \/ CommitPoll(p) \/ PollerDies(p)
  \/ \E h \in Hosts : HostDies(h) \/ \E k \in DeliveryKeys : ClaimDelivery(h, k) \/ SendToUser(h, k) \/ AckDelivery(h, k)
  \/ \E k \in DeliveryKeys : ResolveDelivery(k)

BridgeSpec == BridgeInit /\ [][BridgeNext]_bridgeVars

-----------------------------------------------------------------------------
BridgeTypeOK ==
  /\ \A r \in Requests : /\ row[r] \in {"none", "intended", "submitted"}
                         /\ row[r] # "submitted" => obs[r] = NoObs
                         /\ obs[r].seq <= MaxSeq + 1
  /\ \A k \in DeliveryKeys : box[k].state \in {"none", "pending", "sending", "delivered", "superseded"}

(* A request becomes one task of the core, whichever answers were lost and *)
(* however many processes asked for it at once.                            *)
OneTaskPerRequest == \A r \in Requests : coreTasks[r].made <= 1

(* A notification reaches the chat once, unless the operator was wrong.    *)
SentAtMostOnce == \A k \in DeliveryKeys : sentMessages[k] <= 1

(* What is recorded as delivered was sent with that content: polls that    *)
(* commit between the claim and the receipt do not change it.              *)
ReceiptMatchesMessage ==
  [][\A h \in Hosts, k \in DeliveryKeys :
       k \in host[h].holds /\ host[h].sent /\ host'[h].holds = {} /\ losses' = losses =>
         box'[k].state = "delivered" /\ box'[k].content = host[h].content]_bridgeVars

(* The observation of a task never goes back: an overlapping poll that was *)
(* slower, or a late answer to its submission, does not bring back an      *)
(* older run or an older place in its events.                              *)
ObservationMovesOn ==
  [][\A r \in Requests : row[r] = "submitted" =>
       \/ obs'[r].run > obs[r].run
       \/ obs'[r].run = obs[r].run /\ obs'[r].cur >= obs[r].cur]_bridgeVars

(* Turns go round: no observed task is asked for again while another that  *)
(* has waited longer is passed over, whatever failed, died or overlapped.  *)
TurnsGoRound ==
  [][\A r \in Requests : row[r] = "submitted" /\ obs'[r].seq # obs[r].seq =>
       \A u \in Observed \ {r} : obs[u].seq > obs[r].seq]_bridgeVars

(* A task is no longer observed only when the run it ended with has been   *)
(* delivered to the chat.                                                  *)
EndWasDelivered ==
  \A e \in ended : \E k \in DeliveryKeys :
    k.r = e[1] /\ k.run = e[2] /\ k.st \in Terminals /\ box[k].state = "delivered" /\ sentMessages[k] = 1

(* However submissions, polls and hosts overlap or die: one task per         *)
(* request, one message per notification, and the end of a task is delivered *)
(* before it is let go.                                                      *)
BridgeSafety ==
  /\ [](BridgeTypeOK /\ OneTaskPerRequest /\ SentAtMostOnce
        /\ EndWasDelivered)
  /\ ReceiptMatchesMessage /\ ObservationMovesOn /\ TurnsGoRound
=============================================================================
