----------------------------- MODULE PluginPools -----------------------------
(***************************************************************************)
(* Admission of executions against shared billing pools                     *)
(* (connections/admission.py, plugin_store.py), the latch that disables a   *)
(* plugin (plugins/management.py, plugins/registry.py) and its worker       *)
(* (plugins/worker.py, plugins/worker_backend.py).                          *)
(*                                                                          *)
(*   conf      revision of the configuration in use                         *)
(*   disk      identity of the installed plugin files                       *)
(*   expired   revisions whose quota observation is past valid_until        *)
(*   latch     identity under which an operator disabled the plugin, or 0   *)
(*   reg       enabled flag of the registry the worker threads read         *)
(*   admin     the plugin.enable or plugin.disable at work                  *)
(*   plan[i]   revision under which the plan of execution i was prepared    *)
(*   res[i]    its reservation in each pool                                 *)
(*   run[i]    its run; work[i], got[i] its worker thread and what it found *)
(*   remote[i] the job at the provider                                      *)
(*   act[i]    the Action that controls it; unsent[i] its not_delivered mark*)
(*   spent     executions whose provider reported an exhausted quota        *)
(*   lock[c]   revision a conversation is bound to                          *)
(*                                                                          *)
(* A plan reserves one unit in every pool of its connection.                *)
(***************************************************************************)
EXTENDS Integers, FiniteSets

CONSTANTS
  Execs,     \* executions
  Managed,   \* those an Action of runner-control/v1 stands behind
  Convs, ConvOf,   \* conversations, and the one each execution belongs to
  Pools,
  Revs,      \* 1 .. number of configurations, applied in order
  Conf,      \* revision -> [limit, most, window, remaining, id]
  Ids,       \* identities of an installation
  MaxPluginFaults  \* bound: restarts, lost answers, replaced files, expiries

ASSUME PluginPoolsAssumption ==
  /\ Managed \subseteq Execs /\ ConvOf \in [Execs -> Convs]
  /\ Cardinality(Revs) \in Nat \ {0} /\ Revs = 1 .. Cardinality(Revs) /\ MaxPluginFaults \in Nat
  /\ \A r \in Revs : /\ Conf[r].limit \in [Pools -> Nat] /\ Conf[r].most \in Nat
                     /\ Conf[r].remaining \in Int /\ Conf[r].id \in Ids

VARIABLES conf, disk, expired, latch, reg, admin, plan, res, run, work, got,
          remote, act, unsent, spent, lock, faults

worldVars == <<conf, disk, expired, faults>>
latchVars == <<latch, reg, admin>>
poolVars == <<worldVars, latchVars, plan, res, run, work, got, remote, act, unsent, spent, lock>>

Unknown == -1
Taken == {"held", "uncertain"}

PoolInit ==
  /\ conf = 1 /\ disk = Conf[1].id /\ expired = {} /\ faults = 0
  /\ latch = 0 /\ reg = TRUE /\ admin = "idle"
  /\ plan = [i \in Execs |-> 0] /\ res = [i \in Execs |-> [p \in Pools |-> "none"]]
  /\ run = [i \in Execs |-> "none"] /\ work = [i \in Execs |-> "none"]
  /\ got = [i \in Execs |-> "none"] /\ remote = [i \in Execs |-> "none"]
  /\ act = [i \in Execs |-> "none"] /\ unsent = [i \in Execs |-> FALSE]
  /\ spent = {} /\ lock = [c \in Convs |-> 0]

PoolTypeOK ==
  /\ conf \in Revs /\ disk \in Ids /\ expired \subseteq Revs /\ faults \in 0 .. MaxPluginFaults
  /\ latch \in Ids \cup {0} /\ reg \in BOOLEAN /\ admin \in {"idle", "disabling", "enabling"}
  /\ plan \in [Execs -> Revs \cup {0}] /\ lock \in [Convs -> Revs \cup {0}]
  /\ res \in [Execs -> [Pools -> {"none", "released", "committed"} \cup Taken]]
  /\ run \in [Execs -> {"none", "queued", "active", "pending", "ended"}]
  /\ work \in [Execs -> {"none", "ready", "sent", "done"}]
  /\ got \in [Execs -> {"none", "unsent", "over", "exhausted", "unknown"}]
  /\ remote \in [Execs -> {"none", "working", "over", "refused"}]
  /\ act \in [Execs -> {"none", "open", "closed"}]
  /\ unsent \in [Execs -> BOOLEAN] /\ spent \subseteq Execs

-----------------------------------------------------------------------------
(* The ledger: pool_totals, admit, settle and mark_uncertain.               *)

InFlight(p) == {i \in Execs : res[i][p] \in Taken}
InWindow(p, w) == {i \in Execs : res[i][p] \in Taken \cup {"committed"} /\ Conf[plan[i]].window = w}

(* Of the window, what was taken or may have been since the balance was      *)
(* observed: all in flight, and what was settled under this revision.        *)
Consumed(p, r) == {i \in InWindow(p, Conf[r].window) : i \in InFlight(p) \/ plan[i] >= r}

Fits(r) ==
  \A p \in Pools :
    /\ Cardinality(InWindow(p, Conf[r].window)) < Conf[r].limit[p]
    /\ Cardinality(InFlight(p)) < Conf[r].most
    /\ Conf[r].remaining # Unknown => Cardinality(Consumed(p, r)) < Conf[r].remaining

Admit(i) == [res EXCEPT ![i] = [p \in Pools |-> "held"]]

SettledAgain(i, notApplied) ==   \* mutant: a released reservation is settled again
  [res EXCEPT ![i] = [p \in Pools |-> IF notApplied THEN "released" ELSE "committed"]]

(* settle without a bill: a terminal state saved once more is no evidence    *)
(* that a released reservation was used after all.                           *)
Settled(i, notApplied) ==
  [res EXCEPT ![i] = [p \in Pools |-> IF notApplied \/ @[p] = "released" THEN "released" ELSE "committed"]]

Uncertain(i) == [res EXCEPT ![i] = [p \in Pools |-> "uncertain"]]

-----------------------------------------------------------------------------
(* Plans: _snapshot, prepare, assert_plan, session_lock, the quota latch.    *)

Enabled == latch = 0
Installed == disk = Conf[conf].id

ExhaustedNow(w) ==   \* mutant: runs that end later clear the latch
  \E i \in spent : Conf[plan[i]].window = w /\ \A j \in Execs : run[j] = "ended" => j \in spent

(* quota_latch.active_latch: the records of the runs are the latch.          *)
Exhausted(w) == \E i \in spent : Conf[plan[i]].window = w

Preparable == Installed /\ Enabled /\ conf \notin expired /\ ~Exhausted(Conf[conf].window)

(* assert_plan                                                               *)
Asserted(i) == plan[i] = conf /\ Installed /\ Enabled /\ conf \notin expired

(* session_lock leaves out revision, input and authorization.                *)
SameLock(r, s) == Conf[r] = Conf[s]
ExistingOK(i) == Installed /\ SameLock(plan[i], conf)

LockFits(c, r) == lock[c] # 0 => SameLock(lock[c], r)
LockBound(i, r) == [lock EXCEPT ![ConvOf[i]] = IF @ = 0 THEN r ELSE @]

workVars == <<work, got, remote>>
actVars == <<act, unsent>>

(* plan.prepare for an Action.                                               *)
Prepare(i) ==
  /\ i \in Managed /\ act[i] = "none" /\ plan[i] = 0 /\ Preparable
  /\ plan' = [plan EXCEPT ![i] = conf]
  /\ UNCHANGED <<worldVars, latchVars, res, run, workVars, actVars, spent, lock>>

(* admit_control: the transaction of run.start.                              *)
StartAction(i) ==
  /\ i \in Managed /\ act[i] = "none"
  /\ IF plan[i] = 0 THEN Preparable ELSE Asserted(i)
  /\ Fits(conf)
  /\ plan' = [plan EXCEPT ![i] = conf] /\ res' = Admit(i)
  /\ act' = [act EXCEPT ![i] = "open"]
  /\ UNCHANGED <<worldVars, latchVars, run, workVars, unsent, spent, lock>>

(* admit_intent of a managed task: the reservation exists, the run is bound  *)
(* to it.                                                                    *)
SubmitManaged(i) ==
  /\ act[i] = "open" /\ run[i] = "none" /\ Asserted(i) /\ LockFits(ConvOf[i], conf)
  /\ run' = [run EXCEPT ![i] = "queued"] /\ lock' = LockBound(i, conf)
  /\ UNCHANGED <<worldVars, latchVars, plan, res, workVars, actVars, spent>>

(* admit_intent of any other task, in the transaction of its intent.         *)
SubmitDirect(i) ==
  /\ i \notin Managed /\ run[i] = "none" /\ Preparable /\ Fits(conf) /\ LockFits(ConvOf[i], conf)
  /\ plan' = [plan EXCEPT ![i] = conf] /\ res' = Admit(i)
  /\ run' = [run EXCEPT ![i] = "queued"] /\ lock' = LockBound(i, conf)
  /\ UNCHANGED <<worldVars, latchVars, workVars, actVars, spent>>

(* _deny: the dispatch guard of the Action fails before a run exists.        *)
DenyAction(i) ==
  /\ act[i] = "open" /\ run[i] = "none" /\ ~Asserted(i)
  /\ act' = [act EXCEPT ![i] = "closed"] /\ res' = Settled(i, TRUE)
  /\ UNCHANGED <<worldVars, latchVars, plan, run, workVars, unsent, spent, lock>>

(* _observe of a cancelled Action whose run is still queued.                 *)
MarkUnsent(i) ==
  /\ act[i] = "open" /\ run[i] = "queued" /\ ~unsent[i]
  /\ unsent' = [unsent EXCEPT ![i] = TRUE]
  /\ UNCHANGED <<worldVars, latchVars, plan, res, run, workVars, act, spent, lock>>

(* _settle_reservation once the run ended.                                   *)
CloseAction(i) ==
  /\ act[i] = "open" /\ run[i] = "ended"
  /\ act' = [act EXCEPT ![i] = "closed"] /\ res' = Settled(i, unsent[i])
  /\ UNCHANGED <<worldVars, latchVars, plan, run, workVars, unsent, spent, lock>>

-----------------------------------------------------------------------------
(* A run and its worker thread.  End and Pend write the run; sync_run settles *)
(* its reservation in the same transaction.                                  *)

PendReleases(i) ==       \* mutant: an unknown outcome gives its reservation back
  run' = [run EXCEPT ![i] = "pending"] /\ res' = Settled(i, TRUE)

End(i, sent) == run' = [run EXCEPT ![i] = "ended"] /\ res' = Settled(i, ~sent)

Pend(i) == run' = [run EXCEPT ![i] = "pending"] /\ res' = Uncertain(i)

(* _dispatch_committed: the guards of admission, session and quota.          *)
Dispatch(i) ==
  /\ run[i] = "queued" /\ ~unsent[i]
  /\ Asserted(i) /\ LockFits(ConvOf[i], conf) /\ ~Exhausted(Conf[plan[i]].window)
  /\ run' = [run EXCEPT ![i] = "active"] /\ work' = [work EXCEPT ![i] = "ready"]
  /\ UNCHANGED <<worldVars, latchVars, plan, res, got, remote, actVars, spent, lock>>

(* ... fail: no backend was called.                                          *)
DispatchRefused(i) ==
  /\ run[i] = "queued" /\ ~unsent[i]
  /\ ~(Asserted(i) /\ LockFits(ConvOf[i], conf)) \/ Exhausted(Conf[plan[i]].window)
  /\ End(i, FALSE)
  /\ UNCHANGED <<worldVars, latchVars, plan, workVars, actVars, spent, lock>>

(* WorkerHost.call of execution.start: nothing is sent unless the registry   *)
(* and the files on disk are still those of the plan.                        *)
WorkerStart(i) ==
  /\ work[i] = "ready"
  /\ \/ /\ reg /\ Installed
        /\ work' = [work EXCEPT ![i] = "sent"] /\ remote' = [remote EXCEPT ![i] = "working"]
        /\ UNCHANGED got
     \/ /\ ~(reg /\ Installed) \/ faults < MaxPluginFaults
        /\ work' = [work EXCEPT ![i] = "done"] /\ got' = [got EXCEPT ![i] = "unsent"]
        /\ UNCHANGED remote
  /\ UNCHANGED <<worldVars, latchVars, plan, res, run, actVars, spent, lock>>

RemoteEnds(i) ==
  /\ remote[i] = "working"
  /\ \E end \in {"over", "refused"} : remote' = [remote EXCEPT ![i] = end]
  /\ UNCHANGED <<worldVars, latchVars, plan, res, run, work, got, actVars, spent, lock>>

Final(i) == IF remote[i] = "refused" THEN "exhausted" ELSE "over"

NoAnswer(i) == "unknown"

(* The answer of the plugin, or none: once a request was sent its loss is no *)
(* failure.                                                                  *)
WorkerEnds(i) ==
  /\ work[i] = "sent"
  /\ \/ remote[i] # "working" /\ got' = [got EXCEPT ![i] = Final(i)] /\ UNCHANGED faults
     \/ faults < MaxPluginFaults /\ faults' = faults + 1 /\ got' = [got EXCEPT ![i] = NoAnswer(i)]
  /\ work' = [work EXCEPT ![i] = "done"]
  /\ UNCHANGED <<conf, disk, expired, latchVars, plan, res, run, remote, actVars, spent, lock>>

(* _record_result on the core: a result that fails validation is no end.     *)
Report(i) ==
  /\ work[i] = "done"
  /\ \/ run[i] = "active" /\ got[i] # "unknown" /\ End(i, TRUE)
        /\ spent' = IF got[i] = "exhausted" THEN spent \cup {i} ELSE spent
     \/ run[i] = "active" /\ got[i] \in {"unknown", "over"} /\ Pend(i) /\ UNCHANGED spent
     \/ run[i] # "active" /\ UNCHANGED <<run, res, spent>>
  /\ work' = [work EXCEPT ![i] = "none"] /\ got' = [got EXCEPT ![i] = "none"]
  /\ UNCHANGED <<worldVars, latchVars, plan, remote, actVars, lock>>

(* task.reconcile: a disabled plugin still answers for what it started.      *)
Reconcile(i) ==
  /\ run[i] = "pending" /\ work[i] = "none" /\ ExistingOK(i)
  /\ remote[i] \in {"over", "refused"} /\ End(i, TRUE)
  /\ spent' = IF remote[i] = "refused" THEN spent \cup {i} ELSE spent
  /\ UNCHANGED <<worldVars, latchVars, plan, workVars, actVars, lock>>

(* task.cancel: a queued run ends at once, a started one when the plugin     *)
(* verified that the job stopped.                                            *)
CancelRun(i) ==
  /\ run[i] \in {"queued", "active", "pending"} /\ ExistingOK(i)
  /\ \/ run[i] = "queued" /\ End(i, FALSE) /\ UNCHANGED remote
     \/ remote[i] = "working" /\ End(i, TRUE) /\ remote' = [remote EXCEPT ![i] = "over"]
  /\ UNCHANGED <<worldVars, latchVars, plan, work, got, actVars, spent, lock>>

(* task.reconcile with terminate: the operator confirms that nothing runs.   *)
TerminateRun(i) ==
  /\ run[i] \in {"queued", "pending"} /\ work[i] = "none" /\ remote[i] # "working"
  /\ End(i, run[i] # "queued")
  /\ UNCHANGED <<worldVars, latchVars, plan, workVars, actVars, spent, lock>>

-----------------------------------------------------------------------------
(* plugin.disable and plugin.enable: the latch is committed first, the       *)
(* registry follows (sync_runtime_latches); worker threads go on meanwhile.  *)

DisablePlugin ==
  /\ admin = "idle" /\ Installed /\ latch' = Conf[conf].id /\ admin' = "disabling" /\ UNCHANGED reg

EnablePlugin ==
  /\ admin = "idle" /\ Installed /\ latch \in {0, Conf[conf].id} /\ ~(latch = 0 /\ reg)
  /\ latch' = 0 /\ admin' = "enabling" /\ UNCHANGED reg

SyncLatch ==
  /\ admin # "idle" /\ reg' = (Installed /\ Enabled) /\ admin' = "idle" /\ UNCHANGED latch

RegistryAt(l) == l = 0

(* A crash and a start, perhaps with the next configuration: what was active *)
(* is of unknown outcome.                                                    *)
RestartCore ==
  /\ faults < MaxPluginFaults /\ faults' = faults + 1
  /\ conf' \in {conf, conf + 1} \cap Revs /\ disk = Conf[conf'].id
  /\ LET active == {i \in Execs : run[i] = "active"}
     IN /\ run' = [i \in Execs |-> IF i \in active THEN "pending" ELSE run[i]]
        /\ res' = [i \in Execs |-> IF i \in active THEN Uncertain(i)[i] ELSE res[i]]
  /\ work' = [i \in Execs |-> "none"] /\ got' = [i \in Execs |-> "none"]
  /\ admin' = "idle" /\ reg' = RegistryAt(latch)
  /\ UNCHANGED <<disk, expired, latch, plan, remote, actVars, spent, lock>>

ReplaceFiles ==
  /\ faults < MaxPluginFaults /\ faults' = faults + 1 /\ disk' \in Ids \ {disk} /\ UNCHANGED <<conf, expired>>

QuotaExpires ==
  /\ faults < MaxPluginFaults /\ faults' = faults + 1 /\ conf \notin expired
  /\ expired' = expired \cup {conf} /\ UNCHANGED <<conf, disk>>

(* Steps of the thread that owns the state; plugin.enable and disable too.   *)
MainStep(i) ==
  \/ Prepare(i) \/ StartAction(i) \/ SubmitManaged(i) \/ SubmitDirect(i) \/ DenyAction(i)
  \/ MarkUnsent(i) \/ CloseAction(i) \/ Dispatch(i) \/ DispatchRefused(i) \/ Report(i)
  \/ Reconcile(i) \/ CancelRun(i) \/ TerminateRun(i)

PoolNext ==
  \/ \E i \in Execs :
       \/ admin = "idle" /\ MainStep(i)
       \/ WorkerStart(i) \/ RemoteEnds(i) \/ WorkerEnds(i)
  \/ DisablePlugin /\ UNCHANGED <<worldVars, plan, res, run, workVars, actVars, spent, lock>>
  \/ EnablePlugin /\ UNCHANGED <<worldVars, plan, res, run, workVars, actVars, spent, lock>>
  \/ SyncLatch /\ UNCHANGED <<worldVars, plan, res, run, workVars, actVars, spent, lock>>
  \/ RestartCore
  \/ ReplaceFiles /\ UNCHANGED <<latchVars, plan, res, run, workVars, actVars, spent, lock>>
  \/ QuotaExpires /\ UNCHANGED <<latchVars, plan, res, run, workVars, actVars, spent, lock>>

PoolSpec == PoolInit /\ [][PoolNext]_poolVars

-----------------------------------------------------------------------------
(* A reservation is only given back when nothing reached the provider, on    *)
(* every path that ends an execution: refused, denied, cancelled, restarted. *)
ReleasedNeverRan ==
  \A i \in Execs, p \in Pools : res[i][p] \in {"none", "released"} => remote[i] = "none"

(* A job that may be working keeps its units in every pool, and a run that   *)
(* did not end keeps its reservation in flight.                              *)
WorkingHolds ==
  \A i \in Execs, p \in Pools :
    remote[i] = "working" \/ run[i] \in {"queued", "active", "pending"} => res[i][p] \in Taken

(* Plans prepared side by side, restarts and new revisions never take more of *)
(* a pool's window than a configuration allows, nor run more at once.        *)
PoolsBounded ==
  \A p \in Pools :
    /\ \A r \in Revs :
         \E s \in Revs : /\ Conf[s].window = Conf[r].window
                         /\ Cardinality(InWindow(p, Conf[r].window)) <= Conf[s].limit[p]
    /\ \E s \in Revs : Cardinality(InFlight(p)) <= Conf[s].most

(* A committed disable is in force for the worker threads as soon as the     *)
(* call that made it is done, and after every restart.                       *)
LatchEnforced == latch # 0 /\ reg => admin = "disabling"

(* All executions of a conversation were admitted under one identity of      *)
(* plugin, account, model and pools.                                         *)
ConversationKeepsIdentity ==
  \A i, j \in Execs : ConvOf[i] = ConvOf[j] /\ run[i] # "none" /\ run[j] # "none"
                         => SameLock(plan[i], plan[j])

(* A settled reservation is final: no later save of the run or the Action    *)
(* charges what was given back or gives back what was charged.               *)
SettledStays ==
  [][\A i \in Execs, p \in Pools :
       res[i][p] \in {"released", "committed"} => res'[i][p] = res[i][p]]_poolVars

(* What reaches the provider is what was planned: same revision, and the     *)
(* files of that plan, though both may change while it waits.                *)
SentAsPlanned ==
  [][\A i \in Execs :
       remote[i] = "none" /\ remote'[i] # "none" => plan[i] = conf /\ disk = Conf[plan[i]].id]_poolVars

(* Once a provider reported an exhausted quota, nothing else of that window  *)
(* is dispatched, whatever ended meanwhile.                                  *)
ExhaustedStops ==
  [][\A i \in Execs, j \in spent :
       run[i] = "queued" /\ run'[i] = "active" => Conf[plan[j]].window # Conf[plan[i]].window]_poolVars

(* On every path that ends an execution, over restarts, disables and new     *)
(* configurations: what may have run is paid for, nothing runs beyond the    *)
(* pools, and what is sent is what was planned.                              *)
PoolsSafety ==
  /\ [](PoolTypeOK /\ ReleasedNeverRan /\ WorkingHolds
        /\ PoolsBounded /\ LatchEnforced /\ ConversationKeepsIdentity)
  /\ SettledStays /\ SentAsPlanned /\ ExhaustedStops
=============================================================================
