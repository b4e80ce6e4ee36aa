------------------------------ MODULE ServicePlan ------------------------------
(***************************************************************************)
(* A planned change of an installed service (service_management.py): stop    *)
(* the core, replace its configuration and launch file, start it, apply the  *)
(* new configuration revision, or take all of that back.  Two command line   *)
(* processes run against the core, launchd and other clients:                *)
(*                                                                          *)
(*   apc, rpc   where the applying and the restoring process are            *)
(*   aj, rj     apply-result.json and rollback-result.json                  *)
(*   seen       the copy of aj the restoring process read before its locks  *)
(*   reviewed   what the plan recorded of the ledger                        *)
(*   file       content of the managed files and of the installed sources   *)
(*   appliedRevision  revision in the state database; ledger, open: version of    *)
(*              everything else in it, and whether work is unfinished       *)
(*   job, core, coreRev  launchd job, core process and the revision it read *)
(*   exec, db, mgmt      owner of the execution lock, of the SQLite write   *)
(*              lock and of the management lock                             *)
(*   cas        a config.apply of the applying process waits in the core    *)
(*   opSeen     revision another operator read before it applies            *)
(*                                                                          *)
(* The old configuration is revision 1, the candidate 2, a foreign one 3.    *)
(***************************************************************************)
EXTENDS Integers, Sequences

CONSTANTS MaxLedger, MaxServiceFaults   \* bounds: writes of the core, faults and foreign edits

ASSUME ServicePlanAssumption == MaxLedger \in Nat /\ MaxServiceFaults \in Nat

VARIABLES apc, rpc, aj, rj, seen, reviewed, file, appliedRevision, ledger, open,
          job, core, coreRev, exec, db, mgmt, cas, opSeen, mishaps

journalVars == <<aj, rj, seen>>
dataVars == <<appliedRevision, ledger, open>>
coreVars == <<job, core, coreRev>>
lockVars == <<exec, db, mgmt>>
serviceVars == <<apc, rpc, journalVars, reviewed, file, dataVars, coreVars, lockVars, cas, opSeen, mishaps>>

Managed2 == {"config", "plist"}
RevOf(content) == CASE content = "old" -> 1 [] content = "cand" -> 2 [] OTHER -> 3

NoState == [rev |-> 0, ledger |-> 0, open |-> FALSE]
Snapshot == [rev |-> appliedRevision, ledger |-> ledger, open |-> open]
NoJournal == [status |-> "none", steps |-> {}, changed |-> {}, after |-> NoState]

(* The steps of both processes in their order.  Those in Marks only write    *)
(* the journal.                                                              *)
ApplyOrder == <<"core_stop_requested", "bootout", "lock", "core_stopped",
  "config_write_requested", "config", "config_written",
  "plist_write_requested", "plist", "plist_written", "unlock",
  "core_start_requested", "bootstrap", "core_started", "ready", "target_revision_loaded",
  "config_apply_requested", "request", "answer", "config_applied", "finish", "final">>
RestoreOrder == <<"stop", "lock", "config", "plist", "revision", "final">>
Marks == {"core_stop_requested", "core_stopped", "config_write_requested", "config_written",
  "plist_write_requested", "plist_written", "core_start_requested", "core_started",
  "target_revision_loaded", "config_apply_requested", "config_applied"}

(* _check_file: a file is still the one that was recorded.                   *)
Same(f, content) == file[f] = content

WriteMark(f) == IF f = "config" THEN "config_write_requested" ELSE "plist_write_requested"

(* 0: not started, Len + 1: ended or killed *)
AEnd == Len(ApplyOrder) + 1
REnd == Len(RestoreOrder) + 1
AtApply(step) == apc \in 1 .. Len(ApplyOrder) /\ ApplyOrder[apc] = step
AtRestore(step) == rpc \in 1 .. Len(RestoreOrder) /\ RestoreOrder[rpc] = step

ServiceInit ==
  /\ apc = 0 /\ rpc = 0 /\ aj = NoJournal /\ rj = NoJournal /\ seen = NoJournal
  /\ reviewed = NoState /\ file = [f \in Managed2 \cup {"sources"} |-> "old"]
  /\ appliedRevision = 1 /\ ledger = 0 /\ open = FALSE
  /\ job = TRUE /\ core = "up" /\ coreRev = 1
  /\ exec = "core" /\ db = "free" /\ mgmt = "free" /\ cas = FALSE /\ opSeen = 1 /\ mishaps = 0

ServiceTypeOK ==
  /\ apc \in 0 .. AEnd /\ rpc \in 0 .. REnd
  /\ \A j \in {aj, rj, seen} :
       /\ j.status \in {"none", "in_progress", "applied", "partial", "rolled_back"}
       /\ j.steps \subseteq Marks /\ j.changed \subseteq Managed2
       /\ j.after.rev \in 0 .. 3 /\ j.after.ledger \in 0 .. MaxLedger /\ j.after.open \in BOOLEAN
  /\ reviewed.rev \in 0 .. 1 /\ \A f \in DOMAIN file : file[f] \in {"old", "cand", "other"}
  /\ appliedRevision \in 1 .. 3 /\ ledger \in 0 .. MaxLedger /\ open \in BOOLEAN
  /\ job \in BOOLEAN /\ core \in {"up", "stopping", "down"} /\ coreRev \in 1 .. 3
  /\ exec \in {"free", "core", "apply", "restore"}
  /\ db \in {"free", "apply", "restore"} /\ mgmt \in {"free", "apply", "restore"}
  /\ cas \in BOOLEAN /\ opSeen \in 1 .. 3 /\ mishaps \in 0 .. MaxServiceFaults

-----------------------------------------------------------------------------
(* The core, launchd and other clients.                                     *)

(* A submission needs the applied revision to be the loaded one; its end and *)
(* other bookkeeping write the ledger too.                                   *)
CoreWrites ==
  /\ core = "up" /\ db = "free" /\ ledger < MaxLedger /\ ledger' = ledger + 1
  /\ open' \in {FALSE, TRUE} /\ (open' /\ ~open => coreRev = appliedRevision)
  /\ UNCHANGED <<apc, rpc, journalVars, reviewed, file, appliedRevision, coreVars, lockVars, cas, opSeen, mishaps>>

CoreStarts ==
  /\ job /\ core = "down" /\ exec = "free" /\ db = "free"
  /\ core' = "up" /\ exec' = "core" /\ coreRev' = RevOf(file["config"])
  /\ UNCHANGED <<apc, rpc, journalVars, reviewed, file, dataVars, job, db, mgmt, cas, opSeen, mishaps>>

(* A stop that was requested, or a crash; launchd starts a loaded job again. *)
CoreEnds ==
  /\ \/ core = "stopping" /\ UNCHANGED mishaps
     \/ core = "up" /\ mishaps < MaxServiceFaults /\ mishaps' = mishaps + 1
  /\ core' = "down" /\ exec' = "free" /\ cas' = FALSE
  /\ UNCHANGED <<apc, rpc, journalVars, reviewed, file, dataVars, job, coreRev, db, mgmt, opSeen>>

CasBlind(expected) == TRUE   \* mutant: the revision is written without a compare

CasHolds(expected) == appliedRevision = expected

(* cas_apply_revision, asked for by another operator ...                     *)
OperatorReads ==
  /\ core = "up" /\ opSeen # appliedRevision /\ opSeen' = appliedRevision
  /\ UNCHANGED <<apc, rpc, journalVars, reviewed, file, dataVars, coreVars, lockVars, cas, mishaps>>

OperatorApplies ==
  /\ core = "up" /\ db = "free" /\ CasHolds(opSeen) /\ appliedRevision # coreRev /\ appliedRevision' = coreRev
  /\ UNCHANGED <<apc, rpc, journalVars, reviewed, file, ledger, open, coreVars, lockVars, cas, opSeen, mishaps>>

(* ... and by the applying process, though it may wait no longer.            *)
PlanCas ==
  /\ cas /\ core = "up" /\ db = "free" /\ cas' = FALSE
  /\ appliedRevision' = IF CasHolds(reviewed.rev) THEN coreRev ELSE appliedRevision
  /\ UNCHANGED <<apc, rpc, journalVars, reviewed, file, ledger, open, coreVars, lockVars, opSeen, mishaps>>

EditFile(f) ==
  /\ mishaps < MaxServiceFaults /\ mishaps' = mishaps + 1 /\ file[f] # "other"
  /\ file' = [file EXCEPT ![f] = "other"]
  /\ UNCHANGED <<apc, rpc, journalVars, reviewed, dataVars, coreVars, lockVars, cas, opSeen>>

(* The operator loads the job again once no process manages it.              *)
LoadJob ==
  /\ ~job /\ mgmt = "free" /\ mishaps < MaxServiceFaults /\ mishaps' = mishaps + 1 /\ job' = TRUE
  /\ UNCHANGED <<apc, rpc, journalVars, reviewed, file, dataVars, core, coreRev, lockVars, cas, opSeen>>

-----------------------------------------------------------------------------
(* prepare_service_plan and apply_service_plan.                              *)

PreparePlan ==
  /\ reviewed = NoState /\ \A f \in DOMAIN file : file[f] = "old"
  /\ appliedRevision = 1 /\ reviewed' = Snapshot
  /\ UNCHANGED <<apc, rpc, journalVars, file, dataVars, coreVars, lockVars, cas, opSeen, mishaps>>

(* _check_baseline                                                           *)
Baseline == (\A f \in DOMAIN file : Same(f, "old")) /\ ~open /\ Snapshot = reviewed

ApplyBegins ==
  /\ apc = 0 /\ reviewed # NoState /\ mgmt = "free" /\ db = "free" /\ Baseline
  /\ apc' = 1 /\ aj' = [NoJournal EXCEPT !.status = "in_progress"]
  /\ mgmt' = "apply" /\ db' = "apply"
  /\ UNCHANGED <<rpc, rj, seen, reviewed, file, dataVars, coreVars, exec, cas, opSeen, mishaps>>

Next1 == apc' = apc + 1

(* _record: the step, and the files changed so far.                          *)
StepMarked(step) ==
  [aj EXCEPT !.steps = @ \cup {step},
             !.changed = CASE step = "config_written" -> {"config"} [] step = "plist_written" -> Managed2 [] OTHER -> @]

ApplyRecords ==
  /\ \E step \in Marks : AtApply(step) /\ aj' = StepMarked(step)
  /\ AtApply("core_stopped") => Baseline
  /\ AtApply("target_revision_loaded") => \A f \in Managed2 : Same(f, "cand")
  /\ Next1
  /\ UNCHANGED <<rpc, rj, seen, reviewed, file, dataVars, coreVars, lockVars, cas, opSeen, mishaps>>

(* launchctl bootout: the core is told to stop and not started again.        *)
StopCore == job' = FALSE /\ core' = IF core = "up" THEN "stopping" ELSE core

ApplyStops ==
  /\ AtApply("bootout") /\ StopCore /\ Next1
  /\ UNCHANGED <<rpc, journalVars, reviewed, file, dataVars, coreRev, lockVars, cas, opSeen, mishaps>>

(* _acquire_stopped_lock                                                     *)
Stopped == exec = "free"

ApplyLocks ==
  /\ AtApply("lock") /\ Stopped /\ exec' = "apply" /\ Next1
  /\ UNCHANGED <<rpc, journalVars, reviewed, file, dataVars, coreVars, db, mgmt, cas, opSeen, mishaps>>

ApplyReplaces(f) ==
  /\ AtApply(f) /\ Same(f, "old") /\ file' = [file EXCEPT ![f] = "cand"] /\ Next1
  /\ UNCHANGED <<rpc, journalVars, reviewed, dataVars, coreVars, lockVars, cas, opSeen, mishaps>>

ApplyUnlocks ==
  /\ AtApply("unlock") /\ exec' = "free" /\ db' = "free" /\ Next1
  /\ UNCHANGED <<rpc, journalVars, reviewed, file, dataVars, coreVars, mgmt, cas, opSeen, mishaps>>

ApplyStarts ==
  /\ AtApply("bootstrap") /\ job' = TRUE /\ Next1
  /\ UNCHANGED <<rpc, journalVars, reviewed, file, dataVars, core, coreRev, lockVars, cas, opSeen, mishaps>>

ApplyWaits ==
  /\ AtApply("ready") /\ core = "up" /\ coreRev = 2 /\ Next1
  /\ UNCHANGED <<rpc, journalVars, reviewed, file, dataVars, coreVars, lockVars, cas, opSeen, mishaps>>

ApplyRequests ==
  /\ AtApply("request") /\ core = "up" /\ cas' = TRUE /\ Next1
  /\ UNCHANGED <<rpc, journalVars, reviewed, file, dataVars, coreVars, lockVars, opSeen, mishaps>>

ApplyAnswered ==
  /\ AtApply("answer") /\ ~cas /\ appliedRevision = 2 /\ Next1
  /\ UNCHANGED <<rpc, journalVars, reviewed, file, dataVars, coreVars, lockVars, cas, opSeen, mishaps>>

(* All locks are released before the final record is written.                *)
ReleaseLocks(who) ==
  /\ exec' = (IF exec = who THEN "free" ELSE exec)
  /\ db' = (IF db = who THEN "free" ELSE db) /\ mgmt' = (IF mgmt = who THEN "free" ELSE mgmt)

ApplyFinishes ==
  /\ AtApply("finish") /\ ReleaseLocks("apply") /\ Next1
  /\ UNCHANGED <<rpc, journalVars, reviewed, file, dataVars, coreVars, cas, opSeen, mishaps>>

(* Any step may fail: a changed file, a timeout, a lost answer, launchctl.   *)
ApplyFails ==
  /\ apc \in 1 .. AEnd - 2 /\ ReleaseLocks("apply")
  /\ apc' = AEnd - 1 /\ aj' = [aj EXCEPT !.status = "partial"]
  /\ UNCHANGED <<rpc, rj, seen, reviewed, file, dataVars, coreVars, cas, opSeen, mishaps>>

ApplyEnds ==
  /\ AtApply("final") /\ apc' = AEnd
  /\ aj' = [aj EXCEPT !.after = Snapshot, !.status = IF @ = "partial" THEN @ ELSE "applied"]
  /\ UNCHANGED <<rpc, rj, seen, reviewed, file, dataVars, coreVars, lockVars, cas, opSeen, mishaps>>

ApplyKilled ==
  /\ apc \in 1 .. AEnd - 1 /\ mishaps < MaxServiceFaults /\ mishaps' = mishaps + 1
  /\ apc' = AEnd /\ ReleaseLocks("apply")
  /\ UNCHANGED <<rpc, journalVars, reviewed, file, dataVars, coreVars, cas, opSeen>>

-----------------------------------------------------------------------------
(* rollback_service_plan.                                                    *)

RestoreReads ==
  /\ rpc = 0 /\ rj = NoJournal /\ aj.status # "none" /\ aj # seen /\ seen' = aj
  /\ UNCHANGED <<apc, rpc, aj, rj, reviewed, file, dataVars, coreVars, lockVars, cas, opSeen, mishaps>>

(* After a crash the only change of the ledger allowed is the revision.      *)
Interrupted(j) == j.after = NoState \/ j.status = "in_progress"
StateValid(j) ==
  /\ ~open
  /\ IF Interrupted(j)
     THEN /\ [Snapshot EXCEPT !.rev = reviewed.rev] = reviewed /\ appliedRevision \in {1, 2}
          /\ appliedRevision = 2 => "config_apply_requested" \in j.steps
     ELSE Snapshot = j.after

FileUnrecorded(f, j) == file[f] = "old" \/ (f \in j.changed /\ file[f] = "cand")   \* mutant

(* A file is the original, what the journal recorded, or the candidate whose *)
(* write was announced.                                                      *)
FileKnown(f, j) ==
  IF f \in j.changed THEN Same(f, "cand")
  ELSE Same(f, "old") \/ (WriteMark(f) \in j.steps /\ Same(f, "cand"))

Restorable(j) == StateValid(j) /\ (\A f \in Managed2 : FileKnown(f, j)) /\ Same("sources", "old")

RestoreBegins ==
  /\ rpc = 0 /\ seen.status # "none" /\ rj = NoJournal /\ mgmt = "free" /\ db = "free" /\ Restorable(seen)
  /\ rpc' = 1 /\ mgmt' = "restore" /\ db' = "restore"
  /\ rj' = [NoJournal EXCEPT !.status = "in_progress", !.changed = {f \in Managed2 : file[f] = "cand"}]
  /\ UNCHANGED <<apc, aj, seen, reviewed, file, dataVars, coreVars, exec, cas, opSeen, mishaps>>

RestoreStops ==
  /\ AtRestore("stop") /\ rpc' = rpc + 1
  /\ IF "core_stop_requested" \in seen.steps THEN StopCore ELSE UNCHANGED <<job, core>>
  /\ UNCHANGED <<apc, journalVars, reviewed, file, dataVars, coreRev, lockVars, cas, opSeen, mishaps>>

RestoreLocks ==
  /\ AtRestore("lock") /\ Stopped /\ exec' = "restore" /\ rpc' = rpc + 1
  /\ UNCHANGED <<apc, journalVars, reviewed, file, dataVars, coreVars, db, mgmt, cas, opSeen, mishaps>>

RestoreReplaces(f) ==
  /\ AtRestore(f) /\ rpc' = rpc + 1 /\ (f \in rj.changed => Same(f, "cand"))
  /\ file' = IF f \in rj.changed THEN [file EXCEPT ![f] = "old"] ELSE file
  /\ UNCHANGED <<apc, journalVars, reviewed, dataVars, coreVars, lockVars, cas, opSeen, mishaps>>

RevisionRestored == reviewed.rev

RestoreRevision ==
  /\ AtRestore("revision") /\ appliedRevision \in {1, 2} /\ appliedRevision' = RevisionRestored /\ rpc' = rpc + 1
  /\ ReleaseLocks("restore")
  /\ UNCHANGED <<apc, journalVars, reviewed, file, ledger, open, coreVars, cas, opSeen, mishaps>>

RestoreEnds ==
  /\ AtRestore("final") /\ rpc' = REnd /\ rj' = [rj EXCEPT !.status = "rolled_back"]
  /\ UNCHANGED <<apc, aj, seen, reviewed, file, dataVars, coreVars, lockVars, cas, opSeen, mishaps>>

RestoreFails ==
  /\ rpc \in 1 .. REnd - 2 /\ ReleaseLocks("restore")
  /\ rpc' = REnd /\ rj' = [rj EXCEPT !.status = "partial"]
  /\ UNCHANGED <<apc, aj, seen, reviewed, file, dataVars, coreVars, cas, opSeen, mishaps>>

RestoreKilled ==
  /\ rpc \in 1 .. REnd - 1 /\ mishaps < MaxServiceFaults /\ mishaps' = mishaps + 1
  /\ rpc' = REnd /\ ReleaseLocks("restore")
  /\ UNCHANGED <<apc, journalVars, reviewed, file, dataVars, coreVars, cas, opSeen>>

ServiceNext ==
  \/ CoreWrites \/ CoreStarts \/ CoreEnds \/ OperatorReads \/ OperatorApplies \/ PlanCas \/ LoadJob
  \/ \E f \in DOMAIN file : EditFile(f)
  \/ PreparePlan \/ ApplyBegins \/ ApplyRecords \/ ApplyStops \/ ApplyLocks
  \/ \E f \in Managed2 : ApplyReplaces(f) \/ RestoreReplaces(f)
  \/ ApplyUnlocks \/ ApplyStarts \/ ApplyWaits \/ ApplyRequests \/ ApplyAnswered
  \/ ApplyFinishes \/ ApplyFails \/ ApplyEnds \/ ApplyKilled
  \/ RestoreReads \/ RestoreBegins \/ RestoreStops \/ RestoreLocks \/ RestoreRevision
  \/ RestoreEnds \/ RestoreFails \/ RestoreKilled

ServiceSpec == ServiceInit /\ [][ServiceNext]_serviceVars

-----------------------------------------------------------------------------
(* While a process holds the execution lock to replace files, no core runs,  *)
(* and the ledger is still the one the plan was reviewed for, whatever       *)
(* clients and launchd did between the check and the stop.                   *)
SwitchedInQuiet ==
  /\ exec \in {"apply", "restore"} => core = "down"
  /\ exec = "apply" => Snapshot = reviewed

(* A core is never told to stop while work is unfinished: what the plan saw  *)
(* idle cannot become busy before the stop.                                  *)
BusyCoreIsNotStopped == [][core = "up" /\ core' = "stopping" => ~open]_serviceVars

Undisturbed ==
  /\ \A f \in DOMAIN file : file[f] # "other"
  /\ ~open /\ ledger = reviewed.ledger
  /\ aj.after # NoState => appliedRevision = aj.after.rev
  /\ aj.after = NoState /\ appliedRevision = 2 => "config_apply_requested" \in aj.steps

(* Wherever the applying process dies or fails, what it did can be taken     *)
(* back as long as nobody else changed the files, the ledger or the revision *)
(* meanwhile: the journal is ahead of every effect.                          *)
EveryCrashIsReversible == apc = AEnd /\ rj = NoJournal /\ Undisturbed => Restorable(aj)

(* A rollback that reports success left the original files and revision, and *)
(* no late answer of the core it stopped brings the new revision back.       *)
RolledBackForGood ==
  rj.status = "rolled_back" /\ (\A f \in DOMAIN file : file[f] # "other") /\ apc = AEnd
    => (\A f \in Managed2 : file[f] = "old") /\ appliedRevision = 1

(* A change of the applied revision replaces the one its author had seen:    *)
(* operators who race each other, or a request executed late, cannot undo    *)
(* a revision they never read.                                               *)
NoLostRevision ==
  [][appliedRevision' # appliedRevision => \/ AtRestore("revision")
                                           \/ cas /\ ~cas' /\ appliedRevision = reviewed.rev
                                           \/ cas' = cas /\ appliedRevision = opSeen]_serviceVars

(* Wherever the applying or the restoring process dies, and whoever applies  *)
(* revisions meanwhile: files are switched under a stopped, idle core, can   *)
(* be put back, and nobody undoes a revision unread.                         *)
ServiceSafety ==
  /\ [](ServiceTypeOK /\ SwitchedInQuiet /\ EveryCrashIsReversible
        /\ RolledBackForGood)
  /\ BusyCoreIsNotStopped /\ NoLostRevision
=============================================================================
