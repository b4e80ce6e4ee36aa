------------------------------ MODULE StateStore ------------------------------
(***************************************************************************)
(* The state database of an instance (sqlite_store.py, backup.py,            *)
(* instance.py): intents committed under idempotency keys, the upgrade of    *)
(* an older schema, archives and their restoration.  One process owns the    *)
(* execution lock; old and new programs take turns, die and are started      *)
(* again while clients repeat submissions whose answer was lost.             *)
(*                                                                          *)
(*   sdb       the database: schema version, operation of each key, run of   *)
(*             each task; readable is FALSE once the file is damaged         *)
(*   aside     copies made by upgrades; archives  those made by state.backup *)
(*   owner     program that holds the lock; ostep  what it is doing          *)
(*   chosen    archive a restoration validated                               *)
(*   told[k]   tasks clients were told for k since the database was replaced *)
(*   calls[k]  backend calls made for k; restores  replacements so far       *)
(***************************************************************************)
EXTENDS Integers, FiniteSets

CONSTANTS StoreKeys, Inputs,   \* idempotency keys and input digests
  MaxTasks, MaxStoreFaults, MaxRestores   \* bounds: tasks; crashes and damages; replacements

ASSUME StateStoreAssumption == MaxTasks \in Nat \ {0} /\ MaxStoreFaults \in Nat /\ MaxRestores \in Nat

VARIABLES sdb, aside, archives, owner, ostep, chosen, told, calls, restores, breaks

storeVars == <<sdb, aside, archives, owner, ostep, chosen, told, calls, restores, breaks>>

TaskNos == 1 .. MaxTasks
NoOp == [input |-> "none", task |-> 0]
Absent == [version |-> 0, ops |-> [k \in StoreKeys |-> NoOp], runs |-> [t \in TaskNos |-> "none"], readable |-> TRUE]
FreshDb(v) == [Absent EXCEPT !.version = v]

Schema(program) == IF program = "old" THEN 1 ELSE 2    \* SCHEMA_VERSION
Readable(program) == 1 .. Schema(program)              \* READABLE_SCHEMA_VERSIONS

StoreInit ==
  /\ sdb = FreshDb(1) /\ aside = {} /\ archives = {} /\ owner = "none" /\ ostep = "idle"
  /\ chosen = Absent /\ told = [k \in StoreKeys |-> {}] /\ calls = [k \in StoreKeys |-> 0]
  /\ restores = 0 /\ breaks = 0

StoreTypeOK ==
  /\ sdb.version \in 0 .. 2 /\ sdb.readable \in BOOLEAN
  /\ sdb.runs \in [TaskNos -> {"none", "queued", "sent", "over"}]
  /\ \A k \in StoreKeys : /\ sdb.ops[k].input \in Inputs \cup {"none"} /\ sdb.ops[k].task \in TaskNos \cup {0}
                          /\ told[k] \subseteq TaskNos /\ calls[k] \in Nat
  /\ owner \in {"none", "old", "new"} /\ restores \in Nat /\ breaks \in 0 .. MaxStoreFaults
  /\ ostep \in {"idle", "opening", "copied", "ready", "validated", "moved"}

-----------------------------------------------------------------------------
(* Application.from_paths: the lock first, then SqliteStore._initialize.     *)

OpenStore(program) ==
  /\ owner = "none" /\ owner' = program
  /\ sdb.version \in Readable(program) \cup {0} /\ sdb.readable
  /\ IF sdb.version \in {0, Schema(program)}
     THEN ostep' = "ready" /\ sdb' = [sdb EXCEPT !.version = Schema(program)]
     ELSE ostep' = "opening" /\ UNCHANGED sdb
  /\ UNCHANGED <<aside, archives, chosen, told, calls, restores, breaks>>

CopiedOnce == IF aside = {} THEN {sdb} ELSE aside   \* mutant: an earlier copy will do

Copied == aside \cup {sdb}

(* A consistent copy first ...                                               *)
UpgradeCopies ==
  /\ ostep = "opening" /\ aside' = Copied /\ ostep' = "copied"
  /\ UNCHANGED <<sdb, archives, owner, chosen, told, calls, restores, breaks>>

(* ... then the tables and the version.                                      *)
UpgradeCommits ==
  /\ ostep = "copied" /\ sdb' = [sdb EXCEPT !.version = Schema(owner)] /\ ostep' = "ready"
  /\ UNCHANGED <<aside, archives, owner, chosen, told, calls, restores, breaks>>

CloseStore ==
  /\ ostep = "ready" /\ owner' = "none" /\ ostep' = "idle"
  /\ UNCHANGED <<sdb, aside, archives, chosen, told, calls, restores, breaks>>

(* The process dies; the lock goes with it.  A damaged page is found later.  *)
KillStore ==
  /\ owner # "none" /\ breaks < MaxStoreFaults /\ breaks' = breaks + 1
  /\ owner' = "none" /\ ostep' = "idle" /\ chosen' = Absent
  /\ UNCHANGED <<sdb, aside, archives, told, calls, restores>>

DamageStore ==
  /\ owner = "none" /\ breaks < MaxStoreFaults /\ breaks' = breaks + 1 /\ sdb.version # 0
  /\ sdb' = [sdb EXCEPT !.readable = FALSE]
  /\ UNCHANGED <<aside, archives, owner, ostep, chosen, told, calls, restores>>

-----------------------------------------------------------------------------
(* task.submit with a key: a first commit_intent, or the operation it finds. *)

FreeTask == {t \in TaskNos : \A s \in 1 .. t - 1 : sdb.runs[s] # "none"} \cap {t \in TaskNos : sdb.runs[t] = "none"}

Free(k) == sdb.ops[k] = NoOp

(* Operation, task and run in one transaction.                               *)
Committed(k, input, t) ==
  [sdb EXCEPT !.ops[k] = [input |-> input, task |-> t], !.runs[t] = "queued"]

Answer(k, t) == told' \in {told, [told EXCEPT ![k] = @ \cup {t}]}   \* the answer may be lost

Submit(k, input) ==
  /\ ostep = "ready" /\ Free(k)
  /\ \E t \in FreeTask : sdb' = Committed(k, input, t) /\ Answer(k, t)
  /\ UNCHANGED <<aside, archives, owner, ostep, chosen, calls, restores, breaks>>

(* The same key again; other input is a conflict and changes nothing.        *)
SubmitAgain(k, input) ==
  /\ ostep = "ready" /\ sdb.ops[k].input = input /\ input # "none"
  /\ told' = [told EXCEPT ![k] = @ \cup {sdb.ops[k].task}]
  /\ UNCHANGED <<sdb, aside, archives, owner, ostep, chosen, calls, restores, breaks>>

UnmarkedRun(k) == sdb   \* mutant: the mark is left to the answer

SentRun(k) == [sdb EXCEPT !.runs[sdb.ops[k].task] = "sent"]

(* The run is marked before the backend is called, once in its life.         *)
Send(k) ==
  /\ ostep = "ready" /\ sdb.ops[k] # NoOp /\ sdb.runs[sdb.ops[k].task] = "queued"
  /\ sdb' = SentRun(k)
  /\ calls' = [calls EXCEPT ![k] = @ + 1]
  /\ UNCHANGED <<aside, archives, owner, ostep, chosen, told, restores, breaks>>

RunOver(t) ==
  /\ ostep = "ready" /\ sdb.runs[t] = "sent" /\ sdb' = [sdb EXCEPT !.runs[t] = "over"]
  /\ UNCHANGED <<aside, archives, owner, ostep, chosen, told, calls, restores, breaks>>

-----------------------------------------------------------------------------
(* backup_state and restore_state.                                           *)

(* _validate_snapshot: every operation refers to records that exist.         *)
Valid(d) == d.readable /\ \A k \in StoreKeys : d.ops[k] # NoOp => d.runs[d.ops[k].task] # "none"

Backup ==
  /\ ostep = "ready" /\ Valid(sdb) /\ archives' = archives \cup {sdb} /\ archives' # archives
  /\ UNCHANGED <<sdb, aside, owner, ostep, chosen, told, calls, restores, breaks>>

AllOver == \A t \in TaskNos : sdb.runs[t] \in {"none", "over"}

(* state.restore of a running core wants every run ended; the command for a  *)
(* stopped instance takes the lock and does not open the database.  Nothing  *)
(* is written before the archive is validated.                               *)
ValidateArchive(a) ==
  /\ \/ ostep = "ready" /\ AllOver /\ UNCHANGED owner
     \/ owner = "none" /\ owner' = "new"
  /\ Valid(a) /\ a.version \in Readable(owner')
  /\ chosen' = a /\ ostep' = "validated"
  /\ UNCHANGED <<sdb, aside, archives, told, calls, restores, breaks>>

(* The content is exchanged in one transaction, a damaged file by a rename;  *)
(* then the store is opened anew, or the command ends.                       *)
MoveDamaged ==
  /\ ostep = "validated" /\ ~sdb.readable /\ sdb' = Absent /\ ostep' = "moved"
  /\ restores' = restores + 1 /\ told' = [k \in StoreKeys |-> {}]
  /\ UNCHANGED <<aside, archives, owner, chosen, calls, breaks>>

RestoreArchive ==
  /\ ostep = "moved" \/ (ostep = "validated" /\ sdb.readable)
  /\ sdb' = chosen /\ chosen' = Absent /\ restores' = IF ostep = "moved" THEN restores ELSE restores + 1
  /\ told' = [k \in StoreKeys |-> {}]
  /\ \/ owner' = "none" /\ ostep' = "idle"
     \/ UNCHANGED owner /\ ostep' = IF chosen.version = Schema(owner) THEN "ready" ELSE "opening"
  /\ UNCHANGED <<aside, archives, calls, breaks>>

StoreNext ==
  \/ \E p \in {"old", "new"} : OpenStore(p)
  \/ UpgradeCopies \/ UpgradeCommits \/ CloseStore \/ KillStore \/ DamageStore
  \/ \E k \in StoreKeys, input \in Inputs : Submit(k, input) \/ SubmitAgain(k, input)
  \/ \E k \in StoreKeys : Send(k)
  \/ \E t \in TaskNos : RunOver(t)
  \/ archives = {} /\ Backup
  \/ restores < MaxRestores /\ MoveDamaged
  \/ \E a \in archives : ValidateArchive(a)
  \/ (restores < MaxRestores \/ ostep = "moved") /\ RestoreArchive

StoreSpec == StoreInit /\ [][StoreNext]_storeVars

-----------------------------------------------------------------------------
(* However often and by whomever a submission is repeated, across lost       *)
(* answers, crashes and upgrades, its key always names the one task.         *)
KeyNamesOneTask == \A k \in StoreKeys : Cardinality(told[k]) <= 1

(* A key's work is sent once, and once more only when an archive from before *)
(* it was restored.                                                          *)
SentOncePerKey == \A k \in StoreKeys : calls[k] <= 1 + restores

(* What an archive or an upgrade copied can be restored: no transaction is   *)
(* ever visible in halves.                                                   *)
CopiesAreWhole == \A d \in archives \cup aside : Valid(d)

(* The database an upgrade replaces is set aside exactly as it was then,     *)
(* though an earlier attempt died and the old program wrote again since.     *)
UpgradeKeepsOld ==
  [][sdb.version = 1 /\ sdb'.version = 2 /\ restores' = restores => sdb \in aside]_storeVars

(* A running core replaces its database only when no run in it is unfinished.*)
RestoreLosesNoRun ==
  [][ostep = "ready" /\ ostep' = "validated" =>
       \A t \in TaskNos : sdb.runs[t] \notin {"queued", "sent"}]_storeVars

(* Over lost answers, crashes, upgrades and restorations: a key leads to one *)
(* task that is sent once, and every copy can be restored.                   *)
StoreSafety ==
  /\ [](StoreTypeOK /\ KeyNamesOneTask /\ SentOncePerKey /\ CopiesAreWhole)
  /\ UpgradeKeepsOld /\ RestoreLosesNoRun
=============================================================================
