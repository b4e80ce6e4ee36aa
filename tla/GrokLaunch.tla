------------------------------ MODULE GrokLaunch ------------------------------
(***************************************************************************)
(* Who owns the processes of one Grok coding run (backends/grok_code.py and   *)
(* grok.py).  A worker announces the launch, spawns the native process in a   *)
(* group of its own under the lock of the launch's handle, and reports its    *)
(* pid.  The process forks tools, which may leave the group but carry the     *)
(* launch marker in their environment.  The core may die and leave them        *)
(* behind, start again in another PID namespace or on another machine, and     *)
(* ends a run it finds without a worker only when the host proves that nothing *)
(* of the launch is left: the machine was started again since, or up to        *)
(* LivenessScans passes over /proc on the same host find nothing of it.        *)
(*                                                                          *)
(*   worker    step of the worker; it dies with the core                      *)
(*   handle    the CodeProcessHandle of the launch                            *)
(*   evidence  the receipt and the host it names that the core has committed   *)
(*   outcome   how the run stands in the store                                *)
(*   procs     the processes of the launch, by pid                            *)
(*   nextPid   pids are given out in order                                    *)
(*   core      where the core runs, and whether it is being closed            *)
(*   boots     starts of the first machine                                    *)
(*   scan      the pass over /proc that is under way                          *)
(*                                                                          *)
(* Other processes decide nothing: they carry neither group nor marker.  A     *)
(* process that clears its environment and leaves the group, which the code    *)
(* names as its limit, does not occur.                                        *)
(***************************************************************************)
EXTENDS Integers, FiniteSets

CONSTANTS MaxPids,       \* bound on the processes of a launch
          MaxBoots,      \* bound on the starts of the first machine
          MaxLives,      \* bound on the starts of the core
          PidsWrap       \* pids may be given out from the low end again

ASSUME GrokLaunchAssumption ==
  MaxPids \in Nat \ {0} /\ MaxBoots \in Nat /\ MaxLives \in Nat /\ PidsWrap \in BOOLEAN

VARIABLES worker, handle, evidence, outcome, procs, nextPid, core, boots, scan

launchVars == <<worker, handle, evidence, outcome, procs, nextPid, core, boots, scan>>

LivenessScans == 3
Pids == 1 .. MaxPids
Hosts == [machine : {1, 2}, boot : 0 .. MaxBoots, ns : {1, 2}]
NoHost == [machine |-> 0, boot |-> 0, ns |-> 0]

NoProcess == [state |-> "free", group |-> FALSE, mark |-> FALSE]
Alive == {p \in Pids : procs[p].state = "run"}
GroupAlive == {p \in Alive : procs[p].group}

NoScan == [at |-> "idle", pass |-> 0, cursor |-> 0, listed |-> {}, unstable |-> FALSE]

(* The second machine has boots of its own, one of which is enough.           *)
BootOf(m) == IF m = 1 THEN boots ELSE 0
HereNow == [machine |-> core.machine, boot |-> BootOf(core.machine), ns |-> core.ns]

LaunchInit ==
  /\ worker = "queued" /\ handle = "none" /\ outcome = "open"
  /\ evidence = [stage |-> "none", host |-> NoHost]
  /\ procs = [p \in Pids |-> NoProcess] /\ nextPid = 1
  /\ core = [up |-> TRUE, machine |-> 1, ns |-> 1, closing |-> FALSE, closed |-> FALSE, lives |-> 0]
  /\ boots = 0 /\ scan = NoScan

LaunchTypeOK ==
  /\ worker \in {"queued", "ready", "announced", "spawned", "reported", "unsent", "done", "unknown", "gone"}
  /\ handle \in {"none", "fresh", "owns", "closed"}
  /\ evidence.stage \in {"none", "spawn", "prompt", "settled"} /\ evidence.host \in Hosts \cup {NoHost}
  /\ outcome \in {"open", "unsent", "done", "unknown", "lost"}
  /\ \A p \in Pids : procs[p].state \in {"free", "run", "zombie"} /\ (procs[p].state = "run" => procs[p].group \/ procs[p].mark)
  /\ nextPid \in 1 .. MaxPids + 1 /\ boots \in 0 .. MaxBoots /\ core.machine \in {1, 2}
  /\ scan.pass \in 0 .. LivenessScans /\ scan.listed \subseteq Pids

-----------------------------------------------------------------------------
(* The processes.                                                           *)

(* A pid for a new process: the next one, or a low one that is free again.     *)
NewPid(p) ==
  /\ procs[p].state = "free"
  /\ p = nextPid \/ (PidsWrap /\ p < nextPid)

Born(p, process) ==
  /\ procs' = [procs EXCEPT ![p] = process]
  /\ nextPid' = IF p = nextPid THEN p + 1 ELSE nextPid

Fork(parent, child) ==
  /\ procs[parent].state = "run" /\ NewPid(child)
  /\ \E inGroup \in {procs[parent].group, FALSE} :
       /\ inGroup \/ procs[parent].mark
       /\ Born(child, [state |-> "run", group |-> inGroup, mark |-> procs[parent].mark])
  /\ UNCHANGED <<worker, handle, evidence, outcome, core, boots, scan>>

(* A tool that runs with an environment of its own.                           *)
ClearEnvironment(p) ==
  /\ procs[p].state = "run" /\ procs[p].group /\ procs[p].mark
  /\ procs' = [procs EXCEPT ![p].mark = FALSE]
  /\ UNCHANGED <<worker, handle, evidence, outcome, nextPid, core, boots, scan>>

ProcessExits(p) ==
  /\ procs[p].state = "run" /\ procs' = [procs EXCEPT ![p] = [NoProcess EXCEPT !.state = "zombie"]]
  /\ UNCHANGED <<worker, handle, evidence, outcome, nextPid, core, boots, scan>>

Reap(p) ==
  /\ procs[p].state = "zombie" /\ procs' = [procs EXCEPT ![p] = NoProcess]
  /\ UNCHANGED <<worker, handle, evidence, outcome, nextPid, core, boots, scan>>

(* _stop_process: the signal takes every member of the group at once.         *)
GroupKilled == [p \in Pids |-> IF p \in GroupAlive THEN NoProcess ELSE procs[p]]

-----------------------------------------------------------------------------
(* The worker (GrokBackend._dispatch_code, run_code).                         *)

MayRegister == ~core.closing

RegisterRun ==
  /\ core.up /\ worker = "queued"
  /\ IF MayRegister THEN worker' = "ready" /\ handle' = "fresh" ELSE worker' = "unsent" /\ UNCHANGED handle
  /\ UNCHANGED <<evidence, outcome, procs, nextPid, core, boots, scan>>

AnnouncedLater == UNCHANGED evidence   \* mutant: only the second emit is committed

(* emit before Popen: its acknowledgement is the committed receipt.           *)
Announced == evidence' = [stage |-> "spawn", host |-> HereNow]

Announce ==
  /\ core.up /\ worker = "ready"
  /\ \/ worker' = "announced" /\ Announced
     \/ worker' = "unsent" /\ UNCHANGED evidence
  /\ UNCHANGED <<handle, outcome, procs, nextPid, core, boots, scan>>

MaySpawn == handle = "fresh"

SpawnClient ==
  /\ core.up /\ worker = "announced"
  /\ IF MaySpawn
       THEN /\ \E p \in Pids : NewPid(p) /\ Born(p, [state |-> "run", group |-> TRUE, mark |-> TRUE])
            /\ worker' = "spawned" /\ handle' = "owns"
       ELSE worker' = "unsent" /\ UNCHANGED <<handle, procs, nextPid>>
  /\ UNCHANGED <<evidence, outcome, core, boots, scan>>

(* The second emit: the pid, its group and its start.                         *)
ReportEnd ==
  /\ core.up /\ worker = "spawned" /\ worker' = "reported"
  /\ evidence' = [stage |-> "prompt", host |-> HereNow]
  /\ UNCHANGED <<handle, outcome, procs, nextPid, core, boots, scan>>

(* Whatever ends the reading, the finally clause closes the handle first.     *)
ClosedGroup(h) == IF h = "owns" THEN GroupKilled ELSE procs

EndsFrom(w) == IF w = "spawned" THEN {"unknown"} ELSE {"done", "unknown"}

FinishRun ==
  /\ core.up /\ worker \in {"spawned", "reported"} /\ worker' \in EndsFrom(worker)
  /\ handle' = "closed" /\ procs' = ClosedGroup(handle)
  /\ UNCHANGED <<evidence, outcome, nextPid, core, boots, scan>>

(* The result reaches the store in a later step of the core.                  *)
Record ==
  /\ core.up /\ worker \in {"unsent", "done", "unknown"} /\ worker' = "gone"
  /\ outcome' = worker /\ evidence' = [evidence EXCEPT !.stage = "settled"]
  /\ UNCHANGED <<handle, procs, nextPid, core, boots, scan>>

-----------------------------------------------------------------------------
(* The core and its hosts.                                                  *)

(* GrokBackend.close: no new handle, then every handle is closed.             *)
BeginClose ==
  /\ core.up /\ ~core.closing /\ core' = [core EXCEPT !.closing = TRUE]
  /\ UNCHANGED <<worker, handle, evidence, outcome, procs, nextPid, boots, scan>>

EndClose ==
  /\ core.up /\ core.closing /\ ~core.closed /\ core' = [core EXCEPT !.closed = TRUE]
  /\ handle' = (IF handle = "none" THEN handle ELSE "closed") /\ procs' = ClosedGroup(handle)
  /\ UNCHANGED <<worker, evidence, outcome, nextPid, boots, scan>>

CoreHalted == [core EXCEPT !.up = FALSE]

Die ==
  /\ core.up /\ core' = CoreHalted /\ worker' = "gone" /\ handle' = "none" /\ scan' = NoScan
  /\ UNCHANGED <<evidence, outcome, procs, nextPid, boots>>

StartAgain ==
  /\ ~core.up /\ core.lives < MaxLives
  /\ \E m \in {1, 2}, n \in {1, 2} :
       core' = [up |-> TRUE, machine |-> m, ns |-> n, closing |-> FALSE, closed |-> FALSE, lives |-> core.lives + 1]
  /\ UNCHANGED <<worker, handle, evidence, outcome, procs, nextPid, boots, scan>>

(* The first machine starts again, with the core if it runs there.            *)
Reboot ==
  /\ boots < MaxBoots /\ boots' = boots + 1 /\ procs' = [p \in Pids |-> NoProcess] /\ nextPid' = 1
  /\ IF core.up /\ core.machine = 1
       THEN core' = CoreHalted /\ worker' = "gone" /\ handle' = "none" /\ scan' = NoScan
       ELSE UNCHANGED <<core, worker, handle, scan>>
  /\ UNCHANGED <<evidence, outcome>>

-----------------------------------------------------------------------------
(* reconcile_lost_process, for a run that is open and has no worker.          *)

OpenLaunch == outcome = "open" /\ worker = "gone" /\ evidence.stage \in {"spawn", "prompt"}

(* process_provably_gone                                                     *)
GoneWithBoot == evidence.host.machine = core.machine /\ evidence.host.boot # BootOf(core.machine)

ComparableAcross ==   \* mutant: the PID namespace is not compared
  evidence.stage = "prompt" /\ evidence.host.machine = HereNow.machine /\ evidence.host.boot = HereNow.boot

(* What same_boot_liveness must know before it looks: a pid, and this host.   *)
Comparable == evidence.stage = "prompt" /\ evidence.host = HereNow

Lost == outcome' = "lost" /\ evidence' = [evidence EXCEPT !.stage = "settled"]

EndByBoot ==
  /\ core.up /\ scan.at = "idle" /\ OpenLaunch /\ GoneWithBoot /\ Lost
  /\ UNCHANGED <<worker, handle, procs, nextPid, core, boots, scan>>

BeginScan ==
  /\ core.up /\ scan.at = "idle" /\ OpenLaunch /\ ~GoneWithBoot /\ Comparable
  /\ scan' = [NoScan EXCEPT !.at = "list", !.pass = 1]
  /\ UNCHANGED <<worker, handle, evidence, outcome, procs, nextPid, core, boots>>

(* What /proc shows to this core.                                            *)
SeenHere(p) == core.machine = 1 /\ core.ns = 1 /\ procs[p].state # "free"

(* The directory is read in the order of the pids, one after the other.       *)
ListNext ==
  /\ scan.at = "list"
  /\ LET next == scan.cursor + 1 IN
     IF next \in Pids
       THEN scan' = [scan EXCEPT !.cursor = next, !.listed = IF SeenHere(next) THEN @ \cup {next} ELSE @]
       ELSE scan' = [scan EXCEPT !.at = "look", !.cursor = 0]
  /\ UNCHANGED <<worker, handle, evidence, outcome, procs, nextPid, core, boots>>

(* An entry that vanished or is a zombie may have forked after the listing.   *)
Unstable(p) == ~SeenHere(p) \/ procs[p].state = "zombie"

LookNext ==
  /\ scan.at = "look" /\ scan.listed # {}
  /\ LET p == CHOOSE p \in scan.listed : \A q \in scan.listed : p <= q IN
     IF SeenHere(p) /\ procs[p].state = "run"
       THEN scan' = NoScan                                   \* alive
       ELSE scan' = [scan EXCEPT !.listed = @ \ {p}, !.unstable = @ \/ Unstable(p)]
  /\ UNCHANGED <<worker, handle, evidence, outcome, procs, nextPid, core, boots>>

MayLookAgain == scan.pass < LivenessScans

(* The pass is over: nothing was there, or look again, or leave it unknown.   *)
EndPass ==
  /\ scan.at = "look" /\ scan.listed = {}
  /\ IF ~scan.unstable THEN Lost /\ scan' = NoScan
     ELSE /\ scan' = IF MayLookAgain THEN [NoScan EXCEPT !.at = "list", !.pass = scan.pass + 1] ELSE NoScan
          /\ UNCHANGED <<outcome, evidence>>
  /\ UNCHANGED <<worker, handle, procs, nextPid, core, boots>>

LaunchNext ==
  \/ \E p, q \in Pids : Fork(p, q)
  \/ \E p \in Pids : ClearEnvironment(p) \/ ProcessExits(p) \/ Reap(p)
  \/ RegisterRun \/ Announce \/ SpawnClient \/ ReportEnd \/ FinishRun \/ Record
  \/ BeginClose \/ EndClose \/ Die \/ StartAgain \/ Reboot
  \/ EndByBoot \/ BeginScan \/ ListNext \/ LookNext \/ EndPass

LaunchSpec == LaunchInit /\ [][LaunchNext]_launchVars

-----------------------------------------------------------------------------
(* A process never exists without committed evidence of its launch, so no      *)
(* crash leaves one behind that nobody knows of.                              *)
EveryProcessIsRecorded == Alive # {} => evidence.stage # "none"

(* A run ended because its process is lost has no process left: not one that   *)
(* was forked while /proc was being read, not one that left its group.        *)
LostMeansGone == outcome = "lost" => Alive = {}

(* Once a core closed its backend no process of its group is left, and none comes *)
(* later: not from a spawn that was under way, nor from a later launch.       *)
CloseLeavesNoGroup == core.up /\ core.closed /\ core.lives = 0 => GroupAlive = {}

(* A run recorded as never sent started no process.                           *)
UnsentStartedNone == outcome = "unsent" => Alive = {} /\ evidence.stage = "settled" /\ nextPid = 1

(* Wherever the core dies, stops or starts again: no process of a launch is  *)
(* unknown, given up while it lives or left behind by a close.               *)
LaunchSafety ==
  /\ [](LaunchTypeOK /\ EveryProcessIsRecorded /\ LostMeansGone
        /\ CloseLeavesNoGroup /\ UnsentStartedNone)
=============================================================================
