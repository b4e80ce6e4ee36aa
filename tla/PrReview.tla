------------------------------- MODULE PrReview -------------------------------
(***************************************************************************)
(* One review of a pull request, from its snapshot to its publication          *)
(* (review_recipe.py).  The recipe keeps files of its own beside the core:      *)
(* each operation takes the lock of the review without waiting, checks what     *)
(* it relies on in other systems, and writes down what it is about to send      *)
(* before it sends it.  It may die, or lose an answer, between any two steps.    *)
(*                                                                          *)
(*   target     the head and base the pull request has now                    *)
(*   revision   the configuration revision of the core                        *)
(*   snapshot   the files that are reviewed                                   *)
(*   manifest   the record of the review                                      *)
(*   task       the core's side: tasks made for this review, their revision,    *)
(*              the run and its verdict; requests to make one on the way       *)
(*   postPlan   the publication candidate                                     *)
(*   postReceipt  what is written of the publication                            *)
(*   remoteReview  reviews on the platform and requests to post one on the way     *)
(*   ops        the operations under way; their revision as they read it        *)
(*   held       holder of the lock of the review                              *)
(*                                                                          *)
(* The identity of a review is its target: another target is another review.   *)
(***************************************************************************)
EXTENDS Integers, FiniteSets

CONSTANTS Ops,             \* operations that run one after the other or at once
          MaxRevisions,    \* bound on the configuration revisions
          MaxTries         \* bound on the operations that are started

ASSUME PrReviewAssumption == MaxRevisions \in Nat \ {0} /\ MaxTries \in Nat

VARIABLES target, revision, snapshot, manifest, task, postPlan, postReceipt, remoteReview, ops, held, tries

reviewVars == <<target, revision, snapshot, manifest, task, postPlan, postReceipt, remoteReview, ops, held, tries>>

Ours == 1                                  \* the target this review is of
NoOne == "none"
Verdicts == {"approve", "changes"}
Resting == [at |-> "idle", seen |-> 0]

ReviewInit ==
  /\ target = Ours /\ revision = 1 /\ snapshot = "none"
  /\ manifest = [kept |-> FALSE, revision |-> 0, attempted |-> FALSE, linked |-> FALSE]
  /\ task = [made |-> 0, revision |-> 0, run |-> "none", verdict |-> "none", mail |-> {}]
  /\ postPlan = "none" /\ postReceipt = "none" /\ remoteReview = [posted |-> 0, flying |-> 0]
  /\ ops = [o \in Ops |-> Resting] /\ held = NoOne /\ tries = 0

ReviewTypeOK ==
  /\ target \in {1, 2} /\ revision \in 1 .. MaxRevisions /\ snapshot \in {"none", "made", "changed"}
  /\ manifest.revision \in 0 .. MaxRevisions /\ task.run \in {"none", "running", "unknown", "failed", "done"}
  /\ task.verdict \in Verdicts \cup {"none", "invalid"} /\ postPlan \in Verdicts \cup {"none"}
  /\ postReceipt \in {"none", "forwarding", "unknown", "published"} /\ held \in Ops \cup {NoOne}
  /\ \A o \in Ops : held = o => ops[o].at \notin {"idle", "read"}
  /\ manifest.linked => manifest.attempted

At(o, step) == ops[o].at = step
Goes(o, step) == ops' = [ops EXCEPT ![o].at = step]
Leaves(o) == ops' = [ops EXCEPT ![o] = Resting] /\ held' = IF held = o THEN NoOne ELSE held

(* The lock is asked for once: an operation that finds it taken fails.         *)
Enters(o, step) == held = NoOne /\ held' = o /\ Goes(o, step)

World == <<target, revision>>
Files == <<snapshot, manifest, postPlan, postReceipt>>
Remotes == <<task, remoteReview>>

-----------------------------------------------------------------------------
(* prepare_review: the configuration and the target are read before the lock.  *)

Begin(o) == At(o, "idle") /\ tries < MaxTries /\ tries' = tries + 1

PrepareRead(o) ==
  /\ Begin(o) /\ target = Ours
  /\ ops' = [ops EXCEPT ![o] = [at |-> "read", seen |-> revision]]
  /\ UNCHANGED <<World, Files, Remotes, held>>

MayRebind == ~manifest.attempted

(* A review that is there already is only bound to a newer configuration.      *)
PrepareAgain(o) ==
  /\ At(o, "read") /\ held = NoOne /\ manifest.kept
  /\ ops' = [ops EXCEPT ![o] = Resting]
  /\ manifest' = IF snapshot = "made" /\ manifest.revision # ops[o].seen /\ MayRebind
                   THEN [manifest EXCEPT !.revision = ops[o].seen] ELSE manifest
  /\ UNCHANGED <<World, snapshot, postPlan, postReceipt, Remotes, held, tries>>

(* A snapshot without a manifest is somebody's unfinished work, and refused.   *)
PrepareNew(o) ==
  /\ At(o, "read") /\ ~manifest.kept /\ snapshot = "none" /\ Enters(o, "downloading")
  /\ UNCHANGED <<World, Files, Remotes, tries>>

(* The archive and the diff are of a fixed commit; the target must still be it. *)
Downloaded(o) ==
  /\ At(o, "downloading") /\ target = Ours /\ Goes(o, "staged")
  /\ UNCHANGED <<World, Files, Remotes, held, tries>>

RenameSnapshot(o) ==
  /\ At(o, "staged") /\ Goes(o, "renamed") /\ snapshot' = "made"
  /\ UNCHANGED <<World, manifest, postPlan, postReceipt, Remotes, held, tries>>

WriteManifest(o) ==
  /\ At(o, "renamed") /\ Leaves(o)
  /\ manifest' = [kept |-> TRUE, revision |-> ops[o].seen, attempted |-> FALSE, linked |-> FALSE]
  /\ UNCHANGED <<World, snapshot, postPlan, postReceipt, Remotes, tries>>

-----------------------------------------------------------------------------
(* submit_review                                                            *)

SubmitReview(o) ==
  /\ Begin(o) /\ manifest.kept /\ ~manifest.linked /\ snapshot = "made" /\ Enters(o, "pull")
  /\ UNCHANGED <<World, Files, Remotes>>

SubmitPull(o) ==
  /\ At(o, "pull") /\ target = Ours /\ Goes(o, "config")
  /\ UNCHANGED <<World, Files, Remotes, held, tries>>

SubmitConfig(o) ==
  /\ At(o, "config") /\ revision = manifest.revision /\ Goes(o, "mark")
  /\ UNCHANGED <<World, Files, Remotes, held, tries>>

Marked == [manifest EXCEPT !.attempted = TRUE]

SubmitMark(o) ==
  /\ At(o, "mark") /\ Goes(o, "send") /\ manifest' = Marked
  /\ UNCHANGED <<World, snapshot, postPlan, postReceipt, Remotes, held, tries>>

(* The core: the revision is compared before the key is looked up.            *)
Accepts(r) == r = revision

Made(r) == IF task.made > 0 THEN task ELSE [task EXCEPT !.made = 1, !.revision = r, !.run = "running"]

SubmitSend(o) ==
  /\ At(o, "send")
  /\ LET r == manifest.revision IN
     \/ Accepts(r) /\ task' = Made(r) /\ Goes(o, "link") /\ UNCHANGED held
     \/ Accepts(r) /\ task' = Made(r) /\ Leaves(o)                        \* the answer is lost
     \/ task' = [task EXCEPT !.mail = @ \cup {r}] /\ Leaves(o)            \* it arrives later
     \/ UNCHANGED task /\ Leaves(o)
  /\ UNCHANGED <<World, Files, remoteReview, tries>>

SubmitLands(r) ==
  /\ r \in task.mail
  /\ task' = [(IF Accepts(r) THEN Made(r) ELSE task) EXCEPT !.mail = @ \ {r}]
  /\ UNCHANGED <<World, Files, remoteReview, ops, held, tries>>

SubmitLink(o) ==
  /\ At(o, "link") /\ Leaves(o) /\ manifest' = [manifest EXCEPT !.linked = TRUE]
  /\ UNCHANGED <<World, snapshot, postPlan, postReceipt, Remotes, tries>>

-----------------------------------------------------------------------------
(* prepare_publication and publish_review                                    *)

(* review_result: only an output that parses against the target concludes.     *)
Concluded == task.run = "done" /\ task.verdict \in Verdicts

PlanOf == IF task.verdict = "invalid" THEN "approve" ELSE task.verdict

PreparePublication(o) ==
  /\ Begin(o) /\ held = NoOne /\ manifest.linked /\ snapshot = "made" /\ Concluded
  /\ postPlan \in {"none", PlanOf} /\ postPlan' = PlanOf
  /\ UNCHANGED <<World, snapshot, manifest, postReceipt, Remotes, ops, held>>

Publish(o) ==
  /\ Begin(o) /\ postPlan # "none" /\ snapshot = "made" /\ Enters(o, "compare")
  /\ UNCHANGED <<World, Files, Remotes>>

PublishPull(o) ==
  /\ At(o, "compare") /\ target = Ours /\ Goes(o, "list")
  /\ UNCHANGED <<World, Files, Remotes, held, tries>>

MayPostAgain == postReceipt # "published"   \* mutant: an unknown result is tried again

MayPost == postReceipt = "none"

(* The reviews of the target by this account with exactly this body.           *)
PublishList(o) ==
  /\ At(o, "list")
  /\ \/ remoteReview.posted = 1 /\ postReceipt' = "published" /\ Leaves(o)
     \/ remoteReview.posted = 0 /\ UNCHANGED postReceipt /\ IF MayPost THEN Goes(o, "again") /\ UNCHANGED held ELSE Leaves(o)
     \/ remoteReview.posted > 1 /\ UNCHANGED postReceipt /\ Leaves(o)
  /\ UNCHANGED <<World, snapshot, manifest, postPlan, Remotes, tries>>

PublishPullAgain(o) ==
  /\ At(o, "again") /\ target = Ours /\ Goes(o, "record")
  /\ UNCHANGED <<World, Files, Remotes, held, tries>>

PublishRecord(o) ==
  /\ At(o, "record") /\ Goes(o, "post") /\ postReceipt' = "forwarding"
  /\ UNCHANGED <<World, snapshot, manifest, postPlan, Remotes, held, tries>>

(* The request is made, made without an answer, still on the way, or not sent.  *)
PublishPost(o) ==
  /\ At(o, "post")
  /\ \/ remoteReview' = [remoteReview EXCEPT !.posted = @ + 1] /\ Goes(o, "done")
     \/ remoteReview' \in {[remoteReview EXCEPT !.posted = @ + 1], [remoteReview EXCEPT !.flying = @ + 1], remoteReview} /\ Goes(o, "failed")
  /\ UNCHANGED <<World, Files, task, held, tries>>

PostLands ==
  /\ remoteReview.flying > 0 /\ remoteReview' = [posted |-> remoteReview.posted + 1, flying |-> remoteReview.flying - 1]
  /\ UNCHANGED <<World, Files, task, ops, held, tries>>

Failed == {"unknown"}

PublishEnd(o) ==
  /\ \/ At(o, "done") /\ postReceipt' = "published"
     \/ At(o, "failed") /\ postReceipt' \in Failed
  /\ Leaves(o) /\ UNCHANGED <<World, snapshot, manifest, postPlan, Remotes, tries>>

-----------------------------------------------------------------------------
(* A check that fails, an error, or the death of the process: the lock is free. *)
Stops(o) ==
  /\ ~At(o, "idle") /\ Leaves(o)
  /\ UNCHANGED <<World, Files, Remotes, tries>>

Push(t) == target # t /\ target' = t /\ UNCHANGED <<revision, Files, Remotes, ops, held, tries>>

ApplyConfig ==
  /\ revision < MaxRevisions /\ revision' = revision + 1
  /\ UNCHANGED <<target, Files, Remotes, ops, held, tries>>

TouchSnapshot ==
  /\ snapshot = "made" /\ manifest.kept /\ snapshot' = "changed"
  /\ UNCHANGED <<World, manifest, postPlan, postReceipt, Remotes, ops, held, tries>>

RunMoves ==
  /\ task.run \in {"running", "unknown"}
  /\ \E run \in {"running", "unknown", "failed", "done"} \ {task.run} :
       \E verdict \in (IF run = "done" THEN Verdicts \cup {"invalid"} ELSE {"none"}) :
         task' = [task EXCEPT !.run = run, !.verdict = verdict]
  /\ UNCHANGED <<World, Files, remoteReview, ops, held, tries>>

ReviewNext ==
  \/ \E o \in Ops : \/ PrepareRead(o) \/ PrepareAgain(o) \/ PrepareNew(o) \/ Downloaded(o) \/ RenameSnapshot(o) \/ WriteManifest(o)
                    \/ SubmitReview(o) \/ SubmitPull(o) \/ SubmitConfig(o) \/ SubmitMark(o) \/ SubmitSend(o) \/ SubmitLink(o)
                    \/ PreparePublication(o) \/ Publish(o) \/ PublishPull(o) \/ PublishList(o) \/ PublishPullAgain(o)
                    \/ PublishRecord(o) \/ PublishPost(o) \/ PublishEnd(o) \/ Stops(o)
  \/ \E r \in 1 .. MaxRevisions : SubmitLands(r)
  \/ \E t \in {1, 2} : Push(t)
  \/ PostLands \/ ApplyConfig \/ TouchSnapshot \/ RunMoves

ReviewSpec == ReviewInit /\ [][ReviewNext]_reviewVars

-----------------------------------------------------------------------------
(* However often answers are lost and operations die, a review has one task.   *)
OneTaskPerAttempt == task.made <= 1

(* The task runs under the configuration the review says it is bound to.        *)
TaskUnderBoundRevision == task.made > 0 => task.revision = manifest.revision

(* A conclusion is posted at most once, the requests still on the way counted.  *)
PostedAtMostOnce == remoteReview.posted + remoteReview.flying <= 1

(* What is written down as published is on the platform.                      *)
PublishedIsPosted == postReceipt = "published" => remoteReview.posted > 0

(* What is posted is the conclusion of this review's own finished run.         *)
PostedIsConcluded == remoteReview.posted + remoteReview.flying > 0 => manifest.linked /\ task.run = "done" /\ postPlan = task.verdict

(* A manifest never speaks of files that were not put in place as a whole, and   *)
(* a task never exists for a review that does not say it was submitted.        *)
RecordedFirst == (manifest.kept => snapshot # "none") /\ (task.made > 0 \/ task.mail # {} => manifest.attempted)

(* Wherever an operation dies and whatever answer is lost: a review has one  *)
(* task, under the revision it says, and is posted once, as it was           *)
(* concluded.                                                                *)
RecipeSafety ==
  /\ [](ReviewTypeOK /\ OneTaskPerAttempt /\ TaskUnderBoundRevision
        /\ PostedAtMostOnce /\ PublishedIsPosted /\ PostedIsConcluded
        /\ RecordedFirst)
=============================================================================
