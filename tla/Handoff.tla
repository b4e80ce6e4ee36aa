-------------------------------- MODULE Handoff --------------------------------
(***************************************************************************)
(* Handoff packages (handoff.py): a package describes a task and selected files    *)
(* of its workspace at one moment, and is given out only while both are as it     *)
(* says.  Neither is locked meanwhile: the files are read twice, the task's state   *)
(* is compared in the transaction that stores, and again after a read.            *)
(*                                                                          *)
(*   authority   version of the task, its run, operation, events and approval      *)
(*   evidence    the version of the files its acceptance stands on, NotAccepted    *)
(*               while it is not accepted                                    *)
(*   tree        version of the selected files                               *)
(*   kept        the task's reference: its revision and the document            *)
(*   jobs        the requests in flight: what each has read, and two ghosts:       *)
(*     together      task and files were what the document says at one moment     *)
(*     moved         what the request refused for had really changed             *)
(***************************************************************************)
EXTENDS Integers

CONSTANTS HandRequests,       \* requests that may overlap
          MaxMoves        \* bound on changes of the task and of the files, and on packages

ASSUME HandoffAssumption == MaxMoves \in Nat

VARIABLES authority, evidence, tree, kept, jobs

handVars == <<authority, evidence, tree, kept, jobs>>

NotAccepted == -1
NoDocument == [state |-> -1, of |-> -1, tree |-> -1]
NoJob == [step |-> "idle", revision |-> 0, doc |-> NoDocument, together |-> FALSE, moved |-> FALSE]
HandSteps == {"idle", "began", "captured", "checked", "opened", "compared", "verified", "reread", "valid", "stored", "refused"}

HandInit ==
  /\ authority = 0 /\ evidence = NotAccepted /\ tree = 0
  /\ kept = [revision |-> 0, doc |-> NoDocument] /\ jobs = [r \in HandRequests |-> NoJob]

HandTypeOK ==
  /\ evidence \in -1..tree /\ kept.revision \in 0..MaxMoves
  /\ kept.revision > 0 => kept.doc.of \in 0..authority /\ kept.doc.tree \in 0..tree
  /\ \A r \in HandRequests : /\ jobs[r].step \in HandSteps /\ jobs[r].revision <= kept.revision
                          /\ jobs[r].doc.state <= authority

(* state: the reference itself and what the core notes in the run are left out.       *)
StateOf == authority

Step(r, j) == jobs' = [jobs EXCEPT ![r] = j] /\ UNCHANGED <<authority, evidence, tree, kept>>

RefuseFor(r, really) == Step(r, [jobs[r] EXCEPT !.step = "refused", !.moved = really])

(* verify: an acceptance stands on the files as they are.                          *)
Verified == evidence \in {NotAccepted, tree}

-----------------------------------------------------------------------------
(* create, for a revision the caller has seen.                                   *)

CreateBegins(r, n) ==
  /\ jobs[r].step = "idle" /\ n \in 0..kept.revision /\ Verified
  /\ Step(r, [NoJob EXCEPT !.step = "began", !.revision = n, !.doc = [NoDocument EXCEPT !.state = StateOf, !.of = authority]])

CreateCaptures(r) ==
  /\ jobs[r].step = "began" /\ Step(r, [jobs[r] EXCEPT !.step = "captured", !.doc.tree = tree])

(* The files once more, after the document was written down.                       *)
CreateChecks(r) ==
  /\ jobs[r].step = "captured"
  /\ IF tree = jobs[r].doc.tree
     THEN Step(r, [jobs[r] EXCEPT !.step = "checked", !.together = jobs[r].doc.of = authority])
     ELSE RefuseFor(r, TRUE)

CommitsOverNewer(r) == StateOf = jobs[r].doc.state         \* mutant: the expected revision is not compared

CommitHolds(r) == kept.revision = jobs[r].revision /\ StateOf = jobs[r].doc.state

(* commit, in one transaction with the comparison.                                *)
CreateCommits(r) ==
  /\ jobs[r].step = "checked" /\ kept.revision < MaxMoves
  /\ IF CommitHolds(r)
     THEN /\ kept' = [revision |-> jobs[r].revision + 1, doc |-> jobs[r].doc]
          /\ jobs' = [jobs EXCEPT ![r].step = "stored"] /\ UNCHANGED <<authority, evidence, tree>>
     ELSE RefuseFor(r, kept.revision # jobs[r].revision \/ authority # jobs[r].doc.of)

-----------------------------------------------------------------------------
(* read, for the revision that is current.                                      *)

ReadBegins(r) ==
  /\ jobs[r].step = "idle" /\ kept.revision > 0
  /\ Step(r, [NoJob EXCEPT !.step = "opened", !.revision = kept.revision, !.doc = kept.doc])

ReadCompares(r) ==
  /\ jobs[r].step = "opened"
  /\ IF jobs[r].doc.state # StateOf THEN RefuseFor(r, jobs[r].doc.of # authority)
     ELSE IF jobs[r].doc.tree # tree THEN RefuseFor(r, TRUE)
     ELSE Step(r, [jobs[r] EXCEPT !.step = "compared"])

ReadVerifies(r) ==
  /\ jobs[r].step = "compared"
  /\ IF Verified THEN Step(r, [jobs[r] EXCEPT !.step = "verified"]) ELSE RefuseFor(r, TRUE)

SameAsBefore(r) == TRUE   \* mutant: the files are not read again after the reconstruction

SameFilesStill(r) == tree = jobs[r].doc.tree

ReadRereads(r) ==
  /\ jobs[r].step = "verified"
  /\ IF SameFilesStill(r)
     THEN Step(r, [jobs[r] EXCEPT !.step = "reread",
                   !.together = /\ jobs[r].doc.of = authority /\ jobs[r].doc.tree = tree
                                /\ evidence \in {NotAccepted, tree}])
     ELSE RefuseFor(r, TRUE)

StillCurrent(r) == kept.revision = jobs[r].revision /\ StateOf = jobs[r].doc.state

ReadEnds(r) ==
  /\ jobs[r].step = "reread"
  /\ IF StillCurrent(r) THEN Step(r, [jobs[r] EXCEPT !.step = "valid"])
     ELSE RefuseFor(r, kept.revision # jobs[r].revision \/ authority # jobs[r].doc.of)

-----------------------------------------------------------------------------
Answers(r) == jobs[r].step \in {"valid", "stored", "refused"} /\ Step(r, NoJob)

(* The task moves on, perhaps to an acceptance of the files or away from one.        *)
TaskMoves ==
  /\ authority < MaxMoves /\ authority' = authority + 1 /\ evidence' \in {evidence, NotAccepted, tree}
  /\ UNCHANGED <<tree, kept, jobs>>

FilesMove == tree < MaxMoves /\ tree' = tree + 1 /\ UNCHANGED <<authority, evidence, kept, jobs>>

HandNext ==
  \/ TaskMoves \/ FilesMove
  \/ \E r \in HandRequests :
       \/ \E n \in 0..MaxMoves : CreateBegins(r, n)
       \/ CreateCaptures(r) \/ CreateChecks(r) \/ CreateCommits(r)
       \/ ReadBegins(r) \/ ReadCompares(r) \/ ReadVerifies(r) \/ ReadRereads(r) \/ ReadEnds(r)
       \/ Answers(r)

HandSpec == HandInit /\ [][HandNext]_handVars

-----------------------------------------------------------------------------
(* What is stored, and what is given out as valid, describes one moment: task and    *)
(* files were both as the document says at once, and when it is given out an          *)
(* acceptance in it stands on those files, whatever moved while the request worked.  *)
DescribesOneMoment == \A r \in HandRequests : jobs[r].step \in {"valid", "stored"} => jobs[r].together

(* A package replaces only the one its caller knew of, and never one of a newer       *)
(* state of the task.                                                          *)
PackagesOnlyAdvance ==
  [][kept' # kept => kept'.revision = kept.revision + 1 /\ kept'.doc.of >= kept.doc.of]_handVars

(* A package is refused for a change that really happened: storing it does not make   *)
(* it void.                                                                   *)
RefusedForChange == \A r \in HandRequests : jobs[r].step = "refused" => jobs[r].moved

(* Whatever moves while a request works: a package describes one moment,     *)
(* advances only, and is refused for a real change.                          *)
HandSafety ==
  /\ [](HandTypeOK /\ DescribesOneMoment /\ RefusedForChange)
  /\ PackagesOnlyAdvance
=============================================================================
