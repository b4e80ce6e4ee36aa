---------------------------- MODULE ProjectPresence ----------------------------
(***************************************************************************)
(* A conversation is shown under its project in the native client (backends/   *)
(* codex_projects.py, and its callers in backends/codex.py).  The service has    *)
(* no compare-and-swap on a thread's metadata: what the code has instead is a    *)
(* key that is the same for every attempt, reads before every write, and a read  *)
(* after it.  Several cores, and the user's own clients, may be at it at once.    *)
(*                                                                          *)
(*   projects   the projects of the service, in the order they were made: the    *)
(*              folders each has (just ours, ours with others, only others) and   *)
(*              whether it was made under our key                            *)
(*   thread     the project the thread is in; 0 for none                     *)
(*   context    version of the thread's permissions and environments          *)
(*   presents   the presentations under way, and what each has reported         *)
(*   late       updates of the thread sent without an answer that may yet land   *)
(*   exposed    presentations during whose write somebody else moved the thread  *)
(*              (for the properties)                                         *)
(***************************************************************************)
EXTENDS Integers, Sequences, FiniteSets

CONSTANTS Presenters,      \* presentations
          MaxProjects,     \* bound on the projects of the service
          MaxHands         \* bound on what other clients do

ASSUME ProjectPresenceAssumption == MaxProjects \in Nat /\ MaxHands \in Nat

VARIABLES projects, thread, context, presents, late, exposed, hands

presenceVars == <<projects, thread, context, presents, late, exposed, hands>>

Roots == {"ours", "both", "other"}
Stages == {"binding", "desktop", "read_desktop", "list", "read_project", "create", "reconcile_create",
           "pre_association", "reread", "associate", "readback", "readback_project", "over"}

(* What a presentation knows.  "stage" is what it will report as the place of a   *)
(* failure.                                                                 *)
Fresh == [at |-> "binding", stage |-> "none", assigned |-> 0, context |-> 0, project |-> 0,
          registration |-> "not_attempted", association |-> "not_attempted", sent |-> FALSE]

PresenceInit ==
  /\ projects \in {<<>>, <<[roots |-> "ours", key |-> FALSE]>>, <<[roots |-> "both", key |-> FALSE]>>}
  /\ thread = 0 /\ context = 0 /\ late = {} /\ exposed = {} /\ hands = 0
  /\ presents = [p \in Presenters |-> Fresh]

Known == {"existing", "created", "reconciled"}

PresenceTypeOK ==
  /\ thread \in 0 .. Len(projects) /\ Len(projects) <= MaxProjects
  /\ \A p \in Presenters :
       /\ presents[p].at \in Stages /\ presents[p].project \in 0 .. Len(projects)
       /\ presents[p].association # "not_attempted" => presents[p].registration \in Known

-----------------------------------------------------------------------------
(* Steps of a presentation.                                                  *)

PresenterAt(p, step) == presents[p].at = step
Set(p, r) == presents' = [presents EXCEPT ![p] = r]
Knows(p) == presents[p]

(* A failure is told of the registration until that is known, then of the        *)
(* association.                                                             *)
Failing(p, status) ==
  LET r == Knows(p)
  IN  IF r.registration \in Known
      THEN [r EXCEPT !.at = "over", !.stage = r.at, !.association = status]
      ELSE [r EXCEPT !.at = "over", !.stage = r.at, !.registration = status]

FailWith(p, status) == Set(p, Failing(p, status))

PresenceWorld == <<projects, thread, context, late, exposed, hands>>

(* A request without an answer, a refusal, or the end of the time, wherever it    *)
(* is not handled.                                                          *)
RequestFails(p) ==
  /\ Knows(p).at \notin {"over", "create", "associate"} /\ \E s \in {"unknown", "unsupported"} : FailWith(p, s)
  /\ UNCHANGED PresenceWorld

(* The thread is read and its working directory compared.  The desktop's way and  *)
(* the list are the two ways to a project.                                    *)
ReadThread(p) ==
  /\ PresenterAt(p, "binding")
  /\ \E way \in {"desktop", "list"} :
       Set(p, [Knows(p) EXCEPT !.at = way, !.assigned = thread, !.context = context])
  /\ UNCHANGED PresenceWorld

(* The desktop names a project of its own that has just our folder.              *)
DesktopNames(p) ==
  /\ PresenterAt(p, "desktop")
  /\ \E i \in DOMAIN projects :
       projects[i].roots = "ours" /\ Set(p, [Knows(p) EXCEPT !.at = "read_desktop", !.project = i])
  /\ UNCHANGED PresenceWorld

OursAlone(i) == projects[i].roots = "ours"

ReadDesktopProject(p) ==
  LET r == Knows(p) IN
  /\ PresenterAt(p, "read_desktop")
  /\ IF ~OursAlone(r.project) THEN FailWith(p, "conflict")
     ELSE IF r.assigned = 0
     THEN Set(p, [r EXCEPT !.at = "pre_association", !.registration = "existing"])
     ELSE IF r.assigned = r.project
     THEN Set(p, [r EXCEPT !.at = "over", !.registration = "existing", !.association = "existing"])
     ELSE Set(p, [r EXCEPT !.at = "over", !.stage = "read_desktop", !.registration = "existing",
                           !.association = "conflict"])
  /\ UNCHANGED PresenceWorld

(* Our folder must be in one project, and alone in it.                          *)
Matches == {i \in DOMAIN projects : projects[i].roots # "other"}
Ambiguous == Cardinality(Matches) > 1 \/ \E i \in Matches : ~OursAlone(i)

List(p) ==
  LET r == Knows(p) IN
  /\ PresenterAt(p, "list")
  /\ IF r.assigned # 0
     THEN Set(p, [r EXCEPT !.at = "read_project", !.registration = "existing", !.project = r.assigned])
     ELSE IF Ambiguous THEN FailWith(p, "conflict")
     ELSE IF Matches = {} THEN Set(p, [r EXCEPT !.at = "create", !.registration = "unknown"])
     ELSE Set(p, [r EXCEPT !.at = "pre_association", !.registration = "existing",
                           !.project = CHOOSE i \in Matches : TRUE])
  /\ UNCHANGED PresenceWorld

ReadAssigned(p) ==
  /\ PresenterAt(p, "read_project")
  /\ IF OursAlone(Knows(p).project) THEN Set(p, [Knows(p) EXCEPT !.at = "over", !.association = "existing"])
     ELSE FailWith(p, "conflict")
  /\ UNCHANGED PresenceWorld

MadeWithNewKey == {}   \* mutant: every attempt has a key of its own

(* The service keeps the project of a key and answers with it.                   *)
MadeBefore == {i \in DOMAIN projects : projects[i].key}

AnsweredProject == IF MadeBefore = {} THEN Len(projects) + 1 ELSE CHOOSE i \in MadeBefore : TRUE

CreateLands ==
  IF MadeBefore = {} THEN Len(projects) < MaxProjects /\ projects' = Append(projects, [roots |-> "ours", key |-> TRUE])
  ELSE UNCHANGED projects

CreateProject(p) ==
  LET r == Knows(p) IN
  /\ PresenterAt(p, "create")
  /\ \/ /\ CreateLands
        /\ LET i == AnsweredProject
           IN IF projects'[i].roots = "ours"
              THEN Set(p, [r EXCEPT !.at = "pre_association", !.registration = "created", !.project = i])
              ELSE Set(p, [r EXCEPT !.at = "over", !.stage = "create", !.registration = "conflict"])
     \/ CreateLands /\ Set(p, [r EXCEPT !.at = "reconcile_create"])
     \/ UNCHANGED projects /\ Set(p, [r EXCEPT !.at = "reconcile_create"])
     \/ UNCHANGED projects /\ FailWith(p, "unknown")
  /\ UNCHANGED <<thread, context, late, exposed, hands>>

(* The answer was lost: the list is read again; nothing is made a second time.    *)
ReconcileCreate(p) ==
  /\ PresenterAt(p, "reconcile_create")
  /\ IF Ambiguous THEN FailWith(p, "conflict")
     ELSE IF Matches = {} THEN FailWith(p, "unknown")
     ELSE Set(p, [Knows(p) EXCEPT !.at = "pre_association", !.registration = "reconciled",
                                  !.project = CHOOSE i \in Matches : TRUE])
  /\ UNCHANGED PresenceWorld

(* The thread is read again before the write.  A project seen there is left.      *)
ThreadNow(p) == thread

PreAssociation(p) ==
  LET r == Knows(p)  now == ThreadNow(p) IN
  /\ PresenterAt(p, "pre_association")
  /\ IF context # r.context \/ (now # 0 /\ now # r.project) \/ ~OursAlone(r.project)
     THEN FailWith(p, "conflict")
     ELSE IF now # 0 THEN Set(p, [r EXCEPT !.at = "over", !.association = "existing"])
     ELSE Set(p, [r EXCEPT !.at = "associate", !.association = "unknown"])
  /\ exposed' = exposed \ {p} /\ UNCHANGED <<projects, thread, context, late, hands>>

(* Everybody whose write is open is exposed to a thread that moves.              *)
PresenceOpen(p) == Knows(p).at = "associate" \/ p \in late
Moves(by, to) ==
  /\ thread' = to
  /\ exposed' = IF to = thread THEN exposed ELSE exposed \union {q \in Presenters \ {by} : PresenceOpen(q)}

PresenterGoesOn(p) == Set(p, [Knows(p) EXCEPT !.at = "readback", !.sent = TRUE])

(* Done, lost on its way (and perhaps done later), refused, or out of time before   *)
(* it was sent.                                                              *)
Associate(p) ==
  /\ PresenterAt(p, "associate")
  /\ \/ Moves(p, Knows(p).project) /\ PresenterGoesOn(p) /\ UNCHANGED late
     \/ late' \in {late, late \union {p}} /\ PresenterGoesOn(p) /\ UNCHANGED <<thread, exposed>>
     \/ UNCHANGED <<thread, exposed, late>> /\ Set(p, [Failing(p, "unknown") EXCEPT !.sent = TRUE])
     \/ UNCHANGED <<thread, exposed, late>> /\ Set(p, [Failing(p, "unknown") EXCEPT !.stage = "readback"])
  /\ UNCHANGED <<projects, context, hands>>

AssociationLands(p) ==
  /\ p \in late /\ late' = late \ {p} /\ Moves(p, Knows(p).project)
  /\ UNCHANGED <<projects, context, presents, hands>>

Readback(p) ==
  /\ PresenterAt(p, "readback")
  /\ IF context # Knows(p).context THEN FailWith(p, "conflict")
     ELSE IF ThreadNow(p) # Knows(p).project THEN FailWith(p, "unknown")
     ELSE Set(p, [Knows(p) EXCEPT !.at = "readback_project"])
  /\ UNCHANGED PresenceWorld

ReadbackProject(p) ==
  /\ PresenterAt(p, "readback_project")
  /\ IF OursAlone(Knows(p).project) THEN Set(p, [Knows(p) EXCEPT !.at = "over", !.association = "associated"])
     ELSE FailWith(p, "conflict")
  /\ UNCHANGED PresenceWorld

-----------------------------------------------------------------------------
(* Other clients.                                                           *)

Hand == hands < MaxHands /\ hands' = hands + 1

HandMoves ==
  /\ Hand /\ \E i \in 0 .. Len(projects) : i # thread /\ Moves(0, i)
  /\ UNCHANGED <<projects, context, presents, late>>

HandMakes ==
  /\ Hand /\ Len(projects) < MaxProjects /\ \E r \in Roots : projects' = Append(projects, [roots |-> r, key |-> FALSE])
  /\ UNCHANGED <<thread, context, presents, late, exposed>>

HandEdits ==
  /\ Hand /\ \E i \in DOMAIN projects, r \in Roots : projects' = [projects EXCEPT ![i].roots = r]
  /\ UNCHANGED <<thread, context, presents, late, exposed>>

HandAllows ==
  /\ Hand /\ context' = context + 1 /\ UNCHANGED <<projects, thread, presents, late, exposed>>

PresenceNext ==
  \/ \E p \in Presenters :
       \/ RequestFails(p) \/ ReadThread(p) \/ DesktopNames(p) \/ ReadDesktopProject(p)
       \/ List(p) \/ ReadAssigned(p) \/ CreateProject(p) \/ ReconcileCreate(p)
       \/ PreAssociation(p) \/ Associate(p) \/ AssociationLands(p)
       \/ Readback(p) \/ ReadbackProject(p)
  \/ HandMoves \/ HandMakes \/ HandEdits \/ HandAllows

PresenceSpec == PresenceInit /\ [][PresenceNext]_presenceVars

-----------------------------------------------------------------------------
(* However many cores present it and whatever answers are lost, the service is   *)
(* asked for one project.                                                    *)
OneProjectOfOurs == Cardinality({i \in DOMAIN projects : projects[i].key}) <= 1

Writes(p) ==
  /\ thread' # thread /\ thread # 0
  /\ \/ PresenterAt(p, "associate") /\ presents'[p] # presents[p]
     \/ p \in late /\ p \notin late'

(* A project somebody else put the thread in is overwritten only when that came  *)
(* after the reading that precedes the write: the window the service leaves open. *)
OverwritesOnlyUnseen == [][\A p \in Presenters : Writes(p) => p \in exposed]_presenceVars

(* A report that places the failure before the write is right that nothing was    *)
(* written.                                                                  *)
StageTellsWhatWasSent ==
  \A p \in Presenters :
    PresenterAt(p, "over") /\ Knows(p).sent
      => Knows(p).stage \in {"associate", "readback", "readback_project"} \/ Knows(p).association = "associated"

(* When nobody else is at it, all that report success name one project, and the   *)
(* thread is in it.                                                          *)
AloneAgree ==
  hands = 0 => \A p, q \in Presenters :
    Knows(p).association \in {"associated", "existing"}
      => /\ thread = Knows(p).project
         /\ Knows(q).association \in {"associated", "existing"} => Knows(q).project = Knows(p).project

(* However presentations overlap: there is one project of ours, a report is  *)
(* right about what was written, and what others did is overwritten only     *)
(* unseen.                                                                   *)
PresenceSafety ==
  /\ [](PresenceTypeOK /\ OneProjectOfOurs /\ StageTellsWhatWasSent
        /\ AloneAgree)
  /\ OverwritesOnlyUnseen
=============================================================================
