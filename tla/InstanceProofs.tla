--------------------------- MODULE InstanceProofs ---------------------------
(***************************************************************************)
(* Proofs about parts of one installed instance, for every value of their  *)
(* constants: the packages of Handoff, the events of ControlFeed, the       *)
(* reservations of PluginPools, the database of StateStore and the code     *)
(* workflow of CapabilityCode.                                              *)
(***************************************************************************)
EXTENDS Handoff, ControlFeed, PluginPools, StateStore, CapabilityCode, FiniteSetTheorems, WellFoundedInduction, TLAPS

-----------------------------------------------------------------------------
(* Handoff packages.                                                       *)

Documents == [state : Int, of : Int, tree : Int]
Jobs == [step : HandSteps, revision : Int, doc : Documents, together : BOOLEAN, moved : BOOLEAN]

(* What a document says was so at some time; a written one has both parts.  *)
Dated(d) == d.state = d.of /\ d.of <= authority /\ d.tree <= tree
Written(d) == Dated(d) /\ d.of >= 0 /\ d.tree >= 0

(* What a request has found out still holds, or the task or the files have   *)
(* moved past its document and it will be refused.                           *)
Standing(j) ==
  /\ j.revision <= kept.revision /\ Dated(j.doc)
  /\ j.step \in {"began", "captured", "checked"} => j.doc.of >= 0
  /\ j.step \in {"captured", "checked"} => j.doc.tree >= 0
  /\ j.step \in {"checked", "reread"} => j.together \/ j.doc.of < authority
  /\ j.step = "verified" => Verified \/ j.doc.of < authority \/ j.doc.tree < tree
  /\ j.step \in {"valid", "stored"} => j.together
  /\ j.step = "refused" => j.moved

HandInv ==
  /\ authority \in Nat /\ tree \in Nat /\ evidence \in -1..tree
  /\ kept.revision \in 0..MaxMoves /\ kept.doc \in Documents /\ Dated(kept.doc)
  /\ kept.revision > 0 => Written(kept.doc)
  /\ jobs \in [HandRequests -> Jobs]
  /\ \A r \in HandRequests : Standing(jobs[r])

(* What the runs check of a state follows from it.                           *)
LEMMA HandInvImplies == HandInv => HandTypeOK /\ DescribesOneMoment /\ RefusedForChange
BY DEF HandInv, HandTypeOK, DescribesOneMoment, RefusedForChange, Standing, Written, Dated, Jobs, Documents, HandSteps

LEMMA HandInitHolds == HandInit => HandInv
BY HandoffAssumption DEF HandInit, HandInv, Standing, Written, Dated, Jobs, Documents, HandSteps,
   NoJob, NoDocument, NotAccepted

(* A step of a request alone, to a job that stands.                          *)
LEMMA StepKeeps ==
  ASSUME HandInv, NEW r \in HandRequests, NEW j \in Jobs, Step(r, j), Standing(j)
  PROVE  HandInv'
<1>1. jobs' \in [HandRequests -> Jobs] /\ UNCHANGED <<authority, evidence, tree, kept>>
  BY DEF HandInv, Step
<1>2. ASSUME NEW q \in HandRequests PROVE Standing(jobs[q])'
  <2>1. jobs'[q] = (IF q = r THEN j ELSE jobs[q])
    BY DEF HandInv, Step
  <2>2. Standing(jobs'[q])
    BY <2>1 DEF HandInv
  <2> QED
    BY <1>1, <2>2 DEF Standing, Dated, Verified
<1> QED
  BY <1>1, <1>2 DEF HandInv, Written, Dated

(* A refusal for a change that happened.                                     *)
LEMMA RefusalKeeps ==
  ASSUME HandInv, NEW r \in HandRequests, NEW really, RefuseFor(r, really), really = TRUE
  PROVE  HandInv'
<1> DEFINE j == [jobs[r] EXCEPT !.step = "refused", !.moved = really]
<1>1. jobs[r] \in Jobs /\ Standing(jobs[r])
  BY DEF HandInv
<1>2. j \in Jobs /\ Standing(j)
  BY <1>1 DEF Standing, Dated, Jobs, HandSteps
<1> QED
  BY <1>2, StepKeeps DEF RefuseFor

LEMMA CreateBeginsKeeps ==
  ASSUME HandInv, NEW r \in HandRequests, NEW n \in 0..MaxMoves, CreateBegins(r, n)
  PROVE  HandInv'
<1> DEFINE d == [NoDocument EXCEPT !.state = StateOf, !.of = authority]
           j == [NoJob EXCEPT !.step = "began", !.revision = n, !.doc = d]
<1>1. /\ d.state = authority /\ d.of = authority /\ d.tree = -1
      /\ d \in Documents
  <2>1. NoDocument \in Documents /\ NoDocument.tree = -1
    BY DEF NoDocument, Documents
  <2>2. authority \in Int
    BY DEF HandInv
  <2> QED
    BY <2>1, <2>2 DEF Documents, StateOf
<1>2. n \in Int /\ n <= kept.revision /\ authority \in Nat /\ tree \in Nat
  BY HandoffAssumption DEF CreateBegins, HandInv
<1>3. Step(r, j)
  BY DEF CreateBegins
<1> HIDE DEF d
<1>4. j.step = "began" /\ j.revision = n /\ j.doc = d
  BY DEF NoJob
<1>5. j \in Jobs
  BY <1>1, <1>2 DEF Jobs, HandSteps, NoJob
<1> HIDE DEF j
<1>6. Standing(j)
  BY <1>1, <1>2, <1>4 DEF Standing, Dated
<1> QED
  BY <1>3, <1>5, <1>6, StepKeeps

LEMMA CreateCapturesKeeps ==
  ASSUME HandInv, NEW r \in HandRequests, CreateCaptures(r)
  PROVE  HandInv'
<1> DEFINE j == [jobs[r] EXCEPT !.step = "captured", !.doc.tree = tree]
<1>1. jobs[r] \in Jobs /\ Standing(jobs[r]) /\ jobs[r].step = "began" /\ tree \in Nat
  BY DEF HandInv, CreateCaptures
<1>2. [jobs[r].doc EXCEPT !.tree = tree] \in Documents
  BY <1>1 DEF Jobs, Documents
<1>3. j \in Jobs
  <2>1. j = [jobs[r] EXCEPT !.step = "captured", !.doc = [jobs[r].doc EXCEPT !.tree = tree]]
    BY <1>1 DEF Jobs
  <2> QED
    BY <1>1, <1>2, <2>1 DEF Jobs, HandSteps
<1>4. Standing(j)
  BY <1>1 DEF Standing, Dated, Jobs, Documents
<1> QED
  BY <1>3, <1>4, StepKeeps DEF CreateCaptures

LEMMA CreateChecksKeeps ==
  ASSUME HandInv, NEW r \in HandRequests, CreateChecks(r)
  PROVE  HandInv'
<1> DEFINE j == [jobs[r] EXCEPT !.step = "checked", !.together = jobs[r].doc.of = authority]
<1>1. /\ jobs[r] \in Jobs /\ Standing(jobs[r]) /\ jobs[r].step = "captured" /\ authority \in Nat
  BY DEF HandInv, CreateChecks
<1>2. CASE tree = jobs[r].doc.tree
  <2>1. Step(r, j)
    BY <1>2 DEF CreateChecks
  <2>2. j \in Jobs
    BY <1>1 DEF Jobs, HandSteps
  <2>3. j.step = "checked" /\ j.revision = jobs[r].revision /\ j.doc = jobs[r].doc
    BY <1>1 DEF Jobs
  <2>4. j.together = (jobs[r].doc.of = authority)
    BY <1>1 DEF Jobs
  <2> HIDE DEF j
  <2>5. j.together \/ jobs[r].doc.of < authority
    <3>1. CASE jobs[r].doc.of = authority
      BY <2>4, <3>1
    <3>2. CASE jobs[r].doc.of # authority
      BY <1>1, <3>2 DEF Standing, Dated, Jobs, Documents
    <3> QED
      BY <3>1, <3>2
  <2>6. Standing(j)
    BY <1>1, <2>3, <2>5 DEF Standing
  <2> QED
    BY <2>1, <2>2, <2>6, StepKeeps
<1>3. CASE tree # jobs[r].doc.tree
  BY <1>3, RefusalKeeps DEF CreateChecks
<1> QED
  BY <1>2, <1>3

(* The commit: the package of a request that stands, of the task as it is.   *)
LEMMA CreateCommitsKeeps ==
  ASSUME HandInv, NEW r \in HandRequests, CreateCommits(r)
  PROVE  /\ HandInv'
         /\ kept' # kept => kept'.revision = kept.revision + 1 /\ kept'.doc.of >= kept.doc.of
<1>1. /\ jobs[r] \in Jobs /\ Standing(jobs[r]) /\ jobs[r].step = "checked" /\ authority \in Nat
      /\ kept.revision \in 0..MaxMoves /\ kept.revision < MaxMoves
  BY DEF HandInv, CreateCommits
<1>2. CASE CommitHolds(r)
  <2>1. /\ kept' = [revision |-> jobs[r].revision + 1, doc |-> jobs[r].doc]
        /\ jobs' = [jobs EXCEPT ![r].step = "stored"] /\ UNCHANGED <<authority, evidence, tree>>
    BY <1>2 DEF CreateCommits
  <2>2. jobs[r].doc \in Documents /\ Written(jobs[r].doc) /\ jobs[r].doc.of = authority /\ jobs[r].together
    BY <1>1, <1>2 DEF CommitHolds, StateOf, Standing, Written, Dated, Jobs, Documents
  <2>3. /\ kept'.revision = kept.revision + 1 /\ kept'.doc = jobs[r].doc
        /\ kept'.revision \in 0..MaxMoves
    BY <1>1, <1>2, <2>1, HandoffAssumption DEF CommitHolds
  <2>4. jobs' \in [HandRequests -> Jobs]
    BY <1>1, <2>1 DEF HandInv, Jobs, HandSteps
  <2>5. ASSUME NEW q \in HandRequests PROVE Standing(jobs[q])'
    <3>1. Standing(jobs[q]) /\ jobs[q] \in Jobs
      BY DEF HandInv
    <3>2. /\ jobs'[q].revision = jobs[q].revision /\ jobs'[q].doc = jobs[q].doc
          /\ jobs'[q].together = jobs[q].together /\ jobs'[q].moved = jobs[q].moved
          /\ jobs'[q].step = (IF q = r THEN "stored" ELSE jobs[q].step)
      BY <1>1, <2>1, <3>1 DEF HandInv, Jobs
    <3> QED
      BY <1>1, <2>1, <2>2, <2>3, <3>1, <3>2 DEF Standing, Dated, Verified, Jobs
  <2> QED
    BY <2>1, <2>2, <2>3, <2>4, <2>5 DEF HandInv, Written, Dated
<1>3. CASE ~CommitHolds(r)
  <2> DEFINE really == kept.revision # jobs[r].revision \/ authority # jobs[r].doc.of
  <2>1. really = TRUE
    BY <1>1, <1>3 DEF CommitHolds, StateOf, Standing, Dated
  <2>2. RefuseFor(r, really)
    BY <1>3 DEF CreateCommits
  <2>3. kept' = kept
    BY <2>2 DEF RefuseFor, Step
  <2> HIDE DEF really
  <2> QED
    BY <2>1, <2>2, <2>3, RefusalKeeps
<1> QED
  BY <1>2, <1>3

LEMMA ReadBeginsKeeps ==
  ASSUME HandInv, NEW r \in HandRequests, ReadBegins(r)
  PROVE  HandInv'
<1> DEFINE j == [NoJob EXCEPT !.step = "opened", !.revision = kept.revision, !.doc = kept.doc]
<1>1. kept.revision \in Int /\ kept.doc \in Documents /\ Dated(kept.doc)
  BY HandoffAssumption DEF HandInv
<1>2. j \in Jobs
  BY <1>1 DEF Jobs, HandSteps, NoJob
<1>3. Standing(j)
  BY <1>1 DEF Standing, NoJob
<1> QED
  BY <1>2, <1>3, StepKeeps DEF ReadBegins

LEMMA ReadComparesKeeps ==
  ASSUME HandInv, NEW r \in HandRequests, ReadCompares(r)
  PROVE  HandInv'
<1>1. jobs[r] \in Jobs /\ Standing(jobs[r]) /\ jobs[r].step = "opened" /\ jobs[r].doc.state = jobs[r].doc.of
  BY DEF HandInv, ReadCompares, Standing, Dated
<1>2. CASE jobs[r].doc.state # StateOf
  <2> DEFINE really == jobs[r].doc.of # authority
  <2>1. really = TRUE
    BY <1>1, <1>2 DEF StateOf
  <2>2. RefuseFor(r, really)
    BY <1>2 DEF ReadCompares
  <2> HIDE DEF really
  <2> QED
    BY <2>1, <2>2, RefusalKeeps
<1>3. CASE jobs[r].doc.state = StateOf /\ jobs[r].doc.tree # tree
  BY <1>3, RefusalKeeps DEF ReadCompares
<1>4. CASE jobs[r].doc.state = StateOf /\ jobs[r].doc.tree = tree
  <2> DEFINE j == [jobs[r] EXCEPT !.step = "compared"]
  <2>1. j \in Jobs /\ Standing(j)
    BY <1>1 DEF Standing, Dated, Jobs, HandSteps
  <2> QED
    BY <1>4, <2>1, StepKeeps DEF ReadCompares
<1> QED
  BY <1>2, <1>3, <1>4

LEMMA ReadVerifiesKeeps ==
  ASSUME HandInv, NEW r \in HandRequests, ReadVerifies(r)
  PROVE  HandInv'
<1>1. jobs[r] \in Jobs /\ Standing(jobs[r])
  BY DEF HandInv
<1>2. CASE Verified
  <2> DEFINE j == [jobs[r] EXCEPT !.step = "verified"]
  <2>1. j \in Jobs /\ Standing(j)
    BY <1>1, <1>2 DEF Standing, Dated, Jobs, HandSteps
  <2> QED
    BY <1>2, <2>1, StepKeeps DEF ReadVerifies
<1>3. CASE ~Verified
  BY <1>3, RefusalKeeps DEF ReadVerifies
<1> QED
  BY <1>2, <1>3

(* The files were read again: they are as the acceptance has them, unless the *)
(* task moved on.                                                             *)
LEMMA ReadRereadsKeeps ==
  ASSUME HandInv, NEW r \in HandRequests, ReadRereads(r)
  PROVE  HandInv'
<1>1. /\ jobs[r] \in Jobs /\ Standing(jobs[r]) /\ jobs[r].step = "verified"
      /\ authority \in Nat /\ tree \in Nat
  BY DEF HandInv, ReadRereads
<1>2. CASE SameFilesStill(r)
  <2> DEFINE whole == /\ jobs[r].doc.of = authority /\ jobs[r].doc.tree = tree
                      /\ evidence \in {NotAccepted, tree}
             j == [jobs[r] EXCEPT !.step = "reread", !.together = whole]
  <2>1. whole \in BOOLEAN /\ (whole \/ jobs[r].doc.of < authority)
    BY <1>1, <1>2 DEF SameFilesStill, Standing, Dated, Verified, Jobs, Documents
  <2>2. Step(r, j)
    BY <1>2 DEF ReadRereads
  <2> HIDE DEF whole
  <2>3. j \in Jobs /\ Standing(j)
    BY <1>1, <2>1 DEF Standing, Dated, Jobs, HandSteps
  <2> QED
    BY <2>2, <2>3, StepKeeps
<1>3. CASE ~SameFilesStill(r)
  BY <1>3, RefusalKeeps DEF ReadRereads
<1> QED
  BY <1>2, <1>3

LEMMA ReadEndsKeeps ==
  ASSUME HandInv, NEW r \in HandRequests, ReadEnds(r)
  PROVE  HandInv'
<1>1. /\ jobs[r] \in Jobs /\ Standing(jobs[r]) /\ jobs[r].step = "reread" /\ authority \in Nat
  BY DEF HandInv, ReadEnds
<1>2. CASE StillCurrent(r)
  <2> DEFINE j == [jobs[r] EXCEPT !.step = "valid"]
  <2>1. j \in Jobs /\ Standing(j)
    BY <1>1, <1>2 DEF StillCurrent, StateOf, Standing, Dated, Jobs, HandSteps
  <2> QED
    BY <1>2, <2>1, StepKeeps DEF ReadEnds
<1>3. CASE ~StillCurrent(r)
  <2> DEFINE really == kept.revision # jobs[r].revision \/ authority # jobs[r].doc.of
  <2>1. really = TRUE
    BY <1>1, <1>3 DEF StillCurrent, StateOf, Standing, Dated
  <2>2. RefuseFor(r, really)
    BY <1>3 DEF ReadEnds
  <2> HIDE DEF really
  <2> QED
    BY <2>1, <2>2, RefusalKeeps
<1> QED
  BY <1>2, <1>3

LEMMA AnswersKeeps ==
  ASSUME HandInv, NEW r \in HandRequests, Answers(r)
  PROVE  HandInv'
<1>1. NoJob \in Jobs /\ Standing(NoJob)
  BY DEF HandInv, Standing, Dated, Jobs, Documents, HandSteps, NoJob, NoDocument
<1> QED
  BY <1>1, StepKeeps DEF Answers

(* A document that was right in its time stays so, whatever moves.           *)
LEMMA MovesKeep ==
  ASSUME HandInv, TaskMoves \/ FilesMove
  PROVE  HandInv'
<1>1. /\ authority \in Nat /\ tree \in Nat /\ evidence \in -1..tree
      /\ kept.doc \in Documents /\ jobs \in [HandRequests -> Jobs]
  BY DEF HandInv
<1>2. /\ authority' \in Nat /\ authority' >= authority /\ tree' \in Nat /\ tree' >= tree /\ evidence' \in -1..tree'
      /\ UNCHANGED <<kept, jobs>>
  BY <1>1 DEF TaskMoves, FilesMove, NotAccepted
<1>3. \/ authority' > authority
      \/ tree' > tree
      \/ UNCHANGED <<authority, tree, evidence>>
  BY <1>1 DEF TaskMoves, FilesMove
<1>4. ASSUME NEW q \in HandRequests PROVE Standing(jobs[q])'
  <2>1. Standing(jobs[q]) /\ jobs[q] \in Jobs /\ jobs'[q] = jobs[q]
    BY <1>2 DEF HandInv
  <2> QED
    BY <1>1, <1>2, <1>3, <2>1 DEF Standing, Dated, Verified, Jobs, Documents
<1> QED
  BY <1>1, <1>2, <1>4 DEF HandInv, Written, Dated, Documents

(* Every step keeps the invariant, and a package only ever advances.         *)
LEMMA HandStep ==
  ASSUME HandInv, [HandNext]_handVars
  PROVE  /\ HandInv'
         /\ kept' # kept => kept'.revision = kept.revision + 1 /\ kept'.doc.of >= kept.doc.of
<1>1. CASE UNCHANGED handVars
  BY <1>1 DEF handVars, HandInv, Standing, Written, Dated, Verified
<1>2. CASE TaskMoves \/ FilesMove
  <2>1. kept' = kept
    BY <1>2 DEF TaskMoves, FilesMove
  <2> QED
    BY <1>2, <2>1, MovesKeep
<1>3. ASSUME NEW r \in HandRequests, CreateCommits(r)
      PROVE  /\ HandInv'
             /\ kept' # kept => kept'.revision = kept.revision + 1 /\ kept'.doc.of >= kept.doc.of
  BY <1>3, CreateCommitsKeeps
<1>4. ASSUME NEW r \in HandRequests,
             \/ \E n \in 0..MaxMoves : CreateBegins(r, n)
             \/ CreateCaptures(r) \/ CreateChecks(r) \/ ReadBegins(r) \/ ReadCompares(r)
             \/ ReadVerifies(r) \/ ReadRereads(r) \/ ReadEnds(r) \/ Answers(r)
      PROVE  HandInv' /\ kept' = kept
  <2>1. HandInv'
    BY <1>4, CreateBeginsKeeps, CreateCapturesKeeps, CreateChecksKeeps, ReadBeginsKeeps, ReadComparesKeeps,
       ReadVerifiesKeeps, ReadRereadsKeeps, ReadEndsKeeps, AnswersKeeps
  <2>2. kept' = kept
    BY <1>4 DEF CreateBegins, CreateCaptures, CreateChecks, ReadBegins, ReadCompares, ReadVerifies, ReadRereads,
       ReadEnds, Answers, RefuseFor, Step
  <2> QED
    BY <2>1, <2>2
<1> QED
  BY <1>1, <1>2, <1>3, <1>4 DEF HandNext

(* Whatever moves while requests work, and however many of them there are: a  *)
(* package that is stored or given out describes one moment of task and files, *)
(* replaces only the one its caller knew of, and is refused for a real change  *)
(* (handoff.py create, read).                                                  *)
THEOREM HandKeepsSafety == HandSpec => HandSafety
<1>1. HandInit => HandInv
  BY HandInitHolds
<1>2. HandInv /\ [HandNext]_handVars => HandInv'
  BY HandStep
<1>3. HandInv => HandTypeOK /\ DescribesOneMoment /\ RefusedForChange
  BY HandInvImplies
<1>4. HandInv /\ [HandNext]_handVars
        => [kept' # kept => kept'.revision = kept.revision + 1 /\ kept'.doc.of >= kept.doc.of]_handVars
  BY HandStep
<1> QED
  BY <1>1, <1>2, <1>3, <1>4, PTL DEF HandSpec, HandSafety, PackagesOnlyAdvance

-----------------------------------------------------------------------------
(* The control feed.                                                       *)

(* The highest of a bounded, nonempty set of numbers is in it.               *)
LEMMA HighestIsIn ==
  ASSUME NEW S \in SUBSET Nat, NEW b \in Nat, S # {}, \A m \in S : m <= b
  PROVE  Highest(S) \in S /\ \A m \in S : m <= Highest(S)
<1> DEFINE T == {b - m : m \in S}
<1>1. ASSUME NEW m \in S PROVE b - m \in Nat
  <2>1. m \in Nat /\ m <= b
    OBVIOUS
  <2> QED
    BY <2>1
<1>2. T \in SUBSET Nat
  BY <1>1
<1>3. T # {}
  OBVIOUS
<1>4. \A m \in S : b - m \in T
  OBVIOUS
<1>5. PICK t \in T : \A u \in T : t <= u
  <2> DEFINE Less == OpToRel(<, Nat)
  <2>1. IsWellFoundedOn(Less, Nat)
    BY NatLessThanWellFounded
  <2>2. \A x, y \in Nat : x < y => <<x, y>> \in Less
    BY DEF OpToRel
  <2> HIDE DEF T, Less
  <2>3. PICK t \in T : \A u \in T : <<u, t>> \notin Less
    BY <1>2, <1>3, <2>1, WFMin
  <2>4. ASSUME NEW u \in T PROVE t <= u
    <3>1. t \in Nat /\ u \in Nat
      BY <1>2
    <3>2. ~(u < t)
      BY <2>2, <2>3, <3>1
    <3> QED
      BY <3>1, <3>2
  <2> QED
    BY <2>4
<1>6. PICK n \in S : t = b - n
  OBVIOUS
<1>7. ASSUME NEW m \in S PROVE m <= n
  <2>1. t <= b - m
    BY <1>4, <1>5
  <2>2. m \in Nat /\ n \in Nat
    OBVIOUS
  <2> HIDE DEF T
  <2> QED
    BY <1>6, <2>1, <2>2
<1> QED
  BY <1>7 DEF Highest

(* The value and the commands behind it: no two operations stand on one       *)
(* revision, and a command took effect exactly if an operation is its own.    *)
ValueInv ==
  /\ valueRevision \in Nat /\ IsFiniteSet(operations) /\ valueRevision = Cardinality(operations)
  /\ \A o \in operations : o.on \in Nat /\ o.on < valueRevision
  /\ NoUpdateLost
  /\ applied \in [CommandIds -> Nat]
  /\ \A i \in CommandIds : applied[i] = IF \E o \in operations : o.command = i THEN 1 ELSE 0

(* The clients: a command that was refused took no effect.                    *)
Asked == [nr : 0..MaxCommands, expects : Nat, late : BOOLEAN, answer : FeedAnswers]
ClientsInv ==
  /\ asked \in [Clients -> Asked]
  /\ \A c \in Clients : /\ asked[c].expects <= valueRevision
                        /\ asked[c].answer # "accepted" => asked[c].nr # 0
                        /\ asked[c].answer \in {"conflict", "expired"} => ~KnownOperation(c)

(* The events: one row for each position above the floor, and the position     *)
(* is the number of the event.                                                 *)
EventsInv ==
  /\ stream \in [last : Nat, floor : Nat] /\ stream.floor <= stream.last /\ made = stream.last
  /\ IsFiniteSet(rows)
  /\ \A r \in rows : r.at \in stream.floor + 1..stream.last /\ r.event = r.at
  /\ \A n \in stream.floor + 1..stream.last : \E r \in rows : r.at = n

(* The follower knows every event up to its cursor.                           *)
FollowerInv ==
  /\ follower.cursor \in 0..stream.last /\ follower.latest \in 0..stream.last
  /\ 1..follower.cursor \subseteq follower.knows /\ follower.knows \subseteq 1..stream.last
  /\ follower = [cursor |-> follower.cursor, expired |-> follower.expired,
                 latest |-> follower.latest, knows |-> follower.knows]

FeedInv == ValueInv /\ ClientsInv /\ EventsInv /\ FollowerInv

LEMMA FeedInvImplies == FeedInv => FeedTypeOK /\ RefusedWasNotApplied /\ NoUpdateLost /\ NoSilentGap
<1> SUFFICES ASSUME FeedInv PROVE FeedTypeOK /\ RefusedWasNotApplied /\ NoUpdateLost /\ NoSilentGap
  OBVIOUS
<1>1. FeedTypeOK
  <2>1. \A r \in rows : r.at \in stream.floor + 1..stream.last /\ r.event \in 1..made
    BY DEF FeedInv, EventsInv
  <2>2. \A c \in Clients : asked[c].answer \in FeedAnswers /\ asked[c].expects <= valueRevision
    BY DEF FeedInv, ClientsInv, Asked
  <2> QED
    BY <2>1, <2>2 DEF FeedInv, ValueInv, EventsInv, FollowerInv, FeedTypeOK
<1>2. RefusedWasNotApplied
  <2> SUFFICES ASSUME NEW c \in Clients, asked[c].nr > 0
               PROVE  /\ applied[<<c, asked[c].nr>>] <= 1
                      /\ asked[c].answer \in {"conflict", "expired"} => applied[<<c, asked[c].nr>>] = 0
    BY DEF RefusedWasNotApplied
  <2>1. <<c, asked[c].nr>> \in CommandIds
    BY ControlFeedAssumption DEF FeedInv, ClientsInv, Asked, CommandIds
  <2> QED
    BY <2>1 DEF FeedInv, ValueInv, ClientsInv, KnownOperation
<1>3. NoSilentGap
  <2>1. \A r \in rows : r.at <= follower.cursor => r.event \in follower.knows
    BY DEF FeedInv, EventsInv, FollowerInv
  <2>2. ~follower.expired /\ follower.cursor = stream.last => follower.knows = 1..made
    BY DEF FeedInv, EventsInv, FollowerInv
  <2> QED
    BY <2>1, <2>2 DEF NoSilentGap
<1> QED
  BY <1>1, <1>2, <1>3 DEF FeedInv, ValueInv

LEMMA FeedInitHolds == FeedInit => FeedInv
<1> SUFFICES ASSUME FeedInit PROVE FeedInv
  OBVIOUS
<1>1. ValueInv
  BY FS_EmptySet DEF FeedInit, ValueInv, NoUpdateLost
<1>2. ClientsInv
  BY ControlFeedAssumption DEF FeedInit, ClientsInv, Asked, FeedAnswers, Unanswered
<1>3. EventsInv
  BY FS_EmptySet DEF FeedInit, EventsInv
<1>4. FollowerInv
  BY DEF FeedInit, FollowerInv
<1> QED
  BY <1>1, <1>2, <1>3, <1>4 DEF FeedInv

(* Appending an event keeps what is known of events and of the follower.      *)
LEMMA AppendedKeeps ==
  ASSUME EventsInv, FollowerInv, Appended, UNCHANGED follower
  PROVE  EventsInv' /\ FollowerInv'
<1> DEFINE new == [at |-> stream.last + 1, event |-> made + 1]
<1>1. /\ made' = made + 1 /\ rows' = rows \cup {new}
      /\ stream'.last = stream.last + 1 /\ stream'.floor = stream.floor
      /\ stream' \in [last : Nat, floor : Nat]
  BY DEF Appended, NextPosition, EventsInv
<1>2. new.at = stream.last + 1 /\ new.event = made + 1
  OBVIOUS
<1> HIDE DEF new
<1>3. IsFiniteSet(rows')
  BY <1>1, FS_AddElement DEF EventsInv
<1>4. \A r \in rows' : r.at \in stream'.floor + 1..stream'.last /\ r.event = r.at
  BY <1>1, <1>2 DEF EventsInv
<1>5. \A n \in stream'.floor + 1..stream'.last : \E r \in rows' : r.at = n
  BY <1>1, <1>2 DEF EventsInv
<1>6. EventsInv'
  BY <1>1, <1>3, <1>4, <1>5 DEF EventsInv
<1>7. FollowerInv'
  BY <1>1 DEF FollowerInv, EventsInv
<1> QED
  BY <1>6, <1>7

LEMMA PruneKeeps ==
  ASSUME FeedInv, NEW through \in 1..MaxFeedEvents, PruneEvents(through)
  PROVE  FeedInv'
<1>1. /\ through \in stream.floor + 1..stream.last /\ rows' = {r \in rows : r.at > through}
      /\ stream'.last = stream.last /\ stream'.floor = through /\ stream' \in [last : Nat, floor : Nat]
      /\ UNCHANGED <<valueRevision, operations, made, asked, applied, follower>>
  BY DEF PruneEvents, Unpruned, FeedInv, EventsInv
<1>2. IsFiniteSet(rows')
  BY <1>1, FS_Subset DEF FeedInv, EventsInv
<1>3. EventsInv'
  BY <1>1, <1>2 DEF FeedInv, EventsInv
<1>4. FollowerInv'
  BY <1>1 DEF FeedInv, FollowerInv, EventsInv
<1>5. ValueInv' /\ ClientsInv'
  BY <1>1 DEF FeedInv, ValueInv, ClientsInv, NoUpdateLost, KnownOperation
<1> QED
  BY <1>3, <1>4, <1>5 DEF FeedInv

(* What is asked may change alone, as long as it is no false refusal.         *)
LEMMA AskedKeeps ==
  ASSUME FeedInv, NEW c \in Clients, NEW a \in Asked, asked' = [asked EXCEPT ![c] = a],
         a.expects <= valueRevision, a.answer # "accepted" => a.nr # 0,
         a.answer \in {"conflict", "expired"} => ~\E o \in operations : o.command = <<c, a.nr>>,
         UNCHANGED <<valueRevision, operations, rows, made, stream, applied, follower>>
  PROVE  FeedInv'
<1>1. asked' \in [Clients -> Asked]
  BY DEF FeedInv, ClientsInv
<1>2. \A q \in Clients : asked'[q] = IF q = c THEN a ELSE asked[q]
  BY DEF FeedInv, ClientsInv
<1>3. ClientsInv'
  BY <1>1, <1>2 DEF FeedInv, ClientsInv, KnownOperation
<1> QED
  BY <1>3 DEF FeedInv, ValueInv, NoUpdateLost, EventsInv, FollowerInv

LEMMA AnsweredKeeps ==
  ASSUME FeedInv, NEW c \in Clients, NEW how \in FeedAnswers, asked[c].answer = Unanswered, Answered(c, how),
         how \in {"conflict", "expired"} => ~KnownOperation(c),
         UNCHANGED <<valueRevision, operations, rows, made, stream, applied, follower>>
  PROVE  FeedInv'
<1>1. asked[c] \in Asked /\ asked[c].expects <= valueRevision /\ asked[c].nr # 0
  BY DEF FeedInv, ClientsInv, Unanswered
<1>2. CASE asked' = asked
  BY <1>2 DEF FeedInv, ValueInv, ClientsInv, NoUpdateLost, KnownOperation, EventsInv, FollowerInv
<1>3. CASE asked' = [asked EXCEPT ![c].answer = how]
  <2> DEFINE a == [asked[c] EXCEPT !.answer = how]
  <2>1. a \in Asked /\ a.expects = asked[c].expects /\ a.nr = asked[c].nr /\ a.answer = how
    BY <1>1 DEF Asked
  <2>2. asked' = [asked EXCEPT ![c] = a]
    BY <1>3
  <2> HIDE DEF a
  <2> QED
    BY <1>1, <2>1, <2>2, AskedKeeps DEF KnownOperation
<1> QED
  BY <1>2, <1>3 DEF Answered

LEMMA ComposeKeeps ==
  ASSUME FeedInv, NEW c \in Clients, Compose(c)
  PROVE  FeedInv'
<1> DEFINE a == [nr |-> asked[c].nr + 1, expects |-> valueRevision, late |-> FALSE, answer |-> Unanswered]
<1>1. asked[c] \in Asked /\ valueRevision \in Nat /\ asked[c].nr < MaxCommands
  BY DEF FeedInv, ClientsInv, ValueInv, Compose
<1>2. a \in Asked
  BY <1>1, ControlFeedAssumption DEF Asked, FeedAnswers
<1>3. asked' = [asked EXCEPT ![c] = a]
  BY DEF Compose, FeedInv, ClientsInv
<1>4. a.expects <= valueRevision /\ a.nr # 0 /\ a.answer \notin {"conflict", "expired"}
  BY <1>1 DEF Asked, Unanswered
<1> HIDE DEF a
<1> QED
  BY <1>2, <1>3, <1>4, AskedKeeps DEF Compose

LEMMA ExpiresKeeps ==
  ASSUME FeedInv, NEW c \in Clients, Expires(c)
  PROVE  FeedInv'
<1> DEFINE a == [asked[c] EXCEPT !.late = TRUE]
<1>1. asked[c] \in Asked /\ asked[c].expects <= valueRevision /\ asked[c].nr # 0 /\ asked[c].answer = "none"
  BY DEF FeedInv, ClientsInv, Expires, Unanswered
<1>2. a \in Asked /\ a.expects = asked[c].expects /\ a.nr = asked[c].nr /\ a.answer = asked[c].answer
  BY <1>1 DEF Asked
<1>3. asked' = [asked EXCEPT ![c] = a]
  BY DEF Expires
<1> HIDE DEF a
<1> QED
  BY <1>1, <1>2, <1>3, AskedKeeps DEF Expires

(* A command that takes effect: its revision is new, and only its own effect   *)
(* is counted.                                                                 *)
LEMMA StatePutKeeps ==
  ASSUME FeedInv, NEW c \in Clients, StatePut(c)
  PROVE  FeedInv'
<1> DEFINE i == <<c, asked[c].nr>>
           o == [command |-> i, revision |-> valueRevision + 1, on |-> asked[c].expects]
<1>1. /\ asked[c] \in Asked /\ asked[c].nr # 0 /\ valueRevision \in Nat /\ asked[c].answer = Unanswered
      /\ asked[c].expects = valueRevision /\ ~\E q \in operations : q.command = i
  BY DEF FeedInv, ClientsInv, ValueInv, StatePut, Unanswered, KnownOperation, CasHoldsFor
<1>2. i \in CommandIds
  BY <1>1, ControlFeedAssumption DEF CommandIds, Asked
<1>3. /\ valueRevision' = valueRevision + 1 /\ operations' = operations \cup {o}
      /\ applied' = [applied EXCEPT ![i] = @ + 1] /\ Appended /\ Answered(c, "accepted") /\ UNCHANGED follower
  BY DEF StatePut
<1>4. o.command = i /\ o.on = valueRevision
  BY <1>1
<1> HIDE DEF o
<1>5. ValueInv'
  <2>1. o \notin operations
    BY <1>1, <1>4
  <2>2. IsFiniteSet(operations') /\ Cardinality(operations') = Cardinality(operations) + 1
    BY <1>3, <2>1, FS_AddElement DEF FeedInv, ValueInv
  <2>3. \A q \in operations' : q.on \in Nat /\ q.on < valueRevision'
    BY <1>1, <1>3, <1>4 DEF FeedInv, ValueInv
  <2>4. NoUpdateLost'
    <3> SUFFICES ASSUME NEW p \in operations', NEW q \in operations', p.on = q.on PROVE p = q
      BY DEF NoUpdateLost
    <3>1. \A s \in operations : s.on < valueRevision /\ s.on \in Nat
      BY DEF FeedInv, ValueInv
    <3> QED
      BY <1>1, <1>3, <1>4, <3>1 DEF FeedInv, ValueInv, NoUpdateLost
  <2>5. applied[i] = 0
    BY <1>1, <1>2 DEF FeedInv, ValueInv
  <2>6. applied' \in [CommandIds -> Nat] /\ \A k \in CommandIds : applied'[k] = IF k = i THEN 1 ELSE applied[k]
    BY <1>2, <1>3, <2>5 DEF FeedInv, ValueInv
  <2>7. \A k \in CommandIds : applied'[k] = IF \E q \in operations' : q.command = k THEN 1 ELSE 0
    BY <1>3, <1>4, <2>6 DEF FeedInv, ValueInv
  <2> QED
    BY <1>1, <1>3, <2>2, <2>3, <2>4, <2>6, <2>7 DEF FeedInv, ValueInv
<1>6. ClientsInv'
  <2>1. asked' \in [Clients -> Asked] /\ \A q \in Clients \ {c} : asked'[q] = asked[q]
    BY <1>1, <1>3 DEF Answered, FeedInv, ClientsInv, Asked, FeedAnswers
  <2>2. /\ asked'[c].nr = asked[c].nr /\ asked'[c].expects = asked[c].expects
        /\ asked'[c].answer \in {"accepted", "none"}
    BY <1>1, <1>3 DEF Answered, FeedInv, ClientsInv, Asked, Unanswered
  <2>3. ASSUME NEW q \in Clients
        PROVE  /\ asked'[q].expects <= valueRevision'
               /\ asked'[q].answer # "accepted" => asked'[q].nr # 0
               /\ asked'[q].answer \in {"conflict", "expired"} => ~KnownOperation(q)'
    <3>1. CASE q = c
      BY <1>1, <1>3, <2>2, <3>1
    <3>2. CASE q # c
      <4>1. asked'[q] = asked[q] /\ asked[q] \in Asked
        BY <2>1, <3>2 DEF FeedInv, ClientsInv
      <4>2. o.command # <<q, asked[q].nr>>
        BY <1>4, <3>2
      <4> QED
        BY <1>1, <1>3, <4>1, <4>2 DEF FeedInv, ClientsInv, KnownOperation, Asked
    <3> QED
      BY <3>1, <3>2
  <2> QED
    BY <2>1, <2>3 DEF ClientsInv
<1>7. EventsInv' /\ FollowerInv'
  BY <1>3, AppendedKeeps DEF FeedInv
<1> QED
  BY <1>5, <1>6, <1>7 DEF FeedInv

(* A page leaves nothing out: with the last of its events it holds every       *)
(* event between the cursor and that one.                                      *)
LEMMA PageIsWhole ==
  ASSUME EventsInv, FollowerInv, ~CursorExpired(follower.cursor), NEW r \in PageAfter(follower.cursor),
         NEW n \in follower.cursor + 1..r.at
  PROVE  \E s \in PageAfter(follower.cursor) : s.event = n
<1> DEFINE Before(k) == {s \in rows : s.at > follower.cursor /\ s.at < k}
<1>1. r \in rows /\ r.at \in stream.floor + 1..stream.last /\ Cardinality(Before(r.at)) < FeedPage
  BY DEF PageAfter, EventsInv
<1>2. n \in stream.floor + 1..stream.last /\ n > follower.cursor
  BY <1>1 DEF CursorExpired, EventsInv, FollowerInv
<1>3. PICK s \in rows : s.at = n /\ s.event = n
  BY <1>2 DEF EventsInv
<1>4. Before(n) \in SUBSET Before(r.at) /\ IsFiniteSet(Before(r.at))
  <2>1. Before(r.at) \in SUBSET rows /\ IsFiniteSet(rows)
    BY DEF EventsInv
  <2>2. Before(n) \in SUBSET Before(r.at)
    BY <1>1, <1>2 DEF EventsInv
  <2> QED
    BY <2>1, <2>2, FS_Subset
<1>5. /\ Cardinality(Before(n)) <= Cardinality(Before(r.at))
      /\ Cardinality(Before(n)) \in Nat /\ Cardinality(Before(r.at)) \in Nat
  <2> HIDE DEF Before
  <2> QED
    BY <1>4, FS_Subset, FS_CardinalityType
<1>6. Cardinality(Before(n)) < FeedPage
  BY <1>1, <1>5, ControlFeedAssumption
<1>7. s \in PageAfter(follower.cursor)
  BY <1>2, <1>3, <1>6 DEF PageAfter
<1> QED
  BY <1>3, <1>7

LEMMA FollowPageKeeps ==
  ASSUME FeedInv, FollowPage
  PROVE  FeedInv'
<1> DEFINE page == PageAfter(follower.cursor)
           ats == {r.at : r \in page}
           events == {r.event : r \in page}
           h == Highest(ats)
<1>1. ~CursorExpired(follower.cursor) /\ page # {} /\ page \subseteq rows
  BY DEF FollowPage, PageAfter
<1>2. stream.last \in Nat /\ ats \in SUBSET Nat /\ ats # {} /\ \A m \in ats : m <= stream.last
  BY <1>1 DEF FeedInv, EventsInv
<1>3. h \in ats
  <2> HIDE DEF ats
  <2> QED
    BY <1>2, HighestIsIn
<1>4. PICK r \in page : r.at = h
  BY <1>3
<1>5. h \in 0..stream.last /\ h > follower.cursor
  BY <1>1, <1>4 DEF FeedInv, EventsInv, PageAfter
<1>6. \A n \in follower.cursor + 1..h : n \in events
  BY <1>1, <1>4, PageIsWhole DEF FeedInv
<1>7. events \subseteq 1..stream.last
  BY <1>1 DEF FeedInv, EventsInv
<1>8. follower' = [follower EXCEPT !.cursor = h, !.knows = @ \cup events]
  BY DEF FollowPage
<1>9. UNCHANGED <<valueRevision, operations, rows, made, stream, asked, applied>>
  BY DEF FollowPage
<1> HIDE DEF h, events
<1>10. /\ follower'.cursor = h /\ follower'.knows = follower.knows \cup events
       /\ follower'.latest = follower.latest /\ follower'.expired = follower.expired
       /\ follower' = [cursor |-> follower'.cursor, expired |-> follower'.expired,
                       latest |-> follower'.latest, knows |-> follower'.knows]
  BY <1>8 DEF FeedInv, FollowerInv
<1>11. 1..h \subseteq follower'.knows /\ follower'.knows \subseteq 1..stream.last
  BY <1>5, <1>6, <1>7, <1>10 DEF FeedInv, FollowerInv
<1>12. FollowerInv'
  BY <1>5, <1>9, <1>10, <1>11 DEF FeedInv, FollowerInv
<1>13. ValueInv' /\ ClientsInv' /\ EventsInv'
  BY <1>9 DEF FeedInv, ValueInv, ClientsInv, NoUpdateLost, KnownOperation, EventsInv
<1> QED
  BY <1>12, <1>13 DEF FeedInv

LEMMA FollowOtherwiseKeeps ==
  ASSUME FeedInv, FollowExpired \/ FollowSnapshot
  PROVE  FeedInv'
<1>1. UNCHANGED <<valueRevision, operations, rows, made, stream, asked, applied>>
  BY DEF FollowExpired, FollowSnapshot
<1>2. stream.last \in Nat /\ made = stream.last
  BY DEF FeedInv, EventsInv
<1>3. CASE FollowExpired
  <2>1. follower' = [follower EXCEPT !.expired = TRUE, !.latest = stream.last]
    BY <1>3 DEF FollowExpired
  <2>2. /\ follower'.cursor = follower.cursor /\ follower'.knows = follower.knows
        /\ follower'.latest = stream.last /\ follower'.expired = TRUE
        /\ follower' = [cursor |-> follower'.cursor, expired |-> follower'.expired,
                        latest |-> follower'.latest, knows |-> follower'.knows]
    BY <2>1 DEF FeedInv, FollowerInv
  <2>3. FollowerInv'
    BY <1>1, <1>2, <2>2 DEF FeedInv, FollowerInv
  <2> QED
    BY <1>1, <2>3 DEF FeedInv, ValueInv, ClientsInv, NoUpdateLost, KnownOperation, EventsInv
<1>4. CASE FollowSnapshot
  <2>1. follower' = [follower EXCEPT !.expired = FALSE, !.cursor = follower.latest, !.knows = 1..made]
    BY <1>4 DEF FollowSnapshot
  <2>2. /\ follower'.cursor = follower.latest /\ follower'.knows = 1..made
        /\ follower'.latest = follower.latest /\ follower'.expired = FALSE
        /\ follower' = [cursor |-> follower'.cursor, expired |-> follower'.expired,
                        latest |-> follower'.latest, knows |-> follower'.knows]
    BY <2>1 DEF FeedInv, FollowerInv
  <2>3. FollowerInv'
    BY <1>1, <1>2, <2>2 DEF FeedInv, FollowerInv
  <2> QED
    BY <1>1, <2>3 DEF FeedInv, ValueInv, ClientsInv, NoUpdateLost, KnownOperation, EventsInv
<1> QED
  BY <1>3, <1>4

LEMMA FeedStep == FeedInv /\ [FeedNext]_feedVars => FeedInv'
<1> SUFFICES ASSUME FeedInv, [FeedNext]_feedVars PROVE FeedInv'
  OBVIOUS
<1>1. CASE UNCHANGED feedVars
  BY <1>1 DEF feedVars, FeedInv, ValueInv, ClientsInv, NoUpdateLost, KnownOperation, EventsInv, FollowerInv
<1>2. CASE OtherEvent
  <2>1. EventsInv' /\ FollowerInv'
    BY <1>2, AppendedKeeps DEF OtherEvent, FeedInv
  <2> QED
    BY <1>2, <2>1 DEF OtherEvent, FeedInv, ValueInv, ClientsInv, NoUpdateLost, KnownOperation
<1>3. CASE FollowPage \/ FollowExpired \/ FollowSnapshot
  BY <1>3, FollowPageKeeps, FollowOtherwiseKeeps
<1>4. ASSUME NEW through \in 1..MaxFeedEvents, PruneEvents(through) PROVE FeedInv'
  BY <1>4, PruneKeeps
<1>5. ASSUME NEW c \in Clients, Compose(c) \/ Expires(c) \/ StatePut(c) PROVE FeedInv'
  BY <1>5, ComposeKeeps, ExpiresKeeps, StatePutKeeps
<1>6. ASSUME NEW c \in Clients, Repeats(c) PROVE FeedInv'
  BY <1>6, AnsweredKeeps DEF Repeats, FeedAnswers
<1>7. ASSUME NEW c \in Clients, Refuses(c) PROVE FeedInv'
  <2>1. CASE Answered(c, "expired")
    BY <1>7, <2>1, AnsweredKeeps DEF Refuses, FeedAnswers
  <2>2. CASE Answered(c, "conflict")
    BY <1>7, <2>2, AnsweredKeeps DEF Refuses, FeedAnswers
  <2> QED
    BY <1>7, <2>1, <2>2 DEF Refuses
<1> QED
  BY <1>1, <1>2, <1>3, <1>4, <1>5, <1>6, <1>7 DEF FeedNext

(* Whatever answers are lost and events are removed, for every number of        *)
(* clients, commands and events and every size of a page: a command takes       *)
(* effect at most once and never after it was refused, no update is lost, and   *)
(* a follower misses nothing unknowingly (control.py command, control_store.py  *)
(* append_event, prune_events, events).                                         *)
THEOREM FeedKeepsSafety == FeedSpec => FeedSafety
<1>1. FeedInit => FeedInv
  BY FeedInitHolds
<1>2. FeedInv /\ [FeedNext]_feedVars => FeedInv'
  BY FeedStep
<1>3. FeedInv => FeedTypeOK /\ RefusedWasNotApplied /\ NoUpdateLost /\ NoSilentGap
  BY FeedInvImplies
<1> QED
  BY <1>1, <1>2, <1>3, PTL DEF FeedSpec, FeedSafety

-----------------------------------------------------------------------------
(* The pools of plugins.                                                   *)

(* All units of an execution have this status.                              *)
AllUnits(i, status) == \A p \in Pools : res[i][p] = status

(* The reservation, the run, its worker and the job belong together: what a  *)
(* run without a job may give back, what one with a job must keep.           *)
ExecInv(i) ==
  /\ i \notin Managed => act[i] = "none"
  /\ i \in Managed /\ act[i] = "none" => run[i] = "none"
  /\ run[i] = "none" => /\ remote[i] = "none" /\ work[i] = "none"
                        /\ act[i] = "none" => AllUnits(i, "none")
                        /\ act[i] = "open" => AllUnits(i, "held")
                        /\ act[i] = "closed" => AllUnits(i, "released")
  /\ run[i] = "queued" => AllUnits(i, "held") /\ remote[i] = "none" /\ work[i] = "none"
  /\ run[i] = "active" => AllUnits(i, "held")
  /\ run[i] = "pending" => AllUnits(i, "uncertain") /\ work[i] = "none"
  /\ run[i] = "ended" => \/ AllUnits(i, "released") /\ remote[i] = "none" /\ work[i] = "none"
                         \/ AllUnits(i, "committed") /\ remote[i] # "working" /\ work[i] # "ready"
  /\ unsent[i] => run[i] = "queued" \/ (run[i] = "ended" /\ AllUnits(i, "released"))
  /\ work[i] = "ready" => remote[i] = "none" /\ plan[i] = conf
  /\ work[i] = "done" /\ got[i] # "unknown" => remote[i] # "working"

(* A run is bound to the identity of its conversation.                       *)
BoundInv == \A i \in Execs : run[i] # "none" => lock[ConvOf[i]] # 0 /\ SameLock(lock[ConvOf[i]], plan[i])

(* What was ever taken of a pool is finite, and within its limits.           *)
Charged(p) == {i \in Execs : res[i][p] \in Taken \cup {"committed"}}
LedgerInv == (\A p \in Pools : IsFiniteSet(Charged(p))) /\ PoolsBounded

PoolInv ==
  /\ PoolTypeOK /\ LatchEnforced /\ BoundInv /\ LedgerInv
  /\ \A i \in Execs : ExecInv(i)

LEMMA PoolInvImplies ==
  PoolInv => /\ PoolTypeOK /\ ReleasedNeverRan /\ WorkingHolds
             /\ PoolsBounded /\ LatchEnforced /\ ConversationKeepsIdentity
<1> SUFFICES ASSUME PoolInv PROVE ReleasedNeverRan /\ WorkingHolds /\ ConversationKeepsIdentity
  BY DEF PoolInv, LedgerInv
<1>1. ASSUME NEW i \in Execs, NEW p \in Pools, res[i][p] \in {"none", "released"} PROVE remote[i] = "none"
  BY <1>1 DEF PoolInv, PoolTypeOK, ExecInv, AllUnits
<1>2. ASSUME NEW i \in Execs, NEW p \in Pools,
             remote[i] = "working" \/ run[i] \in {"queued", "active", "pending"}
      PROVE  res[i][p] \in Taken
  <2>1. run[i] \in {"none", "queued", "active", "pending", "ended"} /\ ExecInv(i)
    BY DEF PoolInv, PoolTypeOK
  <2> QED
    BY <1>2, <2>1 DEF ExecInv, AllUnits, Taken
<1>3. ConversationKeepsIdentity
  BY DEF PoolInv, BoundInv, SameLock, ConversationKeepsIdentity
<1> QED
  BY <1>1, <1>2, <1>3 DEF ReleasedNeverRan, WorkingHolds

-----------------------------------------------------------------------------
(* What settling and admitting make of the reservations.                    *)

LEMMA SettledIs ==
  ASSUME PoolTypeOK, NEW i \in Execs, NEW free \in BOOLEAN, res' = Settled(i, free)
  PROVE  /\ res' \in [Execs -> [Pools -> {"none", "released", "committed"} \cup Taken]]
         /\ \A j \in Execs \ {i} : res'[j] = res[j]
         /\ \A p \in Pools : res'[i][p] = IF free \/ res[i][p] = "released" THEN "released" ELSE "committed"
BY DEF PoolTypeOK, Settled, Taken

LEMMA AdmitIs ==
  ASSUME PoolTypeOK, NEW i \in Execs, res' = Admit(i)
  PROVE  /\ res' \in [Execs -> [Pools -> {"none", "released", "committed"} \cup Taken]]
         /\ \A j \in Execs \ {i} : res'[j] = res[j]
         /\ \A p \in Pools : res'[i][p] = "held"
BY DEF PoolTypeOK, Admit, Taken

LEMMA UncertainIs ==
  ASSUME PoolTypeOK, NEW i \in Execs, res' = Uncertain(i)
  PROVE  /\ res' \in [Execs -> [Pools -> {"none", "released", "committed"} \cup Taken]]
         /\ \A j \in Execs \ {i} : res'[j] = res[j]
         /\ \A p \in Pools : res'[i][p] = "uncertain"
BY DEF PoolTypeOK, Uncertain, Taken

(* A ledger in which nothing is taken that was not, is within its limits.    *)
LEMMA LedgerShrinks ==
  ASSUME LedgerInv,
         \A j \in Execs, p \in Pools :
           /\ res'[j][p] \in Taken => res[j][p] \in Taken
           /\ res'[j][p] \in Taken \cup {"committed"} => /\ res[j][p] \in Taken \cup {"committed"}
                                                         /\ plan'[j] = plan[j]
  PROVE  LedgerInv'
<1>1. ASSUME NEW p \in Pools PROVE IsFiniteSet(Charged(p)')
  <2>1. Charged(p)' \in SUBSET Charged(p)
    BY DEF Charged
  <2> QED
    BY <2>1, FS_Subset DEF LedgerInv
<1>2. ASSUME NEW p \in Pools, NEW r \in Revs
      PROVE  \E s \in Revs : /\ Conf[s].window = Conf[r].window
                             /\ Cardinality(InWindow(p, Conf[r].window)') <= Conf[s].limit[p]
  <2>1. PICK s \in Revs : /\ Conf[s].window = Conf[r].window
                          /\ Cardinality(InWindow(p, Conf[r].window)) <= Conf[s].limit[p]
    BY DEF LedgerInv, PoolsBounded
  <2>2. InWindow(p, Conf[r].window)' \in SUBSET InWindow(p, Conf[r].window)
    BY DEF InWindow
  <2>3. InWindow(p, Conf[r].window) \in SUBSET Charged(p) /\ IsFiniteSet(Charged(p))
    BY DEF InWindow, Charged, LedgerInv
  <2>4. IsFiniteSet(InWindow(p, Conf[r].window))
    BY <2>3, FS_Subset
  <2>5. Cardinality(InWindow(p, Conf[r].window)') <= Cardinality(InWindow(p, Conf[r].window))
        /\ IsFiniteSet(InWindow(p, Conf[r].window)')
    BY <2>2, <2>4, FS_Subset
  <2>6. Cardinality(InWindow(p, Conf[r].window)') \in Nat /\ Cardinality(InWindow(p, Conf[r].window)) \in Nat
    BY <2>4, <2>5, FS_CardinalityType
  <2>7. Conf[s].limit[p] \in Nat
    BY PluginPoolsAssumption
  <2>8. Cardinality(InWindow(p, Conf[r].window)') <= Conf[s].limit[p]
    BY <2>1, <2>5, <2>6, <2>7
  <2> QED
    BY <2>1, <2>8
<1>3. ASSUME NEW p \in Pools PROVE \E s \in Revs : Cardinality(InFlight(p)') <= Conf[s].most
  <2>1. PICK s \in Revs : Cardinality(InFlight(p)) <= Conf[s].most
    BY DEF LedgerInv, PoolsBounded
  <2>2. InFlight(p)' \in SUBSET InFlight(p)
    BY DEF InFlight
  <2>3. InFlight(p) \in SUBSET Charged(p) /\ IsFiniteSet(Charged(p))
    BY DEF InFlight, Charged, LedgerInv
  <2>4. IsFiniteSet(InFlight(p))
    BY <2>3, FS_Subset
  <2>5. Cardinality(InFlight(p)') <= Cardinality(InFlight(p)) /\ IsFiniteSet(InFlight(p)')
    BY <2>2, <2>4, FS_Subset
  <2>6. Cardinality(InFlight(p)') \in Nat /\ Cardinality(InFlight(p)) \in Nat
    BY <2>4, <2>5, FS_CardinalityType
  <2>7. Conf[s].most \in Nat
    BY PluginPoolsAssumption
  <2>8. Cardinality(InFlight(p)') <= Conf[s].most
    BY <2>1, <2>5, <2>6, <2>7
  <2> QED
    BY <2>8
<1>4. PoolsBounded'
  BY <1>2, <1>3 DEF PoolsBounded
<1> QED
  BY <1>1, <1>4 DEF LedgerInv

(* An admission takes what fits.                                            *)
LEMMA LedgerAdmits ==
  ASSUME PoolTypeOK, LedgerInv, NEW i \in Execs, AllUnits(i, "none"), Fits(conf),
         res' = Admit(i), plan' = [plan EXCEPT ![i] = conf]
  PROVE  LedgerInv'
<1>1. /\ \A j \in Execs \ {i} : res'[j] = res[j] /\ plan'[j] = plan[j]
      /\ \A p \in Pools : res'[i][p] = "held"
      /\ plan'[i] = conf /\ conf \in Revs
  BY AdmitIs DEF PoolTypeOK
<1>2. ASSUME NEW p \in Pools
      PROVE  /\ IsFiniteSet(Charged(p)')
             /\ IsFiniteSet(InFlight(p)) /\ InFlight(p)' = InFlight(p) \cup {i}
  <2>1. Charged(p)' = Charged(p) \cup {i} /\ InFlight(p)' = InFlight(p) \cup {i}
    BY <1>1 DEF Charged, InFlight, Taken
  <2>2. InFlight(p) \in SUBSET Charged(p)
    BY DEF InFlight, Charged
  <2> QED
    BY <2>1, <2>2, FS_AddElement, FS_Subset DEF LedgerInv
<1>3. ASSUME NEW p \in Pools, NEW r \in Revs
      PROVE  \E s \in Revs : /\ Conf[s].window = Conf[r].window
                             /\ Cardinality(InWindow(p, Conf[r].window)') <= Conf[s].limit[p]
  <2>1. CASE Conf[r].window = Conf[conf].window
    <3> DEFINE W == InWindow(p, Conf[conf].window)
    <3>1. InWindow(p, Conf[r].window)' = W \cup {i}
      BY <1>1, <2>1 DEF InWindow, AllUnits, Taken
    <3>3. IsFiniteSet(W)
      <4>1. W \in SUBSET Charged(p) /\ IsFiniteSet(Charged(p))
        BY DEF InWindow, Charged, LedgerInv
      <4> QED
        BY <4>1, FS_Subset
    <3>4. Cardinality(W) < Conf[conf].limit[p]
      BY DEF Fits
    <3> HIDE DEF W
    <3>5. /\ Cardinality(W) \in Nat
          /\ Cardinality(W \cup {i}) = IF i \in W THEN Cardinality(W) ELSE Cardinality(W) + 1
      BY <3>3, FS_AddElement, FS_CardinalityType
    <3>6. Conf[conf].limit[p] \in Nat
      BY <1>1, PluginPoolsAssumption
    <3>7. Cardinality(W \cup {i}) <= Conf[conf].limit[p]
      BY <3>4, <3>5, <3>6
    <3> QED
      BY <1>1, <2>1, <3>1, <3>7
  <2>2. CASE Conf[r].window # Conf[conf].window
    <3>1. InWindow(p, Conf[r].window)' = InWindow(p, Conf[r].window)
      BY <1>1, <2>2 DEF InWindow, AllUnits, Taken
    <3> QED
      BY <3>1 DEF LedgerInv, PoolsBounded
  <2> QED
    BY <2>1, <2>2
<1>4. ASSUME NEW p \in Pools PROVE \E s \in Revs : Cardinality(InFlight(p)') <= Conf[s].most
  <2>1. Cardinality(InFlight(p)) < Conf[conf].most /\ Conf[conf].most \in Nat
    BY <1>1, PluginPoolsAssumption DEF Fits
  <2>2. /\ Cardinality(InFlight(p)) \in Nat
        /\ Cardinality(InFlight(p)') = IF i \in InFlight(p) THEN Cardinality(InFlight(p)) ELSE Cardinality(InFlight(p)) + 1
    BY <1>2, FS_AddElement, FS_CardinalityType
  <2>3. Cardinality(InFlight(p)') <= Conf[conf].most
    BY <2>1, <2>2
  <2> QED
    BY <1>1, <2>3
<1>5. PoolsBounded'
  BY <1>3, <1>4 DEF PoolsBounded
<1> QED
  BY <1>2, <1>5 DEF LedgerInv

(* What leaves runs, plans and locks alone keeps conversations bound.        *)
LEMMA BoundStays ==
  ASSUME BoundInv, lock' = lock,
         \A j \in Execs : run'[j] # "none" => run[j] # "none" /\ plan'[j] = plan[j]
  PROVE  BoundInv'
BY DEF BoundInv, SameLock

(* A submitted run is bound to its conversation, or binds it.                *)
LEMMA BoundBinds ==
  ASSUME PoolTypeOK, BoundInv, NEW i \in Execs, LockFits(ConvOf[i], conf), lock' = LockBound(i, conf),
         plan'[i] = conf, \A j \in Execs \ {i} : run'[j] = run[j] /\ plan'[j] = plan[j]
  PROVE  BoundInv'
<1>1. conf \in Revs /\ conf \in Nat /\ conf # 0 /\ ConvOf \in [Execs -> Convs] /\ lock \in [Convs -> Revs \cup {0}]
  BY PluginPoolsAssumption DEF PoolTypeOK
<1>2. /\ lock'[ConvOf[i]] = IF lock[ConvOf[i]] = 0 THEN conf ELSE lock[ConvOf[i]]
      /\ \A c \in Convs \ {ConvOf[i]} : lock'[c] = lock[c]
  BY <1>1 DEF LockBound
<1>3. ASSUME NEW j \in Execs, run'[j] # "none"
      PROVE  lock'[ConvOf[j]] # 0 /\ Conf[lock'[ConvOf[j]]] = Conf[plan'[j]]
  <2>1. CASE j = i
    BY <1>1, <1>2, <2>1 DEF LockFits, SameLock
  <2>2. CASE j # i
    <3>1. lock[ConvOf[j]] # 0 /\ Conf[lock[ConvOf[j]]] = Conf[plan[j]]
      BY <1>3, <2>2 DEF BoundInv, SameLock
    <3>2. lock'[ConvOf[j]] = lock[ConvOf[j]]
      BY <1>1, <1>2, <3>1
    <3> QED
      BY <2>2, <3>1, <3>2
  <2> QED
    BY <2>1, <2>2
<1> QED
  BY <1>3 DEF BoundInv, SameLock

-----------------------------------------------------------------------------
(* Steps.                                                                   *)

SettledKept == \A i \in Execs, p \in Pools : res[i][p] \in {"released", "committed"} => res'[i][p] = res[i][p]
AsPlanned == \A i \in Execs : remote[i] = "none" /\ remote'[i] # "none" => plan[i] = conf /\ disk = Conf[plan[i]].id
NotExhausted ==
  \A i \in Execs, j \in spent :
    run[i] = "queued" /\ run'[i] = "active" => Conf[plan[j]].window # Conf[plan[i]].window
PoolStepOK == PoolInv' /\ SettledKept /\ AsPlanned /\ NotExhausted

SameExec(j) ==
  /\ plan'[j] = plan[j] /\ res'[j] = res[j] /\ run'[j] = run[j] /\ work'[j] = work[j] /\ got'[j] = got[j]
  /\ remote'[j] = remote[j] /\ act'[j] = act[j] /\ unsent'[j] = unsent[j]

LEMMA SameExecKeeps ==
  ASSUME NEW j, ExecInv(j), SameExec(j), conf' = conf
  PROVE  ExecInv(j)'
BY DEF ExecInv, SameExec, AllUnits

(* A step of one execution.                                                  *)
LEMMA OneExecSteps ==
  ASSUME PoolInv, NEW i \in Execs, PoolTypeOK', conf' = conf, UNCHANGED latchVars,
         \A j \in Execs \ {i} : SameExec(j), ExecInv(i)', BoundInv', LedgerInv',
         \A p \in Pools : res[i][p] \in {"released", "committed"} => res'[i][p] = res[i][p],
         remote[i] = "none" => remote'[i] = "none" \/ (plan[i] = conf /\ disk = Conf[plan[i]].id),
         run'[i] = "active" => \/ run[i] # "queued"
                               \/ \A j \in spent : Conf[plan[j]].window # Conf[plan[i]].window
  PROVE  PoolStepOK
<1>1. \A j \in Execs : ExecInv(j)'
  BY SameExecKeeps DEF PoolInv
<1>2. LatchEnforced'
  BY DEF PoolInv, LatchEnforced, latchVars
<1>3. SettledKept /\ AsPlanned /\ NotExhausted
  BY DEF SettledKept, AsPlanned, NotExhausted, SameExec
<1> QED
  BY <1>1, <1>2, <1>3 DEF PoolStepOK, PoolInv

LEMMA PrepareSteps ==
  ASSUME PoolInv, NEW i \in Execs, Prepare(i)
  PROVE  PoolStepOK
<1>1. PoolTypeOK /\ ExecInv(i) /\ conf \in Revs
  BY DEF PoolInv, PoolTypeOK
<1>2. run[i] = "none" /\ act[i] = "none" /\ AllUnits(i, "none")
  BY <1>1 DEF Prepare, ExecInv
<1>3. plan'[i] = conf /\ \A j \in Execs \ {i} : plan'[j] = plan[j]
  BY <1>1 DEF Prepare, PoolTypeOK
<1>4. PoolTypeOK'
  BY <1>1 DEF Prepare, PoolTypeOK, worldVars, latchVars, workVars, actVars
<1>5. ExecInv(i)' /\ \A j \in Execs \ {i} : SameExec(j)
  BY <1>1, <1>2, <1>3 DEF Prepare, ExecInv, AllUnits, SameExec, workVars, actVars
<1>6. BoundInv'
  BY <1>2, <1>3, BoundStays DEF Prepare, PoolInv
<1>7. LedgerInv'
  BY <1>2, <1>3, LedgerShrinks DEF Prepare, PoolInv, AllUnits, Taken
<1> QED
  BY <1>2, <1>4, <1>5, <1>6, <1>7, OneExecSteps DEF Prepare, AllUnits, worldVars, workVars

LEMMA StartActionSteps ==
  ASSUME PoolInv, NEW i \in Execs, StartAction(i)
  PROVE  PoolStepOK
<1>1. PoolTypeOK /\ ExecInv(i) /\ conf \in Revs
  BY DEF PoolInv, PoolTypeOK
<1>2. run[i] = "none" /\ act[i] = "none" /\ AllUnits(i, "none") /\ i \in Managed
  BY <1>1 DEF StartAction, ExecInv
<1>3. /\ plan'[i] = conf /\ act'[i] = "open" /\ \A p \in Pools : res'[i][p] = "held"
      /\ \A j \in Execs \ {i} : plan'[j] = plan[j] /\ act'[j] = act[j] /\ res'[j] = res[j]
      /\ UNCHANGED <<run, work, got, remote, unsent, lock, worldVars, latchVars>>
  BY <1>1, AdmitIs DEF StartAction, PoolTypeOK, workVars
<1>4. PoolTypeOK'
  BY <1>1, AdmitIs DEF StartAction, PoolTypeOK, worldVars, latchVars, workVars
<1>5. ExecInv(i)' /\ \A j \in Execs \ {i} : SameExec(j)
  BY <1>1, <1>2, <1>3 DEF ExecInv, AllUnits, SameExec
<1>6. BoundInv'
  BY <1>2, <1>3, BoundStays DEF PoolInv
<1>7. LedgerInv'
  BY <1>2, LedgerAdmits DEF StartAction, PoolInv
<1> QED
  BY <1>2, <1>3, <1>4, <1>5, <1>6, <1>7, OneExecSteps DEF AllUnits, worldVars

LEMMA SubmitManagedSteps ==
  ASSUME PoolInv, NEW i \in Execs, SubmitManaged(i)
  PROVE  PoolStepOK
<1>1. PoolTypeOK /\ ExecInv(i) /\ plan[i] = conf /\ run[i] = "none" /\ act[i] = "open"
  BY DEF PoolInv, SubmitManaged, Asserted
<1>2. /\ run'[i] = "queued" /\ \A j \in Execs \ {i} : run'[j] = run[j]
      /\ UNCHANGED <<plan, res, work, got, remote, act, unsent, worldVars, latchVars>>
  BY <1>1 DEF SubmitManaged, PoolTypeOK, workVars, actVars
<1>3. PoolTypeOK'
  BY <1>1, PluginPoolsAssumption DEF SubmitManaged, LockBound, PoolTypeOK, worldVars, latchVars, workVars, actVars
<1>4. ExecInv(i)' /\ \A j \in Execs \ {i} : SameExec(j)
  BY <1>1, <1>2 DEF ExecInv, AllUnits, SameExec
<1>5. BoundInv'
  BY <1>1, <1>2, BoundBinds DEF SubmitManaged, PoolInv
<1>6. LedgerInv'
  BY <1>2, LedgerShrinks DEF PoolInv
<1> QED
  BY <1>2, <1>3, <1>4, <1>5, <1>6, OneExecSteps DEF worldVars

LEMMA SubmitDirectSteps ==
  ASSUME PoolInv, NEW i \in Execs, SubmitDirect(i)
  PROVE  PoolStepOK
<1>1. PoolTypeOK /\ ExecInv(i) /\ conf \in Revs /\ run[i] = "none" /\ i \notin Managed
  BY DEF PoolInv, PoolTypeOK, SubmitDirect
<1>2. act[i] = "none" /\ AllUnits(i, "none") /\ ~unsent[i]
  BY <1>1 DEF ExecInv
<1>3. /\ plan'[i] = conf /\ run'[i] = "queued" /\ \A p \in Pools : res'[i][p] = "held"
      /\ \A j \in Execs \ {i} : plan'[j] = plan[j] /\ run'[j] = run[j] /\ res'[j] = res[j]
      /\ UNCHANGED <<work, got, remote, act, unsent, worldVars, latchVars>>
  BY <1>1, AdmitIs DEF SubmitDirect, PoolTypeOK, workVars, actVars
<1>4. PoolTypeOK'
  BY <1>1, AdmitIs, PluginPoolsAssumption
  DEF SubmitDirect, LockBound, PoolTypeOK, worldVars, latchVars, workVars, actVars
<1>5. ExecInv(i)' /\ \A j \in Execs \ {i} : SameExec(j)
  BY <1>1, <1>2, <1>3 DEF ExecInv, AllUnits, SameExec
<1>6. BoundInv'
  BY <1>1, <1>3, BoundBinds DEF SubmitDirect, PoolInv
<1>7. LedgerInv'
  BY <1>2, LedgerAdmits DEF SubmitDirect, PoolInv
<1> QED
  BY <1>2, <1>3, <1>4, <1>5, <1>6, <1>7, OneExecSteps DEF AllUnits, worldVars

LEMMA DenyActionSteps ==
  ASSUME PoolInv, NEW i \in Execs, DenyAction(i)
  PROVE  PoolStepOK
<1>1. PoolTypeOK /\ ExecInv(i) /\ run[i] = "none" /\ act[i] = "open"
  BY DEF PoolInv, DenyAction
<1>2. AllUnits(i, "held") /\ i \in Managed
  BY <1>1 DEF ExecInv
<1>3. /\ act'[i] = "closed" /\ \A p \in Pools : res'[i][p] = "released"
      /\ \A j \in Execs \ {i} : act'[j] = act[j] /\ res'[j] = res[j]
      /\ UNCHANGED <<plan, run, work, got, remote, unsent, lock, worldVars, latchVars>>
  <2>1. res' = Settled(i, TRUE) /\ act' = [act EXCEPT ![i] = "closed"]
    BY DEF DenyAction
  <2>2. /\ \A j \in Execs \ {i} : res'[j] = res[j]
        /\ \A p \in Pools : res'[i][p] = "released"
    BY <1>1, <2>1, SettledIs
  <2> QED
    BY <1>1, <2>1, <2>2 DEF DenyAction, PoolTypeOK, workVars
<1>4. PoolTypeOK'
  BY <1>1, SettledIs DEF DenyAction, PoolTypeOK, worldVars, latchVars, workVars
<1>5. ExecInv(i)' /\ \A j \in Execs \ {i} : SameExec(j)
  BY <1>1, <1>2, <1>3 DEF ExecInv, AllUnits, SameExec
<1>6. BoundInv'
  BY <1>3, BoundStays DEF PoolInv
<1>7. LedgerInv'
  BY <1>3, LedgerShrinks DEF PoolInv, Taken
<1> QED
  BY <1>1, <1>2, <1>3, <1>4, <1>5, <1>6, <1>7, OneExecSteps DEF AllUnits, worldVars

LEMMA MarkUnsentSteps ==
  ASSUME PoolInv, NEW i \in Execs, MarkUnsent(i)
  PROVE  PoolStepOK
<1>1. PoolTypeOK /\ ExecInv(i) /\ run[i] = "queued" /\ act[i] = "open"
  BY DEF PoolInv, MarkUnsent
<1>2. /\ unsent'[i] = TRUE /\ \A j \in Execs \ {i} : unsent'[j] = unsent[j]
      /\ UNCHANGED <<plan, res, run, work, got, remote, act, lock, worldVars, latchVars>>
  BY <1>1 DEF MarkUnsent, PoolTypeOK, workVars
<1>3. PoolTypeOK'
  BY <1>1 DEF MarkUnsent, PoolTypeOK, worldVars, latchVars, workVars
<1>4. ExecInv(i)'
  BY <1>1, <1>2 DEF ExecInv, AllUnits, worldVars
<1>5. \A j \in Execs \ {i} : SameExec(j)
  BY <1>2 DEF SameExec
<1>6. BoundInv' /\ LedgerInv'
  BY <1>2, BoundStays, LedgerShrinks DEF PoolInv
<1> QED
  BY <1>1, <1>2, <1>3, <1>4, <1>5, <1>6, OneExecSteps DEF worldVars

(* Closing an Action settles once more: nothing was charged if the run was    *)
(* marked as not delivered.                                                   *)
LEMMA CloseActionSteps ==
  ASSUME PoolInv, NEW i \in Execs, CloseAction(i)
  PROVE  PoolStepOK
<1>1. PoolTypeOK /\ ExecInv(i) /\ run[i] = "ended" /\ act[i] = "open" /\ unsent[i] \in BOOLEAN
  BY DEF PoolInv, CloseAction, PoolTypeOK
<1>2. /\ act'[i] = "closed"
      /\ \A p \in Pools : res'[i][p] = IF unsent[i] \/ res[i][p] = "released" THEN "released" ELSE "committed"
      /\ \A j \in Execs \ {i} : act'[j] = act[j] /\ res'[j] = res[j]
      /\ UNCHANGED <<plan, run, work, got, remote, unsent, lock, worldVars, latchVars>>
  BY <1>1, SettledIs DEF CloseAction, PoolTypeOK, workVars
<1>3. \A p \in Pools : res'[i][p] = res[i][p]
  BY <1>1, <1>2 DEF ExecInv, AllUnits
<1>4. PoolTypeOK'
  BY <1>1, SettledIs DEF CloseAction, PoolTypeOK, worldVars, latchVars, workVars
<1>5. ExecInv(i)' /\ \A j \in Execs \ {i} : SameExec(j)
  BY <1>1, <1>2, <1>3 DEF ExecInv, AllUnits, SameExec
<1>6. BoundInv' /\ LedgerInv'
  BY <1>2, <1>3, BoundStays, LedgerShrinks DEF PoolInv
<1> QED
  BY <1>1, <1>2, <1>3, <1>4, <1>5, <1>6, OneExecSteps DEF worldVars

LEMMA EndTypes ==
  ASSUME PoolTypeOK, NEW i \in Execs, NEW called \in BOOLEAN, End(i, called)
  PROVE  /\ run' \in [Execs -> {"none", "queued", "active", "pending", "ended"}]
         /\ res' \in [Execs -> [Pools -> {"none", "released", "committed"} \cup Taken]]
BY DEF End, Settled, PoolTypeOK, Taken

(* The end of a run, in the same transaction as its settlement.              *)
LEMMA EndSteps ==
  ASSUME PoolInv, NEW i \in Execs, NEW called \in BOOLEAN, End(i, called), PoolTypeOK',
         run[i] \in {"queued", "active", "pending"}, ~called => run[i] = "queued",
         unsent[i] => ~called,
         remote'[i] # "working", work'[i] # "ready", ~called => work'[i] = "none", ~called => remote'[i] = "none",
         remote[i] = "none" => remote'[i] = "none",
         \A j \in Execs \ {i} : work'[j] = work[j] /\ got'[j] = got[j] /\ remote'[j] = remote[j],
         UNCHANGED <<worldVars, latchVars, plan, actVars, lock>>
  PROVE  PoolStepOK
<1>1. PoolTypeOK /\ ExecInv(i)
  BY DEF PoolInv
<1>2. /\ run'[i] = "ended" /\ \A j \in Execs \ {i} : run'[j] = run[j] /\ res'[j] = res[j]
      /\ \A p \in Pools : res'[i][p] = IF ~called \/ res[i][p] = "released" THEN "released" ELSE "committed"
  <2> DEFINE free == ~called
  <2>1. res' = Settled(i, free) /\ free \in BOOLEAN /\ run' = [run EXCEPT ![i] = "ended"]
    BY DEF End
  <2> HIDE DEF free
  <2>2. /\ \A j \in Execs \ {i} : res'[j] = res[j]
        /\ \A p \in Pools : res'[i][p] = IF free \/ res[i][p] = "released" THEN "released" ELSE "committed"
    BY <1>1, <2>1, SettledIs
  <2> QED
    BY <1>1, <2>1, <2>2 DEF PoolTypeOK, free
<1>3. \A p \in Pools : res[i][p] \in Taken
  BY <1>1 DEF ExecInv, AllUnits, Taken
<1>4. \A p \in Pools : res'[i][p] = IF called THEN "committed" ELSE "released"
  BY <1>2, <1>3 DEF Taken
<1>5. ExecInv(i)'
  <2>1. CASE called
    BY <1>1, <1>2, <1>4, <2>1 DEF ExecInv, AllUnits, actVars, worldVars
  <2>2. CASE ~called
    BY <1>1, <1>2, <1>4, <2>2 DEF ExecInv, AllUnits, actVars, worldVars
  <2> QED
    BY <2>1, <2>2
<1>6. \A j \in Execs \ {i} : SameExec(j)
  BY <1>2 DEF SameExec, actVars
<1>7. BoundInv'
  BY <1>2, BoundStays DEF PoolInv
<1>8. LedgerInv'
  BY <1>2, <1>3, <1>4, LedgerShrinks DEF PoolInv, Taken
<1> QED
  BY <1>2, <1>3, <1>5, <1>6, <1>7, <1>8, OneExecSteps DEF worldVars, Taken

LEMMA DispatchSteps ==
  ASSUME PoolInv, NEW i \in Execs, Dispatch(i)
  PROVE  PoolStepOK
<1>1. PoolTypeOK /\ ExecInv(i) /\ run[i] = "queued" /\ ~unsent[i] /\ plan[i] = conf
  BY DEF PoolInv, Dispatch, Asserted
<1>2. /\ run'[i] = "active" /\ work'[i] = "ready"
      /\ \A j \in Execs \ {i} : run'[j] = run[j] /\ work'[j] = work[j]
      /\ UNCHANGED <<plan, res, got, remote, act, unsent, lock, worldVars, latchVars>>
  BY <1>1 DEF Dispatch, PoolTypeOK, actVars
<1>3. PoolTypeOK'
  BY <1>1 DEF Dispatch, PoolTypeOK, worldVars, latchVars, actVars
<1>4. ExecInv(i)' /\ \A j \in Execs \ {i} : SameExec(j)
  BY <1>1, <1>2 DEF ExecInv, AllUnits, SameExec, worldVars
<1>5. BoundInv' /\ LedgerInv'
  BY <1>1, <1>2, BoundStays, LedgerShrinks DEF PoolInv
<1>6. \A j \in spent : Conf[plan[j]].window # Conf[plan[i]].window
  BY DEF Dispatch, Exhausted
<1> QED
  BY <1>2, <1>3, <1>4, <1>5, <1>6, OneExecSteps DEF worldVars

LEMMA DispatchRefusedSteps ==
  ASSUME PoolInv, NEW i \in Execs, DispatchRefused(i)
  PROVE  PoolStepOK
<1>1. PoolTypeOK /\ ExecInv(i) /\ run[i] = "queued"
  BY DEF PoolInv, DispatchRefused
<1>2. remote[i] = "none" /\ work[i] = "none"
  BY <1>1 DEF ExecInv
<1>3. End(i, FALSE) /\ UNCHANGED <<worldVars, latchVars, plan, work, got, remote, act, unsent, spent, lock>>
  BY DEF DispatchRefused, workVars, actVars
<1>4. PoolTypeOK'
  BY <1>1, <1>3, SettledIs DEF End, PoolTypeOK, worldVars, latchVars
<1> QED
  BY <1>1, <1>2, <1>3, <1>4, EndSteps DEF actVars

LEMMA WorkerStartSteps ==
  ASSUME PoolInv, NEW i \in Execs, WorkerStart(i)
  PROVE  PoolStepOK
<1>1. /\ PoolTypeOK /\ ExecInv(i) /\ work[i] = "ready" /\ run[i] \in {"none", "queued", "active", "pending", "ended"}
  BY DEF PoolInv, PoolTypeOK, WorkerStart
<1>2. run[i] = "active" /\ remote[i] = "none" /\ plan[i] = conf /\ AllUnits(i, "held")
  BY <1>1 DEF ExecInv
<1>3. /\ \A j \in Execs \ {i} : work'[j] = work[j] /\ got'[j] = got[j] /\ remote'[j] = remote[j]
      /\ \/ /\ work'[i] = "sent" /\ remote'[i] = "working" /\ disk = Conf[conf].id
         \/ work'[i] = "done" /\ remote'[i] = "none"
      /\ UNCHANGED <<plan, res, run, act, unsent, lock, worldVars, latchVars>>
  BY <1>1, <1>2 DEF WorkerStart, PoolTypeOK, Installed, actVars
<1>4. PoolTypeOK'
  BY <1>1 DEF WorkerStart, PoolTypeOK, worldVars, latchVars, actVars
<1>5. ExecInv(i)' /\ \A j \in Execs \ {i} : SameExec(j)
  BY <1>1, <1>2, <1>3 DEF ExecInv, AllUnits, SameExec
<1>6. BoundInv' /\ LedgerInv'
  BY <1>3, BoundStays, LedgerShrinks DEF PoolInv
<1> QED
  BY <1>2, <1>3, <1>4, <1>5, <1>6, OneExecSteps DEF worldVars

LEMMA RemoteEndsSteps ==
  ASSUME PoolInv, NEW i \in Execs, RemoteEnds(i)
  PROVE  PoolStepOK
<1>1. PoolTypeOK /\ ExecInv(i) /\ remote[i] = "working"
  BY DEF PoolInv, RemoteEnds
<1>2. /\ \A j \in Execs \ {i} : remote'[j] = remote[j]
      /\ remote'[i] \in {"over", "refused"}
      /\ UNCHANGED <<plan, res, run, work, got, act, unsent, lock, worldVars, latchVars>>
  BY <1>1 DEF RemoteEnds, PoolTypeOK, actVars
<1>3. PoolTypeOK'
  BY <1>1 DEF RemoteEnds, PoolTypeOK, worldVars, latchVars, actVars
<1>4. ExecInv(i)' /\ \A j \in Execs \ {i} : SameExec(j)
  BY <1>1, <1>2 DEF ExecInv, AllUnits, SameExec
<1>5. BoundInv' /\ LedgerInv'
  BY <1>2, BoundStays, LedgerShrinks DEF PoolInv
<1> QED
  BY <1>1, <1>2, <1>3, <1>4, <1>5, OneExecSteps DEF worldVars

LEMMA WorkerEndsSteps ==
  ASSUME PoolInv, NEW i \in Execs, WorkerEnds(i)
  PROVE  PoolStepOK
<1>1. PoolTypeOK /\ ExecInv(i) /\ work[i] = "sent"
  BY DEF PoolInv, WorkerEnds
<1>2. /\ \A j \in Execs \ {i} : work'[j] = work[j] /\ got'[j] = got[j]
      /\ work'[i] = "done" /\ (remote[i] # "working" \/ got'[i] = "unknown")
      /\ UNCHANGED <<conf, disk, plan, res, run, remote, act, unsent, lock, latchVars>>
  BY <1>1 DEF WorkerEnds, NoAnswer, PoolTypeOK, actVars
<1>3. PoolTypeOK'
  <2>1. faults' \in 0 .. MaxPluginFaults
    BY <1>1, PluginPoolsAssumption DEF WorkerEnds, PoolTypeOK
  <2>2. got' \in [Execs -> {"none", "unsent", "over", "exhausted", "unknown"}]
    BY <1>1 DEF WorkerEnds, Final, NoAnswer, PoolTypeOK
  <2>3. work' \in [Execs -> {"none", "ready", "sent", "done"}]
    BY <1>1 DEF WorkerEnds, PoolTypeOK
  <2> QED
    BY <1>1, <2>1, <2>2, <2>3 DEF WorkerEnds, PoolTypeOK, latchVars, actVars
<1>4. ExecInv(i)' /\ \A j \in Execs \ {i} : SameExec(j)
  BY <1>1, <1>2 DEF ExecInv, AllUnits, SameExec
<1>5. BoundInv' /\ LedgerInv'
  BY <1>2, BoundStays, LedgerShrinks DEF PoolInv
<1> QED
  BY <1>1, <1>2, <1>3, <1>4, <1>5, OneExecSteps

LEMMA ReportSteps ==
  ASSUME PoolInv, NEW i \in Execs, Report(i)
  PROVE  PoolStepOK
<1>1. PoolTypeOK /\ ExecInv(i) /\ work[i] = "done" /\ unsent[i] \in BOOLEAN
  BY DEF PoolInv, PoolTypeOK, Report
<1>2. /\ work'[i] = "none" /\ got'[i] = "none"
      /\ \A j \in Execs \ {i} : work'[j] = work[j] /\ got'[j] = got[j]
      /\ UNCHANGED <<plan, remote, act, unsent, lock, worldVars, latchVars>>
  BY <1>1 DEF Report, PoolTypeOK, actVars
<1>3. CASE run[i] = "active" /\ got[i] # "unknown" /\ End(i, TRUE)
           /\ spent' = IF got[i] = "exhausted" THEN spent \cup {i} ELSE spent
  <2>1. PoolTypeOK'
    <3>1. /\ spent' \subseteq Execs /\ work' \in [Execs -> {"none", "ready", "sent", "done"}]
          /\ got' \in [Execs -> {"none", "unsent", "over", "exhausted", "unknown"}]
      BY <1>1, <1>3 DEF Report, PoolTypeOK
    <3> QED
      BY <1>1, <1>2, <1>3, <3>1, EndTypes DEF PoolTypeOK, worldVars, latchVars
  <2>2. remote[i] # "working" /\ ~unsent[i]
    BY <1>1, <1>3 DEF ExecInv
  <2> QED
    BY <1>1, <1>2, <1>3, <2>1, <2>2, EndSteps DEF actVars
<1>4. CASE run[i] = "active" /\ Pend(i) /\ spent' = spent
  <2>1. PoolTypeOK'
    BY <1>1, <1>4, UncertainIs DEF Report, Pend, PoolTypeOK, worldVars, latchVars, actVars
  <2>2. /\ run'[i] = "pending" /\ \A j \in Execs \ {i} : run'[j] = run[j] /\ res'[j] = res[j]
        /\ \A p \in Pools : res'[i][p] = "uncertain"
    BY <1>1, <1>4, UncertainIs DEF Pend, PoolTypeOK
  <2>3. ExecInv(i)' /\ \A j \in Execs \ {i} : SameExec(j)
    BY <1>1, <1>2, <1>4, <2>2 DEF ExecInv, AllUnits, SameExec
  <2>4. \A p \in Pools : res[i][p] = "held"
    BY <1>1, <1>4 DEF ExecInv, AllUnits
  <2>5. BoundInv'
    BY <1>2, <1>4, <2>2, BoundStays DEF PoolInv
  <2>6. LedgerInv'
    BY <1>2, <2>2, <2>4, LedgerShrinks DEF PoolInv, Taken
  <2> QED
    BY <1>2, <2>1, <2>2, <2>3, <2>4, <2>5, <2>6, OneExecSteps DEF worldVars
<1>5. CASE run[i] # "active" /\ UNCHANGED <<run, res, spent>>
  <2>1. PoolTypeOK'
    BY <1>1, <1>5 DEF Report, PoolTypeOK, worldVars, latchVars, actVars
  <2>2. ExecInv(i)' /\ \A j \in Execs \ {i} : SameExec(j)
    BY <1>1, <1>2, <1>5 DEF ExecInv, AllUnits, SameExec
  <2>3. BoundInv' /\ LedgerInv'
    BY <1>2, <1>5, BoundStays, LedgerShrinks DEF PoolInv
  <2> QED
    BY <1>2, <1>5, <2>1, <2>2, <2>3, OneExecSteps DEF worldVars
<1> QED
  BY <1>3, <1>4, <1>5 DEF Report

LEMMA ReconcileSteps ==
  ASSUME PoolInv, NEW i \in Execs, Reconcile(i)
  PROVE  PoolStepOK
<1>1. /\ PoolTypeOK /\ ExecInv(i) /\ run[i] = "pending" /\ work[i] = "none" /\ remote[i] \in {"over", "refused"}
      /\ unsent[i] \in BOOLEAN
  BY DEF PoolInv, PoolTypeOK, Reconcile
<1>2. End(i, TRUE) /\ UNCHANGED <<worldVars, latchVars, plan, work, got, remote, act, unsent, lock>>
  BY DEF Reconcile, workVars, actVars
<1>3. PoolTypeOK'
  <2>1. spent' \subseteq Execs
    BY <1>1 DEF Reconcile, PoolTypeOK
  <2> QED
    BY <1>1, <1>2, <2>1, EndTypes DEF PoolTypeOK, worldVars, latchVars
<1>4. ~unsent[i]
  BY <1>1 DEF ExecInv
<1> QED
  BY <1>1, <1>2, <1>3, <1>4, EndSteps DEF actVars

LEMMA CancelRunSteps ==
  ASSUME PoolInv, NEW i \in Execs, CancelRun(i)
  PROVE  PoolStepOK
<1>1. /\ PoolTypeOK /\ ExecInv(i) /\ run[i] \in {"queued", "active", "pending"} /\ unsent[i] \in BOOLEAN
      /\ UNCHANGED <<worldVars, latchVars, plan, work, got, act, unsent, spent, lock>>
  BY DEF PoolInv, PoolTypeOK, CancelRun, actVars
<1>2. CASE run[i] = "queued" /\ End(i, FALSE) /\ UNCHANGED remote
  <2>1. PoolTypeOK'
    BY <1>1, <1>2, SettledIs DEF End, PoolTypeOK, worldVars, latchVars
  <2>2. remote[i] = "none" /\ work[i] = "none"
    BY <1>1, <1>2 DEF ExecInv
  <2> QED
    BY <1>1, <1>2, <2>1, <2>2, EndSteps DEF actVars
<1>3. CASE remote[i] = "working" /\ End(i, TRUE) /\ remote' = [remote EXCEPT ![i] = "over"]
  <2>1. PoolTypeOK'
    BY <1>1, <1>3, SettledIs DEF End, PoolTypeOK, worldVars, latchVars
  <2>2. run[i] # "queued" /\ work[i] # "ready" /\ ~unsent[i]
    BY <1>1, <1>3 DEF ExecInv
  <2>3. remote'[i] = "over" /\ \A j \in Execs \ {i} : remote'[j] = remote[j]
    BY <1>1, <1>3 DEF PoolTypeOK
  <2> QED
    BY <1>1, <1>3, <2>1, <2>2, <2>3, EndSteps DEF actVars
<1> QED
  BY <1>2, <1>3 DEF CancelRun

LEMMA TerminateRunSteps ==
  ASSUME PoolInv, NEW i \in Execs, TerminateRun(i)
  PROVE  PoolStepOK
<1>1. /\ PoolTypeOK /\ ExecInv(i) /\ run[i] \in {"queued", "pending"} /\ unsent[i] \in BOOLEAN
      /\ work[i] = "none" /\ remote[i] # "working"
      /\ UNCHANGED <<worldVars, latchVars, plan, work, got, remote, act, unsent, spent, lock>>
  BY DEF PoolInv, PoolTypeOK, TerminateRun, workVars, actVars
<1> DEFINE called == run[i] # "queued"
<1>2. called \in BOOLEAN /\ End(i, called)
  BY DEF TerminateRun
<1>3. PoolTypeOK'
  BY <1>1, <1>2, SettledIs DEF End, PoolTypeOK, worldVars, latchVars
<1>4. /\ ~called => run[i] = "queued" /\ remote[i] = "none"
      /\ unsent[i] => ~called
  BY <1>1 DEF ExecInv
<1> HIDE DEF called
<1> QED
  BY <1>1, <1>2, <1>3, <1>4, EndSteps DEF actVars

(* The latch and the world around the executions.                            *)
LEMMA OutsideSteps ==
  ASSUME PoolInv, UNCHANGED <<conf, plan, res, run, work, got, remote, act, unsent, spent, lock>>,
         PoolTypeOK', LatchEnforced'
  PROVE  PoolStepOK
<1>1. \A j \in Execs : SameExec(j)
  BY DEF SameExec
<1>2. \A j \in Execs : ExecInv(j)'
  BY <1>1, SameExecKeeps DEF PoolInv
<1>3. BoundInv' /\ LedgerInv'
  BY BoundStays, LedgerShrinks DEF PoolInv
<1> QED
  BY <1>2, <1>3 DEF PoolStepOK, PoolInv, SettledKept, AsPlanned, NotExhausted

LEMMA LatchSteps ==
  ASSUME PoolInv,
         \/ DisablePlugin /\ UNCHANGED <<worldVars, plan, res, run, workVars, actVars, spent, lock>>
         \/ EnablePlugin /\ UNCHANGED <<worldVars, plan, res, run, workVars, actVars, spent, lock>>
         \/ SyncLatch /\ UNCHANGED <<worldVars, plan, res, run, workVars, actVars, spent, lock>>
  PROVE  PoolStepOK
<1>1. PoolTypeOK /\ LatchEnforced /\ conf \in Revs /\ Conf[conf].id \in Ids
  BY PluginPoolsAssumption DEF PoolInv, PoolTypeOK
<1>2. UNCHANGED <<conf, disk, expired, faults, plan, res, run, work, got, remote, act, unsent, spent, lock>>
  BY DEF worldVars, workVars, actVars
<1>3. PoolTypeOK'
  BY <1>1, <1>2 DEF DisablePlugin, EnablePlugin, SyncLatch, Installed, Enabled, PoolTypeOK
<1>4. LatchEnforced'
  BY <1>1 DEF DisablePlugin, EnablePlugin, SyncLatch, Enabled, LatchEnforced, PoolTypeOK
<1> QED
  BY <1>2, <1>3, <1>4, OutsideSteps

LEMMA WorldSteps ==
  ASSUME PoolInv,
         \/ ReplaceFiles /\ UNCHANGED <<latchVars, plan, res, run, workVars, actVars, spent, lock>>
         \/ QuotaExpires /\ UNCHANGED <<latchVars, plan, res, run, workVars, actVars, spent, lock>>
  PROVE  PoolStepOK
<1>1. PoolTypeOK /\ LatchEnforced
  BY DEF PoolInv
<1>2. UNCHANGED <<conf, latch, reg, admin, plan, res, run, work, got, remote, act, unsent, spent, lock>>
  BY DEF ReplaceFiles, QuotaExpires, latchVars, workVars, actVars
<1>3. PoolTypeOK'
  BY <1>1, <1>2, PluginPoolsAssumption DEF ReplaceFiles, QuotaExpires, PoolTypeOK
<1>4. LatchEnforced'
  BY <1>1, <1>2 DEF LatchEnforced
<1> QED
  BY <1>2, <1>3, <1>4, OutsideSteps

(* After a restart what was active is of unknown outcome: it stays charged.   *)
LEMMA RestartCoreSteps ==
  ASSUME PoolInv, RestartCore
  PROVE  PoolStepOK
<1>1. PoolTypeOK
  BY DEF PoolInv
<1>2. /\ \A i \in Execs : /\ run'[i] = IF run[i] = "active" THEN "pending" ELSE run[i]
                          /\ work'[i] = "none" /\ got'[i] = "none"
      /\ UNCHANGED <<disk, expired, latch, plan, remote, act, unsent, spent, lock>>
      /\ conf' \in Revs /\ admin' = "idle" /\ reg' = (latch = 0)
  BY <1>1 DEF RestartCore, RegistryAt, PoolTypeOK, actVars
<1>3. \A i \in Execs : res'[i] = IF run[i] = "active" THEN [p \in Pools |-> "uncertain"] ELSE res[i]
  BY <1>1 DEF RestartCore, Uncertain, PoolTypeOK
<1>4. PoolTypeOK'
  <2>1. run' \in [Execs -> {"none", "queued", "active", "pending", "ended"}]
    BY <1>1 DEF RestartCore, PoolTypeOK
  <2>2. res' \in [Execs -> [Pools -> {"none", "released", "committed"} \cup Taken]]
    <3>1. res' = [i \in Execs |-> res'[i]]
      BY DEF RestartCore
    <3>2. \A i \in Execs : res'[i] \in [Pools -> {"none", "released", "committed"} \cup Taken]
      BY <1>1, <1>3 DEF PoolTypeOK, Taken
    <3> QED
      BY <3>1, <3>2
  <2>3. /\ work' \in [Execs -> {"none", "ready", "sent", "done"}]
        /\ got' \in [Execs -> {"none", "unsent", "over", "exhausted", "unknown"}]
        /\ faults' \in 0 .. MaxPluginFaults
    BY <1>1, PluginPoolsAssumption DEF RestartCore, PoolTypeOK
  <2> QED
    BY <1>1, <1>2, <2>1, <2>2, <2>3 DEF PoolTypeOK
<1>5. ASSUME NEW i \in Execs PROVE ExecInv(i)'
  <2>1. ExecInv(i) /\ run[i] \in {"none", "queued", "active", "pending", "ended"}
    BY <1>1 DEF PoolInv, PoolTypeOK
  <2>2. CASE run[i] = "active"
    <3>1. run'[i] = "pending" /\ work'[i] = "none" /\ \A p \in Pools : res'[i][p] = "uncertain"
      BY <1>2, <1>3, <2>2
    <3> QED
      BY <1>2, <2>1, <2>2, <3>1 DEF ExecInv, AllUnits
  <2>3. CASE run[i] # "active"
    <3>1. run'[i] = run[i] /\ work'[i] = "none" /\ res'[i] = res[i]
      BY <1>2, <1>3, <2>3
    <3> QED
      BY <1>2, <2>1, <2>3, <3>1 DEF ExecInv, AllUnits
  <2> QED
    BY <2>2, <2>3
<1>6. BoundInv'
  BY <1>2, BoundStays DEF PoolInv
<1>7. \A i \in Execs, p \in Pools : run[i] = "active" => res[i][p] = "held" /\ res'[i][p] = "uncertain"
  BY <1>3 DEF PoolInv, ExecInv, AllUnits
<1>8. LedgerInv'
  BY <1>2, <1>3, <1>7, LedgerShrinks DEF PoolInv, Taken
<1>9. LatchEnforced'
  BY <1>2 DEF LatchEnforced
<1>10. SettledKept /\ AsPlanned /\ NotExhausted
  BY <1>2, <1>3, <1>7 DEF SettledKept, AsPlanned, NotExhausted
<1> QED
  BY <1>4, <1>5, <1>6, <1>8, <1>9, <1>10 DEF PoolStepOK, PoolInv

LEMMA PoolInitHolds == PoolInit => PoolInv
<1> SUFFICES ASSUME PoolInit PROVE PoolInv
  OBVIOUS
<1>1. 1 \in Revs /\ Conf[1].id \in Ids
  BY PluginPoolsAssumption
<1>2. PoolTypeOK
  BY <1>1, PluginPoolsAssumption DEF PoolInit, PoolTypeOK, Taken
<1>3. \A i \in Execs : ExecInv(i)
  BY DEF PoolInit, ExecInv, AllUnits
<1>4. BoundInv /\ LatchEnforced
  BY DEF PoolInit, BoundInv, LatchEnforced
<1>5. LedgerInv
  <2>1. \A p \in Pools : Charged(p) = {} /\ InFlight(p) = {} /\ \A w : InWindow(p, w) = {}
    BY DEF PoolInit, Charged, InFlight, InWindow, Taken
  <2>2. \A r \in Revs, p \in Pools : 0 <= Conf[r].limit[p] /\ 0 <= Conf[r].most
    BY PluginPoolsAssumption
  <2>3. PoolsBounded
    BY <1>1, <2>1, <2>2, FS_EmptySet DEF PoolsBounded
  <2> QED
    BY <2>1, <2>3, FS_EmptySet DEF LedgerInv
<1> QED
  BY <1>2, <1>3, <1>4, <1>5 DEF PoolInv

LEMMA PoolStep ==
  ASSUME PoolInv, [PoolNext]_poolVars
  PROVE  PoolStepOK
<1>1. CASE UNCHANGED poolVars
  <2>1. PoolTypeOK' /\ LatchEnforced'
    BY <1>1 DEF PoolInv, PoolTypeOK, LatchEnforced, poolVars, worldVars, latchVars
  <2> QED
    BY <1>1, <2>1, OutsideSteps DEF poolVars, worldVars, latchVars
<1>2. ASSUME NEW i \in Execs, MainStep(i) PROVE PoolStepOK
  BY <1>2, PrepareSteps, StartActionSteps, SubmitManagedSteps, SubmitDirectSteps, DenyActionSteps, MarkUnsentSteps,
     CloseActionSteps, DispatchSteps, DispatchRefusedSteps, ReportSteps, ReconcileSteps, CancelRunSteps,
     TerminateRunSteps DEF MainStep
<1>3. ASSUME NEW i \in Execs, WorkerStart(i) \/ RemoteEnds(i) \/ WorkerEnds(i) PROVE PoolStepOK
  BY <1>3, WorkerStartSteps, RemoteEndsSteps, WorkerEndsSteps
<1> QED
  BY <1>1, <1>2, <1>3, LatchSteps, WorldSteps, RestartCoreSteps DEF PoolNext

(* For every number of executions, pools and configurations, on every path     *)
(* that ends an execution, over restarts, disables and new configurations:     *)
(* what is given back never ran, what may have run is charged, no pool is      *)
(* overdrawn, and what is sent is what was planned (connections/admission.py,  *)
(* plugin_store.py, plugins/).                                                 *)
THEOREM PoolsKeepSafety == PoolSpec => PoolsSafety
<1>1. PoolInit => PoolInv
  BY PoolInitHolds
<1>2. PoolInv /\ [PoolNext]_poolVars => PoolInv'
  BY PoolStep DEF PoolStepOK
<1>3. PoolInv => /\ PoolTypeOK /\ ReleasedNeverRan /\ WorkingHolds
                 /\ PoolsBounded /\ LatchEnforced /\ ConversationKeepsIdentity
  BY PoolInvImplies
<1>4. PoolInv /\ [PoolNext]_poolVars
        => [\A i \in Execs, p \in Pools :
              res[i][p] \in {"released", "committed"} => res'[i][p] = res[i][p]]_poolVars
  BY PoolStep DEF PoolStepOK, SettledKept
<1>5. PoolInv /\ [PoolNext]_poolVars
        => [\A i \in Execs :
              remote[i] = "none" /\ remote'[i] # "none" => plan[i] = conf /\ disk = Conf[plan[i]].id]_poolVars
  BY PoolStep DEF PoolStepOK, AsPlanned
<1>6. PoolInv /\ [PoolNext]_poolVars
        => [\A i \in Execs, j \in spent :
              run[i] = "queued" /\ run'[i] = "active" => Conf[plan[j]].window # Conf[plan[i]].window]_poolVars
  BY PoolStep DEF PoolStepOK, NotExhausted
<1> QED
  BY <1>1, <1>2, <1>3, <1>4, <1>5, <1>6, PTL DEF PoolSpec, PoolsSafety, SettledStays, SentAsPlanned, ExhaustedStops

-----------------------------------------------------------------------------
(* The store and its copies.                                               *)

Dbs == [version : 0 .. 2, ops : [StoreKeys -> [input : Inputs \cup {"none"}, task : TaskNos \cup {0}]],
        runs : [TaskNos -> {"none", "queued", "sent", "over"}], readable : BOOLEAN]

(* Every operation of a database has its task and run.                       *)
Whole(d) == \A k \in StoreKeys : d.ops[k] # NoOp => d.ops[k].task \in TaskNos /\ d.runs[d.ops[k].task] # "none"

(* The backend was asked for the work of this key, says the database.        *)
WasSent(d, k) == d.ops[k] # NoOp /\ d.runs[d.ops[k].task] \in {"sent", "over"}

StoreTypes ==
  /\ sdb \in Dbs /\ chosen \in Dbs /\ archives \subseteq Dbs /\ aside \subseteq Dbs
  /\ told \in [StoreKeys -> SUBSET TaskNos] /\ calls \in [StoreKeys -> Nat]
  /\ owner \in {"none", "old", "new"} /\ restores \in Nat /\ breaks \in 0 .. MaxStoreFaults
  /\ ostep \in {"idle", "opening", "copied", "ready", "validated", "moved"}

(* What each step of opening and restoring has made sure of.                 *)
StepsInv ==
  /\ owner = "none" => ostep = "idle"
  /\ ostep \in {"opening", "copied", "ready"} => sdb.readable
  /\ ostep = "copied" => sdb \in aside
  /\ ostep = "moved" => sdb = Absent
  /\ ostep \in {"validated", "moved"} => Valid(chosen) /\ Whole(chosen)

(* A key's answers name the task the database names, and the calls for a key  *)
(* exceed the replacements of the database only by the one it records.        *)
KeysInv ==
  /\ \A k \in StoreKeys : \A t \in told[k] : t = sdb.ops[k].task
  /\ \A k \in StoreKeys : calls[k] <= 1 + restores /\ (~WasSent(sdb, k) => calls[k] <= restores)

WholeInv == Whole(sdb) /\ \A d \in archives \cup aside : Valid(d) /\ Whole(d)

StoreInv == StoreTypes /\ StepsInv /\ KeysInv /\ WholeInv

LEMMA StoreInvImplies == StoreInv => StoreTypeOK /\ KeyNamesOneTask /\ SentOncePerKey /\ CopiesAreWhole
<1> SUFFICES ASSUME StoreInv PROVE StoreTypeOK /\ KeyNamesOneTask /\ SentOncePerKey /\ CopiesAreWhole
  OBVIOUS
<1>1. StoreTypeOK
  <2>1. sdb.version \in 0 .. 2 /\ sdb.readable \in BOOLEAN /\ sdb.runs \in [TaskNos -> {"none", "queued", "sent", "over"}]
    BY DEF StoreInv, StoreTypes, Dbs
  <2>2. \A k \in StoreKeys : /\ sdb.ops[k].input \in Inputs \cup {"none"} /\ sdb.ops[k].task \in TaskNos \cup {0}
                             /\ told[k] \subseteq TaskNos /\ calls[k] \in Nat
    BY DEF StoreInv, StoreTypes, Dbs
  <2> QED
    BY <2>1, <2>2 DEF StoreInv, StoreTypes, StoreTypeOK
<1>2. ASSUME NEW k \in StoreKeys PROVE Cardinality(told[k]) <= 1
  <2> DEFINE t == sdb.ops[k].task
  <2>1. told[k] \in SUBSET {t}
    BY DEF StoreInv, KeysInv
  <2> HIDE DEF t
  <2>2. IsFiniteSet({t}) /\ Cardinality({t}) = 1
    BY FS_Singleton
  <2>3. IsFiniteSet(told[k]) /\ Cardinality(told[k]) <= 1
    BY <2>1, <2>2, FS_Subset
  <2> QED
    BY <2>3
<1>3. SentOncePerKey /\ CopiesAreWhole
  BY DEF StoreInv, KeysInv, WholeInv, SentOncePerKey, CopiesAreWhole
<1> QED
  BY <1>1, <1>2, <1>3 DEF KeyNamesOneTask

LEMMA AbsentIsWhole ==
  /\ Absent \in Dbs /\ Whole(Absent) /\ \A k \in StoreKeys : ~WasSent(Absent, k)
  /\ FreshDb(1) \in Dbs /\ Whole(FreshDb(1)) /\ \A k \in StoreKeys : FreshDb(1).ops[k] = NoOp
<1>1. NoOp \in [input : Inputs \cup {"none"}, task : TaskNos \cup {0}]
  BY DEF NoOp
<1>2. /\ Absent \in Dbs /\ \A k \in StoreKeys : Absent.ops[k] = NoOp
  BY <1>1 DEF Absent, Dbs
<1>3. FreshDb(1) \in Dbs /\ FreshDb(1).ops = Absent.ops
  BY <1>2 DEF FreshDb, Dbs
<1> QED
  BY <1>2, <1>3 DEF Whole, WasSent

LEMMA StoreInitHolds == StoreInit => StoreInv
<1> SUFFICES ASSUME StoreInit PROVE StoreInv
  OBVIOUS
<1>1. StoreTypes
  BY AbsentIsWhole, StateStoreAssumption DEF StoreInit, StoreTypes
<1>2. StepsInv /\ WholeInv
  BY AbsentIsWhole DEF StoreInit, StepsInv, WholeInv
<1>3. KeysInv
  BY DEF StoreInit, KeysInv
<1> QED
  BY <1>1, <1>2, <1>3 DEF StoreInv

-----------------------------------------------------------------------------
(* Steps of the store.                                                      *)

KeptOld == sdb.version = 1 /\ sdb'.version = 2 /\ restores' = restores => sdb \in aside
NoRunLost == ostep = "ready" /\ ostep' = "validated" => \A t \in TaskNos : sdb.runs[t] \notin {"queued", "sent"}
StoreStepOK == StoreInv' /\ KeptOld /\ NoRunLost

(* The same operations and runs under another version or readability.        *)
LEMMA SameContent ==
  ASSUME NEW d, NEW e, e.ops = d.ops, e.runs = d.runs
  PROVE  /\ Whole(d) => Whole(e)
         /\ \A k \in StoreKeys : WasSent(e, k) = WasSent(d, k)
BY DEF Whole, WasSent

LEMMA OpenStoreSteps ==
  ASSUME StoreInv, NEW p \in {"old", "new"}, OpenStore(p)
  PROVE  StoreStepOK
<1>1. StoreTypes /\ Schema(p) \in {1, 2} /\ ostep = "idle"
  BY DEF StoreInv, StepsInv, OpenStore, Schema
<1>2. sdb' \in Dbs /\ sdb'.ops = sdb.ops /\ sdb'.runs = sdb.runs /\ sdb'.readable
      /\ (sdb.version = 1 => sdb'.version = 1)
  <2>1. sdb \in Dbs /\ sdb.readable /\ Schema(p) \in 0 .. 2
    BY <1>1 DEF OpenStore, StoreTypes
  <2>2. CASE sdb.version \in {0, Schema(p)}
    <3>1. sdb' = [sdb EXCEPT !.version = Schema(p)]
      BY <2>2 DEF OpenStore
    <3>2. sdb.version = 1 => Schema(p) = 1
      BY <2>2
    <3> QED
      BY <2>1, <3>1, <3>2 DEF Dbs
  <2>3. CASE sdb.version \notin {0, Schema(p)}
    BY <2>1, <2>3 DEF OpenStore
  <2> QED
    BY <2>2, <2>3
<1>3. StoreTypes'
  BY <1>1, <1>2 DEF OpenStore, StoreTypes
<1>4. KeysInv' /\ WholeInv'
  BY <1>2, SameContent DEF OpenStore, StoreInv, KeysInv, WholeInv
<1>5. StepsInv' /\ KeptOld /\ NoRunLost
  BY <1>1, <1>2 DEF OpenStore, StepsInv, KeptOld, NoRunLost
<1> QED
  BY <1>3, <1>4, <1>5 DEF StoreStepOK, StoreInv

LEMMA UpgradeCopiesSteps ==
  ASSUME StoreInv, UpgradeCopies
  PROVE  StoreStepOK
<1>1. aside' = aside \cup {sdb} /\ ostep = "opening" /\ ostep' = "copied"
      /\ UNCHANGED <<sdb, archives, owner, chosen, told, calls, restores, breaks>>
  BY DEF UpgradeCopies, Copied
<1>2. Valid(sdb) /\ Whole(sdb)
  BY <1>1 DEF StoreInv, StepsInv, WholeInv, Whole, Valid
<1>3. StoreTypes' /\ StepsInv'
  BY <1>1 DEF StoreInv, StoreTypes, StepsInv
<1>4. KeysInv' /\ WholeInv'
  BY <1>1, <1>2 DEF StoreInv, KeysInv, WholeInv
<1> QED
  BY <1>1, <1>3, <1>4 DEF StoreStepOK, StoreInv, KeptOld, NoRunLost

LEMMA UpgradeCommitsSteps ==
  ASSUME StoreInv, UpgradeCommits
  PROVE  StoreStepOK
<1>1. /\ sdb \in Dbs /\ Schema(owner) \in {1, 2} /\ sdb \in aside /\ sdb.readable
      /\ ostep = "copied" /\ ostep' = "ready" /\ owner # "none"
  BY DEF StoreInv, StoreTypes, StepsInv, UpgradeCommits, Schema
<1>2. sdb' \in Dbs /\ sdb'.ops = sdb.ops /\ sdb'.runs = sdb.runs /\ sdb'.readable
  BY <1>1 DEF UpgradeCommits, Dbs
<1>3. StoreTypes' /\ StepsInv'
  BY <1>1, <1>2 DEF UpgradeCommits, StoreInv, StoreTypes, StepsInv
<1>4. KeysInv' /\ WholeInv'
  BY <1>2, SameContent DEF UpgradeCommits, StoreInv, KeysInv, WholeInv
<1> QED
  BY <1>1, <1>3, <1>4 DEF StoreStepOK, StoreInv, KeptOld, NoRunLost

LEMMA CloseOrKillSteps ==
  ASSUME StoreInv, CloseStore \/ KillStore
  PROVE  StoreStepOK
<1>1. /\ owner' = "none" /\ ostep' = "idle" /\ chosen' \in {chosen, Absent} /\ breaks' \in 0 .. MaxStoreFaults
      /\ UNCHANGED <<sdb, aside, archives, told, calls, restores>>
  BY StateStoreAssumption DEF CloseStore, KillStore, StoreInv, StoreTypes
<1>2. StoreTypes' /\ StepsInv'
  BY <1>1, AbsentIsWhole DEF StoreInv, StoreTypes, StepsInv
<1>3. KeysInv' /\ WholeInv'
  BY <1>1 DEF StoreInv, KeysInv, WholeInv
<1> QED
  BY <1>1, <1>2, <1>3 DEF StoreStepOK, StoreInv, KeptOld, NoRunLost

LEMMA DamageStoreSteps ==
  ASSUME StoreInv, DamageStore
  PROVE  StoreStepOK
<1>1. sdb \in Dbs /\ owner = "none" /\ ostep = "idle" /\ ostep' = "idle" /\ breaks' \in 0 .. MaxStoreFaults
  BY StateStoreAssumption DEF DamageStore, StoreInv, StoreTypes, StepsInv
<1>2. sdb' \in Dbs /\ sdb'.ops = sdb.ops /\ sdb'.runs = sdb.runs /\ sdb'.version = sdb.version
  BY <1>1 DEF DamageStore, Dbs
<1>3. StoreTypes' /\ StepsInv'
  BY <1>1, <1>2 DEF DamageStore, StoreInv, StoreTypes, StepsInv
<1>4. KeysInv' /\ WholeInv'
  BY <1>2, SameContent DEF DamageStore, StoreInv, KeysInv, WholeInv
<1> QED
  BY <1>1, <1>2, <1>3, <1>4 DEF StoreStepOK, StoreInv, KeptOld, NoRunLost

(* A first submission takes a task no operation refers to.                   *)
LEMMA SubmitSteps ==
  ASSUME StoreInv, NEW k \in StoreKeys, NEW input \in Inputs, Submit(k, input)
  PROVE  StoreStepOK
<1>1. PICK t \in FreeTask : sdb' = Committed(k, input, t) /\ Answer(k, t)
  BY DEF Submit
<1>2. /\ t \in TaskNos /\ sdb.runs[t] = "none" /\ sdb.ops[k] = NoOp /\ sdb \in Dbs /\ ostep = "ready"
      /\ UNCHANGED <<aside, archives, owner, ostep, chosen, calls, restores, breaks>>
  BY DEF FreeTask, Submit, Free, StoreInv, StoreTypes
<1> DEFINE op == [input |-> input, task |-> t]
<1>3. op \in [input : Inputs \cup {"none"}, task : TaskNos \cup {0}] /\ op.task = t
  BY <1>2
<1>4. op # NoOp
  <2>1. t # 0
    BY <1>2, StateStoreAssumption DEF TaskNos
  <2> QED
    BY <2>1 DEF NoOp
<1> HIDE DEF op
<1>5. /\ sdb'.ops = [sdb.ops EXCEPT ![k] = op] /\ sdb'.runs = [sdb.runs EXCEPT ![t] = "queued"]
      /\ sdb'.version = sdb.version /\ sdb'.readable = sdb.readable /\ sdb' \in Dbs
  <2>1. sdb' = [sdb EXCEPT !.ops[k] = op, !.runs[t] = "queued"]
    BY <1>1 DEF Committed, op
  <2>2. [sdb.ops EXCEPT ![k] = op] \in [StoreKeys -> [input : Inputs \cup {"none"}, task : TaskNos \cup {0}]]
    BY <1>2, <1>3 DEF Dbs
  <2>3. [sdb.runs EXCEPT ![t] = "queued"] \in [TaskNos -> {"none", "queued", "sent", "over"}]
    BY <1>2 DEF Dbs
  <2>4. sdb' = [sdb EXCEPT !.ops = [sdb.ops EXCEPT ![k] = op], !.runs = [sdb.runs EXCEPT ![t] = "queued"]]
    BY <1>2, <2>1 DEF Dbs
  <2> QED
    BY <1>2, <2>2, <2>3, <2>4 DEF Dbs
<1>6. /\ \A q \in StoreKeys \ {k} : sdb'.ops[q] = sdb.ops[q]
      /\ sdb'.ops[k] = op /\ sdb'.runs[t] = "queued"
      /\ \A s \in TaskNos \ {t} : sdb'.runs[s] = sdb.runs[s]
  BY <1>2, <1>5 DEF Dbs
<1>7. \A q \in StoreKeys \ {k} : sdb.ops[q] # NoOp => sdb.ops[q].task \in TaskNos \ {t}
  BY <1>2 DEF StoreInv, WholeInv, Whole
<1>8. /\ told' \in [StoreKeys -> SUBSET TaskNos] /\ (\A q \in StoreKeys \ {k} : told'[q] = told[q])
      /\ told'[k] \subseteq told[k] \cup {t}
  BY <1>1, <1>2 DEF Answer, StoreInv, StoreTypes
<1>9. told[k] = {}
  <2>1. sdb.ops[k].task = 0
    BY <1>2 DEF NoOp
  <2>2. \A s \in told[k] : s = 0 /\ s \in TaskNos
    BY <2>1 DEF StoreInv, KeysInv, StoreTypes
  <2> QED
    BY <2>2, StateStoreAssumption DEF TaskNos
<1>10. StoreTypes'
  BY <1>2, <1>5, <1>8 DEF StoreInv, StoreTypes
<1>11. StepsInv'
  BY <1>2, <1>5 DEF StoreInv, StepsInv
<1>12. WholeInv'
  <2>1. Whole(sdb)'
    BY <1>2, <1>3, <1>6, <1>7 DEF StoreInv, WholeInv, Whole
  <2> QED
    BY <1>2, <2>1 DEF StoreInv, WholeInv
<1>13. KeysInv'
  <2>1. \A q \in StoreKeys : \A s \in told'[q] : s = sdb'.ops[q].task
    <3>1. ASSUME NEW s \in told'[k] PROVE s = t
      <4>1. told'[k] \subseteq {t}
        BY <1>8, <1>9
      <4> QED
        BY <4>1
    <3>2. sdb'.ops[k].task = t
      BY <1>3, <1>6
    <3>3. ASSUME NEW q \in StoreKeys \ {k} PROVE \A s \in told'[q] : s = sdb'.ops[q].task
      <4>1. told'[q] = told[q] /\ sdb'.ops[q] = sdb.ops[q]
        BY <1>6, <1>8
      <4> QED
        BY <4>1 DEF StoreInv, KeysInv
    <3> QED
      BY <3>1, <3>2, <3>3
  <2>2. ~WasSent(sdb, k)
    BY <1>2 DEF WasSent
  <2>3. \A q \in StoreKeys \ {k} : WasSent(sdb', q) = WasSent(sdb, q)
    BY <1>6, <1>7 DEF WasSent
  <2> QED
    BY <1>2, <2>1, <2>2, <2>3 DEF StoreInv, KeysInv
<1> QED
  BY <1>2, <1>5, <1>10, <1>11, <1>12, <1>13 DEF StoreStepOK, StoreInv, KeptOld, NoRunLost

LEMMA SubmitAgainSteps ==
  ASSUME StoreInv, NEW k \in StoreKeys, NEW input \in Inputs, SubmitAgain(k, input)
  PROVE  StoreStepOK
<1>1. /\ sdb.ops[k] # NoOp /\ UNCHANGED <<sdb, aside, archives, owner, ostep, chosen, calls, restores, breaks>>
  BY DEF SubmitAgain, NoOp
<1>2. sdb.ops[k].task \in TaskNos
  BY <1>1 DEF StoreInv, WholeInv, Whole
<1>3. /\ told' \in [StoreKeys -> SUBSET TaskNos] /\ (\A q \in StoreKeys \ {k} : told'[q] = told[q])
      /\ told'[k] = told[k] \cup {sdb.ops[k].task}
  BY <1>2 DEF SubmitAgain, StoreInv, StoreTypes
<1>4. StoreTypes' /\ StepsInv' /\ WholeInv'
  BY <1>1, <1>3 DEF StoreInv, StoreTypes, StepsInv, WholeInv
<1>5. KeysInv'
  <2>1. \A q \in StoreKeys : \A s \in told'[q] : s = sdb.ops[q].task
    <3>1. ASSUME NEW s \in told'[k] PROVE s = sdb.ops[k].task
      <4> DEFINE u == sdb.ops[k].task
      <4>1. (\A v \in told[k] : v = u) /\ told'[k] = told[k] \cup {u}
        BY <1>3 DEF StoreInv, KeysInv
      <4> HIDE DEF u
      <4>2. s = u
        BY <4>1
      <4> QED
        BY <4>2 DEF u
    <3>2. \A q \in StoreKeys \ {k} : \A s \in told'[q] : s = sdb.ops[q].task
      BY <1>3 DEF StoreInv, KeysInv
    <3> QED
      BY <3>1, <3>2
  <2>2. \A q \in StoreKeys : WasSent(sdb, q)' = WasSent(sdb, q)
    BY <1>1 DEF WasSent
  <2> QED
    BY <1>1, <2>1, <2>2 DEF StoreInv, KeysInv, WasSent
<1> QED
  BY <1>1, <1>4, <1>5 DEF StoreStepOK, StoreInv, KeptOld, NoRunLost

(* A status is written into the row of a run, and perhaps the backend asked.  *)
LEMMA RunChanges ==
  ASSUME StoreInv, NEW t \in TaskNos, NEW status \in {"sent", "over"}, sdb.runs[t] # "none", ostep = "ready",
         sdb' = [sdb EXCEPT !.runs[t] = status], calls' \in [StoreKeys -> Nat],
         \A q \in StoreKeys : \/ calls'[q] = calls[q]
                              \/ calls'[q] = calls[q] + 1 /\ sdb.ops[q] # NoOp /\ sdb.ops[q].task = t
                                 /\ ~WasSent(sdb, q),
         UNCHANGED <<aside, archives, owner, ostep, chosen, told, restores, breaks>>
  PROVE  StoreStepOK
<1>1. /\ sdb' \in Dbs /\ sdb'.ops = sdb.ops /\ sdb'.runs[t] = status /\ sdb'.version = sdb.version
      /\ sdb'.readable = sdb.readable /\ \A s \in TaskNos \ {t} : sdb'.runs[s] = sdb.runs[s]
  <2>1. sdb \in Dbs
    BY DEF StoreInv, StoreTypes
  <2>2. sdb' = [sdb EXCEPT !.runs = [sdb.runs EXCEPT ![t] = status]]
    BY <2>1 DEF Dbs
  <2>3. [sdb.runs EXCEPT ![t] = status] \in [TaskNos -> {"none", "queued", "sent", "over"}]
    BY <2>1 DEF Dbs
  <2> QED
    BY <2>1, <2>2, <2>3 DEF Dbs
<1>2. Whole(sdb)'
  BY <1>1 DEF StoreInv, WholeInv, Whole
<1>3. \A q \in StoreKeys : /\ WasSent(sdb, q) => WasSent(sdb', q)
                           /\ sdb.ops[q] # NoOp /\ sdb.ops[q].task = t => WasSent(sdb', q)
  BY <1>1 DEF StoreInv, WholeInv, Whole, WasSent
<1>4. KeysInv'
  <2>1. \A q \in StoreKeys : \A s \in told'[q] : s = sdb'.ops[q].task
    BY <1>1 DEF StoreInv, KeysInv
  <2>2. ASSUME NEW q \in StoreKeys
        PROVE  calls'[q] <= 1 + restores' /\ (~WasSent(sdb', q) => calls'[q] <= restores')
    BY <1>3 DEF StoreInv, KeysInv, StoreTypes
  <2> QED
    BY <2>1, <2>2 DEF KeysInv
<1>5. StoreTypes' /\ StepsInv' /\ WholeInv'
  BY <1>1, <1>2 DEF StoreInv, StoreTypes, StepsInv, WholeInv
<1> QED
  BY <1>1, <1>4, <1>5 DEF StoreStepOK, StoreInv, KeptOld, NoRunLost

LEMMA SendSteps ==
  ASSUME StoreInv, NEW k \in StoreKeys, Send(k)
  PROVE  StoreStepOK
<1>1. /\ sdb.ops[k] # NoOp /\ sdb.runs[sdb.ops[k].task] = "queued" /\ ostep = "ready"
      /\ sdb' = [sdb EXCEPT !.runs[sdb.ops[k].task] = "sent"] /\ calls' = [calls EXCEPT ![k] = @ + 1]
      /\ UNCHANGED <<aside, archives, owner, ostep, chosen, told, restores, breaks>>
  BY DEF Send, SentRun
<1>2. sdb.ops[k].task \in TaskNos /\ ~WasSent(sdb, k)
  BY <1>1 DEF StoreInv, WholeInv, Whole, WasSent
<1>3. calls' \in [StoreKeys -> Nat] /\ calls'[k] = calls[k] + 1 /\ \A q \in StoreKeys \ {k} : calls'[q] = calls[q]
  BY <1>1 DEF StoreInv, StoreTypes
<1> DEFINE t == sdb.ops[k].task
<1>4. /\ t \in TaskNos /\ sdb.runs[t] # "none" /\ sdb' = [sdb EXCEPT !.runs[t] = "sent"] /\ sdb.ops[k].task = t
  BY <1>1, <1>2
<1> HIDE DEF t
<1>5. \A q \in StoreKeys : \/ calls'[q] = calls[q]
                           \/ calls'[q] = calls[q] + 1 /\ sdb.ops[q] # NoOp /\ sdb.ops[q].task = t
                              /\ ~WasSent(sdb, q)
  BY <1>1, <1>2, <1>3, <1>4
<1> QED
  BY <1>1, <1>3, <1>4, <1>5, RunChanges

LEMMA RunOverSteps ==
  ASSUME StoreInv, NEW t \in TaskNos, RunOver(t)
  PROVE  StoreStepOK
<1>1. calls' = calls /\ calls \in [StoreKeys -> Nat]
  BY DEF RunOver, StoreInv, StoreTypes
<1> QED
  BY <1>1, RunChanges DEF RunOver

LEMMA BackupSteps ==
  ASSUME StoreInv, Backup
  PROVE  StoreStepOK
<1>1. archives' = archives \cup {sdb} /\ Valid(sdb) /\ ostep = "ready"
      /\ UNCHANGED <<sdb, aside, owner, ostep, chosen, told, calls, restores, breaks>>
  BY DEF Backup
<1>2. StoreTypes' /\ StepsInv' /\ KeysInv' /\ WholeInv'
  BY <1>1 DEF StoreInv, StoreTypes, StepsInv, KeysInv, WholeInv
<1> QED
  BY <1>1, <1>2 DEF StoreStepOK, StoreInv, KeptOld, NoRunLost

LEMMA ValidateArchiveSteps ==
  ASSUME StoreInv, NEW a \in archives, ValidateArchive(a)
  PROVE  StoreStepOK
<1>1. /\ owner' \in {"old", "new"} /\ chosen' = a /\ ostep' = "validated" /\ a \in Dbs /\ Valid(a) /\ Whole(a)
      /\ UNCHANGED <<sdb, aside, archives, told, calls, restores, breaks>>
  BY DEF ValidateArchive, StoreInv, StoreTypes, StepsInv, WholeInv
<1>2. StoreTypes'
  BY <1>1 DEF StoreInv, StoreTypes
<1>3. StepsInv'
  BY <1>1 DEF StepsInv, Valid, Whole
<1>4. KeysInv' /\ WholeInv'
  BY <1>1 DEF StoreInv, KeysInv, WholeInv
<1>5. NoRunLost
  BY DEF ValidateArchive, AllOver, NoRunLost, StoreInv, StepsInv
<1> QED
  BY <1>1, <1>2, <1>3, <1>4, <1>5 DEF StoreStepOK, StoreInv, KeptOld

(* A replacement forgets what was told, and allows each key one more call.    *)
LEMMA MoveDamagedSteps ==
  ASSUME StoreInv, MoveDamaged
  PROVE  StoreStepOK
<1>1. /\ sdb' = Absent /\ ostep = "validated" /\ ostep' = "moved" /\ restores' = restores + 1
      /\ told' = [k \in StoreKeys |-> {}] /\ UNCHANGED <<aside, archives, owner, chosen, calls, breaks>>
      /\ restores \in Nat
  BY DEF MoveDamaged, StoreInv, StoreTypes
<1>2. StoreTypes'
  BY <1>1, AbsentIsWhole DEF StoreInv, StoreTypes
<1>3. StepsInv'
  BY <1>1 DEF StoreInv, StepsInv
<1>4. KeysInv'
  <2>1. \A k \in StoreKeys : calls[k] <= 1 + restores /\ calls[k] \in Nat
    BY DEF StoreInv, KeysInv, StoreTypes
  <2> QED
    BY <1>1, <2>1 DEF KeysInv
<1>5. WholeInv'
  BY <1>1, AbsentIsWhole DEF StoreInv, WholeInv
<1> QED
  BY <1>1, <1>2, <1>3, <1>4, <1>5 DEF StoreStepOK, StoreInv, KeptOld, NoRunLost

LEMMA RestoreArchiveSteps ==
  ASSUME StoreInv, RestoreArchive
  PROVE  StoreStepOK
<1>1. /\ sdb' = chosen /\ chosen' = Absent /\ told' = [k \in StoreKeys |-> {}]
      /\ ostep \in {"moved", "validated"} /\ restores' = IF ostep = "moved" THEN restores ELSE restores + 1
      /\ UNCHANGED <<aside, archives, calls, breaks>> /\ restores \in Nat
  BY DEF RestoreArchive, StoreInv, StoreTypes
<1>2. /\ Valid(chosen) /\ Whole(chosen) /\ chosen \in Dbs /\ owner # "none"
      /\ ostep = "moved" => sdb = Absent
  BY <1>1 DEF StoreInv, StepsInv, StoreTypes
<1>3. \/ owner' = "none" /\ ostep' = "idle"
      \/ owner' = owner /\ ostep' \in {"ready", "opening"}
  BY DEF RestoreArchive
<1>4. StoreTypes'
  BY <1>1, <1>2, <1>3, AbsentIsWhole DEF StoreInv, StoreTypes
<1>5. StepsInv'
  BY <1>1, <1>2, <1>3 DEF StepsInv, Valid
<1>6. KeysInv'
  <2>1. \A k \in StoreKeys : calls[k] <= 1 + restores /\ calls[k] \in Nat
    BY DEF StoreInv, KeysInv, StoreTypes
  <2>2. ostep = "moved" => \A k \in StoreKeys : calls[k] <= restores
    BY <1>2, AbsentIsWhole DEF StoreInv, KeysInv
  <2>3. \A k \in StoreKeys : calls[k] <= restores' /\ calls[k] <= 1 + restores'
    BY <1>1, <2>1, <2>2
  <2> QED
    BY <1>1, <2>3 DEF KeysInv
<1>7. WholeInv'
  BY <1>1, <1>2 DEF StoreInv, WholeInv
<1>8. KeptOld
  <2>1. CASE ostep = "moved"
    BY <1>2, <2>1 DEF KeptOld, Absent
  <2>2. CASE ostep = "validated"
    BY <1>1, <2>2 DEF KeptOld
  <2> QED
    BY <1>1, <2>1, <2>2
<1> QED
  BY <1>1, <1>3, <1>4, <1>5, <1>6, <1>7, <1>8 DEF StoreStepOK, StoreInv, NoRunLost

LEMMA StoreStep ==
  ASSUME StoreInv, [StoreNext]_storeVars
  PROVE  StoreStepOK
<1>1. CASE UNCHANGED storeVars
  BY <1>1 DEF storeVars, StoreStepOK, StoreInv, StoreTypes, StepsInv, KeysInv, WholeInv, KeptOld, NoRunLost
<1>2. ASSUME NEW k \in StoreKeys, NEW input \in Inputs, Submit(k, input) \/ SubmitAgain(k, input) PROVE StoreStepOK
  BY <1>2, SubmitSteps, SubmitAgainSteps
<1> QED
  BY <1>1, <1>2, OpenStoreSteps, UpgradeCopiesSteps, UpgradeCommitsSteps, CloseOrKillSteps, DamageStoreSteps,
     SendSteps, RunOverSteps, BackupSteps, MoveDamagedSteps, ValidateArchiveSteps, RestoreArchiveSteps DEF StoreNext

(* For every number of keys, tasks, crashes, damages and replacements: over     *)
(* lost answers, upgrades and restorations a key leads to one task that is      *)
(* sent once, every copy can be restored, and no upgrade or restoration loses    *)
(* what it replaces (sqlite_store.py, backup.py, instance.py).                  *)
THEOREM StoreKeepsSafety == StoreSpec => StoreSafety
<1>1. StoreInit => StoreInv
  BY StoreInitHolds
<1>2. StoreInv /\ [StoreNext]_storeVars => StoreInv'
  BY StoreStep DEF StoreStepOK
<1>3. StoreInv => StoreTypeOK /\ KeyNamesOneTask /\ SentOncePerKey /\ CopiesAreWhole
  BY StoreInvImplies
<1>4. StoreInv /\ [StoreNext]_storeVars
        => [sdb.version = 1 /\ sdb'.version = 2 /\ restores' = restores => sdb \in aside]_storeVars
  BY StoreStep DEF StoreStepOK, KeptOld
<1>5. StoreInv /\ [StoreNext]_storeVars
        => [ostep = "ready" /\ ostep' = "validated" =>
              \A t \in TaskNos : sdb.runs[t] \notin {"queued", "sent"}]_storeVars
  BY StoreStep DEF StoreStepOK, NoRunLost
<1> QED
  BY <1>1, <1>2, <1>3, <1>4, <1>5, PTL DEF StoreSpec, StoreSafety, UpgradeKeepsOld, RestoreLosesNoRun

-----------------------------------------------------------------------------
(* The code workflow.                                                       *)

CodeRows ==
  [status : {"none", "QUEUED", "PREPARING", "RUNNING", "WAITING", "PAUSING", "PAUSED", "RECONCILING", "CANCELING"}
            \cup CodeRunOver,
   desired : {"RUNNING", "PAUSED", "CANCELED"},
   impl : {"none", "admitted", "marked", "queued", "running", "unknown", "ok", "failed", "unsent"},
   phase : Phases, repairs : 0 .. MaxRepairs, step : {"none", "over"} \cup StepsOpen, unsettled : Nat,
   paused : {"none", "control", "flow"}, flag : BOOLEAN, turns : Nat, target : Int]

CodePlans == [made : BOOLEAN, config : Int, base : Int, until : BOOLEAN]

(* The turns a flow may have asked for when it stands here: one of the        *)
(* implementation, one of each review and of each repair so far.              *)
AskedWithin(r) ==
  /\ r.impl \in {"none", "admitted", "marked", "queued"} => r.turns = 0
  /\ r.phase = "none" => r.turns <= 1
  /\ r.phase = "reviewing" => r.turns <= 2 + 2 * r.repairs
  /\ r.phase = "repairing" => r.repairs > 0 /\ r.turns <= 1 + 2 * r.repairs
  /\ r.phase \in {"completed", "blocked"} => r.turns <= 2 + 2 * r.repairs
  /\ r.step = "admitted" => /\ r.phase = "reviewing" => r.turns <= 1 + 2 * r.repairs
                            /\ r.phase = "repairing" => r.turns <= 2 * r.repairs

(* The flow begins after the implementation, and a turn is open only in a     *)
(* review or a repair.                                                       *)
FlowFollows(r) ==
  /\ r.phase # "none" => r.impl = "ok"
  /\ r.phase = "none" => r.step = "none" /\ r.unsettled = 0 /\ r.paused = "none" /\ ~r.flag
  /\ r.step \in StepsOpen => r.phase \in {"reviewing", "repairing"}
  /\ r.status = "none" => r.impl = "none"
  /\ r.status \in {"SUCCEEDED", "CANCELED"} => r.unsettled = 0 /\ r.step \notin StepsOpen

(* A stopped flow carries the mark by which it is resumed.                    *)
MarkedStop(r, planned, now) ==
  /\ r.status = "PAUSED" => r.desired # "RUNNING" /\ (r.phase # "none" => r.flag)
  /\ r.status \notin CodeRunOver \cup {"none"} /\ r.desired = "RUNNING" /\ r.paused = "control"
       => r.flag \/ planned # now

RowHolds(r, planned, now) == r \in CodeRows /\ AskedWithin(r) /\ FlowFollows(r) /\ MarkedStop(r, planned, now)

CodeInv ==
  /\ config \in Int /\ base \in Int /\ plans \in [Plans -> CodePlans]
  /\ runs \in [Plans -> CodeRows]
  /\ \A p \in Plans : RowHolds(runs[p], plans[p].config, config) /\ plans[p].config <= config
                      /\ (runs[p].status # "none" => plans[p].made)
  /\ sent \in [SubmitKeys -> SUBSET Plans]
  /\ \A k \in SubmitKeys : \A p, q \in sent[k] : p = q
  /\ \A k, l \in SubmitKeys : \A p \in sent[k] : runs[p].status # "none" /\ (p \in sent[l] => l = k)

(* What a step may do to one run.                                            *)
RowMoves(p, r) ==
  /\ runs[p].impl = "queued" /\ r.impl = "running" => plans[p].base = base /\ plans[p].config = config
  /\ runs[p].status # "SUCCEEDED" /\ r.status = "SUCCEEDED" => runs[p].phase = "completed" /\ runs[p].target = base

CodeStepOK == CodeInv' /\ \A p \in Plans : RowMoves(p, runs'[p])

LEMMA AtMostOne ==
  ASSUME NEW S, \A x, y \in S : x = y
  PROVE  Cardinality(S) <= 1
<1>1. CASE S = {}
  BY <1>1, FS_EmptySet
<1>2. CASE S # {}
  <2>1. PICK x : x \in S
    BY <1>2
  <2>2. S = {x}
    BY <2>1
  <2>3. Cardinality(S) = 1
    BY <2>2, FS_Singleton
  <2> QED
    BY <2>3
<1> QED
  BY <1>1, <1>2

LEMMA CodeInvImplies ==
  CodeInv => CodeTypeOK /\ OneRunPerPlan /\ TurnsWithinPlan /\ EndSettlesTurns /\ StopIsTakenBack
<1> SUFFICES ASSUME CodeInv PROVE CodeTypeOK /\ OneRunPerPlan /\ TurnsWithinPlan /\ EndSettlesTurns /\ StopIsTakenBack
  OBVIOUS
<1>1. \A p \in Plans : RowHolds(runs[p], plans[p].config, config) /\ (runs[p].status # "none" => plans[p].made)
  BY DEF CodeInv
<1>2. ASSUME NEW p \in Plans
      PROVE  /\ runs[p].phase \in Phases /\ runs[p].turns <= 2 + 2 * MaxRepairs /\ runs[p].repairs <= MaxRepairs
             /\ runs[p].phase # "none" => runs[p].impl = "ok"
             /\ runs[p].step \in {"none", "over"} \cup StepsOpen
  <2>1. runs[p] \in CodeRows /\ AskedWithin(runs[p]) /\ FlowFollows(runs[p])
    BY <1>1 DEF RowHolds
  <2>2. runs[p].repairs \in 0 .. MaxRepairs /\ runs[p].turns \in Nat /\ runs[p].phase \in Phases
    BY <2>1 DEF CodeRows
  <2>3. runs[p].turns <= 2 + 2 * runs[p].repairs
    BY <2>1, <2>2 DEF AskedWithin, Phases
  <2>4. runs[p].turns <= 2 + 2 * MaxRepairs
    BY <2>2, <2>3, CapabilityCodeAssumption
  <2> QED
    BY <2>1, <2>2, <2>4, CapabilityCodeAssumption DEF FlowFollows, CodeRows
<1>3. ASSUME NEW k \in SubmitKeys PROVE Cardinality(sent[k]) <= 1
  BY AtMostOne DEF CodeInv
<1>4. CodeTypeOK /\ TurnsWithinPlan
  BY <1>1, <1>2, <1>3 DEF CodeTypeOK, TurnsWithinPlan, MaxTurns
<1>5. OneRunPerPlan
  <2>1. ASSUME NEW p \in Plans PROVE Cardinality({k \in SubmitKeys : p \in sent[k]}) <= 1
    <3>1. \A k, l \in {n \in SubmitKeys : p \in sent[n]} : k = l
      BY DEF CodeInv
    <3> QED
      BY <3>1, AtMostOne
  <2> QED
    BY <2>1 DEF OneRunPerPlan
<1>6. EndSettlesTurns
  BY <1>1 DEF RowHolds, FlowFollows, EndSettlesTurns
<1>7. StopIsTakenBack
  BY <1>1 DEF RowHolds, MarkedStop, StopIsTakenBack, GoesForward, Live
<1> QED
  BY <1>4, <1>5, <1>6, <1>7

LEMMA CodeInitHolds == CodeInit => CodeInv
<1> SUFFICES ASSUME CodeInit PROVE CodeInv
  OBVIOUS
<1>1. NoPlan \in CodePlans /\ NoPlan.config = 0 /\ NoRunYet \in CodeRows
  BY CapabilityCodeAssumption DEF NoPlan, CodePlans, NoRunYet, CodeRows, Phases
<1>2. RowHolds(NoRunYet, 0, 0) /\ NoRunYet.status = "none"
  BY <1>1 DEF RowHolds, NoRunYet, AskedWithin, FlowFollows, MarkedStop, StepsOpen, CodeRunOver
<1> QED
  BY <1>1, <1>2 DEF CodeInit, CodeInv

-----------------------------------------------------------------------------
(* A step of one run.                                                        *)

LEMMA RowStep ==
  ASSUME CodeInv, NEW p \in Plans, NEW r, runs' = [runs EXCEPT ![p] = r],
         RowHolds(r, plans[p].config, config), r.status # "none", runs[p].status # "none", RowMoves(p, r),
         base' \in Int, UNCHANGED <<config, plans, sent>>
  PROVE  CodeStepOK
<1>1. r \in CodeRows /\ runs' \in [Plans -> CodeRows] /\ runs'[p] = r /\ \A q \in Plans \ {p} : runs'[q] = runs[q]
  BY DEF CodeInv, RowHolds
<1>2. ASSUME NEW q \in Plans
      PROVE  /\ RowHolds(runs'[q], plans[q].config, config) /\ plans[q].config <= config
             /\ runs'[q].status # "none" <=> runs[q].status # "none"
             /\ runs[q].status # "none" => plans[q].made
             /\ RowMoves(q, runs'[q])
  <2>1. RowHolds(runs[q], plans[q].config, config) /\ plans[q].config <= config
        /\ (runs[q].status # "none" => plans[q].made)
    BY DEF CodeInv
  <2>2. CASE q = p
    BY <1>1, <2>1, <2>2
  <2>3. CASE q # p
    <3>1. runs'[q] = runs[q] /\ RowMoves(q, runs[q])
      BY <1>1, <2>3 DEF RowMoves
    <3> QED
      BY <2>1, <3>1
  <2> QED
    BY <2>2, <2>3
<1>3. CodeInv'
  <2>1. \A k, l \in SubmitKeys : \A q \in sent'[k] : runs'[q].status # "none" /\ (q \in sent'[l] => l = k)
    BY <1>2 DEF CodeInv
  <2> QED
    BY <1>1, <1>2, <2>1 DEF CodeInv
<1> QED
  BY <1>2, <1>3 DEF CodeStepOK

(* What the invariant says of the run a step takes up.                       *)
LEMMA RowFacts ==
  ASSUME CodeInv, NEW p \in Plans
  PROVE  /\ runs[p] \in CodeRows /\ AskedWithin(runs[p]) /\ FlowFollows(runs[p])
         /\ MarkedStop(runs[p], plans[p].config, config)
         /\ config \in Int /\ base \in Int /\ plans[p].config \in Int /\ runs \in [Plans -> CodeRows]
BY DEF CodeInv, RowHolds, CodePlans

(* The implementation: delivery, intent, call and report.                    *)
LEMMA DispatchImplSteps ==
  ASSUME CodeInv, NEW p \in Plans, DispatchImpl(p)
  PROVE  CodeStepOK
<1> DEFINE old == runs[p]
<1>1. /\ old \in CodeRows /\ AskedWithin(old) /\ FlowFollows(old) /\ MarkedStop(old, plans[p].config, config)
      /\ config \in Int /\ base \in Int /\ plans[p].config \in Int
  BY RowFacts
<1>2. old.status \notin CodeRunOver \cup {"none"} /\ old.desired = "RUNNING" /\ old.impl = "admitted" /\ base' \in Int /\ UNCHANGED <<config, plans, sent>>
  BY RowFacts DEF DispatchImpl, GoesForward, Live
<1>3. CASE Stands(p)
  <2> DEFINE r == [runs[p] EXCEPT !.impl = "marked", !.status = "PREPARING"]
  <2>1. runs' = [runs EXCEPT ![p] = r]
    BY <1>1, <1>3 DEF DispatchImpl, GoesForward, Live, Put
  <2>2. /\ r \in CodeRows /\ r.impl = "marked" /\ r.status = "PREPARING"
          /\ r.desired = old.desired /\ r.phase = old.phase /\ r.repairs = old.repairs
          /\ r.step = old.step /\ r.unsettled = old.unsettled /\ r.paused = old.paused
          /\ r.flag = old.flag /\ r.turns = old.turns /\ r.target = old.target
    BY <1>1, <1>2, <1>3, CapabilityCodeAssumption DEF CodeRows, Phases, CodeRunOver, StepsOpen
  <2> HIDE DEF r
  <2>3. AskedWithin(r) /\ FlowFollows(r)
    BY <1>1, <1>2, <1>3, <2>2 DEF AskedWithin, FlowFollows, StepsOpen, CodeRunOver, CodeRows, Phases
  <2>4. MarkedStop(r, plans[p].config, config) /\ RowMoves(p, r) /\ r.status # "none" /\ old.status # "none"
    BY <1>1, <1>2, <1>3, <2>2 DEF MarkedStop, RowMoves, FlowFollows, StepsOpen, CodeRunOver, CodeRows
  <2> QED
    BY <1>2, <2>1, <2>2, <2>3, <2>4, RowStep DEF RowHolds
<1>4. CASE ~Stands(p)
  <2> DEFINE r == [runs[p] EXCEPT !.impl = "failed", !.status = "FAILED"]
  <2>1. runs' = [runs EXCEPT ![p] = r]
    BY <1>1, <1>4 DEF DispatchImpl, GoesForward, Live, Put
  <2>2. /\ r \in CodeRows /\ r.impl = "failed" /\ r.status = "FAILED"
          /\ r.desired = old.desired /\ r.phase = old.phase /\ r.repairs = old.repairs
          /\ r.step = old.step /\ r.unsettled = old.unsettled /\ r.paused = old.paused
          /\ r.flag = old.flag /\ r.turns = old.turns /\ r.target = old.target
    BY <1>1, <1>2, <1>4, CapabilityCodeAssumption DEF CodeRows, Phases, CodeRunOver, StepsOpen
  <2> HIDE DEF r
  <2>3. AskedWithin(r) /\ FlowFollows(r)
    BY <1>1, <1>2, <1>4, <2>2 DEF AskedWithin, FlowFollows, StepsOpen, CodeRunOver, CodeRows, Phases
  <2>4. MarkedStop(r, plans[p].config, config) /\ RowMoves(p, r) /\ r.status # "none" /\ old.status # "none"
    BY <1>1, <1>2, <1>4, <2>2 DEF MarkedStop, RowMoves, FlowFollows, StepsOpen, CodeRunOver, CodeRows
  <2> QED
    BY <1>2, <2>1, <2>2, <2>3, <2>4, RowStep DEF RowHolds
<1> QED
  BY <1>2, <1>3, <1>4

LEMMA IntendSteps ==
  ASSUME CodeInv, NEW p \in Plans, Intend(p)
  PROVE  CodeStepOK
<1> DEFINE old == runs[p]
<1>1. /\ old \in CodeRows /\ AskedWithin(old) /\ FlowFollows(old) /\ MarkedStop(old, plans[p].config, config)
      /\ config \in Int /\ base \in Int /\ plans[p].config \in Int
  BY RowFacts
<1>2. old.status \notin CodeRunOver \cup {"none"} /\ old.impl = "marked" /\ base' \in Int /\ UNCHANGED <<config, plans, sent>>
      /\ \/ runs' = [runs EXCEPT ![p] = [runs[p] EXCEPT !.impl = "queued"]]
         \/ runs' = [runs EXCEPT ![p] = [runs[p] EXCEPT !.impl = "failed", !.status = "FAILED"]]
  BY RowFacts DEF Intend, Live, Put
<1>3. CASE runs' = [runs EXCEPT ![p] = [runs[p] EXCEPT !.impl = "queued"]]
  <2> DEFINE r == [runs[p] EXCEPT !.impl = "queued"]
  <2>1. runs' = [runs EXCEPT ![p] = r]
    BY <1>1, <1>3 DEF Intend, Live, Put, Put
  <2>2. /\ r \in CodeRows /\ r.impl = "queued"
          /\ r.status = old.status /\ r.desired = old.desired /\ r.phase = old.phase
          /\ r.repairs = old.repairs /\ r.step = old.step /\ r.unsettled = old.unsettled
          /\ r.paused = old.paused /\ r.flag = old.flag /\ r.turns = old.turns /\ r.target = old.target
    BY <1>1, <1>2, <1>3, CapabilityCodeAssumption DEF CodeRows, Phases, CodeRunOver, StepsOpen
  <2> HIDE DEF r
  <2>3. AskedWithin(r) /\ FlowFollows(r)
    BY <1>1, <1>2, <1>3, <2>2 DEF AskedWithin, FlowFollows, StepsOpen, CodeRunOver, CodeRows, Phases
  <2>4. MarkedStop(r, plans[p].config, config) /\ RowMoves(p, r) /\ r.status # "none" /\ old.status # "none"
    BY <1>1, <1>2, <1>3, <2>2 DEF MarkedStop, RowMoves, FlowFollows, StepsOpen, CodeRunOver, CodeRows
  <2> QED
    BY <1>2, <2>1, <2>2, <2>3, <2>4, RowStep DEF RowHolds
<1>4. CASE runs' = [runs EXCEPT ![p] = [runs[p] EXCEPT !.impl = "failed", !.status = "FAILED"]]
  <2> DEFINE r == [runs[p] EXCEPT !.impl = "failed", !.status = "FAILED"]
  <2>1. runs' = [runs EXCEPT ![p] = r]
    BY <1>1, <1>4 DEF Intend, Live, Put, Put
  <2>2. /\ r \in CodeRows /\ r.impl = "failed" /\ r.status = "FAILED"
          /\ r.desired = old.desired /\ r.phase = old.phase /\ r.repairs = old.repairs
          /\ r.step = old.step /\ r.unsettled = old.unsettled /\ r.paused = old.paused
          /\ r.flag = old.flag /\ r.turns = old.turns /\ r.target = old.target
    BY <1>1, <1>2, <1>4, CapabilityCodeAssumption DEF CodeRows, Phases, CodeRunOver, StepsOpen
  <2> HIDE DEF r
  <2>3. AskedWithin(r) /\ FlowFollows(r)
    BY <1>1, <1>2, <1>4, <2>2 DEF AskedWithin, FlowFollows, StepsOpen, CodeRunOver, CodeRows, Phases
  <2>4. MarkedStop(r, plans[p].config, config) /\ RowMoves(p, r) /\ r.status # "none" /\ old.status # "none"
    BY <1>1, <1>2, <1>4, <2>2 DEF MarkedStop, RowMoves, FlowFollows, StepsOpen, CodeRunOver, CodeRows
  <2> QED
    BY <1>2, <2>1, <2>2, <2>3, <2>4, RowStep DEF RowHolds
<1> QED
  BY <1>2, <1>3, <1>4

LEMMA StartImplSteps ==
  ASSUME CodeInv, NEW p \in Plans, StartImpl(p)
  PROVE  CodeStepOK
<1> DEFINE old == runs[p]
<1>1. /\ old \in CodeRows /\ AskedWithin(old) /\ FlowFollows(old) /\ MarkedStop(old, plans[p].config, config)
      /\ config \in Int /\ base \in Int /\ plans[p].config \in Int
  BY RowFacts
<1>2. old.status \notin CodeRunOver \cup {"none"} /\ old.desired = "RUNNING" /\ old.impl = "queued" /\ base' \in Int /\ UNCHANGED <<config, plans, sent>> /\ (Stands(p) => plans[p].base = base /\ plans[p].config = config)
  BY RowFacts DEF StartImpl, GoesForward, Live, GuardAgain, Stands
<1>3. CASE Stands(p)
  <2> DEFINE n == old.turns + 1
  <2>0n. n = old.turns + 1 /\ n \in Nat
    BY <1>1, <1>2, CapabilityCodeAssumption, <1>3 DEF CodeRows
  <2> DEFINE r == [runs[p] EXCEPT !.impl = "running", !.status = "RUNNING", !.turns = n]
  <2>1. runs' = [runs EXCEPT ![p] = r]
    BY <1>1, <1>3 DEF StartImpl, GoesForward, Live, GuardAgain, Put
  <2> HIDE DEF n
  <2>2. /\ r \in CodeRows /\ r.impl = "running" /\ r.status = "RUNNING" /\ r.turns = n
          /\ r.desired = old.desired /\ r.phase = old.phase /\ r.repairs = old.repairs
          /\ r.step = old.step /\ r.unsettled = old.unsettled /\ r.paused = old.paused
          /\ r.flag = old.flag /\ r.target = old.target
    BY <1>1, <1>2, <1>3, <2>0n, CapabilityCodeAssumption DEF CodeRows, Phases, CodeRunOver, StepsOpen
  <2> HIDE DEF r
  <2>3. AskedWithin(r) /\ FlowFollows(r)
    BY <1>1, <1>2, <1>3, <2>2, <2>0n DEF AskedWithin, FlowFollows, StepsOpen, CodeRunOver, CodeRows, Phases
  <2>4. MarkedStop(r, plans[p].config, config) /\ RowMoves(p, r) /\ r.status # "none" /\ old.status # "none"
    BY <1>1, <1>2, <1>3, <2>2 DEF MarkedStop, RowMoves, FlowFollows, StepsOpen, CodeRunOver, CodeRows
  <2> QED
    BY <1>2, <2>1, <2>2, <2>3, <2>4, RowStep DEF RowHolds
<1>4. CASE ~Stands(p)
  <2> DEFINE r == [runs[p] EXCEPT !.impl = "failed"]
  <2>1. runs' = [runs EXCEPT ![p] = r]
    BY <1>1, <1>4 DEF StartImpl, GoesForward, Live, GuardAgain, Put
  <2>2. /\ r \in CodeRows /\ r.impl = "failed"
          /\ r.status = old.status /\ r.desired = old.desired /\ r.phase = old.phase
          /\ r.repairs = old.repairs /\ r.step = old.step /\ r.unsettled = old.unsettled
          /\ r.paused = old.paused /\ r.flag = old.flag /\ r.turns = old.turns /\ r.target = old.target
    BY <1>1, <1>2, <1>4, CapabilityCodeAssumption DEF CodeRows, Phases, CodeRunOver, StepsOpen
  <2> HIDE DEF r
  <2>3. AskedWithin(r) /\ FlowFollows(r)
    BY <1>1, <1>2, <1>4, <2>2 DEF AskedWithin, FlowFollows, StepsOpen, CodeRunOver, CodeRows, Phases
  <2>4. MarkedStop(r, plans[p].config, config) /\ RowMoves(p, r) /\ r.status # "none" /\ old.status # "none"
    BY <1>1, <1>2, <1>4, <2>2 DEF MarkedStop, RowMoves, FlowFollows, StepsOpen, CodeRunOver, CodeRows
  <2> QED
    BY <1>2, <2>1, <2>2, <2>3, <2>4, RowStep DEF RowHolds
<1> QED
  BY <1>2, <1>3, <1>4

LEMMA ImplReportsSteps ==
  ASSUME CodeInv, NEW p \in Plans, NEW how \in {"ok", "failed", "unknown"}, ImplReports(p, how)
  PROVE  CodeStepOK
<1> DEFINE old == runs[p]
<1>1. /\ old \in CodeRows /\ AskedWithin(old) /\ FlowFollows(old) /\ MarkedStop(old, plans[p].config, config)
      /\ config \in Int /\ base \in Int /\ plans[p].config \in Int
  BY RowFacts
<1>2. old.impl \in {"running", "unknown"} /\ base' \in Int /\ UNCHANGED <<config, plans, sent>>
  BY RowFacts DEF ImplReports
<1>3. CodeStepOK
  <2> DEFINE r == [runs[p] EXCEPT !.impl = how]
  <2>1. runs' = [runs EXCEPT ![p] = r]
    BY <1>1 DEF ImplReports, Put
  <2>2. /\ r \in CodeRows /\ r.impl = how
          /\ r.status = old.status /\ r.desired = old.desired /\ r.phase = old.phase
          /\ r.repairs = old.repairs /\ r.step = old.step /\ r.unsettled = old.unsettled
          /\ r.paused = old.paused /\ r.flag = old.flag /\ r.turns = old.turns /\ r.target = old.target
    BY <1>1, <1>2, CapabilityCodeAssumption DEF CodeRows, Phases, CodeRunOver, StepsOpen
  <2> HIDE DEF r
  <2>3. AskedWithin(r) /\ FlowFollows(r)
    BY <1>1, <1>2, <2>2 DEF AskedWithin, FlowFollows, StepsOpen, CodeRunOver, CodeRows, Phases
  <2>4. MarkedStop(r, plans[p].config, config) /\ RowMoves(p, r) /\ r.status # "none" /\ old.status # "none"
    BY <1>1, <1>2, <2>2 DEF MarkedStop, RowMoves, FlowFollows, StepsOpen, CodeRunOver, CodeRows
  <2> QED
    BY <1>2, <2>1, <2>2, <2>3, <2>4, RowStep DEF RowHolds
<1> QED
  BY <1>2, <1>3

LEMMA ImplStopsSteps ==
  ASSUME CodeInv, NEW p \in Plans, ImplStops(p)
  PROVE  CodeStepOK
<1> DEFINE old == runs[p]
<1>1. /\ old \in CodeRows /\ AskedWithin(old) /\ FlowFollows(old) /\ MarkedStop(old, plans[p].config, config)
      /\ config \in Int /\ base \in Int /\ plans[p].config \in Int
  BY RowFacts
<1>2. old.status \notin CodeRunOver \cup {"none"} /\ old.desired # "RUNNING" /\ old.impl \in {"admitted", "queued", "failed"} /\ base' \in Int /\ UNCHANGED <<config, plans, sent>>
  BY RowFacts DEF ImplStops, Live
<1>3. CASE old.desired = "PAUSED"
  <2> DEFINE r == [runs[p] EXCEPT !.status = "PAUSED"]
  <2>1. runs' = [runs EXCEPT ![p] = r]
    BY <1>1, <1>3 DEF ImplStops, Live, Put
  <2>2. /\ r \in CodeRows /\ r.status = "PAUSED"
          /\ r.desired = old.desired /\ r.impl = old.impl /\ r.phase = old.phase
          /\ r.repairs = old.repairs /\ r.step = old.step /\ r.unsettled = old.unsettled
          /\ r.paused = old.paused /\ r.flag = old.flag /\ r.turns = old.turns /\ r.target = old.target
    BY <1>1, <1>2, <1>3, CapabilityCodeAssumption DEF CodeRows, Phases, CodeRunOver, StepsOpen
  <2> HIDE DEF r
  <2>3. AskedWithin(r) /\ FlowFollows(r)
    BY <1>1, <1>2, <1>3, <2>2 DEF AskedWithin, FlowFollows, StepsOpen, CodeRunOver, CodeRows, Phases
  <2>4. MarkedStop(r, plans[p].config, config) /\ RowMoves(p, r) /\ r.status # "none" /\ old.status # "none"
    BY <1>1, <1>2, <1>3, <2>2 DEF MarkedStop, RowMoves, FlowFollows, StepsOpen, CodeRunOver, CodeRows
  <2> QED
    BY <1>2, <2>1, <2>2, <2>3, <2>4, RowStep DEF RowHolds
<1>4. CASE old.desired # "PAUSED"
  <2> DEFINE r == [runs[p] EXCEPT !.status = "CANCELED", !.impl = IF @ = "failed" THEN @ ELSE "unsent"]
  <2>1. runs' = [runs EXCEPT ![p] = r]
    BY <1>1, <1>4 DEF ImplStops, Live, Put
  <2>2. /\ r \in CodeRows /\ r.status = "CANCELED" /\ r.impl = (IF old.impl = "failed" THEN old.impl ELSE "unsent")
          /\ r.desired = old.desired /\ r.phase = old.phase /\ r.repairs = old.repairs
          /\ r.step = old.step /\ r.unsettled = old.unsettled /\ r.paused = old.paused
          /\ r.flag = old.flag /\ r.turns = old.turns /\ r.target = old.target
    BY <1>1, <1>2, <1>4, CapabilityCodeAssumption DEF CodeRows, Phases, CodeRunOver, StepsOpen
  <2> HIDE DEF r
  <2>3. AskedWithin(r) /\ FlowFollows(r)
    BY <1>1, <1>2, <1>4, <2>2 DEF AskedWithin, FlowFollows, StepsOpen, CodeRunOver, CodeRows, Phases
  <2>4. MarkedStop(r, plans[p].config, config) /\ RowMoves(p, r) /\ r.status # "none" /\ old.status # "none"
    BY <1>1, <1>2, <1>4, <2>2 DEF MarkedStop, RowMoves, FlowFollows, StepsOpen, CodeRunOver, CodeRows
  <2> QED
    BY <1>2, <2>1, <2>2, <2>3, <2>4, RowStep DEF RowHolds
<1> QED
  BY <1>2, <1>3, <1>4

LEMMA ImplFailsSteps ==
  ASSUME CodeInv, NEW p \in Plans, ImplFails(p)
  PROVE  CodeStepOK
<1> DEFINE old == runs[p]
<1>1. /\ old \in CodeRows /\ AskedWithin(old) /\ FlowFollows(old) /\ MarkedStop(old, plans[p].config, config)
      /\ config \in Int /\ base \in Int /\ plans[p].config \in Int
  BY RowFacts
<1>2. old.status \notin CodeRunOver \cup {"none"} /\ base' \in Int /\ UNCHANGED <<config, plans, sent>>
  BY RowFacts DEF ImplFails, GoesForward, Live
<1>3. CodeStepOK
  <2> DEFINE r == [runs[p] EXCEPT !.status = "FAILED"]
  <2>1. runs' = [runs EXCEPT ![p] = r]
    BY <1>1 DEF ImplFails, GoesForward, Live, Put
  <2>2. /\ r \in CodeRows /\ r.status = "FAILED"
          /\ r.desired = old.desired /\ r.impl = old.impl /\ r.phase = old.phase
          /\ r.repairs = old.repairs /\ r.step = old.step /\ r.unsettled = old.unsettled
          /\ r.paused = old.paused /\ r.flag = old.flag /\ r.turns = old.turns /\ r.target = old.target
    BY <1>1, <1>2, CapabilityCodeAssumption DEF CodeRows, Phases, CodeRunOver, StepsOpen
  <2> HIDE DEF r
  <2>3. AskedWithin(r) /\ FlowFollows(r)
    BY <1>1, <1>2, <2>2 DEF AskedWithin, FlowFollows, StepsOpen, CodeRunOver, CodeRows, Phases
  <2>4. MarkedStop(r, plans[p].config, config) /\ RowMoves(p, r) /\ r.status # "none" /\ old.status # "none"
    BY <1>1, <1>2, <2>2 DEF MarkedStop, RowMoves, FlowFollows, StepsOpen, CodeRunOver, CodeRows
  <2> QED
    BY <1>2, <2>1, <2>2, <2>3, <2>4, RowStep DEF RowHolds
<1> QED
  BY <1>2, <1>3

(* The next turn of a flow is admitted, or the flow is paused.                *)
LEMMA NextStepSteps ==
  ASSUME CodeInv, NEW p \in Plans, NEW phase \in {"reviewing", "repairing"}, Between(p),
         IF phase = "repairing" THEN runs[p].phase = "reviewing" /\ runs[p].repairs < MaxRepairs
                                ELSE runs[p].phase = "repairing",
         Put(p, NextStep(p, phase)), UNCHANGED <<config, base, plans, sent, edits>>
  PROVE  CodeStepOK
<1> DEFINE old == runs[p]
<1>1. /\ old \in CodeRows /\ AskedWithin(old) /\ FlowFollows(old) /\ MarkedStop(old, plans[p].config, config)
      /\ config \in Int /\ base \in Int /\ plans[p].config \in Int
  BY RowFacts
<1>2. old.status \notin CodeRunOver \cup {"none"} /\ old.impl = "ok" /\ old.paused = "none" /\ old.step \in {"over", "none"}
      /\ base' \in Int /\ UNCHANGED <<config, plans, sent>>
      /\ (phase = "repairing" => old.phase = "reviewing" /\ old.repairs < MaxRepairs)
      /\ (phase = "reviewing" => old.phase = "repairing")
  BY RowFacts DEF Between, Flowing, Live
<1>3. CASE runs[p].desired = "RUNNING" /\ plans[p].config = config /\ phase = "repairing"
  <2> DEFINE n == old.repairs + 1
  <2>0n. n = old.repairs + 1 /\ n \in 0 .. MaxRepairs
    BY <1>1, <1>2, CapabilityCodeAssumption, <1>3 DEF CodeRows
  <2> DEFINE r == [runs[p] EXCEPT !.phase = "repairing", !.step = "admitted", !.repairs = n]
  <2>1. runs' = [runs EXCEPT ![p] = r]
    BY <1>1, <1>3 DEF NextStep, Put
  <2> HIDE DEF n
  <2>2. /\ r \in CodeRows /\ r.phase = "repairing" /\ r.step = "admitted" /\ r.repairs = n
          /\ r.status = old.status /\ r.desired = old.desired /\ r.impl = old.impl
          /\ r.unsettled = old.unsettled /\ r.paused = old.paused /\ r.flag = old.flag
          /\ r.turns = old.turns /\ r.target = old.target
    BY <1>1, <1>2, <1>3, <2>0n, CapabilityCodeAssumption DEF CodeRows, Phases, CodeRunOver, StepsOpen
  <2> HIDE DEF r
  <2>3. AskedWithin(r) /\ FlowFollows(r)
    BY <1>1, <1>2, <1>3, <2>2, <2>0n DEF AskedWithin, FlowFollows, StepsOpen, CodeRunOver, CodeRows, Phases
  <2>4. MarkedStop(r, plans[p].config, config) /\ RowMoves(p, r) /\ r.status # "none" /\ old.status # "none"
    BY <1>1, <1>2, <1>3, <2>2 DEF MarkedStop, RowMoves, FlowFollows, StepsOpen, CodeRunOver, CodeRows
  <2> QED
    BY <1>2, <2>1, <2>2, <2>3, <2>4, RowStep DEF RowHolds
<1>4. CASE runs[p].desired = "RUNNING" /\ plans[p].config = config /\ phase = "reviewing"
  <2> DEFINE r == [runs[p] EXCEPT !.phase = "reviewing", !.step = "admitted", !.target = base]
  <2>1. runs' = [runs EXCEPT ![p] = r]
    BY <1>1, <1>4 DEF NextStep, Put
  <2>2. /\ r \in CodeRows /\ r.phase = "reviewing" /\ r.step = "admitted" /\ r.target = base
          /\ r.status = old.status /\ r.desired = old.desired /\ r.impl = old.impl
          /\ r.repairs = old.repairs /\ r.unsettled = old.unsettled /\ r.paused = old.paused
          /\ r.flag = old.flag /\ r.turns = old.turns
    BY <1>1, <1>2, <1>4, CapabilityCodeAssumption DEF CodeRows, Phases, CodeRunOver, StepsOpen
  <2> HIDE DEF r
  <2>3. AskedWithin(r) /\ FlowFollows(r)
    BY <1>1, <1>2, <1>4, <2>2 DEF AskedWithin, FlowFollows, StepsOpen, CodeRunOver, CodeRows, Phases
  <2>4. MarkedStop(r, plans[p].config, config) /\ RowMoves(p, r) /\ r.status # "none" /\ old.status # "none"
    BY <1>1, <1>2, <1>4, <2>2 DEF MarkedStop, RowMoves, FlowFollows, StepsOpen, CodeRunOver, CodeRows
  <2> QED
    BY <1>2, <2>1, <2>2, <2>3, <2>4, RowStep DEF RowHolds
<1>5. CASE ~(runs[p].desired = "RUNNING" /\ plans[p].config = config)
  <2> DEFINE r == [runs[p] EXCEPT !.paused = "control"]
  <2>1. runs' = [runs EXCEPT ![p] = r]
    BY <1>1, <1>5 DEF NextStep, Put
  <2>2. /\ r \in CodeRows /\ r.paused = "control"
          /\ r.status = old.status /\ r.desired = old.desired /\ r.impl = old.impl /\ r.phase = old.phase
          /\ r.repairs = old.repairs /\ r.step = old.step /\ r.unsettled = old.unsettled
          /\ r.flag = old.flag /\ r.turns = old.turns /\ r.target = old.target
    BY <1>1, <1>2, <1>5, CapabilityCodeAssumption DEF CodeRows, Phases, CodeRunOver, StepsOpen
  <2> HIDE DEF r
  <2>3. AskedWithin(r) /\ FlowFollows(r)
    BY <1>1, <1>2, <1>5, <2>2 DEF AskedWithin, FlowFollows, StepsOpen, CodeRunOver, CodeRows, Phases
  <2>4. MarkedStop(r, plans[p].config, config) /\ RowMoves(p, r) /\ r.status # "none" /\ old.status # "none"
    BY <1>1, <1>2, <1>5, <2>2 DEF MarkedStop, RowMoves, FlowFollows, StepsOpen, CodeRunOver, CodeRows
  <2> QED
    BY <1>2, <2>1, <2>2, <2>3, <2>4, RowStep DEF RowHolds
<1> QED
  BY <1>2, <1>3, <1>4, <1>5

LEMMA AfterReviewSteps ==
  ASSUME CodeInv, NEW p \in Plans, AfterReview(p)
  PROVE  CodeStepOK
<1> DEFINE old == runs[p]
<1>1. /\ old \in CodeRows /\ AskedWithin(old) /\ FlowFollows(old) /\ MarkedStop(old, plans[p].config, config)
      /\ config \in Int /\ base \in Int /\ plans[p].config \in Int
  BY RowFacts
<1>2. old.status \notin CodeRunOver \cup {"none"} /\ old.impl = "ok" /\ old.paused = "none" /\ old.step \in {"over", "none"}
      /\ old.phase = "reviewing" /\ base' \in Int /\ UNCHANGED <<config, plans, sent>>
  BY RowFacts DEF AfterReview, Between, Flowing, Live, Put
<1>3. CASE runs' = [runs EXCEPT ![p] = [runs[p] EXCEPT !.phase = "blocked", !.paused = "flow"]]
  <2> DEFINE r == [runs[p] EXCEPT !.phase = "blocked", !.paused = "flow"]
  <2>1. runs' = [runs EXCEPT ![p] = r]
    BY <1>1, <1>3 DEF AfterReview, Between, Flowing, Live, Put, Put
  <2>2. /\ r \in CodeRows /\ r.phase = "blocked" /\ r.paused = "flow"
          /\ r.status = old.status /\ r.desired = old.desired /\ r.impl = old.impl
          /\ r.repairs = old.repairs /\ r.step = old.step /\ r.unsettled = old.unsettled
          /\ r.flag = old.flag /\ r.turns = old.turns /\ r.target = old.target
    BY <1>1, <1>2, <1>3, CapabilityCodeAssumption DEF CodeRows, Phases, CodeRunOver, StepsOpen
  <2> HIDE DEF r
  <2>3. AskedWithin(r) /\ FlowFollows(r)
    BY <1>1, <1>2, <1>3, <2>2 DEF AskedWithin, FlowFollows, StepsOpen, CodeRunOver, CodeRows, Phases
  <2>4. MarkedStop(r, plans[p].config, config) /\ RowMoves(p, r) /\ r.status # "none" /\ old.status # "none"
    BY <1>1, <1>2, <1>3, <2>2 DEF MarkedStop, RowMoves, FlowFollows, StepsOpen, CodeRunOver, CodeRows
  <2> QED
    BY <1>2, <2>1, <2>2, <2>3, <2>4, RowStep DEF RowHolds
<1>4. CASE runs' = [runs EXCEPT ![p] = [runs[p] EXCEPT !.phase = "completed"]]
  <2> DEFINE r == [runs[p] EXCEPT !.phase = "completed"]
  <2>1. runs' = [runs EXCEPT ![p] = r]
    BY <1>1, <1>4 DEF AfterReview, Between, Flowing, Live, Put, Put
  <2>2. /\ r \in CodeRows /\ r.phase = "completed"
          /\ r.status = old.status /\ r.desired = old.desired /\ r.impl = old.impl
          /\ r.repairs = old.repairs /\ r.step = old.step /\ r.unsettled = old.unsettled
          /\ r.paused = old.paused /\ r.flag = old.flag /\ r.turns = old.turns /\ r.target = old.target
    BY <1>1, <1>2, <1>4, CapabilityCodeAssumption DEF CodeRows, Phases, CodeRunOver, StepsOpen
  <2> HIDE DEF r
  <2>3. AskedWithin(r) /\ FlowFollows(r)
    BY <1>1, <1>2, <1>4, <2>2 DEF AskedWithin, FlowFollows, StepsOpen, CodeRunOver, CodeRows, Phases
  <2>4. MarkedStop(r, plans[p].config, config) /\ RowMoves(p, r) /\ r.status # "none" /\ old.status # "none"
    BY <1>1, <1>2, <1>4, <2>2 DEF MarkedStop, RowMoves, FlowFollows, StepsOpen, CodeRunOver, CodeRows
  <2> QED
    BY <1>2, <2>1, <2>2, <2>3, <2>4, RowStep DEF RowHolds
<1>5. CASE RepairsLeft(runs[p]) /\ Put(p, NextStep(p, "repairing"))
  BY <1>5, NextStepSteps DEF AfterReview, RepairsLeft
<1> QED
  BY <1>3, <1>4, <1>5 DEF AfterReview, Put

LEMMA AfterRepairSteps ==
  ASSUME CodeInv, NEW p \in Plans, AfterRepair(p)
  PROVE  CodeStepOK
BY NextStepSteps DEF AfterRepair

(* A turn is called or refused, and reports.                                 *)
LEMMA StepStartsSteps ==
  ASSUME CodeInv, NEW p \in Plans, StepStarts(p)
  PROVE  CodeStepOK
<1> DEFINE old == runs[p]
<1>1. /\ old \in CodeRows /\ AskedWithin(old) /\ FlowFollows(old) /\ MarkedStop(old, plans[p].config, config)
      /\ config \in Int /\ base \in Int /\ plans[p].config \in Int
  BY RowFacts
<1>2. old.status \notin CodeRunOver \cup {"none"} /\ old.impl = "ok" /\ old.paused = "none" /\ old.step = "admitted" /\ base' \in Int /\ UNCHANGED <<config, plans, sent>>
  BY RowFacts DEF StepStarts, Flowing, Live
<1>3. CASE plans[p].config = config
  <2> DEFINE n == old.turns + 1
  <2>0n. n = old.turns + 1 /\ n \in Nat
    BY <1>1, <1>2, CapabilityCodeAssumption, <1>3 DEF CodeRows
  <2> DEFINE r == [runs[p] EXCEPT !.step = "running", !.turns = n]
  <2>1. runs' = [runs EXCEPT ![p] = r]
    BY <1>1, <1>3 DEF StepStarts, Flowing, Live, Put
  <2> HIDE DEF n
  <2>2. /\ r \in CodeRows /\ r.step = "running" /\ r.turns = n
          /\ r.status = old.status /\ r.desired = old.desired /\ r.impl = old.impl /\ r.phase = old.phase
          /\ r.repairs = old.repairs /\ r.unsettled = old.unsettled /\ r.paused = old.paused
          /\ r.flag = old.flag /\ r.target = old.target
    BY <1>1, <1>2, <1>3, <2>0n, CapabilityCodeAssumption DEF CodeRows, Phases, CodeRunOver, StepsOpen
  <2> HIDE DEF r
  <2>3. AskedWithin(r) /\ FlowFollows(r)
    BY <1>1, <1>2, <1>3, <2>2, <2>0n DEF AskedWithin, FlowFollows, StepsOpen, CodeRunOver, CodeRows, Phases
  <2>4. MarkedStop(r, plans[p].config, config) /\ RowMoves(p, r) /\ r.status # "none" /\ old.status # "none"
    BY <1>1, <1>2, <1>3, <2>2 DEF MarkedStop, RowMoves, FlowFollows, StepsOpen, CodeRunOver, CodeRows
  <2> QED
    BY <1>2, <2>1, <2>2, <2>3, <2>4, RowStep DEF RowHolds
<1>4. CASE plans[p].config # config
  <2> DEFINE n == old.unsettled + 1
  <2>0n. n = old.unsettled + 1 /\ n \in Nat
    BY <1>1, <1>2, CapabilityCodeAssumption, <1>4 DEF CodeRows
  <2> DEFINE r == [runs[p] EXCEPT !.step = "over", !.unsettled = n, !.phase = "blocked", !.paused = "flow"]
  <2>1. runs' = [runs EXCEPT ![p] = r]
    BY <1>1, <1>4 DEF StepStarts, Flowing, Live, Put
  <2> HIDE DEF n
  <2>2. /\ r \in CodeRows /\ r.step = "over" /\ r.unsettled = n /\ r.phase = "blocked" /\ r.paused = "flow"
          /\ r.status = old.status /\ r.desired = old.desired /\ r.impl = old.impl
          /\ r.repairs = old.repairs /\ r.flag = old.flag /\ r.turns = old.turns /\ r.target = old.target
    BY <1>1, <1>2, <1>4, <2>0n, CapabilityCodeAssumption DEF CodeRows, Phases, CodeRunOver, StepsOpen
  <2> HIDE DEF r
  <2>3. AskedWithin(r) /\ FlowFollows(r)
    BY <1>1, <1>2, <1>4, <2>2, <2>0n DEF AskedWithin, FlowFollows, StepsOpen, CodeRunOver, CodeRows, Phases
  <2>4. MarkedStop(r, plans[p].config, config) /\ RowMoves(p, r) /\ r.status # "none" /\ old.status # "none"
    BY <1>1, <1>2, <1>4, <2>2 DEF MarkedStop, RowMoves, FlowFollows, StepsOpen, CodeRunOver, CodeRows
  <2> QED
    BY <1>2, <2>1, <2>2, <2>3, <2>4, RowStep DEF RowHolds
<1> QED
  BY <1>2, <1>3, <1>4

LEMMA StepEndsSteps ==
  ASSUME CodeInv, NEW p \in Plans, NEW how \in {"over", "unknown"}, StepEnds(p, how)
  PROVE  CodeStepOK
<1> DEFINE old == runs[p]
<1>1. /\ old \in CodeRows /\ AskedWithin(old) /\ FlowFollows(old) /\ MarkedStop(old, plans[p].config, config)
      /\ config \in Int /\ base \in Int /\ plans[p].config \in Int
  BY RowFacts
<1>2. old.step \in {"running", "unknown"} /\ base' \in Int /\ UNCHANGED <<config, plans, sent>>
  BY RowFacts DEF StepEnds
<1>3. CASE how = "over"
  <2> DEFINE n == old.unsettled + 1
  <2>0n. n = old.unsettled + 1 /\ n \in Nat
    BY <1>1, <1>2, CapabilityCodeAssumption, <1>3 DEF CodeRows
  <2> DEFINE r == [runs[p] EXCEPT !.step = how, !.unsettled = n]
  <2>1. runs' = [runs EXCEPT ![p] = r]
    BY <1>1, <1>3 DEF StepEnds, Put
  <2> HIDE DEF n
  <2>2. /\ r \in CodeRows /\ r.step = "over" /\ r.unsettled = n
          /\ r.status = old.status /\ r.desired = old.desired /\ r.impl = old.impl /\ r.phase = old.phase
          /\ r.repairs = old.repairs /\ r.paused = old.paused /\ r.flag = old.flag /\ r.turns = old.turns
          /\ r.target = old.target
    BY <1>1, <1>2, <1>3, <2>0n, CapabilityCodeAssumption DEF CodeRows, Phases, CodeRunOver, StepsOpen
  <2> HIDE DEF r
  <2>3. AskedWithin(r) /\ FlowFollows(r)
    BY <1>1, <1>2, <1>3, <2>2, <2>0n DEF AskedWithin, FlowFollows, StepsOpen, CodeRunOver, CodeRows, Phases
  <2>4. MarkedStop(r, plans[p].config, config) /\ RowMoves(p, r) /\ r.status # "none" /\ old.status # "none"
    BY <1>1, <1>2, <1>3, <2>2 DEF MarkedStop, RowMoves, FlowFollows, StepsOpen, CodeRunOver, CodeRows
  <2> QED
    BY <1>2, <2>1, <2>2, <2>3, <2>4, RowStep DEF RowHolds
<1>4. CASE how = "unknown"
  <2> DEFINE r == [runs[p] EXCEPT !.step = how]
  <2>1. runs' = [runs EXCEPT ![p] = r]
    BY <1>1, <1>4 DEF StepEnds, Put
  <2>2. /\ r \in CodeRows /\ r.step = "unknown"
          /\ r.status = old.status /\ r.desired = old.desired /\ r.impl = old.impl /\ r.phase = old.phase
          /\ r.repairs = old.repairs /\ r.unsettled = old.unsettled /\ r.paused = old.paused
          /\ r.flag = old.flag /\ r.turns = old.turns /\ r.target = old.target
    BY <1>1, <1>2, <1>4, CapabilityCodeAssumption DEF CodeRows, Phases, CodeRunOver, StepsOpen
  <2> HIDE DEF r
  <2>3. AskedWithin(r) /\ FlowFollows(r)
    BY <1>1, <1>2, <1>4, <2>2 DEF AskedWithin, FlowFollows, StepsOpen, CodeRunOver, CodeRows, Phases
  <2>4. MarkedStop(r, plans[p].config, config) /\ RowMoves(p, r) /\ r.status # "none" /\ old.status # "none"
    BY <1>1, <1>2, <1>4, <2>2 DEF MarkedStop, RowMoves, FlowFollows, StepsOpen, CodeRunOver, CodeRows
  <2> QED
    BY <1>2, <2>1, <2>2, <2>3, <2>4, RowStep DEF RowHolds
<1> QED
  BY <1>2, <1>3, <1>4

(* The control intent stops the flow.                                        *)
LEMMA ProgressStopsSteps ==
  ASSUME CodeInv, NEW p \in Plans, ProgressStops(p)
  PROVE  CodeStepOK
<1> DEFINE old == runs[p]
           r == SettleSteps(runs[p])
           s == IF r.phase # "none" /\ ~r.flag /\ FlagAlways(r) THEN [r EXCEPT !.paused = "control", !.flag = TRUE] ELSE r
<1>1. /\ old \in CodeRows /\ AskedWithin(old) /\ FlowFollows(old) /\ MarkedStop(old, plans[p].config, config)
      /\ config \in Int /\ base \in Int /\ plans[p].config \in Int
  BY RowFacts
<1>2. /\ r \in CodeRows /\ r.unsettled = 0 /\ r.status = old.status /\ r.desired = old.desired /\ r.impl = old.impl
      /\ r.phase = old.phase /\ r.repairs = old.repairs /\ r.step = old.step /\ r.paused = old.paused
      /\ r.flag = old.flag /\ r.turns = old.turns /\ r.target = old.target
  BY <1>1 DEF CodeRows, SettleSteps
<1>3. /\ Live(p) /\ r.impl = "ok" /\ r.desired # "RUNNING" /\ base' = base /\ UNCHANGED <<config, plans, sent>>
      /\ runs' = [runs EXCEPT ![p] =
           IF r.step \in StepsOpen
           THEN IF r.desired = "CANCELED" /\ r.step = "admitted"
                THEN [s EXCEPT !.step = "over", !.unsettled = 1, !.phase = "blocked"] ELSE s
           ELSE [s EXCEPT !.status = IF r.desired = "PAUSED" THEN "PAUSED" ELSE "CANCELED"]]
  BY DEF ProgressStops, Put
<1>3a. /\ old.status \notin CodeRunOver \cup {"none"} /\ old.impl = "ok" /\ old.desired # "RUNNING"
       /\ base' \in Int /\ UNCHANGED <<config, plans, sent>>
  BY <1>1, <1>2, <1>3 DEF Live
<1> HIDE DEF r
<1>4. /\ s \in CodeRows /\ s.unsettled = 0 /\ s.status = old.status /\ s.desired = old.desired /\ s.impl = old.impl
      /\ s.phase = old.phase /\ s.repairs = old.repairs /\ s.step = old.step
      /\ s.turns = old.turns /\ s.target = old.target
      /\ (s.phase # "none" => s.flag) /\ (s.phase = "none" => s.flag = old.flag /\ s.paused = old.paused)
  <2>1. CASE r.phase # "none" /\ ~r.flag
    <3>1. s = [r EXCEPT !.paused = "control", !.flag = TRUE]
      BY <2>1 DEF FlagAlways
    <3> HIDE DEF s
    <3> QED
      BY <1>2, <2>1, <3>1 DEF CodeRows
  <2>2. CASE ~(r.phase # "none" /\ ~r.flag)
    <3>1. s = r
      BY <2>2
    <3> HIDE DEF s
    <3> QED
      BY <1>2, <2>2, <3>1 DEF CodeRows
  <2> QED
    BY <2>1, <2>2
<1> HIDE DEF s
<1> DEFINE one == 1
<1>4a. one = 1 /\ one \in Nat
  OBVIOUS
<1> HIDE DEF one
<1>5. CASE r.step \in StepsOpen /\ r.desired = "CANCELED" /\ r.step = "admitted"
  <2> DEFINE x == [s EXCEPT !.step = "over", !.unsettled = one, !.phase = "blocked"]
  <2>1. runs' = [runs EXCEPT ![p] = x]
    BY <1>2, <1>3, <1>4, <1>4a, <1>5 DEF StepsOpen
  <2>2. /\ x \in CodeRows /\ x.step = "over" /\ x.unsettled = one /\ x.phase = "blocked"
         /\ x.status = s.status /\ x.desired = s.desired /\ x.impl = s.impl
         /\ x.repairs = s.repairs /\ x.paused = s.paused /\ x.flag = s.flag /\ x.turns = s.turns
         /\ x.target = s.target
    <3>1. s \in CodeRows
      BY <1>4
    <3>2. one \in Nat
      BY <1>4a
    <3> QED
      BY <3>1, <3>2 DEF CodeRows, Phases, CodeRunOver, StepsOpen
  <2> HIDE DEF x
  <2>3. AskedWithin(x) /\ FlowFollows(x)
    BY <1>1, <1>2, <1>3a, <1>4, <1>5, <2>2 DEF AskedWithin, FlowFollows, StepsOpen, CodeRunOver, CodeRows, Phases
  <2>4. x.desired # "RUNNING" /\ (x.phase # "none" => x.flag)
    BY <1>1, <1>2, <1>3a, <1>4, <1>5, <2>2 DEF FlowFollows, StepsOpen
  <2>5. MarkedStop(x, plans[p].config, config)
    BY <2>4 DEF MarkedStop
  <2>6. RowMoves(p, x) /\ x.status # "none" /\ old.status # "none"
    BY <1>2, <1>3a, <1>4, <1>5, <2>2 DEF RowMoves
  <2> QED
    BY <1>1, <1>3a, <2>1, <2>2, <2>3, <2>5, <2>6, RowStep DEF RowHolds
<1>6. CASE r.step \in StepsOpen /\ ~(r.desired = "CANCELED" /\ r.step = "admitted")
  <2> DEFINE x == s
  <2>1. runs' = [runs EXCEPT ![p] = x]
    BY <1>2, <1>3, <1>4, <1>4a, <1>6 DEF StepsOpen
  <2>2. /\ x \in CodeRows
         /\ x.status = s.status /\ x.desired = s.desired /\ x.impl = s.impl /\ x.phase = s.phase
         /\ x.repairs = s.repairs /\ x.step = s.step /\ x.unsettled = s.unsettled
         /\ x.paused = s.paused /\ x.flag = s.flag /\ x.turns = s.turns /\ x.target = s.target
    <3>1. s \in CodeRows
      BY <1>4
    <3>2. one \in Nat
      BY <1>4a
    <3> QED
      BY <3>1, <3>2 DEF CodeRows, Phases, CodeRunOver, StepsOpen
  <2> HIDE DEF x
  <2>3. AskedWithin(x) /\ FlowFollows(x)
    BY <1>1, <1>2, <1>3a, <1>4, <1>6, <2>2 DEF AskedWithin, FlowFollows, StepsOpen, CodeRunOver, CodeRows, Phases
  <2>4. x.desired # "RUNNING" /\ (x.phase # "none" => x.flag)
    BY <1>1, <1>2, <1>3a, <1>4, <1>6, <2>2 DEF FlowFollows, StepsOpen
  <2>5. MarkedStop(x, plans[p].config, config)
    BY <2>4 DEF MarkedStop
  <2>6. RowMoves(p, x) /\ x.status # "none" /\ old.status # "none"
    BY <1>2, <1>3a, <1>4, <1>6, <2>2 DEF RowMoves
  <2> QED
    BY <1>1, <1>3a, <2>1, <2>2, <2>3, <2>5, <2>6, RowStep DEF RowHolds
<1>7. CASE r.step \notin StepsOpen /\ r.desired = "PAUSED"
  <2> DEFINE x == [s EXCEPT !.status = "PAUSED"]
  <2>1. runs' = [runs EXCEPT ![p] = x]
    BY <1>2, <1>3, <1>4, <1>4a, <1>7 DEF StepsOpen
  <2>2. /\ x \in CodeRows /\ x.status = "PAUSED"
         /\ x.desired = s.desired /\ x.impl = s.impl /\ x.phase = s.phase /\ x.repairs = s.repairs
         /\ x.step = s.step /\ x.unsettled = s.unsettled /\ x.paused = s.paused /\ x.flag = s.flag
         /\ x.turns = s.turns /\ x.target = s.target
    <3>1. s \in CodeRows
      BY <1>4
    <3>2. one \in Nat
      BY <1>4a
    <3> QED
      BY <3>1, <3>2 DEF CodeRows, Phases, CodeRunOver, StepsOpen
  <2> HIDE DEF x
  <2>3. AskedWithin(x) /\ FlowFollows(x)
    BY <1>1, <1>2, <1>3a, <1>4, <1>7, <2>2 DEF AskedWithin, FlowFollows, StepsOpen, CodeRunOver, CodeRows, Phases
  <2>4. x.desired # "RUNNING" /\ (x.phase # "none" => x.flag)
    BY <1>1, <1>2, <1>3a, <1>4, <1>7, <2>2 DEF FlowFollows, StepsOpen
  <2>5. MarkedStop(x, plans[p].config, config)
    BY <2>4 DEF MarkedStop
  <2>6. RowMoves(p, x) /\ x.status # "none" /\ old.status # "none"
    BY <1>2, <1>3a, <1>4, <1>7, <2>2 DEF RowMoves
  <2> QED
    BY <1>1, <1>3a, <2>1, <2>2, <2>3, <2>5, <2>6, RowStep DEF RowHolds
<1>8. CASE r.step \notin StepsOpen /\ r.desired # "PAUSED"
  <2> DEFINE x == [s EXCEPT !.status = "CANCELED"]
  <2>1. runs' = [runs EXCEPT ![p] = x]
    BY <1>2, <1>3, <1>4, <1>4a, <1>8 DEF StepsOpen
  <2>2. /\ x \in CodeRows /\ x.status = "CANCELED"
         /\ x.desired = s.desired /\ x.impl = s.impl /\ x.phase = s.phase /\ x.repairs = s.repairs
         /\ x.step = s.step /\ x.unsettled = s.unsettled /\ x.paused = s.paused /\ x.flag = s.flag
         /\ x.turns = s.turns /\ x.target = s.target
    <3>1. s \in CodeRows
      BY <1>4
    <3>2. one \in Nat
      BY <1>4a
    <3> QED
      BY <3>1, <3>2 DEF CodeRows, Phases, CodeRunOver, StepsOpen
  <2> HIDE DEF x
  <2>3. AskedWithin(x) /\ FlowFollows(x)
    BY <1>1, <1>2, <1>3a, <1>4, <1>8, <2>2 DEF AskedWithin, FlowFollows, StepsOpen, CodeRunOver, CodeRows, Phases
  <2>4. x.desired # "RUNNING" /\ (x.phase # "none" => x.flag)
    BY <1>1, <1>2, <1>3a, <1>4, <1>8, <2>2 DEF FlowFollows, StepsOpen
  <2>5. MarkedStop(x, plans[p].config, config)
    BY <2>4 DEF MarkedStop
  <2>6. RowMoves(p, x) /\ x.status # "none" /\ old.status # "none"
    BY <1>2, <1>3a, <1>4, <1>8, <2>2 DEF RowMoves
  <2> QED
    BY <1>1, <1>3a, <2>1, <2>2, <2>3, <2>5, <2>6, RowStep DEF RowHolds
<1> QED
  BY <1>5, <1>6, <1>7, <1>8

(* The flow goes on, begins and ends.                                        *)
LEMMA ProgressResumesSteps ==
  ASSUME CodeInv, NEW p \in Plans, ProgressResumes(p)
  PROVE  CodeStepOK
<1> DEFINE old == runs[p]
<1>1. /\ old \in CodeRows /\ AskedWithin(old) /\ FlowFollows(old) /\ MarkedStop(old, plans[p].config, config)
      /\ config \in Int /\ base \in Int /\ plans[p].config \in Int
  BY RowFacts
<1>2. old.status \notin CodeRunOver \cup {"none"} /\ old.desired = "RUNNING" /\ old.impl = "ok" /\ old.flag /\ base' \in Int /\ UNCHANGED <<config, plans, sent>>
  BY RowFacts DEF ProgressResumes, GoesForward, Live
<1>3. CodeStepOK
  <2> DEFINE r == [SettleSteps(runs[p]) EXCEPT !.flag = FALSE, !.paused = "none"]
  <2>1. runs' = [runs EXCEPT ![p] = r]
    BY <1>1 DEF ProgressResumes, GoesForward, Live, Put
  <2>2. /\ r \in CodeRows /\ r.unsettled = 0 /\ r.flag = FALSE /\ r.paused = "none"
          /\ r.status = old.status /\ r.desired = old.desired /\ r.impl = old.impl /\ r.phase = old.phase
          /\ r.repairs = old.repairs /\ r.step = old.step /\ r.turns = old.turns /\ r.target = old.target
    BY <1>1, <1>2, CapabilityCodeAssumption DEF CodeRows, Phases, CodeRunOver, StepsOpen, SettleSteps
  <2> HIDE DEF r
  <2>3. AskedWithin(r) /\ FlowFollows(r)
    BY <1>1, <1>2, <2>2 DEF AskedWithin, FlowFollows, StepsOpen, CodeRunOver, CodeRows, Phases
  <2>4. MarkedStop(r, plans[p].config, config) /\ RowMoves(p, r) /\ r.status # "none" /\ old.status # "none"
    BY <1>1, <1>2, <2>2 DEF MarkedStop, RowMoves, FlowFollows, StepsOpen, CodeRunOver, CodeRows
  <2> QED
    BY <1>2, <2>1, <2>2, <2>3, <2>4, RowStep DEF RowHolds
<1> QED
  BY <1>2, <1>3

LEMMA ProgressBeginsSteps ==
  ASSUME CodeInv, NEW p \in Plans, ProgressBegins(p)
  PROVE  CodeStepOK
<1> DEFINE old == runs[p]
<1>1. /\ old \in CodeRows /\ AskedWithin(old) /\ FlowFollows(old) /\ MarkedStop(old, plans[p].config, config)
      /\ config \in Int /\ base \in Int /\ plans[p].config \in Int
  BY RowFacts
<1>2. old.status \notin CodeRunOver \cup {"none"} /\ old.desired = "RUNNING" /\ old.impl = "ok" /\ old.phase = "none" /\ base' \in Int /\ UNCHANGED <<config, plans, sent>>
  BY RowFacts DEF ProgressBegins, GoesForward, Live
<1>3. CASE plans[p].config = config
  <2> DEFINE r == [NextStep(p, "reviewing") EXCEPT !.status = "WAITING"]
  <2>1. runs' = [runs EXCEPT ![p] = r]
    BY <1>1, <1>3 DEF ProgressBegins, GoesForward, Live, Put
  <2>2. /\ r \in CodeRows /\ r.status = "WAITING" /\ r.phase = "reviewing" /\ r.step = "admitted" /\ r.target = base
          /\ r.desired = old.desired /\ r.impl = old.impl /\ r.repairs = old.repairs
          /\ r.unsettled = old.unsettled /\ r.paused = old.paused /\ r.flag = old.flag
          /\ r.turns = old.turns
    BY <1>1, <1>2, <1>3, CapabilityCodeAssumption DEF CodeRows, Phases, CodeRunOver, StepsOpen, NextStep
  <2> HIDE DEF r
  <2>3. AskedWithin(r) /\ FlowFollows(r)
    BY <1>1, <1>2, <1>3, <2>2 DEF AskedWithin, FlowFollows, StepsOpen, CodeRunOver, CodeRows, Phases
  <2>4. MarkedStop(r, plans[p].config, config) /\ RowMoves(p, r) /\ r.status # "none" /\ old.status # "none"
    BY <1>1, <1>2, <1>3, <2>2 DEF MarkedStop, RowMoves, FlowFollows, StepsOpen, CodeRunOver, CodeRows
  <2> QED
    BY <1>2, <2>1, <2>2, <2>3, <2>4, RowStep DEF RowHolds
<1>4. CASE plans[p].config # config
  <2> DEFINE r == [runs[p] EXCEPT !.status = "WAITING"]
  <2>1. runs' = [runs EXCEPT ![p] = r]
    BY <1>1, <1>4 DEF ProgressBegins, GoesForward, Live, Put
  <2>2. /\ r \in CodeRows /\ r.status = "WAITING"
          /\ r.desired = old.desired /\ r.impl = old.impl /\ r.phase = old.phase
          /\ r.repairs = old.repairs /\ r.step = old.step /\ r.unsettled = old.unsettled
          /\ r.paused = old.paused /\ r.flag = old.flag /\ r.turns = old.turns /\ r.target = old.target
    BY <1>1, <1>2, <1>4, CapabilityCodeAssumption DEF CodeRows, Phases, CodeRunOver, StepsOpen
  <2> HIDE DEF r
  <2>3. AskedWithin(r) /\ FlowFollows(r)
    BY <1>1, <1>2, <1>4, <2>2 DEF AskedWithin, FlowFollows, StepsOpen, CodeRunOver, CodeRows, Phases
  <2>4. MarkedStop(r, plans[p].config, config) /\ RowMoves(p, r) /\ r.status # "none" /\ old.status # "none"
    BY <1>1, <1>2, <1>4, <2>2 DEF MarkedStop, RowMoves, FlowFollows, StepsOpen, CodeRunOver, CodeRows
  <2> QED
    BY <1>2, <2>1, <2>2, <2>3, <2>4, RowStep DEF RowHolds
<1> QED
  BY <1>2, <1>3, <1>4

LEMMA ProgressEndsSteps ==
  ASSUME CodeInv, NEW p \in Plans, ProgressEnds(p)
  PROVE  CodeStepOK
<1> DEFINE old == runs[p]
<1>1. /\ old \in CodeRows /\ AskedWithin(old) /\ FlowFollows(old) /\ MarkedStop(old, plans[p].config, config)
      /\ config \in Int /\ base \in Int /\ plans[p].config \in Int
  BY RowFacts
<1>2. old.status \notin CodeRunOver \cup {"none"} /\ old.desired = "RUNNING" /\ old.impl = "ok" /\ old.phase = "completed"
      /\ base' \in Int /\ UNCHANGED <<config, plans, sent>>
  BY <1>1, RowFacts DEF FlowFollows, CodeRows,  ProgressEnds, SettleSteps, GoesForward, Live, SameFiles
<1>2a. LET s == SettleSteps(runs[p])
       IN  Put(p, IF base # old.target THEN [s EXCEPT !.phase = "blocked", !.paused = "flow", !.status = "WAITING"]
                  ELSE [s EXCEPT !.status = IF plans[p].config = config THEN "SUCCEEDED" ELSE "FAILED"])
  <2>1. SettleSteps(runs[p]).target = old.target
    BY <1>1 DEF SettleSteps, CodeRows
  <2> QED
    BY <2>1 DEF ProgressEnds, SameFiles
<1>3. CASE base # old.target
  <2> DEFINE r == [SettleSteps(runs[p]) EXCEPT !.phase = "blocked", !.paused = "flow", !.status = "WAITING"]
  <2>1. runs' = [runs EXCEPT ![p] = r]
    BY <1>1, <1>2a, <1>3 DEF Put
  <2>2. /\ r \in CodeRows /\ r.unsettled = 0 /\ r.status = "WAITING" /\ r.phase = "blocked" /\ r.paused = "flow"
          /\ r.desired = old.desired /\ r.impl = old.impl /\ r.repairs = old.repairs /\ r.step = old.step
          /\ r.flag = old.flag /\ r.turns = old.turns /\ r.target = old.target
    BY <1>1, <1>2, <1>3, CapabilityCodeAssumption DEF CodeRows, Phases, CodeRunOver, StepsOpen, SettleSteps
  <2> HIDE DEF r
  <2>3. AskedWithin(r) /\ FlowFollows(r)
    BY <1>1, <1>2, <1>3, <2>2 DEF AskedWithin, FlowFollows, StepsOpen, CodeRunOver, CodeRows, Phases
  <2>4. MarkedStop(r, plans[p].config, config) /\ RowMoves(p, r) /\ r.status # "none" /\ old.status # "none"
    BY <1>1, <1>2, <1>3, <2>2 DEF MarkedStop, RowMoves, FlowFollows, StepsOpen, CodeRunOver, CodeRows
  <2> QED
    BY <1>2, <2>1, <2>2, <2>3, <2>4, RowStep DEF RowHolds
<1>4. CASE base = old.target /\ plans[p].config = config
  <2> DEFINE r == [SettleSteps(runs[p]) EXCEPT !.status = "SUCCEEDED"]
  <2>1. runs' = [runs EXCEPT ![p] = r]
    BY <1>1, <1>2a, <1>4 DEF Put
  <2>2. /\ r \in CodeRows /\ r.unsettled = 0 /\ r.status = "SUCCEEDED"
          /\ r.desired = old.desired /\ r.impl = old.impl /\ r.phase = old.phase
          /\ r.repairs = old.repairs /\ r.step = old.step /\ r.paused = old.paused /\ r.flag = old.flag
          /\ r.turns = old.turns /\ r.target = old.target
    BY <1>1, <1>2, <1>4, CapabilityCodeAssumption DEF CodeRows, Phases, CodeRunOver, StepsOpen, SettleSteps
  <2> HIDE DEF r
  <2>3. AskedWithin(r) /\ FlowFollows(r)
    BY <1>1, <1>2, <1>4, <2>2 DEF AskedWithin, FlowFollows, StepsOpen, CodeRunOver, CodeRows, Phases
  <2>4. MarkedStop(r, plans[p].config, config) /\ RowMoves(p, r) /\ r.status # "none" /\ old.status # "none"
    BY <1>1, <1>2, <1>4, <2>2 DEF MarkedStop, RowMoves, FlowFollows, StepsOpen, CodeRunOver, CodeRows
  <2> QED
    BY <1>2, <2>1, <2>2, <2>3, <2>4, RowStep DEF RowHolds
<1>5. CASE base = old.target /\ plans[p].config # config
  <2> DEFINE r == [SettleSteps(runs[p]) EXCEPT !.status = "FAILED"]
  <2>1. runs' = [runs EXCEPT ![p] = r]
    BY <1>1, <1>2a, <1>5 DEF Put
  <2>2. /\ r \in CodeRows /\ r.unsettled = 0 /\ r.status = "FAILED"
          /\ r.desired = old.desired /\ r.impl = old.impl /\ r.phase = old.phase
          /\ r.repairs = old.repairs /\ r.step = old.step /\ r.paused = old.paused /\ r.flag = old.flag
          /\ r.turns = old.turns /\ r.target = old.target
    BY <1>1, <1>2, <1>5, CapabilityCodeAssumption DEF CodeRows, Phases, CodeRunOver, StepsOpen, SettleSteps
  <2> HIDE DEF r
  <2>3. AskedWithin(r) /\ FlowFollows(r)
    BY <1>1, <1>2, <1>5, <2>2 DEF AskedWithin, FlowFollows, StepsOpen, CodeRunOver, CodeRows, Phases
  <2>4. MarkedStop(r, plans[p].config, config) /\ RowMoves(p, r) /\ r.status # "none" /\ old.status # "none"
    BY <1>1, <1>2, <1>5, <2>2 DEF MarkedStop, RowMoves, FlowFollows, StepsOpen, CodeRunOver, CodeRows
  <2> QED
    BY <1>2, <2>1, <2>2, <2>3, <2>4, RowStep DEF RowHolds
<1> QED
  BY <1>2, <1>3, <1>4, <1>5

(* Commands of the control profile.                                          *)
LEMMA PauseSteps ==
  ASSUME CodeInv, NEW p \in Plans, Pause(p)
  PROVE  CodeStepOK
<1> DEFINE old == runs[p]
<1>1. /\ old \in CodeRows /\ AskedWithin(old) /\ FlowFollows(old) /\ MarkedStop(old, plans[p].config, config)
      /\ config \in Int /\ base \in Int /\ plans[p].config \in Int
  BY RowFacts
<1>2. old.status \notin CodeRunOver \cup {"none"} /\ base' \in Int /\ UNCHANGED <<config, plans, sent>>
  BY RowFacts DEF Pause, Live
<1>3. CodeStepOK
  <2> DEFINE r == [runs[p] EXCEPT !.desired = "PAUSED", !.status = IF @ = "PAUSED" THEN @ ELSE "PAUSING"]
  <2>1. runs' = [runs EXCEPT ![p] = r]
    BY <1>1 DEF Pause, Live, Put
  <2>2. /\ r \in CodeRows /\ r.desired = "PAUSED" /\ r.status = (IF old.status = "PAUSED" THEN old.status ELSE "PAUSING")
          /\ r.impl = old.impl /\ r.phase = old.phase /\ r.repairs = old.repairs /\ r.step = old.step
          /\ r.unsettled = old.unsettled /\ r.paused = old.paused /\ r.flag = old.flag
          /\ r.turns = old.turns /\ r.target = old.target
    BY <1>1, <1>2, CapabilityCodeAssumption DEF CodeRows, Phases, CodeRunOver, StepsOpen
  <2> HIDE DEF r
  <2>3. AskedWithin(r) /\ FlowFollows(r)
    BY <1>1, <1>2, <2>2 DEF AskedWithin, FlowFollows, StepsOpen, CodeRunOver, CodeRows, Phases
  <2>4. MarkedStop(r, plans[p].config, config) /\ RowMoves(p, r) /\ r.status # "none" /\ old.status # "none"
    BY <1>1, <1>2, <2>2 DEF MarkedStop, RowMoves, FlowFollows, StepsOpen, CodeRunOver, CodeRows
  <2> QED
    BY <1>2, <2>1, <2>2, <2>3, <2>4, RowStep DEF RowHolds
<1> QED
  BY <1>2, <1>3

LEMMA ResumeSteps ==
  ASSUME CodeInv, NEW p \in Plans, Resume(p)
  PROVE  CodeStepOK
<1> DEFINE old == runs[p]
<1>1. /\ old \in CodeRows /\ AskedWithin(old) /\ FlowFollows(old) /\ MarkedStop(old, plans[p].config, config)
      /\ config \in Int /\ base \in Int /\ plans[p].config \in Int
  BY RowFacts
<1>2. old.status = "PAUSED" /\ plans[p].config = config /\ base' \in Int /\ UNCHANGED <<config, plans, sent>>
  BY RowFacts DEF Resume
<1>3. CodeStepOK
  <2> DEFINE r == [runs[p] EXCEPT !.desired = "RUNNING", !.status = "RECONCILING"]
  <2>1. runs' = [runs EXCEPT ![p] = r]
    BY <1>1 DEF Resume, Put
  <2>2. /\ r \in CodeRows /\ r.desired = "RUNNING" /\ r.status = "RECONCILING"
          /\ r.impl = old.impl /\ r.phase = old.phase /\ r.repairs = old.repairs /\ r.step = old.step
          /\ r.unsettled = old.unsettled /\ r.paused = old.paused /\ r.flag = old.flag
          /\ r.turns = old.turns /\ r.target = old.target
    BY <1>1, <1>2, CapabilityCodeAssumption DEF CodeRows, Phases, CodeRunOver, StepsOpen
  <2> HIDE DEF r
  <2>3. AskedWithin(r) /\ FlowFollows(r)
    BY <1>1, <1>2, <2>2 DEF AskedWithin, FlowFollows, StepsOpen, CodeRunOver, CodeRows, Phases
  <2>4. MarkedStop(r, plans[p].config, config) /\ RowMoves(p, r) /\ r.status # "none" /\ old.status # "none"
    BY <1>1, <1>2, <2>2 DEF MarkedStop, RowMoves, FlowFollows, StepsOpen, CodeRunOver, CodeRows
  <2> QED
    BY <1>2, <2>1, <2>2, <2>3, <2>4, RowStep DEF RowHolds
<1> QED
  BY <1>2, <1>3

LEMMA CancelSteps ==
  ASSUME CodeInv, NEW p \in Plans, Cancel(p)
  PROVE  CodeStepOK
<1> DEFINE old == runs[p]
<1>1. /\ old \in CodeRows /\ AskedWithin(old) /\ FlowFollows(old) /\ MarkedStop(old, plans[p].config, config)
      /\ config \in Int /\ base \in Int /\ plans[p].config \in Int
  BY RowFacts
<1>2. old.status \notin CodeRunOver \cup {"none"} /\ base' \in Int /\ UNCHANGED <<config, plans, sent>>
  BY RowFacts DEF Cancel, Live
<1>3. CodeStepOK
  <2> DEFINE r == [runs[p] EXCEPT !.desired = "CANCELED", !.status = "CANCELING"]
  <2>1. runs' = [runs EXCEPT ![p] = r]
    BY <1>1 DEF Cancel, Live, Put
  <2>2. /\ r \in CodeRows /\ r.desired = "CANCELED" /\ r.status = "CANCELING"
          /\ r.impl = old.impl /\ r.phase = old.phase /\ r.repairs = old.repairs /\ r.step = old.step
          /\ r.unsettled = old.unsettled /\ r.paused = old.paused /\ r.flag = old.flag
          /\ r.turns = old.turns /\ r.target = old.target
    BY <1>1, <1>2, CapabilityCodeAssumption DEF CodeRows, Phases, CodeRunOver, StepsOpen
  <2> HIDE DEF r
  <2>3. AskedWithin(r) /\ FlowFollows(r)
    BY <1>1, <1>2, <2>2 DEF AskedWithin, FlowFollows, StepsOpen, CodeRunOver, CodeRows, Phases
  <2>4. MarkedStop(r, plans[p].config, config) /\ RowMoves(p, r) /\ r.status # "none" /\ old.status # "none"
    BY <1>1, <1>2, <2>2 DEF MarkedStop, RowMoves, FlowFollows, StepsOpen, CodeRunOver, CodeRows
  <2> QED
    BY <1>2, <2>1, <2>2, <2>3, <2>4, RowStep DEF RowHolds
<1> QED
  BY <1>2, <1>3

-----------------------------------------------------------------------------
(* Plans, submissions and the world.                                        *)

LEMMA PreparePlanSteps ==
  ASSUME CodeInv, NEW p \in Plans, PrepareCodePlan(p)
  PROVE  CodeStepOK
<1> DEFINE new == [made |-> TRUE, config |-> config, base |-> base, until |-> TRUE]
<1>1. /\ ~plans[p].made /\ plans' = [plans EXCEPT ![p] = new] /\ UNCHANGED <<config, base, sent, runs>>
  BY DEF PrepareCodePlan
<1>2. new \in CodePlans /\ new.config = config /\ new.made
  BY DEF CodeInv, CodePlans
<1> HIDE DEF new
<1>3. runs[p].status = "none" /\ RowHolds(runs[p], plans[p].config, config)
  BY <1>1 DEF CodeInv
<1>4. RowHolds(runs[p], config, config)
  BY <1>3 DEF RowHolds, MarkedStop
<1>5. /\ plans' \in [Plans -> CodePlans] /\ plans'[p] = new /\ \A q \in Plans \ {p} : plans'[q] = plans[q]
  BY <1>1, <1>2 DEF CodeInv
<1>6. \A q \in Plans : RowHolds(runs[q], plans'[q].config, config) /\ plans'[q].config <= config
                       /\ (runs[q].status # "none" => plans'[q].made)
  BY <1>2, <1>3, <1>4, <1>5 DEF CodeInv
<1>7. CodeInv'
  BY <1>1, <1>5, <1>6 DEF CodeInv
<1>8. \A q \in Plans : RowMoves(q, runs'[q])
  BY <1>1 DEF RowMoves
<1> QED
  BY <1>7, <1>8 DEF CodeStepOK

LEMMA SubmitPlanSteps ==
  ASSUME CodeInv, NEW k \in SubmitKeys, NEW p \in Plans, SubmitPlan(k, p)
  PROVE  CodeStepOK
<1> DEFINE r == [NoRunYet EXCEPT !.status = "QUEUED", !.impl = "admitted"]
<1>1. /\ plans[p].made /\ sent[k] = {} /\ runs[p].status = "none" /\ sent' = [sent EXCEPT ![k] = sent[k] \cup {p}]
      /\ runs' = [runs EXCEPT ![p] = r] /\ UNCHANGED <<config, base, plans>>
  BY DEF SubmitPlan, BindsOnce, Put
<1>2. /\ r \in CodeRows /\ r.status = "QUEUED" /\ r.impl = "admitted" /\ r.desired = "RUNNING" /\ r.phase = "none"
      /\ r.step = "none" /\ r.unsettled = 0 /\ r.paused = "none" /\ ~r.flag /\ r.turns = 0
  <2>1. NoRunYet \in CodeRows /\ NoRunYet.desired = "RUNNING" /\ NoRunYet.phase = "none" /\ NoRunYet.step = "none"
        /\ NoRunYet.unsettled = 0 /\ NoRunYet.paused = "none" /\ ~NoRunYet.flag /\ NoRunYet.turns = 0
    BY CapabilityCodeAssumption DEF NoRunYet, CodeRows, Phases
  <2> QED
    BY <2>1 DEF CodeRows
<1> HIDE DEF r
<1>3. RowHolds(r, plans[p].config, config) /\ RowMoves(p, r)
  BY <1>2 DEF RowHolds, AskedWithin, FlowFollows, MarkedStop, RowMoves, StepsOpen
<1>4. /\ runs' \in [Plans -> CodeRows] /\ runs'[p] = r /\ \A q \in Plans \ {p} : runs'[q] = runs[q]
  BY <1>1, <1>2 DEF CodeInv
<1>5. /\ sent' \in [SubmitKeys -> SUBSET Plans] /\ sent'[k] = {p}
      /\ \A l \in SubmitKeys \ {k} : sent'[l] = sent[l] /\ p \notin sent'[l]
  BY <1>1 DEF CodeInv
<1>6. \A q \in Plans : /\ RowHolds(runs'[q], plans[q].config, config) /\ plans[q].config <= config
                       /\ runs'[q].status # "none" => plans[q].made
                       /\ runs[q].status # "none" => runs'[q].status # "none"
  BY <1>1, <1>2, <1>3, <1>4 DEF CodeInv
<1>7. \A l \in SubmitKeys : \A x, y \in sent'[l] : x = y
  BY <1>5 DEF CodeInv
<1>8. ASSUME NEW l \in SubmitKeys, NEW m \in SubmitKeys, NEW q \in sent'[l]
      PROVE  runs'[q].status # "none" /\ (q \in sent'[m] => m = l)
  <2>1. CASE l = k
    <3>1. q = p
      BY <1>5, <2>1
    <3> QED
      BY <1>2, <1>4, <1>5, <2>1, <3>1
  <2>2. CASE l # k
    <3>1. q \in sent[l] /\ q # p /\ q \in Plans
      BY <1>5, <2>2 DEF CodeInv
    <3>2. runs[q].status # "none" /\ (q \in sent[m] => m = l)
      BY <3>1 DEF CodeInv
    <3> QED
      BY <1>5, <1>6, <3>1, <3>2
  <2> QED
    BY <2>1, <2>2
<1>9. CodeInv'
  BY <1>1, <1>4, <1>5, <1>6, <1>7, <1>8 DEF CodeInv
<1>10. \A q \in Plans : RowMoves(q, runs'[q])
  BY <1>3, <1>4 DEF RowMoves
<1> QED
  BY <1>9, <1>10 DEF CodeStepOK

LEMMA ChangesSteps ==
  ASSUME CodeInv, Changes
  PROVE  CodeStepOK
<1>1. /\ UNCHANGED <<sent, runs>> /\ config' \in Int /\ base' \in Int /\ config' \in {config, config + 1}
      /\ (config' # config => plans' = plans)
  BY DEF Changes, CodeInv
<1>2. plans' \in [Plans -> CodePlans] /\ \A q \in Plans : plans'[q].config = plans[q].config /\ plans'[q].made = plans[q].made
  <2>1. CASE plans' = plans
    BY <2>1 DEF CodeInv
  <2>2. CASE plans' # plans
    <3>1. PICK p \in Plans : plans' = [plans EXCEPT ![p].until = FALSE]
      BY <2>2 DEF Changes
    <3> QED
      BY <3>1 DEF CodeInv, CodePlans
  <2> QED
    BY <2>1, <2>2
<1>3. ASSUME NEW q \in Plans
      PROVE  RowHolds(runs[q], plans'[q].config, config') /\ plans'[q].config <= config'
  <2>1. /\ RowHolds(runs[q], plans[q].config, config) /\ plans[q].config <= config /\ plans[q].config \in Int
        /\ config \in Int
    BY DEF CodeInv, CodePlans
  <2>2. MarkedStop(runs[q], plans'[q].config, config') /\ plans'[q].config <= config'
    BY <1>1, <1>2, <2>1 DEF RowHolds, MarkedStop
  <2> QED
    BY <2>1, <2>2 DEF RowHolds
<1>4. CodeInv'
  BY <1>1, <1>2, <1>3 DEF CodeInv
<1>5. \A q \in Plans : RowMoves(q, runs'[q])
  BY <1>1 DEF RowMoves
<1> QED
  BY <1>4, <1>5 DEF CodeStepOK

LEMMA CodeStep == CodeInv /\ [CodeNext]_codeVars => CodeStepOK
<1> SUFFICES ASSUME CodeInv, [CodeNext]_codeVars PROVE CodeStepOK
  OBVIOUS
<1>1. ASSUME NEW p \in Plans, \/ PrepareCodePlan(p) \/ DispatchImpl(p) \/ Intend(p) \/ StartImpl(p)
                              \/ ImplStops(p) \/ ImplFails(p) \/ AfterReview(p) \/ AfterRepair(p)
                              \/ StepStarts(p)
      PROVE  CodeStepOK
  BY <1>1, PreparePlanSteps, DispatchImplSteps, IntendSteps, StartImplSteps, ImplStopsSteps, ImplFailsSteps,
     AfterReviewSteps, AfterRepairSteps, StepStartsSteps
<1>2. ASSUME NEW p \in Plans, \/ ProgressStops(p) \/ ProgressResumes(p) \/ ProgressBegins(p)
                              \/ ProgressEnds(p) \/ Pause(p) \/ Resume(p) \/ Cancel(p)
      PROVE  CodeStepOK
  BY <1>2, ProgressStopsSteps, ProgressResumesSteps, ProgressBeginsSteps, ProgressEndsSteps, PauseSteps,
     ResumeSteps, CancelSteps
<1>3. ASSUME NEW p \in Plans, NEW k \in SubmitKeys, SubmitPlan(k, p) PROVE CodeStepOK
  BY <1>3, SubmitPlanSteps
<1>4. ASSUME NEW p \in Plans, NEW how \in {"ok", "failed", "unknown"}, ImplReports(p, how) PROVE CodeStepOK
  BY <1>4, ImplReportsSteps
<1>5. ASSUME NEW p \in Plans, NEW how \in {"over", "unknown"}, StepEnds(p, how) PROVE CodeStepOK
  BY <1>5, StepEndsSteps
<1>6. CASE UNCHANGED codeVars
  <2>1. UNCHANGED <<config, base, plans, sent, runs, edits>>
    BY <1>6 DEF codeVars
  <2>2. CodeInv'
    BY <2>1 DEF CodeInv
  <2>3. \A q \in Plans : RowMoves(q, runs'[q])
    BY <2>1 DEF RowMoves
  <2> QED
    BY <2>2, <2>3 DEF CodeStepOK
<1> QED
  BY <1>1, <1>2, <1>3, <1>4, <1>5, <1>6, ChangesSteps DEF CodeNext

(* Whatever the keys, the edits and the moments of pausing and resuming, a plan *)
(* is executed once, on its files, within its turns, settles every turn before *)
(* its end, succeeds by review only and goes on after a stop.                  *)
THEOREM CodeKeepsSafety == CodeSpec => CodeSafety
<1>1. CodeInit => CodeInv
  BY CodeInitHolds
<1>2. CodeInv /\ [CodeNext]_codeVars => CodeInv'
  BY CodeStep DEF CodeStepOK
<1>3. CodeInv => CodeTypeOK /\ OneRunPerPlan /\ TurnsWithinPlan /\ EndSettlesTurns /\ StopIsTakenBack
  BY CodeInvImplies
<1>4. CodeInv /\ [CodeNext]_codeVars
        => [\A p \in Plans : runs[p].impl = "queued" /\ runs'[p].impl = "running"
              => plans[p].base = base /\ plans[p].config = config]_codeVars
  BY CodeStep DEF CodeStepOK, RowMoves
<1>5. CodeInv /\ [CodeNext]_codeVars
        => [\A p \in Plans : runs[p].status # "SUCCEEDED" /\ runs'[p].status = "SUCCEEDED"
              => runs[p].phase = "completed" /\ runs[p].target = base]_codeVars
  BY CodeStep DEF CodeStepOK, RowMoves
<1> QED
  BY <1>1, <1>2, <1>3, <1>4, <1>5, PTL DEF CodeSpec, CodeSafety, StartsOnItsBaseline, SuccessIsReviewed
=============================================================================
