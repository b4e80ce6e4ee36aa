------------------------------- MODULE Capsule -------------------------------
(***************************************************************************)
(* The capsule a run leaves for its successor (capsule/assemble.py,          *)
(* capsule/model.py, capsule/store.py): what the events of the run tell is    *)
(* gathered, then trimmed step by step until it fits, then kept or refused.   *)
(* Sizes count entries, where the code counts bytes.                          *)
(*                                                                          *)
(*   told     the events of the run, in the order of the log                 *)
(*   turnsLeft  turns of each run of the task, the source run last             *)
(*   draft    the progress of the capsule being built                        *)
(*   steps    its truncation log                                             *)
(*   making   "collect", "trim", "ready" or "too_large"                       *)
(***************************************************************************)
EXTENDS Integers, Sequences, FiniteSets, SequencesExt

CONSTANTS
  CallIds,       \* ids tools give their calls
  FileNames,     \* paths tools are called with
  MaxTold,       \* bound on the events of the run
  MaxHistory,    \* bound on the runs of the task
  MaxFiles,      \* MAX_FILES
  MaxCommands,   \* MAX_COMMANDS
  MaxDetail,     \* MAX_SEGMENT_DETAIL
  NotesMax,      \* NOTES_MAX
  SoftSize,      \* NONMANDATORY_SOFT
  HardSize,      \* NONMANDATORY_HARD
  FixedSizes     \* sizes the untrimmed fields may have (workspace, authority ...)

ASSUME CapsuleAssumption ==
  /\ MaxFiles \in Nat \ {0} /\ MaxCommands \in Nat \ {0} /\ MaxDetail \in Nat \ {0}
  /\ SoftSize < HardSize /\ FixedSizes \subseteq Nat

VARIABLES told, turnsLeft, fixed, draft, steps, making

capVars == <<told, turnsLeft, fixed, draft, steps, making>>

Anonymous == 0         \* a call without an id
CallTold(id, file, final) == [kind |-> "call", id |-> id, file |-> file, final |-> final]
ResultTold(id) == [kind |-> "result", id |-> id, file |-> "", final |-> TRUE]
LineTold(safe) == [kind |-> "line", id |-> Anonymous, file |-> "", final |-> safe]

Events == {CallTold(id, f, final) : id \in CallIds \cup {Anonymous}, f \in FileNames, final \in BOOLEAN}
            \cup {ResultTold(id) : id \in CallIds} \cup {LineTold(safe) : safe \in BOOLEAN}

NoDraft == [files |-> <<>>, commands |-> <<>>, detail |-> <<>>, folded |-> [runs |-> 0, turns |-> 0],
            notes |-> 0, dropped |-> 0, open |-> <<>>]

CapInit ==
  /\ told = <<>> /\ turnsLeft \in UNION {[1 .. n -> 0 .. 1] : n \in 1 .. MaxHistory}
  /\ fixed \in FixedSizes /\ draft = NoDraft /\ steps = <<>> /\ making = "collect"

-----------------------------------------------------------------------------
(* The run works.  A result without a known call is ignored when it is read. *)

Tell(e) ==
  /\ making = "collect" /\ Len(told) < MaxTold /\ told' = Append(told, e)
  /\ UNCHANGED <<turnsLeft, fixed, draft, steps, making>>

-----------------------------------------------------------------------------
(* progress_for: the calls in the order they were first seen.                *)

Position(calls, id) == IF id = Anonymous THEN 0 ELSE SelectInSeq(calls, LAMBDA c : c.id = id)

NotedFirst(calls, e) ==   \* mutant: a call that is repeated after its result stays confirmed
  CASE e.kind = "call" /\ Position(calls, e.id) = 0 -> Append(calls, [id |-> e.id, open |-> ~e.final])
    [] e.kind = "result" /\ Position(calls, e.id) # 0 -> [calls EXCEPT ![Position(calls, e.id)].open = FALSE]
    [] OTHER -> calls

Noted(calls, e) ==
  CASE e.kind = "call" ->
         LET c == [id |-> e.id, open |-> ~e.final] IN
         IF Position(calls, e.id) = 0 THEN Append(calls, c) ELSE [calls EXCEPT ![Position(calls, e.id)] = c]
    [] e.kind = "result" /\ Position(calls, e.id) # 0 -> [calls EXCEPT ![Position(calls, e.id)].open = FALSE]
    [] OTHER -> calls

Unconfirmed(events) == SelectSeq(FoldLeft(Noted, <<>>, events), LAMBDA c : c.open)

Paths(events) == LET calls == SelectSeq(events, LAMBDA e : e.kind = "call")
                 IN [i \in DOMAIN calls |-> calls[i].file]
Lines(events, safe) == Len(SelectSeq(events, LAMBDA e : e.kind = "line" /\ e.final = safe))

Suffix(s, n) == IF Len(s) <= n THEN s ELSE SubSeq(s, Len(s) - n + 1, Len(s))

DedupeKeepLast(s) ==
  LET last == SelectSeq([i \in DOMAIN s |-> i], LAMBDA i : \A j \in i + 1 .. Len(s) : s[j] # s[i])
  IN [k \in DOMAIN last |-> s[last[k]]]

Total(s) == FoldLeft(LAMBDA acc, n : acc + n, 0, s)

FoldDropped(t) ==   \* mutant: the turns of the folded runs are not added up
  IF Len(t) <= MaxDetail THEN [runs |-> 0, turns |-> 0] ELSE [runs |-> Len(t) - MaxDetail, turns |-> 0]

Fold(t) ==
  IF Len(t) <= MaxDetail THEN [runs |-> 0, turns |-> 0]
  ELSE [runs |-> Len(t) - MaxDetail, turns |-> Total(SubSeq(t, 1, Len(t) - MaxDetail))]

Capped(events) ==
  [files |-> Suffix(DedupeKeepLast(Paths(events)), MaxFiles),
   commands |-> Suffix(Paths(events), MaxCommands),
   detail |-> Suffix(turnsLeft, MaxDetail), folded |-> Fold(turnsLeft),
   notes |-> IF Lines(events, TRUE) > NotesMax THEN NotesMax ELSE Lines(events, TRUE),
   dropped |-> Lines(events, FALSE), open |-> Unconfirmed(events)]

(* The run ended: what it told is read once and capped.                      *)
Assemble ==
  /\ making = "collect" /\ making' = "trim" /\ draft' = Capped(told)
  /\ UNCHANGED <<told, turnsLeft, fixed, steps>>

-----------------------------------------------------------------------------
(* build_capsule: one lossy step at a time, while the draft is too big.      *)

Size(d) == fixed + Len(d.files) + Len(d.commands) + Len(d.detail) + d.notes + Len(d.open)

HalveTail(s) == IF Len(s) <= 1 THEN <<>> ELSE SubSeq(s, Len(s) \div 2 + 1, Len(s))

Trims == making = "trim" /\ Size(draft) > SoftSize
Dropping(op) == steps' = Append(steps, op) /\ UNCHANGED <<told, turnsLeft, fixed, making>>

ClearNotes == Trims /\ draft.notes > 0 /\ draft' = [draft EXCEPT !.notes = 0] /\ Dropping("clear_notes_text")

CommandsMayGo == draft.notes = 0

HalveCommands ==
  /\ Trims /\ CommandsMayGo /\ draft.commands # <<>>
  /\ draft' = [draft EXCEPT !.commands = HalveTail(@)] /\ Dropping("halve_commands")

HalveFiles ==
  /\ Trims /\ draft.notes = 0 /\ draft.commands = <<>> /\ draft.files # <<>>
  /\ draft' = [draft EXCEPT !.files = HalveTail(@)] /\ Dropping("halve_files_touched")

Exhausted == Size(draft) <= SoftSize \/ (draft.notes = 0 /\ draft.commands = <<>> /\ draft.files = <<>>)

TooLarge == Size(draft) > HardSize

Finish ==
  /\ making = "trim" /\ Exhausted
  /\ making' = IF TooLarge THEN "too_large" ELSE "ready"
  /\ UNCHANGED <<told, turnsLeft, fixed, draft, steps>>

CapNext ==
  \/ \E e \in Events : Tell(e)
  \/ Assemble \/ ClearNotes \/ HalveCommands \/ HalveFiles \/ Finish

CapSpec == CapInit /\ [][CapNext]_capVars

-----------------------------------------------------------------------------
CapTypeOK ==
  /\ making \in {"collect", "trim", "ready", "too_large"}
  /\ draft.folded.runs \in Nat /\ draft.folded.turns \in Nat /\ draft.notes \in 0 .. NotesMax /\ draft.dropped \in Nat
  /\ Len(draft.files) <= MaxFiles /\ Len(draft.commands) <= MaxCommands /\ Len(draft.detail) <= MaxDetail

Built == making \in {"ready", "too_large"}

(* A call is open when nothing that came after its last mention confirms it. *)
LastMention(i) == told[i].kind = "call" /\
  (told[i].id = Anonymous \/ \A j \in i + 1 .. Len(told) : ~(told[j].kind = "call" /\ told[j].id = told[i].id))
Answered(i) == told[i].final \/ (told[i].id # Anonymous /\ \E j \in i + 1 .. Len(told) : told[j] = ResultTold(told[i].id))

(* However much is trimmed, the successor is told of every action that may   *)
(* or may not have happened, and of no other.                                *)
OpenSurvives ==
  Built => /\ {draft.open[k].id : k \in DOMAIN draft.open} = {told[i].id : i \in {i \in DOMAIN told : LastMention(i) /\ ~Answered(i)}}
           /\ Len(draft.open) = Cardinality({i \in DOMAIN told : LastMention(i) /\ ~Answered(i)})

LastUse(i) == told[i].kind = "call" /\ \A j \in i + 1 .. Len(told) : ~(told[j].kind = "call" /\ told[j].file = told[i].file)

(* What is kept is the newest: no kept file was used last before one that    *)
(* was dropped.                                                              *)
KeptIsNewest ==
  Built => \A i, j \in {i \in DOMAIN told : LastUse(i)} :
             i < j /\ Contains(draft.files, told[i].file) => Contains(draft.files, told[j].file)

(* Folding loses no turn: the chain reports what all its runs used.          *)
TurnsConserved ==
  Built => draft.folded.turns + Total(draft.detail) = Total(turnsLeft) /\ draft.folded.runs + Len(draft.detail) = Len(turnsLeft)

(* Only what cannot be trimmed makes a capsule too large.                    *)
RefusedForFixedOnly ==
  Built => (making = "too_large" <=> fixed + Len(draft.detail) + Len(draft.open) > HardSize)

(* Each step of trimming removes something, so the loop ends.                *)
TrimProgresses == [][steps' # steps => Size(draft') < Size(draft)]_capVars

(* Records of what was done go only when the low-trust notes are gone.       *)
NotesGoFirst ==
  [][making = "trim" /\ draft'.commands # draft.commands => draft.notes = 0 /\ Size(draft) > SoftSize]_capVars

(* However much is trimmed: open actions and used turns survive, the oldest  *)
(* and least trusted goes first, and trimming ends.                          *)
CapSafety ==
  /\ [](CapTypeOK /\ OpenSurvives /\ KeptIsNewest /\ TurnsConserved
        /\ RefusedForFixedOnly)
  /\ TrimProgresses /\ NotesGoFirst
=============================================================================
