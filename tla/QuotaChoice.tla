----------------------------- MODULE QuotaChoice -----------------------------
(***************************************************************************)
(* Choosing a backend of a candidate group by quota: what an observation   *)
(* is worth at a given time, how the observations of one window merge, the *)
(* score of a candidate and the choice between candidates, as routing_     *)
(* entry, quota.models and quota.selection compute them, inside the steps  *)
(* that feed them: observations that arrive, time, runs that start and     *)
(* end, requests that are repeated. Time is counted in hours, quota in     *)
(* basis points; the tables below are those of the code.                   *)
(***************************************************************************)
EXTENDS Integers, FiniteSets, FiniteSetsExt, Sequences, SequencesExt

CONSTANTS Group,      \* the members of the group, a sequence
          Primary,    \* the primary member
          Offers,     \* observations that may arrive, times relative to now
          Keys,       \* idempotency keys of requests to the group
          MaxHours,   \* bound of the clock
          MaxOffers,  \* bound: observations
          MaxRuns     \* bound: runs in flight of one backend

ASSUME GroupAssumption == Primary \in ToSet(Group)

VARIABLES hour,      \* the clock
          shelf,     \* member -> observations, in the order of arrival
          inflight,  \* member -> runs the scheduler has in flight
          mode,      \* quota_preference.mode
          ruling,    \* the last row of plugin_routing_decisions
          taskOf,    \* key -> backend of the task it names, "none"
          conflict   \* a repeated request was refused as another one

choiceVars == <<hour, shelf, inflight, mode, ruling, taskOf, conflict>>

Members == ToSet(Group)
Full == 10000
Duration(kind) == IF kind = "5h" THEN 5 ELSE 168
Est(kind) == IF kind = "5h" THEN 500 ELSE 100
Floor(kind) == IF kind = "5h" THEN 500 ELSE 1000
HorizonHours == 72
Threshold == 1000
Margin == 500
ConflictBp == 1000
ConflictHours == 0
Trusted(conf) == conf \in {"medium", "high"}
SourceRank(src) == CASE src = "manual" -> 1 [] src = "passive" -> 2 [] OTHER -> 3

NoRuling == [chosen |-> "none", used |-> "none", mode |-> "off", reason |-> "none",
             at |-> 0]
ChoiceInit ==
  /\ hour = 0 /\ shelf = [m \in Members |-> <<>>] /\ inflight = [m \in Members |-> 0]
  /\ mode \in {"off", "dry_run", "on"} /\ ruling = NoRuling
  /\ taskOf = [k \in Keys |-> "none"] /\ conflict = FALSE

-----------------------------------------------------------------------------
(* An observation holds until its time to live or until its window resets, *)
(* whichever is first; after the reset it says nothing. A latch holds      *)
(* until the reset.                                                        *)
Freshness(o, now) ==
  CASE now >= o.resets -> "unknown"
    [] o.latch -> "latched"
    [] now >= o.valid -> "stale"
    [] o.used >= Full -> "exhausted"
    [] OTHER -> "fresh"

LaterReset(o, p) ==
  \/ o.at > p.at
  \/ o.at = p.at /\ SourceRank(o.src) > SourceRank(p.src)
  \/ o.at = p.at /\ o.src = p.src /\ o.used >= p.used

(* Observations of one window that disagree by more than ConflictBp while  *)
(* they are close in time count as the higher one.                         *)
Merged(group) ==
  LET latest == CHOOSE o \in group : \A p \in group : LaterReset(o, p)
      recent == {o \in group : latest.at - o.at <= ConflictHours /\ o.resets = latest.resets}
      disputed == \E o, p \in recent : o.src # p.src /\ o.used - p.used > ConflictBp
  IN IF disputed THEN CHOOSE o \in recent : \A p \in recent : o.used > p.used \/ (o.used = p.used /\ LaterReset(o, p))
     ELSE latest

Kinds == {"5h", "weekly", "latch"}
Seen(m, kind) == {o \in ToSet(shelf[m]) : o.kind = kind}
Windows(m) == {Merged(Seen(m, kind)) : kind \in {k \in Kinds : Seen(m, k) # {}}}
Now(seen, state) == {o \in seen : Freshness(o, hour) = state}

(* What is left of a window once the runs in flight have been counted.     *)
RemainingUncounted(m, o) == Full - o.used
Remaining(m, o) == Full - o.used - inflight[m] * Est(o.kind)

(* The rate of use from the history of the same window, as a fraction;     *)
(* later differences weigh one half.                                       *)
History(m, o) ==
  SelectSeq(shelf[m], LAMBDA p : p.kind = o.kind /\ p.resets = o.resets)
Rates(m, o) ==
  LET h == SortSeq(History(m, o), LAMBDA p, q : p.at < q.at)
      gaps == [n \in 1 .. Len(h) - 1 |-> [gap |-> h[n + 1].at - h[n].at, more |-> h[n + 1].used - h[n].used]]
  IN SelectSeq(gaps, LAMBDA d : d.gap >= 1 /\ d.more >= 0)
Rate(rates) ==
  FoldLeft(LAMBDA f, d : [num |-> d.more * f.den + f.num * d.gap, den |-> 2 * d.gap * f.den],
           [num |-> rates[1].more, den |-> rates[1].gap], Tail(rates))

(* What would be wasted at the reset if use went on at that rate.          *)
Pace(o, rates, past) ==
  CASE rates # <<>> -> Rate(rates)
    [] rates = <<>> /\ past >= Duration(o.kind) \div 10 -> [num |-> o.used, den |-> past]
    [] OTHER -> [num |-> Full, den |-> Duration(o.kind)]
LeftOver(m, o, pace) == (Remaining(m, o) * pace.den - pace.num * (o.resets - hour)) \div pace.den
Waste(m, o) ==
  LET left == LeftOver(m, o, Pace(o, Rates(m, o), Duration(o.kind) - (o.resets - hour)))
  IN IF left <= 0 THEN 0 ELSE left

Valued(fresh) ==
  {o \in fresh : /\ o.kind = "weekly" /\ o.resets - hour \in 1 .. HorizonHours
                 /\ o.resets - hour <= Duration(o.kind)}
BelowFloor(m, fresh) == \E o \in fresh : Remaining(m, o) < Floor(o.kind) + Est(o.kind)

Excluded(seen) == \E o \in seen : Freshness(o, hour) \in {"latched", "exhausted"}

Worthless == [s |-> 0, resets |-> 9999, perHour |-> 0, solid |-> FALSE]
Worth(m, o, waste) ==
  [s |-> waste, resets |-> o.resets, perHour |-> Remaining(m, o) \div (o.resets - hour),
   solid |-> Trusted(o.conf) /\ waste >= Threshold]
Value(m, rows) ==
  IF rows = {} THEN Worthless
  ELSE LET best == CHOOSE o \in rows : TRUE IN Worth(m, best, Waste(m, best))

Tier(m, seen, fresh, solid) ==
  CASE Excluded(seen) -> 3
    [] ~Excluded(seen) /\ fresh = {} -> 2
    [] ~Excluded(seen) /\ BelowFloor(m, fresh) -> 3
    [] OTHER -> IF solid THEN 0 ELSE 1
Scored(m, seen, fresh) ==
  LET v == Value(m, Valued(fresh))
  IN [s |-> v.s, resets |-> v.resets, perHour |-> v.perHour, tier |-> Tier(m, seen, fresh, v.solid)]
Score(m) == LET seen == Windows(m) IN Scored(m, seen, Now(seen, "fresh"))

Rounded(s) == ((s + 50) \div 100) * 100
Beats(p, q) == Rounded(p.s) >= Rounded(q.s) + Margin
MemberPosition(m) == CHOOSE n \in DOMAIN Group : Group[n] = m

(* Of two candidates the one ahead by the margin is better; else the one   *)
(* whose window resets first, then the one with more left per hour, then   *)
(* the first in the group.                                                 *)
Better(x, y, p, q) ==
  CASE Beats(p, q) -> TRUE
    [] Beats(q, p) -> FALSE
    [] OTHER -> IF p.resets # q.resets THEN p.resets < q.resets
                ELSE IF p.perHour # q.perHour THEN p.perHour > q.perHour
                ELSE MemberPosition(x) < MemberPosition(y)
Best(pool, score) ==
  LET order == SelectSeq(Group, LAMBDA m : m \in pool)
  IN FoldLeft(LAMBDA w, m : IF Better(m, w, score[m], score[w]) THEN m ELSE w, Head(order), Tail(order))

(* The pool a removed primary is replaced from, and the pool that may take *)
(* the place of a primary in good order.                                   *)
Spare(score) == {m \in Members : score[m].tier \in {0, 1}}
Richer(score) == {m \in Members \ {Primary} : score[m].tier = 0 /\ Beats(score[m], score[Primary])}

Pool(score) == IF score[Primary].tier = 3 THEN Spare(score) ELSE Richer(score)
AllLatched == \A m \in Members : \E o \in Windows(m) : Freshness(o, hour) = "latched"
Suggested(score, pool) ==
  CASE Len(Group) = 1 -> [m |-> Primary, reason |-> "single_candidate"]
    [] Len(Group) > 1 /\ AllLatched -> [m |-> Primary, reason |-> "all_latched"]
    [] Len(Group) > 1 /\ \A m \in Members : score[m].tier = 2 -> [m |-> Primary, reason |-> "all_unknown"]
    [] OTHER ->
         CASE score[Primary].tier = 2 -> [m |-> Primary, reason |-> "primary_unknown"]
           [] score[Primary].tier # 2 /\ pool = {} ->
                [m |-> Primary, reason |-> IF score[Primary].tier = 3 THEN "primary_excluded" ELSE "stay_primary"]
           [] OTHER ->
                [m |-> Best(pool, score), reason |-> IF score[Primary].tier = 3 THEN "primary_excluded" ELSE "waste_margin"]

(* The choice of the last decision is held while it is in order and the    *)
(* new one does not beat it by the margin.                                 *)
Held(score, sticky, new) ==
  /\ sticky \in Members /\ sticky # new.m /\ Len(Group) > 1
  /\ new.reason \notin {"all_unknown", "primary_unknown", "all_latched"}
  /\ score[sticky].tier \in {0, 1} /\ ~Beats(score[new.m], score[sticky])
Chosen(score, new) ==
  IF Held(score, ruling.chosen, new) THEN [m |-> ruling.chosen, reason |-> "sticky"] ELSE new

-----------------------------------------------------------------------------
(* resolve_backend and record: off takes the primary unread, dry_run keeps *)
(* the primary and records what it would have chosen.                      *)
Unread == [NoRuling EXCEPT !.chosen = Primary, !.used = Primary, !.reason = "preference_off", !.at = hour]
Read(c) == [chosen |-> c.m, used |-> IF mode = "on" THEN c.m ELSE Primary, mode |-> mode,
            reason |-> c.reason, at |-> hour]
Resolved(score) ==
  IF mode = "off" THEN Unread ELSE Read(Chosen(score, Suggested(score, Pool(score))))

SubmitGroup(k) ==
  /\ taskOf[k] = "none"
  /\ \E score \in {[m \in Members |-> Score(m)]} : \E r \in {Resolved(score)} :
       /\ inflight[r.used] < MaxRuns
       /\ ruling' = r
       /\ taskOf' = [taskOf EXCEPT ![k] = r.used]
       /\ inflight' = [inflight EXCEPT ![r.used] = @ + 1]
  /\ UNCHANGED <<hour, shelf, mode, conflict>>

(* A repeated request takes the backend its task already has; the backend  *)
(* is part of the digest a key is compared by.                             *)
PinnedBackend(k) == taskOf[k]
Repeat(k) ==
  /\ taskOf[k] # "none"
  /\ conflict' = (conflict \/ PinnedBackend(k) # taskOf[k])
  /\ UNCHANGED <<hour, shelf, inflight, mode, ruling, taskOf>>

RunOver(m) == /\ inflight[m] > 0 /\ inflight' = [inflight EXCEPT ![m] = @ - 1]
              /\ UNCHANGED <<hour, shelf, mode, ruling, taskOf, conflict>>

Placed(t) == [kind |-> t.kind, src |-> t.src, used |-> t.used, conf |-> t.conf, latch |-> t.latch,
              at |-> hour, resets |-> t.resets,
              valid |-> IF hour + t.ttl < t.resets THEN hour + t.ttl ELSE t.resets]
Count == MapThenSumSet(LAMBDA m : Len(shelf[m]), Members)
Observe(m, t) ==
  /\ Count < MaxOffers /\ hour < t.resets
  /\ shelf' = [shelf EXCEPT ![m] = Append(@, Placed(t))]
  /\ UNCHANGED <<hour, inflight, mode, ruling, taskOf, conflict>>

PassHours == /\ hour < MaxHours /\ hour' = hour + 24
             /\ UNCHANGED <<shelf, inflight, mode, ruling, taskOf, conflict>>
SetMode(to) == /\ mode # to /\ mode' = to
               /\ UNCHANGED <<hour, shelf, inflight, ruling, taskOf, conflict>>

ChoiceNext ==
  \/ \E k \in Keys : SubmitGroup(k) \/ Repeat(k)
  \/ \E m \in Members : RunOver(m) \/ \E t \in Offers : Observe(m, t)
  \/ PassHours \/ \E to \in {"off", "dry_run", "on"} : SetMode(to)

ChoiceSpec == ChoiceInit /\ [][ChoiceNext]_choiceVars

-----------------------------------------------------------------------------
ChoiceTypeOK ==
  /\ hour \in 0 .. MaxHours /\ inflight \in [Members -> 0 .. MaxRuns]
  /\ ruling.chosen \in Members \union {"none"} /\ ruling.used \in Members \union {"none"}
  /\ \A m \in Members : Score(m).s >= 0 /\ Score(m).tier \in 0 .. 3

(* Whatever is chosen off the primary has evidence for it at that moment:  *)
(* a window that has not reset, none that is used up, and in each window   *)
(* room for the floor and one more run beside the runs in flight.          *)
LeavesOnEvidence ==
  [][\A k \in Keys : taskOf[k] = "none" /\ taskOf'[k] \notin {"none", Primary} =>
       LET m == taskOf'[k]  now == {o \in Windows(m) : hour < o.resets /\ (o.latch \/ hour < o.valid)} IN
       /\ now # {}
       /\ \A o \in now : ~o.latch /\
            o.used + (inflight[m] + 1) * Est(o.kind) + Floor(o.kind) <= Full]_choiceVars

(* Without evidence about the primary the choice stays there, whatever was *)
(* chosen before.                                                          *)
UnknownStaysHome ==
  [][ruling' # ruling /\ (\A o \in ToSet(shelf[Primary]) : ~o.latch /\ hour >= o.valid)
       => ruling'.chosen = Primary]_choiceVars

(* The choice does not move back and forth: it moves only when the held    *)
(* member is no longer in order, when another beats it by the margin, or   *)
(* when evidence about the primary is missing.                             *)
MovesForReason ==
  [][ruling' # ruling /\ ruling'.mode # "off" /\ ruling.chosen # "none" /\ ruling'.chosen # ruling.chosen =>
       \/ Beats(Score(ruling'.chosen), Score(ruling.chosen))
       \/ Score(ruling.chosen).tier \notin {0, 1}
       \/ ruling'.reason \in {"all_unknown", "primary_unknown", "all_latched"}]_choiceVars

(* A request that is repeated is recognised however the quota moved        *)
(* meanwhile: its key leads to the task it made.                           *)
RepeatIsRecognised == ~conflict

(* In whatever order observations, time and requests come: the choice leaves *)
(* the primary on evidence only, and a repeated request is recognised.       *)
ChoiceSafety ==
  /\ [](ChoiceTypeOK /\ RepeatIsRecognised)
  /\ LeavesOnEvidence /\ UnknownStaysHome /\ MovesForReason
=============================================================================
