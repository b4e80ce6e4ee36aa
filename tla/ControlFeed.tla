------------------------------ MODULE ControlFeed ------------------------------
(***************************************************************************)
(* Commands and events of the control profile for one task (control.py command, *)
(* _state_put, event; control_store.py): a command is answered by its key        *)
(* before its expiry and its expected revision are looked at, an accepted one     *)
(* leaves the new value, its operation and its event in one transaction, and a     *)
(* follower pages through the events, of which a prefix may be removed.           *)
(*                                                                          *)
(*   valueRevision  of the domain value the commands update                        *)
(*   operations the keys accepted, each with the revision it made              *)
(*   rows       the events kept, by position; `made` counts those ever appended    *)
(*   stream     the last position and the floor below which events are gone        *)
(*   asked      what each client is waiting for: a command it may send again       *)
(*   applied    ghost: how often each command took effect                       *)
(*   follower   its cursor, whether it was told to read a snapshot, and the       *)
(*              events it knows of                                          *)
(***************************************************************************)
EXTENDS Integers, FiniteSets

CONSTANTS Clients,        \* who issues commands
          MaxCommands,    \* commands of each client
          MaxFeedEvents,      \* events of the task
          FeedPage        \* events of a page

ASSUME ControlFeedAssumption == MaxCommands \in Nat /\ MaxFeedEvents \in Nat /\ FeedPage \in Nat \ {0}

VARIABLES valueRevision, operations, rows, made, stream, asked, applied, follower

feedVars == <<valueRevision, operations, rows, made, stream, asked, applied, follower>>

CommandIds == Clients \X (1..MaxCommands)
Unanswered == "none"
FeedAnswers == {Unanswered, "accepted", "conflict", "expired"}

Highest(S) == IF S = {} THEN 0 ELSE CHOOSE n \in S : \A m \in S : m <= n

FeedInit ==
  /\ valueRevision = 0 /\ operations = {} /\ rows = {} /\ made = 0 /\ stream = [last |-> 0, floor |-> 0]
  /\ asked = [c \in Clients |-> [nr |-> 0, expects |-> 0, late |-> FALSE, answer |-> "accepted"]]
  /\ applied = [i \in CommandIds |-> 0]
  /\ follower = [cursor |-> 0, expired |-> FALSE, latest |-> 0, knows |-> {}]

FeedTypeOK ==
  /\ valueRevision = Cardinality(operations)
  /\ \A r \in rows : r.at \in stream.floor + 1..stream.last /\ r.event \in 1..made
  /\ stream.floor <= stream.last
  /\ \A c \in Clients : asked[c].answer \in FeedAnswers /\ asked[c].expects <= valueRevision
  /\ follower.cursor <= stream.last /\ follower.knows \subseteq 1..made

-----------------------------------------------------------------------------
(* append_event: the position comes from the stream, not from the rows left.       *)

NextPosition == stream.last + 1

Appended ==
  /\ made < MaxFeedEvents /\ made' = made + 1
  /\ rows' = rows \union {[at |-> NextPosition, event |-> made + 1]}
  /\ stream' = [stream EXCEPT !.last = NextPosition]

(* Another record of the task is written, with its event.                        *)
OtherEvent == Appended /\ UNCHANGED <<valueRevision, operations, asked, applied, follower>>

Unpruned(through) == {r \in rows : r.at > through}

PruneEvents(through) ==
  /\ through \in stream.floor + 1..stream.last
  /\ rows' = Unpruned(through) /\ stream' = [stream EXCEPT !.floor = through]
  /\ UNCHANGED <<valueRevision, operations, made, asked, applied, follower>>

-----------------------------------------------------------------------------
(* Commands.                                                               *)

(* The client reads the value and makes a command of its own key out of it.        *)
Compose(c) ==
  /\ asked[c].answer # Unanswered /\ asked[c].nr < MaxCommands
  /\ asked' = [asked EXCEPT ![c] = [nr |-> @.nr + 1, expects |-> valueRevision, late |-> FALSE, answer |-> Unanswered]]
  /\ UNCHANGED <<valueRevision, operations, rows, made, stream, applied, follower>>

Expires(c) ==
  /\ asked[c].answer = Unanswered /\ ~asked[c].late /\ asked' = [asked EXCEPT ![c].late = TRUE]
  /\ UNCHANGED <<valueRevision, operations, rows, made, stream, applied, follower>>

(* The answer reaches the client, or it is lost and the client will ask again.      *)
Answered(c, how) == \/ asked' = [asked EXCEPT ![c].answer = how]
                    \/ asked' = asked

KnownInTime(c) == ~asked[c].late /\ \E o \in operations : o.command = <<c, asked[c].nr>>   \* mutant: expiry is looked at first

KnownOperation(c) == \E o \in operations : o.command = <<c, asked[c].nr>>

CasHoldsFor(c) == asked[c].expects = valueRevision

(* command: by the key first, then the expiry, then the command itself.           *)
Repeats(c) ==
  /\ asked[c].answer = Unanswered /\ KnownOperation(c) /\ Answered(c, "accepted")
  /\ UNCHANGED <<valueRevision, operations, rows, made, stream, applied, follower>>

Refuses(c) ==
  /\ asked[c].answer = Unanswered /\ ~KnownOperation(c)
  /\ \/ asked[c].late /\ Answered(c, "expired")
     \/ ~asked[c].late /\ ~CasHoldsFor(c) /\ Answered(c, "conflict")
  /\ UNCHANGED <<valueRevision, operations, rows, made, stream, applied, follower>>

StatePut(c) ==
  /\ asked[c].answer = Unanswered /\ ~KnownOperation(c) /\ ~asked[c].late /\ CasHoldsFor(c)
  /\ valueRevision' = valueRevision + 1
  /\ operations' = operations \union {[command |-> <<c, asked[c].nr>>, revision |-> valueRevision + 1, on |-> asked[c].expects]}
  /\ applied' = [applied EXCEPT ![<<c, asked[c].nr>>] = @ + 1]
  /\ Appended /\ Answered(c, "accepted") /\ UNCHANGED follower

-----------------------------------------------------------------------------
(* events: a page after the cursor, and next_sequence.                          *)

ExpiredEarly(n) == n + 1 < stream.floor   \* mutant: off by one at the floor

CursorExpired(n) == n < stream.floor

PageAfter(n) == {r \in rows : r.at > n /\ Cardinality({s \in rows : s.at > n /\ s.at < r.at}) < FeedPage}

FollowPage ==
  /\ ~follower.expired /\ ~CursorExpired(follower.cursor) /\ PageAfter(follower.cursor) # {}
  /\ LET page == PageAfter(follower.cursor) IN
     follower' = [follower EXCEPT !.cursor = Highest({r.at : r \in page}), !.knows = @ \union {r.event : r \in page}]
  /\ UNCHANGED <<valueRevision, operations, rows, made, stream, asked, applied>>

FollowExpired ==
  /\ ~follower.expired /\ CursorExpired(follower.cursor)
  /\ follower' = [follower EXCEPT !.expired = TRUE, !.latest = stream.last]
  /\ UNCHANGED <<valueRevision, operations, rows, made, stream, asked, applied>>

(* The follower reads the entities, then goes on after the position it was told.     *)
FollowSnapshot ==
  /\ follower.expired
  /\ follower' = [follower EXCEPT !.expired = FALSE, !.cursor = follower.latest, !.knows = 1..made]
  /\ UNCHANGED <<valueRevision, operations, rows, made, stream, asked, applied>>

FeedNext ==
  \/ OtherEvent \/ FollowPage \/ FollowExpired \/ FollowSnapshot
  \/ \E through \in 1..MaxFeedEvents : PruneEvents(through)
  \/ \E c \in Clients : Compose(c) \/ Expires(c) \/ Repeats(c) \/ Refuses(c) \/ StatePut(c)

FeedSpec == FeedInit /\ [][FeedNext]_feedVars

-----------------------------------------------------------------------------
(* A command whose answer was lost may be sent again for as long as the client      *)
(* likes: it takes effect at most once, and a client that is told its command was   *)
(* refused (control.py: "授权在幂等回读之前，过期及 CAS 在回读之后") can rely on it.      *)
RefusedWasNotApplied ==
  \A c \in Clients : asked[c].nr > 0 =>
    /\ applied[<<c, asked[c].nr>>] <= 1
    /\ asked[c].answer \in {"conflict", "expired"} => applied[<<c, asked[c].nr>>] = 0

(* Two accepted commands never stand on the same revision: no update is lost.       *)
NoUpdateLost == \A o, q \in operations : o.on = q.on => o = q

(* Wherever the follower's cursor stands, it knows every event up to there: what      *)
(* retention removed is never skipped in silence, and a position that once named an   *)
(* event never names another.                                                 *)
NoSilentGap ==
  /\ \A r \in rows : r.at <= follower.cursor => r.event \in follower.knows
  /\ ~follower.expired /\ follower.cursor = stream.last => follower.knows = 1..made

(* Whatever answers are lost and events removed: a command takes effect at   *)
(* most once, and a follower misses nothing unknowingly.                     *)
FeedSafety ==
  /\ [](FeedTypeOK /\ RefusedWasNotApplied /\ NoUpdateLost /\ NoSilentGap)
=============================================================================
