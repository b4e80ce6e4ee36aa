------------------------------ MODULE ReviewInbox -----------------------------
(***************************************************************************)
(* How the news of reviews reach the one who asked for them (review_follow.py,  *)
(* review_consumer.py).  The core answers pages of notices that are not         *)
(* acknowledged; a host that is polled from outside takes the notices of a few  *)
(* pages, shows each and acknowledges it by its digest.  The host keeps the      *)
(* cursor it was given and the keys it has shown, and nothing else survives.    *)
(*                                                                          *)
(*   known      reviews there are; ids are digests, so a new one may sort        *)
(*              before one that was read                                     *)
(*   notice     what a review has to say now, 0 for nothing                    *)
(*   receipt    digest last acknowledged, Damaged for an unreadable one         *)
(*   shown      keys the host has accepted, and kept                           *)
(*   saved      cursor the host has kept; 0 is the first page                  *)
(*   poll       the run_once under way                                        *)
(*   steady     reviews that said the same since the first page of this round    *)
(*   clean      no item of this round has to be tried again                    *)
(*                                                                          *)
(* The pages of one call read one review after the other inside one core step.  *)
(***************************************************************************)
EXTENDS Integers, FiniteSets, Sequences, SequencesExt

CONSTANTS Reviews,        \* ids, in their order
          Notices,        \* what a review may have to say
          PageSize,       \* reviews of a page
          MaxPages,       \* pages of a run_once
          MaxChanges      \* bound on the changes of reviews

ASSUME ReviewInboxAssumption ==
  Reviews \subseteq Nat \ {0} /\ Notices \subseteq Nat \ {0} /\ PageSize \in Nat \ {0} /\ MaxPages \in Nat \ {0} /\ MaxChanges \in Nat

VARIABLES known, notice, receipt, shown, saved, poll, steady, clean, changes

inboxVars == <<known, notice, receipt, shown, saved, poll, steady, clean, changes>>

Damaged == -1
Quiet == [at |-> "idle", cursor |-> 0, next |-> 0, items |-> <<>>, pages |-> 0, seen |-> {}]

InboxInit ==
  /\ known = {} /\ notice = [r \in Reviews |-> 0] /\ receipt = [r \in Reviews |-> 0] /\ shown = {} /\ saved = 0
  /\ poll = Quiet /\ steady = {} /\ clean = FALSE /\ changes = 0

InboxTypeOK ==
  /\ known \subseteq Reviews /\ \A r \in Reviews : notice[r] \in Notices \cup {0} /\ receipt[r] \in Notices \cup {0, Damaged}
  /\ shown \subseteq Reviews \X Notices /\ saved \in Reviews \cup {0}
  /\ poll.pages \in 0 .. MaxPages /\ Len(poll.items) <= PageSize /\ steady \subseteq known

Running == poll.at # "idle"
Item == Head(poll.items)

-----------------------------------------------------------------------------
(* run_once                                                                 *)

(* A round begins with the first page and may take several polls.             *)
StartRound ==
  /\ ~Running /\ poll' = [Quiet EXCEPT !.at = "page", !.cursor = saved]
  /\ steady' = (IF saved = 0 THEN known ELSE steady) /\ clean' = (saved = 0 \/ clean)
  /\ UNCHANGED <<known, notice, receipt, shown, saved, changes>>

Unread == SetToSortSeq({r \in known : r > poll.cursor}, LAMBDA a, b : a < b)
Selected == SubSeq(Unread, 1, IF Len(Unread) < PageSize THEN Len(Unread) ELSE PageSize)

(* A receipt that cannot be read does not swallow the notice.                 *)
News(r) == notice[r] # 0 /\ receipt[r] # notice[r]

EmptyPageEnds ==   \* mutant: a page without news is taken for the last
  IF Len(Unread) > PageSize /\ \E i \in DOMAIN Selected : News(Selected[i]) THEN Selected[PageSize] ELSE 0

NextCursor == IF Len(Unread) > PageSize THEN Selected[PageSize] ELSE 0

ReadPage ==
  /\ poll.at = "page"
  /\ LET fresh == SelectSeq(Selected, LAMBDA r : News(r) /\ r \notin poll.seen) IN
     poll' = [poll EXCEPT !.at = "items", !.next = NextCursor, !.pages = @ + 1,
                          !.items = [i \in DOMAIN fresh |-> [review |-> fresh[i], notice |-> notice[fresh[i]]]],
                          !.seen = @ \cup ToSet(fresh)]
  /\ UNCHANGED <<known, notice, receipt, shown, saved, steady, clean, changes>>

(* A page that does not come ends the poll, which goes on there next time.     *)
PageFails ==
  /\ poll.at = "page" /\ poll' = Quiet /\ saved' = poll.cursor
  /\ UNCHANGED <<known, notice, receipt, shown, steady, clean, changes>>

Dropped == [poll EXCEPT !.at = "items", !.items = Tail(@)]
Keep == UNCHANGED <<known, notice, receipt, saved, steady, changes>>

(* The status is read again: a notice that is no longer current is not shown.   *)
ReadStatus ==
  /\ poll.at = "items" /\ poll.items # <<>>
  /\ \/ notice[Item.review] = Item.notice /\ poll' = [poll EXCEPT !.at = "deliver"] /\ UNCHANGED clean
     \/ poll' = Dropped /\ clean' = FALSE
  /\ UNCHANGED shown /\ Keep

GoesOn == {}

(* The host shows the notice, unless it has the key already; its answer may be  *)
(* lost, or be no receipt for this key.                                       *)
Deliver ==
  /\ poll.at = "deliver"
  /\ \/ /\ shown' = shown \cup {<<Item.review, Item.notice>>}
        /\ \/ poll' = [poll EXCEPT !.at = "ack"] /\ UNCHANGED clean
           \/ poll' = Dropped /\ clean' = FALSE
     \/ UNCHANGED shown /\ clean' = FALSE /\ poll' \in {Dropped} \cup {[poll EXCEPT !.at = step] : step \in GoesOn}
  /\ Keep

AcknowledgedNow == [receipt EXCEPT ![Item.review] = notice[Item.review]]   \* mutant: what is current is acknowledged

(* review.ack names the digest that was shown.                                *)
Acknowledged == IF notice[Item.review] = Item.notice THEN [receipt EXCEPT ![Item.review] = Item.notice] ELSE receipt

Ack ==
  /\ poll.at = "ack" /\ poll' = Dropped /\ receipt' \in {Acknowledged, receipt}
  /\ clean' \in {clean /\ receipt' = Acknowledged /\ notice[Item.review] = Item.notice, FALSE}
  /\ UNCHANGED <<known, notice, shown, saved, steady, changes>>

AtTheLimit == poll.pages = MaxPages

EndPage ==
  /\ poll.at = "items" /\ poll.items = <<>>
  /\ IF poll.next = 0 \/ AtTheLimit
       THEN poll' = Quiet /\ saved' = poll.next
       ELSE poll' = [poll EXCEPT !.at = "page", !.cursor = poll.next] /\ UNCHANGED saved
  /\ UNCHANGED <<known, notice, receipt, shown, steady, clean, changes>>

(* The host dies, and starts again with what it has kept.                     *)
WatchDies ==
  /\ Running /\ poll' = Quiet /\ UNCHANGED <<known, notice, receipt, shown, saved, steady, clean, changes>>

-----------------------------------------------------------------------------
(* The reviews.                                                             *)

Changed(r) == changes < MaxChanges /\ changes' = changes + 1 /\ steady' = steady \ {r}

(* Also back to what it said before.                                         *)
Change(r) ==
  /\ Changed(r) /\ known' = known \cup {r}
  /\ \E n \in (Notices \cup {0}) \ {notice[r]} : notice' = [notice EXCEPT ![r] = n]
  /\ UNCHANGED <<receipt, shown, saved, poll, clean>>

Damage(r) ==
  /\ receipt[r] \notin {0, Damaged} /\ Changed(r) /\ receipt' = [receipt EXCEPT ![r] = Damaged]
  /\ UNCHANGED <<known, notice, shown, saved, poll, clean>>

WatchStep == StartRound \/ ReadPage \/ ReadStatus \/ Deliver \/ Ack \/ EndPage

InboxNext ==
  \/ WatchStep \/ PageFails \/ WatchDies
  \/ \E r \in Reviews : Change(r) \/ Damage(r)

InboxSpec == InboxInit /\ [][InboxNext]_inboxVars

(* A host that is polled again and again, does not die at the same place for    *)
(* ever, and whose pages, deliveries and answers do not fail for ever.          *)
InboxFairness ==
  /\ WF_inboxVars(StartRound) /\ SF_inboxVars(EndPage) /\ SF_inboxVars(ReadPage) /\ WF_inboxVars(ReadStatus)
  /\ SF_inboxVars(ReadStatus /\ poll'.at = "deliver")
  /\ SF_inboxVars(Deliver /\ poll'.at = "ack" /\ <<Item.review, Item.notice>> \in shown')
  /\ SF_inboxVars(Ack /\ receipt' = Acknowledged)

-----------------------------------------------------------------------------
(* What is acknowledged was shown: no crash, lost answer or change in between    *)
(* marks a notice as delivered that nobody has seen.                          *)
AcknowledgedWasShown == \A r \in Reviews : receipt[r] \in Notices => <<r, receipt[r]>> \in shown

(* A round in which nothing had to be tried again leaves nothing unsaid: every   *)
(* review that stayed as it was has been acknowledged, whatever was damaged      *)
(* before, however many polls the round took.                                *)
RoundLeavesNothing ==
  [][EndPage /\ poll.next = 0 /\ clean => \A r \in steady : notice[r] # 0 => receipt[r] = notice[r]]_inboxVars

(* Once the reviews stay as they are, all they say is shown and acknowledged.   *)
NewsIsDelivered == <>[](\A r \in known : notice[r] # 0 => receipt[r] = notice[r])

(* Whatever changes between the pages: what is acknowledged was shown, and a *)
(* clean round leaves nothing unsaid.                                        *)
InboxSafety ==
  /\ [](InboxTypeOK /\ AcknowledgedWasShown)
  /\ RoundLeavesNothing
=============================================================================
