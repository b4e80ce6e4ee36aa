---------------------------- MODULE DesktopRegistry ---------------------------
(***************************************************************************)
(* How a project is registered with the desktop client (backends/             *)
(* codex_desktop.py): by its public open entry, which has no answer that tells  *)
(* and no key that would make a second request harmless.  The processes that    *)
(* share a desktop therefore share one intent file per project, made with       *)
(* O_EXCL before the entry is used and removed when the desktop's own state      *)
(* shows the project.                                                        *)
(*                                                                          *)
(*   desktop    the project in the desktop's state: absent, listed, or mapped    *)
(*              to a native id                                               *)
(*   intent     the intent file                                              *)
(*   opened     times the entry was used, and those whose effect is to come      *)
(*   removals   times somebody removed the project (for the properties)         *)
(*   callers    the registrations under way; those of one process take its lock  *)
(*              and so are one caller                                        *)
(***************************************************************************)
EXTENDS Integers, FiniteSets

CONSTANTS Callers,        \* processes that register the project
          MaxCalls,       \* bound on the registrations
          MaxRemovals     \* bound on the removals by hand

ASSUME DesktopRegistryAssumption == MaxCalls \in Nat /\ MaxRemovals \in Nat

VARIABLES desktop, intent, opened, landing, removals, callers, calls

desktopVars == <<desktop, intent, opened, landing, removals, callers, calls>>

CallerSteps == {"idle", "claim", "reread", "open", "poll", "clear"}

DesktopInit ==
  /\ desktop = "absent" /\ intent = FALSE /\ opened = 0 /\ landing = 0 /\ removals = 0
  /\ callers = [c \in Callers |-> "idle"] /\ calls = 0

DesktopTypeOK ==
  /\ desktop \in {"absent", "listed", "mapped"} /\ intent \in BOOLEAN /\ landing \in 0 .. opened
  /\ \A c \in Callers : callers[c] \in CallerSteps
  /\ Cardinality({c \in Callers : callers[c] = "open"}) <= 1

CallerGoes(c, step) == callers' = [callers EXCEPT ![c] = step]

(* What the state file says decides the way on.                               *)
WayOn(fresh) ==
  CASE desktop = "mapped" -> "clear"
    [] desktop = "listed" -> "poll"
    [] desktop = "absent" -> fresh

-----------------------------------------------------------------------------
(* register_project                                                         *)

LookAtDesktop(c) ==
  /\ callers[c] = "idle" /\ calls < MaxCalls /\ calls' = calls + 1 /\ CallerGoes(c, WayOn("claim"))
  /\ UNCHANGED <<desktop, intent, opened, landing, removals>>

ClaimHolds == ~intent

(* The claim may also fail after the file was made, which then stays.          *)
ClaimRegistration(c) ==
  /\ callers[c] = "claim" /\ intent' = TRUE
  /\ \/ CallerGoes(c, IF ClaimHolds THEN "reread" ELSE "poll")
     \/ CallerGoes(c, "idle")
  /\ UNCHANGED <<desktop, opened, landing, removals, calls>>

WayOnBlind == "open"   \* mutant: the state is not read again after the claim

WayOnClaimed == WayOn("open")

(* Another caller may have finished while this one claimed.                   *)
Reread(c) ==
  /\ callers[c] = "reread" /\ CallerGoes(c, WayOnClaimed)
  /\ UNCHANGED <<desktop, intent, opened, landing, removals, calls>>

KeptAfterOpen == {intent}

(* The entry was used, with an answer or with none, and had its effect or not.    *)
OpenDesktop(c) ==
  /\ callers[c] = "open" /\ opened' = opened + 1 /\ landing' \in {landing, landing + 1}
  /\ \/ CallerGoes(c, "poll") /\ UNCHANGED intent
     \/ CallerGoes(c, "idle") /\ intent' \in KeptAfterOpen
  /\ UNCHANGED <<desktop, removals, calls>>

(* The time may be over before.                                               *)
OpenLate(c) ==
  /\ callers[c] = "open" /\ CallerGoes(c, "idle")
  /\ UNCHANGED <<desktop, intent, opened, landing, removals, calls>>

(* Until the project is mapped, or the time is over and all stays unknown.      *)
Poll(c) ==
  /\ callers[c] = "poll"
  /\ \/ CallerGoes(c, "idle")
     \/ desktop = "mapped" /\ CallerGoes(c, "clear")
  /\ UNCHANGED <<desktop, intent, opened, landing, removals, calls>>

(* A file that cannot be removed only holds back later requests.               *)
Clear(c) ==
  /\ callers[c] = "clear" /\ CallerGoes(c, "idle") /\ intent' \in {FALSE, intent}
  /\ UNCHANGED <<desktop, opened, landing, removals, calls>>

CallerDies(c) ==
  /\ callers[c] # "idle" /\ CallerGoes(c, "idle")
  /\ UNCHANGED <<desktop, intent, opened, landing, removals, calls>>

-----------------------------------------------------------------------------
(* The desktop.                                                             *)

Lands ==
  /\ landing > 0 /\ landing' = landing - 1 /\ desktop' = (IF desktop = "absent" THEN "listed" ELSE desktop)
  /\ UNCHANGED <<intent, opened, removals, callers, calls>>

Maps ==
  /\ desktop = "listed" /\ desktop' = "mapped"
  /\ UNCHANGED <<intent, opened, landing, removals, callers, calls>>

AddByHand ==
  /\ desktop = "absent" /\ desktop' = "mapped"
  /\ UNCHANGED <<intent, opened, landing, removals, callers, calls>>

(* Not while a registration is under way.                                     *)
RemoveByHand ==
  /\ desktop # "absent" /\ removals < MaxRemovals /\ \A c \in Callers : callers[c] = "idle"
  /\ desktop' = "absent" /\ removals' = removals + 1
  /\ UNCHANGED <<intent, opened, landing, callers, calls>>

DesktopNext ==
  \/ \E c \in Callers : LookAtDesktop(c) \/ ClaimRegistration(c) \/ Reread(c) \/ OpenDesktop(c) \/ OpenLate(c) \/ Poll(c)
                          \/ Clear(c) \/ CallerDies(c)
  \/ Lands \/ Maps \/ AddByHand \/ RemoveByHand

DesktopSpec == DesktopInit /\ [][DesktopNext]_desktopVars

-----------------------------------------------------------------------------
(* The entry is used once for a project that is absent, however many processes  *)
(* want it, whatever answer is lost and whoever dies; again only after somebody  *)
(* has removed the project.                                                  *)
OpenedOncePerAbsence == opened <= 1 + removals

(* A request whose effect nobody has seen is covered by an intent.             *)
UnseenIsIntended == removals = 0 /\ landing > 0 /\ desktop = "absent" => intent

(* Whoever dies and whatever answer is lost: an entry that cannot be         *)
(* repeated is used once for each absence of the project.                    *)
RegistrySafety ==
  /\ [](DesktopTypeOK /\ OpenedOncePerAbsence /\ UnseenIsIntended)
=============================================================================
