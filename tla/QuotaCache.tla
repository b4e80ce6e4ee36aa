----------------------------- MODULE QuotaCache -----------------------------
(***************************************************************************)
(* The local cache of quota observations: quota.refresh, called from       *)
(* several connections, the entries an operator sets and clears, and the   *)
(* observations that come back with a finished Codex run. A refresh reads  *)
(* the clock once and then goes through its scopes, one probe after the    *)
(* other; what a probe finds is left out, but for the time it stands for.  *)
(***************************************************************************)
EXTENDS Integers, FiniteSets, Sequences, SequencesExt

CONSTANTS Clients,     \* connections that may call quota.refresh
          QuotaScopes, \* billing pools with a probe
          Batches,     \* sequences of scopes one refresh may be asked for
          Interval,    \* _probe_interval: shortest time between two attempts
          Lifetime,    \* probe_lifetime_s: length of a lease
          ProbeLasts,  \* bound: longest time a probe takes
          SnapLimit,   \* QUOTA_SNAPSHOT_LIMIT
          CodexRuns,   \* runs that end with captured rate limits
          MaxTime,     \* bound of the clock
          MaxManual,   \* bound: entries an operator sets
          MaxDeaths    \* bound: clients that die during a refresh

Never == 0 - Interval
ASSUME QuotaAssumption == Interval \in Nat /\ Lifetime \in 1 .. Interval /\ SnapLimit > 0

VARIABLES time,     \* the clock
          prow,     \* plugin_quota_probe_state: scope -> row
          client,   \* connection -> the refresh it is in
          snaps,    \* plugin_quota_snapshots: scope -> rows in rowid order
          captured, \* run -> time its rate limits were captured, Never if not
          flown,    \* history: scope -> time its last probe was started
          manuals, deaths

quotaVars == <<time, prow, client, snaps, captured, flown, manuals, deaths>>

NoClaim == [attempt |-> Never, ok |-> Never, lease |-> Never]
ClientResting == [at |-> "idle", now |-> 0, left |-> <<>>, held |-> NoClaim, began |-> 0, good |-> FALSE]

QuotaInit ==
  /\ time = 0 /\ prow = [s \in QuotaScopes |-> NoClaim]
  /\ client = [c \in Clients |-> ClientResting] /\ snaps = [s \in QuotaScopes |-> <<>>]
  /\ captured = [r \in CodexRuns |-> Never] /\ flown = [s \in QuotaScopes |-> Never]
  /\ manuals = 0 /\ deaths = 0

-----------------------------------------------------------------------------
(* refresh_quota reads the clock and the scopes it is asked for.           *)
Refresh(c, batch) ==
  /\ client[c].at = "idle"
  /\ client' = [client EXCEPT ![c] = [ClientResting EXCEPT !.at = "next", !.now = time, !.left = batch]]
  /\ UNCHANGED <<time, prow, snaps, captured, flown, manuals, deaths>>

Leased(row, now) == row.lease > now
Due(row, now) == now - row.attempt >= Interval

Moved(c) == IF Len(client[c].left) = 1 THEN ClientResting
            ELSE [client[c] EXCEPT !.left = Tail(@), !.at = "next", !.held = NoClaim, !.good = FALSE]

(* The attempt and the lease are taken in one transaction, by the clock    *)
(* that was read when the refresh began.                                   *)
Claim(c) ==
  LET s == Head(client[c].left) now == client[c].now row == prow[s] IN
  /\ client[c].at = "next"
  /\ IF Leased(row, now) \/ ~Due(row, now)
     THEN client' = [client EXCEPT ![c] = Moved(c)] /\ UNCHANGED <<prow, flown>>
     ELSE /\ prow' = [prow EXCEPT ![s] = [row EXCEPT !.attempt = now, !.lease = now + Lifetime]]
          /\ client' = [client EXCEPT ![c] = [@ EXCEPT !.at = "probing", !.began = time,
                          !.held = [attempt |-> now, ok |-> row.ok, lease |-> now + Lifetime]]]
          /\ flown' = [flown EXCEPT ![s] = time]
  /\ UNCHANGED <<time, snaps, captured, manuals, deaths>>

(* The rows of a scope are ranked by what they observed, then by row; only *)
(* the SnapLimit newest stay.                                              *)
Unpruned(rows) == rows
Outranks(rows, m, n) == rows[m].at > rows[n].at \/ (rows[m].at = rows[n].at /\ m > n)
Pruned(rows) ==
  LET kept == {n \in DOMAIN rows :
                 Cardinality({m \in DOMAIN rows : Outranks(rows, m, n)}) < SnapLimit}
      asc == SetToSortSeq(kept, LAMBDA m, n : m < n)
  IN [n \in DOMAIN asc |-> rows[asc[n]]]
Append1(s, obs) == [snaps EXCEPT ![s] = Pruned(Append(@, obs))]

(* The observation of a probe carries the time the refresh began, and is   *)
(* written whether or not the lease is still held.                         *)
ProbeEnds(c, good) ==
  LET s == Head(client[c].left) IN
  /\ client[c].at = "probing"
  /\ snaps' = IF good THEN Append1(s, [src |-> "probe", at |-> client[c].now]) ELSE snaps
  /\ client' = [client EXCEPT ![c] = [@ EXCEPT !.at = "saving", !.good = good]]
  /\ UNCHANGED <<time, prow, captured, flown, manuals, deaths>>

(* The result is written and the lease given back only by the refresh that *)
(* still holds both.                                                       *)
HoldsAlways(c, s) == TRUE
StillHolds(c, s) ==
  prow[s].attempt = client[c].held.attempt /\ prow[s].lease = client[c].held.lease
SaveProbe(c) ==
  LET s == Head(client[c].left) held == client[c].held IN
  /\ client[c].at = "saving"
  /\ prow' = IF StillHolds(c, s)
             THEN [prow EXCEPT ![s] = [attempt |-> held.attempt, lease |-> Never,
                                       ok |-> IF client[c].good THEN client[c].now ELSE held.ok]]
             ELSE prow
  /\ client' = [client EXCEPT ![c] = Moved(c)]
  /\ UNCHANGED <<time, snaps, captured, flown, manuals, deaths>>

(* The process of a client ends during a refresh: its lease stays.         *)
Dies(c) ==
  /\ client[c].at # "idle" /\ deaths < MaxDeaths
  /\ client' = [client EXCEPT ![c] = ClientResting] /\ deaths' = deaths + 1
  /\ UNCHANGED <<time, prow, snaps, captured, flown, manuals>>

-----------------------------------------------------------------------------
SetQuota(s) ==
  /\ manuals < MaxManual /\ manuals' = manuals + 1
  /\ snaps' = Append1(s, [src |-> "manual", at |-> time])
  /\ UNCHANGED <<time, prow, client, captured, flown, deaths>>

ClearQuota(s) ==
  /\ \E o \in ToSet(snaps[s]) : o.src = "manual"
  /\ snaps' = [snaps EXCEPT ![s] = SelectSeq(@, LAMBDA o : o.src # "manual")]
  /\ UNCHANGED <<time, prow, client, captured, flown, manuals, deaths>>

(* A Codex run hears its rate limits; they are written when a save of the  *)
(* run finds it ended, and every later save finds them written.            *)
Capture(r) ==
  /\ captured[r] = Never /\ captured' = [captured EXCEPT ![r] = time]
  /\ UNCHANGED <<time, prow, client, snaps, flown, manuals, deaths>>
Unwritten(r, s) == \A n \in DOMAIN snaps[s] : snaps[s][n].src # r
SaveRun(r, s) ==
  /\ captured[r] # Never
  /\ Unwritten(r, s)
  /\ snaps' = Append1(s, [src |-> r, at |-> captured[r]])
  /\ UNCHANGED <<time, prow, client, captured, flown, manuals, deaths>>

(* Time passes only while a probe runs or nothing is being done.           *)
PassTime ==
  /\ time < MaxTime /\ time' = time + 1
  /\ \A c \in Clients : \/ client[c].at = "idle"
                        \/ client[c].at = "probing" /\ time < client[c].began + ProbeLasts
  /\ UNCHANGED <<prow, client, snaps, captured, flown, manuals, deaths>>

QuotaNext ==
  \/ \E c \in Clients : \E b \in Batches : Refresh(c, b)
  \/ \E c \in Clients : Claim(c) \/ SaveProbe(c) \/ Dies(c)
  \/ \E c \in Clients, good \in BOOLEAN : ProbeEnds(c, good)
  \/ \E s \in QuotaScopes : SetQuota(s) \/ ClearQuota(s)
  \/ \E r \in CodexRuns : Capture(r) \/ \E s \in QuotaScopes : SaveRun(r, s)
  \/ PassTime

QuotaSpec == QuotaInit /\ [][QuotaNext]_quotaVars

-----------------------------------------------------------------------------
QuotaTypeOK ==
  /\ time \in 0 .. MaxTime
  /\ \A s \in QuotaScopes : /\ Len(snaps[s]) <= SnapLimit
                            /\ prow[s].attempt \in {Never} \union 0 .. MaxTime
                            /\ prow[s].ok <= prow[s].attempt
  /\ \A c \in Clients : client[c].at \in {"idle", "next", "probing", "saving"}

(* The attempts recorded for a scope never go back and are Interval apart, *)
(* whatever failed, died or came late: a late result must not set the row  *)
(* back, and a failed attempt counts.                                      *)
AttemptsMoveOn ==
  [][\A s \in QuotaScopes :
       prow'[s].attempt # prow[s].attempt => prow'[s].attempt >= prow[s].attempt + Interval]_quotaVars

(* An observation makes room only for newer ones: a late result, an older  *)
(* capture or a cleared entry does not take a newer observation away.      *)
NewerStays ==
  [][\A s \in QuotaScopes : \A o \in ToSet(snaps[s]) \ ToSet(snaps'[s]) :
       o.src = "manual" \/
         Cardinality({n \in DOMAIN snaps'[s] : snaps'[s][n].at >= o.at}) >= SnapLimit]_quotaVars

(* However often an ended run is saved, its rate limits are one            *)
(* observation of a scope.                                                 *)
CapturedOnce ==
  \A s \in QuotaScopes, r \in CodexRuns :
    Cardinality({n \in DOMAIN snaps[s] : snaps[s][n].src = r}) <= 1

(* Refuted, see the README. The release notes: a scope is probed at most   *)
(* once every Interval, and the lease makes the probe single-flight.       *)
ProbedOncePerInterval ==
  [][\A s \in QuotaScopes :
       flown'[s] # flown[s] => flown'[s] - flown[s] >= Interval]_quotaVars

(* However refreshes overlap, die or come late: attempts move on, and a      *)
(* newer observation stays.                                                  *)
CacheSafety ==
  /\ [](QuotaTypeOK /\ CapturedOnce)
  /\ AttemptsMoveOn /\ NewerStays
=============================================================================
