------------------------------- MODULE Billing -------------------------------
(***************************************************************************)
(* billing/service.py and billing/repository.py: the daily sync of every   *)
(* credit grant from the BigQuery export, the alerts it claims and sends,  *)
(* and the snapshots the summary shows.  The export is external: usage     *)
(* appears in it late and in any order.  Amounts are small integers.       *)
(***************************************************************************)
EXTENDS Integers, FiniteSets

CONSTANTS
    NumGrants,   \* credit grants, in the order of list_grants
    Original,    \* original_micros of a grant
    Baseline,    \* baseline_remaining_micros, read off the console
    Thresholds,  \* remaining:30, remaining:10, remaining:5, as amounts
    FirstDay,    \* days to ends_on at the start
    ExpiryDays,  \* expiry:30, expiry:7, expiry:1
    MaxUsage     \* bound: usage in the export, before and after the baseline

ASSUME BillingAssumption ==
    /\ Original \in Nat /\ Baseline \in 0..Original
    /\ Thresholds \subseteq Nat /\ ExpiryDays \subseteq Nat /\ FirstDay \in Nat
    /\ MaxUsage \in Nat /\ NumGrants \in Nat

Grants == 1..NumGrants

VARIABLES
    daysLeft,   \* days to ends_on
    early,      \* exported promotion usage from before the baseline, by grant
    late,       \* exported promotion usage since the baseline
    remaining,  \* remaining_micros of the latest snapshot
    claimed,    \* rows of billing_alerts
    syncing,    \* the sync: where it is, and for which grant
    due,        \* alert keys _alert_messages returned and not dealt with
    told        \* history: how often the owner got an alert

billingVars == <<daysLeft, early, late, remaining, claimed, syncing, due, told>>

\* Thirty days of the recent burn.
Runway == <<"runway", 30>>

AlertKeys == {<<"remaining", t>> : t \in Thresholds} \cup {<<"expiry", d>> : d \in ExpiryDays}
                 \cup {Runway}

Idle == [at |-> "idle", grant |-> 0, key |-> <<>>]

BillingTypeOK ==
    /\ daysLeft \in -1..FirstDay
    /\ early \in [Grants -> 0..MaxUsage] /\ late \in [Grants -> 0..MaxUsage]
    /\ remaining \in [Grants -> 0..Original]
    /\ claimed \in [Grants -> SUBSET AlertKeys]
    /\ syncing \in [at : {"idle", "fetching", "alerting", "sending"},
                    grant : Grants \cup {0}, key : AlertKeys \cup {<<>>}]
    /\ due \subseteq AlertKeys
    /\ told \in [Grants -> [AlertKeys -> 0..2]]

\* register_grant wrote the console's balance as the first snapshot.
BillingInit ==
    /\ daysLeft = FirstDay
    /\ early = [g \in Grants |-> 0] /\ late = [g \in Grants |-> 0]
    /\ remaining = [g \in Grants |-> Baseline]
    /\ claimed = [g \in Grants |-> {}]
    /\ syncing = Idle /\ due = {}
    /\ told = [g \in Grants |-> [k \in AlertKeys |-> 0]]

-----------------------------------------------------------------------------

\* The export gains usage (external: Cloud Billing and its backfills).
Export(g) ==
    /\ \/ early[g] < MaxUsage /\ early' = [early EXCEPT ![g] = @ + 1] /\ UNCHANGED late
       \/ late[g] < MaxUsage /\ late' = [late EXCEPT ![g] = @ + 1] /\ UNCHANGED early
    /\ UNCHANGED <<daysLeft, remaining, claimed, syncing, due, told>>

\* Sync one grant after the other.
Fetching(g) == [at |-> "fetching", grant |-> g, key |-> <<>>]
NextGrant(g) == IF g + 1 \in Grants THEN Fetching(g + 1) ELSE Idle

BeginSync ==
    /\ syncing = Idle
    /\ syncing' = NextGrant(0)
    /\ UNCHANGED <<daysLeft, early, late, remaining, claimed, due, told>>

Clamp(x) == IF x < 0 THEN 0 ELSE IF x > Original THEN Original ELSE x

\* Mutant: the baseline's share is not taken out again (it was fixed at zero by
\* the first sync).
RemainingAfterAll(g) == Clamp(Baseline - (early[g] + late[g]))

\* promotion_consumed - baseline_promotion_consumed, both of this answer.
Remaining(g) == Clamp(Baseline - ((early[g] + late[g]) - early[g]))

\* _alert_messages; soon: the burn of the last seven days, of which only its projection
\* matters, uses the balance up within thirty.
AlertsFor(balance, soon) ==
    {<<"remaining", t>> : t \in {t \in Thresholds : balance <= t}}
        \cup {<<"expiry", d>> : d \in {d \in ExpiryDays : 0 <= daysLeft /\ daysLeft <= d}}
        \cup {k \in {Runway} : soon /\ balance > 0}

\* fetch and record_aggregate: the snapshot is one transaction.
RecordAggregate ==
    /\ syncing.at = "fetching"
    /\ LET g == syncing.grant IN
       /\ remaining' = [remaining EXCEPT ![g] = Remaining(g)]
       /\ \E soon \in BOOLEAN : due' = AlertsFor(Remaining(g), soon)
       /\ syncing' = [syncing EXCEPT !.at = "alerting"]
    /\ UNCHANGED <<daysLeft, early, late, claimed, told>>

\* Mutant: what was claimed is sent again.
ClaimAnyway(k) ==
    /\ syncing.at = "alerting" /\ k \in due
    /\ due' = due \ {k}
    /\ claimed' = [claimed EXCEPT ![syncing.grant] = @ \cup {k}]
    /\ syncing' = [syncing EXCEPT !.at = "sending", !.key = k]
    /\ UNCHANGED <<daysLeft, early, late, remaining, told>>

\* claim_alert: INSERT ... ON CONFLICT DO NOTHING, in a transaction of its own.
ClaimAlert(k) ==
    /\ syncing.at = "alerting" /\ k \in due
    /\ due' = due \ {k}
    /\ claimed' = [claimed EXCEPT ![syncing.grant] = @ \cup {k}]
    /\ syncing' = IF k \in claimed[syncing.grant] THEN syncing
                  ELSE [syncing EXCEPT !.at = "sending", !.key = k]
    /\ UNCHANGED <<daysLeft, early, late, remaining, told>>

\* The send after the claim reaches the owner.
SendAlert ==
    /\ syncing.at = "sending"
    /\ told' = [told EXCEPT ![syncing.grant][syncing.key] = @ + 1]
    /\ syncing' = [syncing EXCEPT !.at = "alerting", !.key = <<>>]
    /\ UNCHANGED <<daysLeft, early, late, remaining, claimed, due>>

GrantDone ==
    /\ syncing.at = "alerting" /\ due = {}
    /\ syncing' = NextGrant(syncing.grant)
    /\ UNCHANGED <<daysLeft, early, late, remaining, claimed, due, told>>

\* A query or a send that fails, or a crash: the rest of the sync, the other
\* grants included, waits for the next day; a message may have got through.
SyncFails ==
    /\ syncing # Idle
    /\ syncing' = Idle /\ due' = {}
    /\ \/ UNCHANGED told
       \/ /\ syncing.at = "sending"
          /\ told' = [told EXCEPT ![syncing.grant][syncing.key] = @ + 1]
    /\ UNCHANGED <<daysLeft, early, late, remaining, claimed>>

BillingDay ==
    /\ daysLeft' = IF daysLeft >= 0 THEN daysLeft - 1 ELSE daysLeft
    /\ UNCHANGED <<early, late, remaining, claimed, syncing, due, told>>

-----------------------------------------------------------------------------
(* Properties *)

\* "The same alert is sent only once", over syncs, failures and crashes.
AlertsAreToldOnce == \A g \in Grants, k \in AlertKeys : told[g][k] <= 1

\* Usage from before the console's reading never moves the balance, however
\* late the export delivers it: a snapshot lies between the balance without the
\* usage exported so far and the full one.
BackfillIsNeutral ==
    \A g \in Grants : Clamp(Baseline - late[g]) <= remaining[g] /\ remaining[g] <= Baseline

=============================================================================
