------------------------------ MODULE Retention ------------------------------
(***************************************************************************)
(* maintenance.py over the tables it purges: one immediate transaction per *)
(* night that deletes what is older than its limit and, with everything    *)
(* that refers to them, the monitors disabled long ago; and the writers of *)
(* those tables, which go on all day.  Ages are counted in days and stop   *)
(* at Oldest.                                                              *)
(***************************************************************************)
EXTENDS Integers

CONSTANTS
    Monitors,      \* monitor ids
    Keys,          \* dedupe keys of a monitor's events
    RowLimit,      \* days the rows of the dated tables live (90 for runs, 7 for snapshots)
    DeliveryDays,  \* 180: deliveries and their outbox rows
    RestoreDays,   \* 30: disabled monitors
    Tables,        \* dated tables: runs and pending_actions compare with < cutoff,
                   \* the encrypted ones have an expires_at and compare with <= now
    Probes         \* monitors `migration duplicate-probe` may be run for

ASSUME RetentionAssumption ==
    /\ RowLimit \in Nat /\ DeliveryDays \in Nat /\ RestoreDays \in Nat
    /\ Probes \subseteq Monitors

VARIABLES
    disabled,  \* days since a monitor was deleted by its owner
    message,   \* outbox status of an event
    age,       \* days since an event was delivered
    dated,     \* days since the oldest row of a monitor in another table was written
    probe,     \* monitors with a row in rental_duplicate_probe_results
    sentAge    \* history: days since an event was last delivered

retentionVars == <<disabled, message, age, dated, probe, sentAge>>

MaxOf(S) == CHOOSE x \in S : \A y \in S : y <= x
Oldest == MaxOf({RowLimit, DeliveryDays, RestoreDays}) + 1
Ages == 0..Oldest
Never == -1      \* no such row, or not yet
Active == -1
Gone == -2       \* the monitors row was deleted

RetentionTypeOK ==
    /\ disabled \in [Monitors -> Ages \cup {Active, Gone}]
    /\ message \in [Monitors -> [Keys -> {"none", "pending", "delivered"}]]
    /\ age \in [Monitors -> [Keys -> Ages]]
    /\ dated \in [Monitors -> [Tables -> Ages \cup {Never}]]
    /\ probe \subseteq Monitors
    /\ sentAge \in [Monitors -> [Keys -> Ages \cup {Never}]]

RetentionInit ==
    /\ disabled = [m \in Monitors |-> Active]
    /\ message = [m \in Monitors |-> [k \in Keys |-> "none"]]
    /\ age = [m \in Monitors |-> [k \in Keys |-> 0]]
    /\ dated = [m \in Monitors |-> [t \in Tables |-> Never]]
    /\ probe = {}
    /\ sentAge = [m \in Monitors |-> [k \in Keys |-> Never]]

-----------------------------------------------------------------------------
(* The writers *)

\* INSERT OR IGNORE under the unique dedupe_key.
Enqueue(m, k) ==
    /\ disabled[m] = Active /\ message[m][k] = "none"
    /\ message' = [message EXCEPT ![m][k] = "pending"]
    /\ UNCHANGED <<disabled, age, dated, probe, sentAge>>

\* mark_delivered: also for a monitor deleted meanwhile.
Deliver(m, k) ==
    /\ message[m][k] = "pending"
    /\ message' = [message EXCEPT ![m][k] = "delivered"]
    /\ age' = [age EXCEPT ![m][k] = 0]
    /\ sentAge' = [sentAge EXCEPT ![m][k] = 0]
    /\ UNCHANGED <<disabled, dated, probe>>

\* A run, a snapshot, a feature: what matters is the age of the oldest.
WriteRow(m, t) ==
    /\ disabled[m] = Active /\ dated[m][t] = Never
    /\ dated' = [dated EXCEPT ![m][t] = 0]
    /\ UNCHANGED <<disabled, message, age, probe, sentAge>>

\* soft_delete, update_owned_status.
Disable(m) ==
    /\ disabled[m] = Active
    /\ disabled' = [disabled EXCEPT ![m] = 0]
    /\ UNCHANGED <<message, age, dated, probe, sentAge>>

\* The duplicate probe of the migration records its result for a monitor.
RecordProbe(m) ==
    /\ m \in Probes /\ disabled[m] = Active
    /\ probe' = probe \cup {m}
    /\ UNCHANGED <<disabled, message, age, dated, sentAge>>

Older(x) == IF x \in Ages /\ x < Oldest THEN x + 1 ELSE x

AgeRows ==
    /\ disabled' = [m \in Monitors |-> Older(disabled[m])]
    /\ age' = [m \in Monitors |-> [k \in Keys |-> Older(age[m][k])]]
    /\ dated' = [m \in Monitors |-> [t \in Tables |-> Older(dated[m][t])]]
    /\ sentAge' = [m \in Monitors |-> [k \in Keys |-> Older(sentAge[m][k])]]
    /\ UNCHANGED <<message, probe>>

-----------------------------------------------------------------------------
(* Maintenance.run *)

\* Mutants: a day too early, or without looking at the status.
OldDeliveryInclusive(m, k) == message[m][k] = "delivered" /\ age[m][k] >= DeliveryDays
UndeliveredToo(m, k) == message[m][k] # "none"

\* outbox.status = 'delivered' AND deliveries.delivered_at < cutoff
OldDelivery(m, k) == message[m][k] = "delivered" /\ age[m][k] > DeliveryDays

\* Features of a disabled monitor go at once; they refer to no monitor row.
OldRow(m, t) ==
    \/ dated[m][t] > RowLimit
    \/ t # "runs" /\ dated[m][t] = RowLimit
    \/ t = "adaptive_features" /\ disabled[m] \in Ages

\* Mutant: the comparison is the wrong way round.
RecentlyDisabled == {m \in Monitors : disabled[m] \in 0..RestoreDays}

OverdueMonitors == {m \in Monitors : disabled[m] > RestoreDays}

\* SQLite refuses to delete a monitor that a row still refers to.
ForeignKeysHold == OverdueMonitors \cap probe = {}

\* One transaction: a refused statement rolls back every one before it.
Purge ==
    /\ ForeignKeysHold
    /\ LET gone == OverdueMonitors IN
       /\ disabled' = [m \in Monitors |-> IF m \in gone THEN Gone ELSE disabled[m]]
       /\ message' = [m \in Monitors |-> [k \in Keys |->
             IF m \in gone \/ OldDelivery(m, k) THEN "none" ELSE message[m][k]]]
       /\ dated' = [m \in Monitors |-> [t \in Tables |->
             IF m \in gone \/ OldRow(m, t) THEN Never ELSE dated[m][t]]]
    /\ UNCHANGED <<age, probe, sentAge>>

-----------------------------------------------------------------------------
(* Properties *)

\* An event is told again only when its delivery is older than the promised
\* window: the dedupe keys outlive it, whatever the order of deliveries and
\* nights.
EventsAreToldOncePerWindow ==
    [][\A m \in Monitors, k \in Keys :
          message[m][k] = "none" /\ message'[m][k] = "pending"
              => sentAge[m][k] = Never \/ sentAge[m][k] > DeliveryDays]_retentionVars

\* A message that was never delivered is dropped only with a monitor whose owner
\* deleted it RestoreDays ago.
UndeliveredIsKept ==
    [][\A m \in Monitors, k \in Keys :
          message[m][k] = "pending" /\ message'[m][k] = "none"
              => disabled[m] > RestoreDays]_retentionVars

\* What a deleted monitor leaves is removed in the end, unless the probe's row of
\* some monitor that has to go stops every night's transaction.
ForgottenUnlessProbed ==
    \A m \in Monitors :
        disabled[m] = 0 ~> disabled[m] = Gone \/ OverdueMonitors \cap probe # {}

\* "After 30 days related settings and observations are cleaned up."
DeletedMonitorsAreForgotten == \A m \in Monitors : disabled[m] = 0 ~> disabled[m] = Gone

=============================================================================
