----------------------------- MODULE NightlyJobs -----------------------------
(***************************************************************************)
(* The two daily jobs of the service, maintenance at 03:30 and billing at  *)
(* 12:10, over one database and one calendar, with the program writing     *)
(* between them.  A night whose maintenance failed is over all the same.   *)
(***************************************************************************)
EXTENDS Retention, Billing

VARIABLE pending   \* jobs of the day that were not started yet

vars == <<retentionVars, billingVars, pending>>

Jobs == {"maintenance", "billing"}

NightlyTypeOK == RetentionTypeOK /\ BillingTypeOK /\ pending \subseteq Jobs

Init == RetentionInit /\ BillingInit /\ pending = {}

\* The next day begins when the jobs of the last one have been called.
Day ==
    /\ pending = {} /\ syncing = Idle
    /\ pending' = Jobs
    /\ AgeRows /\ BillingDay

\* Maintenance commits, or its transaction is refused and rolled back.  The service
\* retries a refused one in the same night, after 1, 2, 4 and 8 seconds, and gives up at
\* the fifth: this step is the outcome of the last try (the restart is ServiceLoops').
Maintain ==
    /\ "maintenance" \in pending
    /\ pending' = pending \ {"maintenance"}
    /\ Purge \/ (~ForeignKeysHold /\ UNCHANGED retentionVars)
    /\ UNCHANGED billingVars

Sync ==
    /\ pending = {"billing"}
    /\ pending' = pending \ {"billing"}
    /\ BeginSync /\ UNCHANGED retentionVars

\* The service is down when a job is due: it waits for the next day.
Miss ==
    /\ pending # {}
    /\ pending' = {}
    /\ UNCHANGED <<retentionVars, billingVars>>

BillingStep ==
    /\ \/ \E g \in Grants : Export(g)
       \/ RecordAggregate \/ SendAlert \/ GrantDone \/ SyncFails
       \/ \E k \in AlertKeys : ClaimAlert(k)
    /\ UNCHANGED <<retentionVars, pending>>

Write ==
    /\ \E m \in Monitors :
          \/ Disable(m) \/ RecordProbe(m)
          \/ \E t \in Tables : WriteRow(m, t)
          \/ \E k \in Keys : Enqueue(m, k) \/ Deliver(m, k)
    /\ UNCHANGED <<billingVars, pending>>

Next == Day \/ Maintain \/ Sync \/ Miss \/ BillingStep \/ Write

Spec == Init /\ [][Next]_vars

\* Days go by, and the service is up often enough for maintenance to run.
FairSpec == Spec /\ WF_vars(Day) /\ SF_vars(Maintain)
                 /\ WF_vars(Sync) /\ WF_vars(RecordAggregate /\ UNCHANGED <<retentionVars, pending>>)
                 /\ WF_vars((GrantDone \/ SendAlert \/ \E k \in AlertKeys : ClaimAlert(k))
                               /\ UNCHANGED <<retentionVars, pending>>)

=============================================================================
