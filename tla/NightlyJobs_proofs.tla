-------------------------- MODULE NightlyJobs_proofs --------------------------
(***************************************************************************)
(* Safety of the two daily jobs: what the claims of the billing alerts and *)
(* the dedupe keys of the outbox promise, for any number of grants,        *)
(* monitors, events and limits.                                            *)
(***************************************************************************)
EXTENDS NightlyJobs, TLAPS

Statuses == {"none", "pending", "delivered"}
SyncRow == [at : {"idle", "fetching", "alerting", "sending"},
            grant : Grants \cup {0}, key : AlertKeys \cup {<<>>}]

-----------------------------------------------------------------------------
(* The sync *)

\* The types, without the bound on told that AlertsAreToldOnce is about.
SyncTypes ==
    /\ early \in [Grants -> Nat] /\ late \in [Grants -> Nat]
    /\ remaining \in [Grants -> Int]
    /\ claimed \in [Grants -> SUBSET AlertKeys]
    /\ syncing \in SyncRow
    /\ due \subseteq AlertKeys
    /\ told \in [Grants -> [AlertKeys -> Nat]]

\* A sync works for a grant, and sends a key.
SyncHasGrant ==
    /\ syncing.at # "idle" => syncing.grant \in Grants
    /\ syncing.at = "sending" => syncing.key \in AlertKeys

\* The claim comes before the message, and the message in hand was never sent.
ToldIsClaimed ==
    \A g \in Grants, k \in AlertKeys :
        /\ told[g][k] <= 1
        /\ told[g][k] > 0 => k \in claimed[g]
        /\ syncing.at = "sending" /\ syncing.grant = g /\ syncing.key = k
              => told[g][k] = 0 /\ k \in claimed[g]

SyncInv == SyncTypes /\ SyncHasGrant /\ ToldIsClaimed /\ BackfillIsNeutral

LEMMA GrantTypes == Grants \subseteq Nat /\ 0 \notin Grants
  BY BillingAssumption DEF Grants

LEMMA SyncInitial == BillingInit => SyncInv
  <1> SUFFICES ASSUME BillingInit PROVE SyncInv
    OBVIOUS
  <1>1. SyncTypes
    BY BillingAssumption DEF BillingInit, SyncTypes, SyncRow, Idle
  <1>2. SyncHasGrant /\ ToldIsClaimed
    BY DEF BillingInit, SyncHasGrant, ToldIsClaimed, Idle
  <1>3. BackfillIsNeutral
    BY BillingAssumption DEF BillingInit, BackfillIsNeutral, Clamp
  <1> QED
    BY <1>1, <1>2, <1>3 DEF SyncInv

LEMMA NextGrantIsIdleOrFetching ==
    ASSUME NEW g \in Grants \cup {0}
    PROVE  /\ NextGrant(g) \in SyncRow
           /\ NextGrant(g).at \in {"idle", "fetching"}
           /\ NextGrant(g).at # "idle" => NextGrant(g).grant \in Grants
  <1>1. CASE g + 1 \in Grants
    BY <1>1 DEF NextGrant, Fetching, SyncRow
  <1>2. CASE g + 1 \notin Grants
    BY <1>2 DEF NextGrant, Idle, SyncRow
  <1> QED
    BY <1>1, <1>2

LEMMA ExportKeeps ==
    ASSUME SyncInv, NEW g \in Grants, Export(g)
    PROVE  SyncInv'
  <1> USE DEF SyncInv
  <1>1. SyncTypes'
    BY DEF Export, SyncTypes
  <1>2. SyncHasGrant' /\ ToldIsClaimed'
    BY DEF Export, SyncHasGrant, ToldIsClaimed
  <1>3. BackfillIsNeutral'
    BY BillingAssumption DEF Export, BackfillIsNeutral, SyncTypes, Clamp
  <1> QED
    BY <1>1, <1>2, <1>3

LEMMA BeginSyncKeeps ==
    ASSUME SyncInv, BeginSync
    PROVE  SyncInv'
  <1> USE DEF SyncInv
  <1>0. /\ syncing' \in SyncRow /\ syncing'.at \in {"idle", "fetching"}
        /\ syncing'.at # "idle" => syncing'.grant \in Grants
    BY NextGrantIsIdleOrFetching DEF BeginSync
  <1>1. SyncTypes'
    BY <1>0 DEF BeginSync, SyncTypes
  <1>2. SyncHasGrant' /\ ToldIsClaimed'
    BY <1>0 DEF BeginSync, SyncHasGrant, ToldIsClaimed
  <1>3. BackfillIsNeutral'
    BY DEF BeginSync, BackfillIsNeutral, Clamp
  <1> QED
    BY <1>1, <1>2, <1>3

LEMMA GrantDoneKeeps ==
    ASSUME SyncInv, GrantDone
    PROVE  SyncInv'
  <1> USE DEF SyncInv
  <1>0. /\ syncing' \in SyncRow /\ syncing'.at \in {"idle", "fetching"}
        /\ syncing'.at # "idle" => syncing'.grant \in Grants
    BY NextGrantIsIdleOrFetching DEF GrantDone, SyncHasGrant
  <1>1. SyncTypes'
    BY <1>0 DEF GrantDone, SyncTypes
  <1>2. SyncHasGrant' /\ ToldIsClaimed'
    BY <1>0 DEF GrantDone, SyncHasGrant, ToldIsClaimed
  <1>3. BackfillIsNeutral'
    BY DEF GrantDone, BackfillIsNeutral, Clamp
  <1> QED
    BY <1>1, <1>2, <1>3

LEMMA RecordAggregateKeeps ==
    ASSUME SyncInv, RecordAggregate
    PROVE  SyncInv'
  <1> USE DEF SyncInv
  <1>0. syncing.grant \in Grants
    BY DEF RecordAggregate, SyncHasGrant
  <1>1. /\ syncing' \in SyncRow /\ syncing'.at = "alerting"
        /\ syncing'.grant = syncing.grant
    BY DEF RecordAggregate, SyncTypes, SyncRow
  <1>2. Remaining(syncing.grant) \in Int
    BY <1>0, BillingAssumption DEF Remaining, Clamp, SyncTypes
  <1>3. \A soon \in BOOLEAN : AlertsFor(Remaining(syncing.grant), soon) \subseteq AlertKeys
    BY DEF AlertsFor, AlertKeys
  <1>4. SyncTypes'
    BY <1>0, <1>1, <1>2, <1>3 DEF RecordAggregate, SyncTypes
  <1>5. SyncHasGrant' /\ ToldIsClaimed'
    BY <1>0, <1>1 DEF RecordAggregate, SyncHasGrant, ToldIsClaimed
  <1>6. BackfillIsNeutral'
    BY <1>0, BillingAssumption DEF RecordAggregate, BackfillIsNeutral, SyncTypes, Remaining, Clamp
  <1> QED
    BY <1>4, <1>5, <1>6

LEMMA ClaimAlertKeeps ==
    ASSUME SyncInv, NEW k \in AlertKeys, ClaimAlert(k)
    PROVE  SyncInv'
  <1> USE DEF SyncInv
  <1>0. syncing.grant \in Grants /\ syncing.at = "alerting"
    BY DEF ClaimAlert, SyncHasGrant
  <1>1. /\ syncing' \in SyncRow /\ syncing'.grant = syncing.grant
        /\ \/ syncing'.at = "alerting"
           \/ /\ syncing'.at = "sending" /\ syncing'.key = k
              /\ k \notin claimed[syncing.grant]
    BY <1>0 DEF ClaimAlert, SyncTypes, SyncRow
  <1>2. SyncTypes'
    BY <1>0, <1>1 DEF ClaimAlert, SyncTypes
  <1>3. SyncHasGrant'
    BY <1>0, <1>1 DEF SyncHasGrant
  <1>4. ToldIsClaimed'
    <2> SUFFICES ASSUME NEW g \in Grants, NEW j \in AlertKeys
                 PROVE  /\ told'[g][j] <= 1
                        /\ told'[g][j] > 0 => j \in claimed'[g]
                        /\ syncing'.at = "sending" /\ syncing'.grant = g /\ syncing'.key = j
                              => told'[g][j] = 0 /\ j \in claimed'[g]
      BY DEF ToldIsClaimed
    <2>1. told'[g][j] = told[g][j] /\ told[g][j] \in Nat /\ claimed[g] \subseteq claimed'[g]
      BY <1>0 DEF ClaimAlert, SyncTypes
    <2>2. k \in claimed'[syncing.grant]
      BY <1>0 DEF ClaimAlert, SyncTypes
    <2> QED
      BY <1>0, <1>1, <2>1, <2>2 DEF ToldIsClaimed
  <1>5. BackfillIsNeutral'
    BY DEF ClaimAlert, BackfillIsNeutral, Clamp
  <1> QED
    BY <1>2, <1>3, <1>4, <1>5

\* What a message that reached the owner does to the counts.
ToldMore ==
    told' = [told EXCEPT ![syncing.grant][syncing.key] = @ + 1]

LEMMA ToldOnceMore ==
    ASSUME SyncInv, syncing.at = "sending", ToldMore
    PROVE  /\ told' \in [Grants -> [AlertKeys -> Nat]]
           /\ \A g \in Grants, k \in AlertKeys :
                 told'[g][k] <= 1 /\ (told'[g][k] > 0 => k \in claimed[g])
  <1> USE DEF SyncInv
  <1>1. syncing.grant \in Grants /\ syncing.key \in AlertKeys
    BY DEF SyncHasGrant
  <1>2. told' \in [Grants -> [AlertKeys -> Nat]]
    BY <1>1 DEF ToldMore, SyncTypes
  <1>3. ASSUME NEW g \in Grants, NEW k \in AlertKeys
        PROVE  told'[g][k] <= 1 /\ (told'[g][k] > 0 => k \in claimed[g])
    <2>1. CASE g = syncing.grant /\ k = syncing.key
      <3>1. told[g][k] = 0 /\ k \in claimed[g]
        BY <2>1 DEF ToldIsClaimed
      <3>2. told'[g][k] = told[g][k] + 1
        BY <1>1, <2>1 DEF ToldMore, SyncTypes
      <3> QED
        BY <3>1, <3>2
    <2>2. CASE g # syncing.grant \/ k # syncing.key
      <3>1. told'[g][k] = told[g][k]
        BY <1>1, <2>2 DEF ToldMore, SyncTypes
      <3> QED
        BY <3>1 DEF ToldIsClaimed
    <2> QED
      BY <2>1, <2>2
  <1> QED
    BY <1>2, <1>3

LEMMA SendAlertKeeps ==
    ASSUME SyncInv, SendAlert
    PROVE  SyncInv'
  <1> USE DEF SyncInv
  <1>1. /\ syncing' \in SyncRow /\ syncing'.at = "alerting"
        /\ syncing'.grant = syncing.grant
    BY DEF SendAlert, SyncTypes, SyncRow
  <1>2. /\ told' \in [Grants -> [AlertKeys -> Nat]]
        /\ \A g \in Grants, k \in AlertKeys :
              told'[g][k] <= 1 /\ (told'[g][k] > 0 => k \in claimed[g])
    BY ToldOnceMore DEF SendAlert, ToldMore
  <1>3. SyncTypes'
    BY <1>1, <1>2 DEF SendAlert, SyncTypes
  <1>4. SyncHasGrant'
    BY <1>1 DEF SendAlert, SyncHasGrant
  <1>5. ToldIsClaimed'
    BY <1>1, <1>2 DEF SendAlert, ToldIsClaimed
  <1>6. BackfillIsNeutral'
    BY DEF SendAlert, BackfillIsNeutral, Clamp
  <1> QED
    BY <1>3, <1>4, <1>5, <1>6

LEMMA SyncFailsKeeps ==
    ASSUME SyncInv, SyncFails
    PROVE  SyncInv'
  <1> USE DEF SyncInv
  <1>1. syncing' = Idle /\ Idle \in SyncRow /\ Idle.at = "idle"
    BY DEF SyncFails, Idle, SyncRow
  <1>2. /\ told' \in [Grants -> [AlertKeys -> Nat]]
        /\ \A g \in Grants, k \in AlertKeys :
              told'[g][k] <= 1 /\ (told'[g][k] > 0 => k \in claimed[g])
    <2>1. CASE UNCHANGED told
      BY <2>1 DEF SyncTypes, ToldIsClaimed
    <2>2. CASE syncing.at = "sending" /\ ToldMore
      BY <2>2, ToldOnceMore
    <2> QED
      BY <2>1, <2>2 DEF SyncFails, ToldMore
  <1>3. SyncTypes'
    BY <1>1, <1>2 DEF SyncFails, SyncTypes
  <1>4. SyncHasGrant'
    BY <1>1 DEF SyncHasGrant
  <1>5. ToldIsClaimed'
    BY <1>1, <1>2 DEF SyncFails, ToldIsClaimed
  <1>6. BackfillIsNeutral'
    BY DEF SyncFails, BackfillIsNeutral, Clamp
  <1> QED
    BY <1>3, <1>4, <1>5, <1>6

LEMMA SyncUntouched ==
    ASSUME SyncInv, UNCHANGED <<early, late, remaining, claimed, syncing, due, told>>
    PROVE  SyncInv'
  BY DEF SyncInv, SyncTypes, SyncHasGrant, ToldIsClaimed, BackfillIsNeutral, Clamp

-----------------------------------------------------------------------------
(* Retention *)

RowTypes ==
    /\ disabled \in [Monitors -> Ages \cup {Active, Gone}]
    /\ message \in [Monitors -> [Keys -> Statuses]]
    /\ age \in [Monitors -> [Keys -> Ages]]
    /\ sentAge \in [Monitors -> [Keys -> Ages \cup {Never}]]

OutOfWindow(m, k) == sentAge[m][k] = Never \/ sentAge[m][k] > DeliveryDays

\* While the outbox has the row of a delivered event it has its true age; the
\* key of an event is free only outside the window, or with its monitor gone.
KeysOutliveTheWindow ==
    \A m \in Monitors, k \in Keys :
        /\ message[m][k] = "none" => disabled[m] = Gone \/ OutOfWindow(m, k)
        /\ message[m][k] = "pending" => OutOfWindow(m, k)
        /\ message[m][k] = "delivered" => sentAge[m][k] = age[m][k]

RowInv == RowTypes /\ KeysOutliveTheWindow

LEMMA OldestBound ==
    /\ Oldest \in Nat
    /\ DeliveryDays < Oldest /\ RestoreDays < Oldest /\ RowLimit < Oldest
  <1> DEFINE S == {RowLimit, DeliveryDays, RestoreDays}
  <1>1. RowLimit \in Nat /\ DeliveryDays \in Nat /\ RestoreDays \in Nat
    BY RetentionAssumption
  <1>2. \E x \in S : \A y \in S : y <= x
    <2>1. CASE DeliveryDays <= RowLimit /\ RestoreDays <= RowLimit
      BY <1>1, <2>1
    <2>2. CASE RowLimit <= DeliveryDays /\ RestoreDays <= DeliveryDays
      BY <1>1, <2>2
    <2>3. CASE RowLimit <= RestoreDays /\ DeliveryDays <= RestoreDays
      BY <1>1, <2>3
    <2> QED
      BY <1>1, <2>1, <2>2, <2>3
  <1>3. MaxOf(S) \in S /\ \A y \in S : y <= MaxOf(S)
    BY <1>2 DEF MaxOf
  <1> QED
    BY <1>1, <1>3 DEF Oldest

LEMMA RowsInitial == RetentionInit => RowInv
  BY OldestBound
  DEF RetentionInit, RowInv, RowTypes, KeysOutliveTheWindow, OutOfWindow, Statuses, Ages, Active

LEMMA WritersKeep ==
    ASSUME RowInv, NEW m \in Monitors, NEW k \in Keys,
           Enqueue(m, k) \/ Deliver(m, k)
    PROVE  RowInv'
  <1> USE DEF RowInv
  <1>0. 0 \in Ages
    BY OldestBound DEF Ages
  <1>1. RowTypes'
    <2>1. CASE Enqueue(m, k)
      BY <2>1 DEF Enqueue, RowTypes, Statuses
    <2>2. CASE Deliver(m, k)
      <3>1. message' \in [Monitors -> [Keys -> Statuses]]
        BY <2>2 DEF Deliver, RowTypes, Statuses
      <3>2. age' \in [Monitors -> [Keys -> Ages]]
        BY <1>0, <2>2 DEF Deliver, RowTypes
      <3>3. sentAge' \in [Monitors -> [Keys -> Ages \cup {Never}]]
        BY <1>0, <2>2 DEF Deliver, RowTypes
      <3> QED
        BY <2>2, <3>1, <3>2, <3>3 DEF Deliver, RowTypes
    <2> QED
      BY <2>1, <2>2
  <1>2. ASSUME NEW n \in Monitors, NEW j \in Keys
        PROVE  /\ message'[n][j] = "none" => disabled'[n] = Gone \/ OutOfWindow(n, j)'
               /\ message'[n][j] = "pending" => OutOfWindow(n, j)'
               /\ message'[n][j] = "delivered" => sentAge'[n][j] = age'[n][j]
    <2>1. CASE n = m /\ j = k /\ Enqueue(m, k)
      BY <2>1 DEF Enqueue, RowTypes, KeysOutliveTheWindow, OutOfWindow, Active, Gone
    <2>2. CASE n = m /\ j = k /\ Deliver(m, k)
      BY <2>2 DEF Deliver, RowTypes, KeysOutliveTheWindow, OutOfWindow
    <2>3. CASE n # m \/ j # k
      <3>1. /\ message'[n][j] = message[n][j] /\ age'[n][j] = age[n][j]
            /\ sentAge'[n][j] = sentAge[n][j] /\ disabled' = disabled
        BY <2>3 DEF Enqueue, Deliver, RowTypes
      <3> QED
        BY <3>1 DEF KeysOutliveTheWindow, OutOfWindow
    <2> QED
      BY <2>1, <2>2, <2>3
  <1> QED
    BY <1>1, <1>2 DEF KeysOutliveTheWindow

LEMMA OtherWritersKeep ==
    ASSUME RowInv, NEW m \in Monitors,
           Disable(m) \/ RecordProbe(m) \/ \E t \in Tables : WriteRow(m, t)
    PROVE  RowInv'
  <1>1. UNCHANGED <<message, age, sentAge>>
    BY DEF Disable, RecordProbe, WriteRow
  <1>2. /\ disabled' \in [Monitors -> Ages \cup {Active, Gone}]
        /\ \A n \in Monitors : disabled[n] = Gone => disabled'[n] = Gone
    <2>1. CASE Disable(m)
      BY <2>1, OldestBound DEF RowInv, RowTypes, Disable, Ages, Active, Gone
    <2>2. CASE UNCHANGED disabled
      BY <2>2 DEF RowInv, RowTypes
    <2> QED
      BY <2>1, <2>2 DEF RecordProbe, WriteRow
  <1> QED
    BY <1>1, <1>2 DEF RowInv, RowTypes, KeysOutliveTheWindow, OutOfWindow

LEMMA OlderStays ==
    /\ \A x \in Ages : Older(x) \in Ages /\ (x > DeliveryDays => Older(x) > DeliveryDays)
    /\ Older(Active) = Active /\ Older(Gone) = Gone /\ Older(Never) = Never
  BY OldestBound, RetentionAssumption DEF Older, Ages, Active, Gone, Never

LEMMA AgeRowsKeeps ==
    ASSUME RowInv, AgeRows
    PROVE  RowInv'
  <1> USE DEF RowInv
  <1>1. RowTypes'
    BY OlderStays DEF AgeRows, RowTypes
  <1>2. ASSUME NEW m \in Monitors, NEW k \in Keys
        PROVE  /\ message'[m][k] = "none" => disabled'[m] = Gone \/ OutOfWindow(m, k)'
               /\ message'[m][k] = "pending" => OutOfWindow(m, k)'
               /\ message'[m][k] = "delivered" => sentAge'[m][k] = age'[m][k]
    <2>1. /\ message' = message /\ disabled'[m] = Older(disabled[m])
          /\ age'[m][k] = Older(age[m][k]) /\ sentAge'[m][k] = Older(sentAge[m][k])
      BY DEF AgeRows
    <2>2. disabled[m] = Gone => disabled'[m] = Gone
      BY <2>1, OlderStays
    <2>3. OutOfWindow(m, k) => OutOfWindow(m, k)'
      BY <2>1, OlderStays DEF OutOfWindow, RowTypes
    <2> QED
      BY <2>1, <2>2, <2>3 DEF KeysOutliveTheWindow
  <1> QED
    BY <1>1, <1>2 DEF KeysOutliveTheWindow

LEMMA PurgeKeeps ==
    ASSUME RowInv, Purge
    PROVE  RowInv'
  <1> USE DEF RowInv
  <1> DEFINE gone == OverdueMonitors
  <1>1. /\ disabled' = [m \in Monitors |-> IF m \in gone THEN Gone ELSE disabled[m]]
        /\ message' = [m \in Monitors |-> [k \in Keys |->
              IF m \in gone \/ OldDelivery(m, k) THEN "none" ELSE message[m][k]]]
        /\ age' = age /\ sentAge' = sentAge
    BY DEF Purge
  <1>2. RowTypes'
    BY <1>1 DEF RowTypes, Statuses
  <1>3. ASSUME NEW m \in Monitors, NEW k \in Keys
        PROVE  /\ message'[m][k] = "none" => disabled'[m] = Gone \/ OutOfWindow(m, k)'
               /\ message'[m][k] = "pending" => OutOfWindow(m, k)'
               /\ message'[m][k] = "delivered" => sentAge'[m][k] = age'[m][k]
    <2>1. CASE m \in gone
      BY <1>1, <2>1
    <2>2. CASE m \notin gone /\ OldDelivery(m, k)
      <3>1. sentAge[m][k] = age[m][k] /\ age[m][k] > DeliveryDays
        BY <2>2 DEF OldDelivery, KeysOutliveTheWindow
      <3> QED
        BY <1>1, <2>2, <3>1 DEF OutOfWindow
    <2>3. CASE m \notin gone /\ ~OldDelivery(m, k)
      <3>1. message'[m][k] = message[m][k] /\ disabled'[m] = disabled[m]
        BY <1>1, <2>3
      <3> QED
        BY <1>1, <3>1 DEF OutOfWindow, KeysOutliveTheWindow
    <2> QED
      BY <2>1, <2>2, <2>3
  <1> QED
    BY <1>2, <1>3 DEF KeysOutliveTheWindow

LEMMA RowsUntouched ==
    ASSUME RowInv, UNCHANGED retentionVars
    PROVE  RowInv'
  BY DEF RowInv, RowTypes, KeysOutliveTheWindow, OutOfWindow, retentionVars

-----------------------------------------------------------------------------
(* The step *)

LEMMA BillingStepKeeps ==
    ASSUME SyncInv, BillingStep
    PROVE  SyncInv'
  BY ExportKeeps, RecordAggregateKeeps, SendAlertKeeps, GrantDoneKeeps, SyncFailsKeeps,
     ClaimAlertKeeps
  DEF BillingStep

LEMMA WriteKeeps ==
    ASSUME RowInv, Write
    PROVE  RowInv'
  BY WritersKeep, OtherWritersKeep DEF Write

LEMMA NightlyStep ==
    ASSUME SyncInv, RowInv, [Next]_vars
    PROVE  SyncInv' /\ RowInv'
  <1>1. CASE Day
    <2>1. SyncInv'
      BY <1>1, SyncUntouched DEF Day, BillingDay
    <2> QED
      BY <1>1, <2>1, AgeRowsKeeps DEF Day
  <1>2. CASE Maintain
    <2>1. SyncInv'
      BY <1>2, SyncUntouched DEF Maintain, billingVars
    <2>2. RowInv'
      BY <1>2, PurgeKeeps, RowsUntouched DEF Maintain
    <2> QED
      BY <2>1, <2>2
  <1>3. CASE Sync
    BY <1>3, BeginSyncKeeps, RowsUntouched DEF Sync
  <1>4. CASE Miss
    <2>1. SyncInv'
      BY <1>4, SyncUntouched DEF Miss, billingVars
    <2> QED
      BY <1>4, <2>1, RowsUntouched DEF Miss
  <1>5. CASE BillingStep
    <2>1. RowInv'
      BY <1>5, RowsUntouched DEF BillingStep
    <2> QED
      BY <1>5, <2>1, BillingStepKeeps
  <1>6. CASE Write
    <2>1. SyncInv'
      BY <1>6, SyncUntouched DEF Write, billingVars
    <2> QED
      BY <1>6, <2>1, WriteKeeps
  <1>7. CASE UNCHANGED vars
    <2>1. SyncInv'
      BY <1>7, SyncUntouched DEF vars, billingVars
    <2> QED
      BY <1>7, <2>1, RowsUntouched DEF vars
  <1> QED
    BY <1>1, <1>2, <1>3, <1>4, <1>5, <1>6, <1>7 DEF Next

LEMMA NightlyInvariant == Spec => [](SyncInv /\ RowInv)
  <1>1. Init => SyncInv /\ RowInv
    BY SyncInitial, RowsInitial DEF Init
  <1>2. SyncInv /\ RowInv /\ [Next]_vars => (SyncInv /\ RowInv)'
    BY NightlyStep
  <1> QED
    BY <1>1, <1>2, PTL DEF Spec

-----------------------------------------------------------------------------
(* Results *)

\* No alert of a grant reaches the owner twice, through failed sends, crashes
\* between claim and send, and syncs on any days (BillingCoordinator.sync).
THEOREM AlertsOnce == Spec => []AlertsAreToldOnce
  <1>1. SyncInv => AlertsAreToldOnce
    BY DEF SyncInv, ToldIsClaimed, AlertsAreToldOnce
  <1> QED
    BY <1>1, NightlyInvariant, PTL

\* Whenever the export delivers usage from before the baseline, the balance that
\* record_aggregate stores lies between the two true ones.
THEOREM BaselineHolds == Spec => []BackfillIsNeutral
  <1>1. SyncInv => BackfillIsNeutral
    BY DEF SyncInv
  <1> QED
    BY <1>1, NightlyInvariant, PTL

LEMMA EventWrites ==
    ASSUME Write, message' # message
    PROVE  \E n \in Monitors, j \in Keys : Enqueue(n, j) \/ Deliver(n, j)
  BY DEF Write, Disable, RecordProbe, WriteRow

LEMMA EnqueueOnly ==
    ASSUME RowInv, [Next]_vars, NEW m \in Monitors, NEW k \in Keys,
           message[m][k] = "none", message'[m][k] = "pending"
    PROVE  Enqueue(m, k)
  <1>1. CASE Write
    <2>1. PICK n \in Monitors, j \in Keys : Enqueue(n, j) \/ Deliver(n, j)
      BY <1>1, EventWrites
    <2>2. n = m /\ j = k /\ ~Deliver(n, j)
      BY <2>1 DEF Enqueue, Deliver, RowInv, RowTypes
    <2> QED
      BY <2>1, <2>2
  <1>2. CASE Purge
    BY <1>2 DEF Purge
  <1>3. CASE UNCHANGED message
    BY <1>3
  <1>4. \/ Write \/ Purge \/ UNCHANGED message
    BY DEF Next, vars, retentionVars, Day, AgeRows, Maintain, Sync, Miss, BillingStep
  <1> QED
    BY <1>1, <1>2, <1>3, <1>4

\* The outbox forgets a dedupe key only after the window it promises: an event is
\* told again when its last delivery is older than 180 days, and never earlier.
THEOREM OncePerWindow == Spec => EventsAreToldOncePerWindow
  <1>1. ASSUME RowInv, [Next]_vars, NEW m \in Monitors, NEW k \in Keys,
               message[m][k] = "none", message'[m][k] = "pending"
        PROVE  sentAge[m][k] = Never \/ sentAge[m][k] > DeliveryDays
    <2>1. disabled[m] = Active
      BY <1>1, EnqueueOnly DEF Enqueue
    <2> QED
      BY <1>1, <2>1 DEF RowInv, KeysOutliveTheWindow, OutOfWindow, Active, Gone
  <1>2. RowInv /\ [Next]_vars =>
          [\A m \in Monitors, k \in Keys :
              message[m][k] = "none" /\ message'[m][k] = "pending"
                  => sentAge[m][k] = Never \/ sentAge[m][k] > DeliveryDays]_retentionVars
    BY <1>1
  <1> QED
    BY <1>2, NightlyInvariant, PTL DEF Spec, EventsAreToldOncePerWindow

LEMMA PurgeOnly ==
    ASSUME RowInv, [Next]_vars, NEW m \in Monitors, NEW k \in Keys,
           message[m][k] = "pending", message'[m][k] = "none"
    PROVE  Purge
  <1>1. CASE Write
    <2>1. PICK n \in Monitors, j \in Keys : Enqueue(n, j) \/ Deliver(n, j)
      BY <1>1, EventWrites
    <2>2. ASSUME Enqueue(n, j)
          PROVE  message'[m][k] # "none"
      BY <2>2 DEF Enqueue, RowInv, RowTypes
    <2>3. ASSUME Deliver(n, j)
          PROVE  message'[m][k] # "none"
      BY <2>3 DEF Deliver, RowInv, RowTypes
    <2> QED
      BY <2>1, <2>2, <2>3
  <1>2. CASE UNCHANGED message
    BY <1>2
  <1>3. \/ Write \/ Purge \/ UNCHANGED message
    BY DEF Next, vars, retentionVars, Day, AgeRows, Maintain, Sync, Miss, BillingStep
  <1> QED
    BY <1>1, <1>2, <1>3

\* An undelivered message leaves the outbox only with a monitor that was deleted
\* RestoreDays ago (Maintenance.run).
THEOREM UndeliveredStays == Spec => UndeliveredIsKept
  <1>1. ASSUME RowInv, [Next]_vars, NEW m \in Monitors, NEW k \in Keys,
               message[m][k] = "pending", message'[m][k] = "none"
        PROVE  disabled[m] > RestoreDays
    BY <1>1, PurgeOnly DEF Purge, OverdueMonitors, OldDelivery
  <1>2. RowInv /\ [Next]_vars =>
          [\A m \in Monitors, k \in Keys :
              message[m][k] = "pending" /\ message'[m][k] = "none"
                  => disabled[m] > RestoreDays]_retentionVars
    BY <1>1
  <1> QED
    BY <1>2, NightlyInvariant, PTL DEF Spec, UndeliveredIsKept

=============================================================================
