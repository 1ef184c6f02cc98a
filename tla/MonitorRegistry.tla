-------------------------- MODULE MonitorRegistry --------------------------
(***************************************************************************)
(* The monitors and monitor_versions tables: the monitor lifecycle, the    *)
(* version lineage and the lease columns, with every repository operation  *)
(* of storage/registry.py, storage/runtime.py and storage/recovery.py that *)
(* writes them and that the program calls.  Each operation is one SQLite   *)
(* transaction, hence one action.  The operations are parameterised by     *)
(* what the caller captured earlier (an expected status, an expected       *)
(* version): other modules decide who calls them, and when.                *)
(*                                                                         *)
(* Instants are kept as the number of ticks left until they are reached,   *)
(* so "x <= now" reads "ticks left = 0", and NULL is NoTime.               *)
(***************************************************************************)
EXTENDS Integers, Sequences

CONSTANTS
    Monitors,       \* monitor ids
    Workers,        \* worker ids that own leases
    NoWorker,       \* lease_owner IS NULL
    MaxVersion,     \* bound: rows of monitor_versions per monitor
    MaxGeneration,  \* bound: lease_generation
    LeaseTicks,     \* lease_seconds (300 s) in ticks
    IntervalTicks   \* longest time to the next cron instant, in ticks

ASSUME RegistryAssumption ==
    /\ NoWorker \notin Workers
    /\ MaxVersion \in Nat \ {0}
    /\ MaxGeneration \in Nat
    /\ LeaseTicks \in Nat \ {0}
    /\ IntervalTicks \in Nat \ {0}

VARIABLES
    status,      \* monitors.status
    active,      \* monitors.active_version_id, as a version number (0: none)
    versions,    \* monitor_versions rows, in version_number order
    nextIn,      \* ticks until monitors.next_run_at
    owner,       \* monitors.lease_owner
    leaseLeft,   \* ticks until monitors.lease_expires_at
    generation   \* monitors.lease_generation

registryVars ==
    <<status, active, versions, nextIn, owner, leaseLeft, generation>>

NoTime == -1

\* Mutant: the schema's CHECK forgets the status of an authentication failure.
StatusesWithoutAuth == {"active", "paused_user", "needs_review", "disabled"}

Statuses == {"active", "paused_user", "paused_auth", "needs_review", "disabled"}

Authors == {"owner", "codex-control", "scrapling-adaptive"}

VersionRow ==
    [author : Authors, parent : 0..MaxVersion, approved : BOOLEAN]

RegistryTypeOK ==
    /\ status \in [Monitors -> Statuses \cup {"absent"}]
    /\ active \in [Monitors -> 0..MaxVersion]
    /\ versions \in [Monitors -> Seq(VersionRow)]
    /\ nextIn \in [Monitors -> {NoTime} \cup Nat]
    /\ owner \in [Monitors -> Workers \cup {NoWorker}]
    /\ leaseLeft \in [Monitors -> {NoTime} \cup Nat]
    /\ generation \in [Monitors -> 0..MaxGeneration]

RegistryInit ==
    /\ status = [m \in Monitors |-> "absent"]
    /\ active = [m \in Monitors |-> 0]
    /\ versions = [m \in Monitors |-> <<>>]
    /\ nextIn = [m \in Monitors |-> NoTime]
    /\ owner = [m \in Monitors |-> NoWorker]
    /\ leaseLeft = [m \in Monitors |-> NoTime]
    /\ generation = [m \in Monitors |-> 0]

-----------------------------------------------------------------------------
(* Time *)

\* _next_run_at / next_run_at: some instant strictly after now.
CronDelays == 1..IntervalTicks

TickDown(timer) ==
    [m \in Monitors |-> IF timer[m] > 0 THEN timer[m] - 1 ELSE timer[m]]

\* Wall-clock time passes for every stored instant at once.
TickRegistry ==
    /\ \E m \in Monitors : nextIn[m] > 0 \/ leaseLeft[m] > 0
    /\ nextIn' = TickDown(nextIn)
    /\ leaseLeft' = TickDown(leaseLeft)
    /\ UNCHANGED <<status, active, versions, owner, generation>>

-----------------------------------------------------------------------------
(* Leases: claim_due, claim_monitor, release_lease *)

\* Mutant: a claim never takes over an expired lease.
LeaseNeverTakenOver(m) == leaseLeft[m] = NoTime

\* lease_expires_at IS NULL OR lease_expires_at <= now
LeaseFree(m) == leaseLeft[m] \in {NoTime, 0}

Due(m) == status[m] = "active" /\ nextIn[m] = 0 /\ LeaseFree(m)

\* The UPDATE of both claims, over the set S of selected monitors.
TakeLeases(S, w) ==
    /\ owner' = [m \in Monitors |-> IF m \in S THEN w ELSE owner[m]]
    /\ leaseLeft' = [m \in Monitors |-> IF m \in S THEN LeaseTicks ELSE leaseLeft[m]]
    /\ generation' = [m \in Monitors |-> IF m \in S THEN generation[m] + 1
                                                    ELSE generation[m]]
    /\ UNCHANGED <<status, active, versions, nextIn>>

\* Every due monitor is claimed in one transaction.
DueMonitors == {m \in Monitors : Due(m) /\ generation[m] < MaxGeneration}

ClaimDue(w) == DueMonitors # {} /\ TakeLeases(DueMonitors, w)

\* The operator's one-shot claim does not look at next_run_at.
ClaimMonitor(m, w) ==
    /\ status[m] = "active" /\ LeaseFree(m)
    /\ generation[m] < MaxGeneration
    /\ TakeLeases({m}, w)

\* Mutants: a release that does not check the lease, and a fence on the owner alone,
\* which a process meets again when it reclaims the monitor.
AnyLease(m, w, g) == TRUE
OwnsLease(m, w, g) == owner[m] = w

\* The fence of every write a run makes: owner and generation, not the expiry.
HoldsLease(m, w, g) == owner[m] = w /\ generation[m] = g

\* release_lease schedules the monitor whatever its status is.
ReleaseLease(m, w, g, delay) ==
    /\ HoldsLease(m, w, g)
    /\ owner' = [owner EXCEPT ![m] = NoWorker]
    /\ leaseLeft' = [leaseLeft EXCEPT ![m] = NoTime]
    /\ nextIn' = [nextIn EXCEPT ![m] = delay]
    /\ UNCHANGED <<status, active, versions, generation>>

\* Mutant: the verdict looks at the status only.
TransitionUnfenced(m, w, g, expected, target) ==
    /\ status[m] = expected
    /\ status' = [status EXCEPT ![m] = target]
    /\ UNCHANGED <<active, versions, nextIn, owner, leaseLeft, generation>>

\* The run's own verdict: keeps the lease, the schedule and the generation.
TransitionMonitorStatus(m, w, g, expected, target) ==
    /\ HoldsLease(m, w, g)
    /\ status[m] = expected
    /\ status' = [status EXCEPT ![m] = target]
    /\ UNCHANGED <<active, versions, nextIn, owner, leaseLeft, generation>>

-----------------------------------------------------------------------------
(* Lifecycle and versions: registry.py and recovery.py *)

\* Every lifecycle write drops the lease and bumps the generation with it.
SupersedeLease(m) ==
    /\ generation[m] < MaxGeneration
    /\ owner' = [owner EXCEPT ![m] = NoWorker]
    /\ leaseLeft' = [leaseLeft EXCEPT ![m] = NoTime]
    /\ generation' = [generation EXCEPT ![m] = @ + 1]

\* An active monitor gets its next cron instant, any other one NULL.
Reschedule(m, target) ==
    \E d \in CronDelays :
        nextIn' = [nextIn EXCEPT ![m] = IF target = "active" THEN d ELSE NoTime]

AddVersion(m, author, parent, approved) ==
    /\ Len(versions[m]) < MaxVersion
    /\ versions' = [versions EXCEPT ![m] = Append(@,
            [author |-> author, parent |-> parent, approved |-> approved])]

CreateMonitor(m) ==
    /\ status[m] = "absent"
    /\ AddVersion(m, "owner", 0, TRUE)
    /\ status' = [status EXCEPT ![m] = "active"]
    /\ active' = [active EXCEPT ![m] = 1]
    /\ nextIn' = [nextIn EXCEPT ![m] = 0]
    /\ UNCHANGED <<owner, leaseLeft, generation>>

\* The exact precondition every confirmed operation re-checks in its UPDATE.
Unchanged(m, expected, expectedVersion) ==
    status[m] = expected /\ active[m] = expectedVersion

TransitionStatusExact(m, expected, expectedVersion, target) ==
    /\ <<expected, target>> \in {<<"active", "paused_user">>, <<"paused_user", "active">>}
    /\ Unchanged(m, expected, expectedVersion)
    /\ status' = [status EXCEPT ![m] = target]
    /\ Reschedule(m, target)
    /\ SupersedeLease(m)
    /\ UNCHANGED <<active, versions>>

SoftDeleteExact(m, expected, expectedVersion) ==
    /\ expected \in Statuses \ {"disabled"}
    /\ Unchanged(m, expected, expectedVersion)
    /\ status' = [status EXCEPT ![m] = "disabled"]
    /\ nextIn' = [nextIn EXCEPT ![m] = NoTime]
    /\ SupersedeLease(m)
    /\ UNCHANGED <<active, versions>>

\* stage_candidate_action, its monitor_versions half: the row is not approved.
StageCandidate(m, expected, expectedVersion) ==
    /\ expected \in {"active", "paused_user"}
    /\ Unchanged(m, expected, expectedVersion)
    /\ AddVersion(m, "codex-control", expectedVersion, FALSE)
    /\ UNCHANGED <<status, active, nextIn, owner, leaseLeft, generation>>

\* Adaptive recovery stores a repair and parks the monitor for review.
StoreCandidate(m, expectedVersion) ==
    /\ Unchanged(m, "active", expectedVersion)
    /\ AddVersion(m, "scrapling-adaptive", expectedVersion, FALSE)
    /\ status' = [status EXCEPT ![m] = "needs_review"]
    /\ nextIn' = [nextIn EXCEPT ![m] = NoTime]
    /\ SupersedeLease(m)
    /\ UNCHANGED active

\* Mutant: a candidate is activated whatever version it was derived from.
ActivableOnAnyParent(m, v, author, expected, expectedVersion) ==
    /\ v \in DOMAIN versions[m]
    /\ versions[m][v].author = author
    /\ ~versions[m][v].approved
    /\ Unchanged(m, expected, expectedVersion)

\* The SELECT of activate_candidate_exact.
Activable(m, v, author, expected, expectedVersion) ==
    /\ v \in DOMAIN versions[m]
    /\ versions[m][v].author = author
    /\ ~versions[m][v].approved
    /\ versions[m][v].parent = expectedVersion
    /\ Unchanged(m, expected, expectedVersion)

ActivateCandidateExact(m, v, author, expected, expectedVersion, target) ==
    /\ author \in {"codex-control", "scrapling-adaptive"}
    /\ author = "scrapling-adaptive" => expected = "needs_review" /\ target = "active"
    /\ Activable(m, v, author, expected, expectedVersion)
    /\ versions' = [versions EXCEPT ![m][v].approved = TRUE]
    /\ active' = [active EXCEPT ![m] = v]
    /\ status' = [status EXCEPT ![m] = target]
    /\ Reschedule(m, target)
    /\ SupersedeLease(m)

-----------------------------------------------------------------------------
(* The registry under every caller the program has *)

\* What a worker may do to the monitor rows.
LeaseNext ==
    \/ \E w \in Workers : ClaimDue(w)
    \/ \E m \in Monitors, w \in Workers : ClaimMonitor(m, w)
    \/ \E m \in Monitors, w \in Workers, g \in 1..MaxGeneration :
           \/ \E d \in CronDelays : ReleaseLease(m, w, g, d)
           \/ \E target \in {"paused_auth", "needs_review"} :
                  TransitionMonitorStatus(m, w, g, "active", target)

\* What the operator and adaptive recovery may do to monitor m.  Each operation
\* carries the status and version its caller saw and is refused unless they are
\* still the current ones: only calls with the current values change anything.
LifecycleNext(m) ==
    LET e == status[m]
        v == active[m]
    IN  \/ CreateMonitor(m)
        \/ TransitionStatusExact(m, e, v, "paused_user")
        \/ TransitionStatusExact(m, e, v, "active")
        \/ SoftDeleteExact(m, e, v)
        \/ StageCandidate(m, e, v)
        \/ StoreCandidate(m, v)
        \/ \E c \in 1..MaxVersion :
               \/ /\ e \in {"active", "paused_user"}
                  /\ ActivateCandidateExact(m, c, "codex-control", e, v, e)
               \/ ActivateCandidateExact(m, c, "scrapling-adaptive", e, v, "active")

RegistryNext ==
    \/ LeaseNext
    \/ \E m \in Monitors : LifecycleNext(m)
    \/ TickRegistry

RegistrySpec == RegistryInit /\ [][RegistryNext]_registryVars

-----------------------------------------------------------------------------
(* What the rows promise, whoever calls the operations *)

\* A monitor that is active has a next run, so the scheduler will come back to
\* it; one the operator stopped has neither a next run nor a lease, whatever a
\* run that was under way does when it completes.
ScheduleMatchesStatus ==
    \A m \in Monitors :
        /\ status[m] = "active" => nextIn[m] # NoTime
        /\ status[m] \in {"paused_user", "disabled"} =>
               nextIn[m] = NoTime /\ owner[m] = NoWorker

\* A lease with an owner has an expiry, so a dead owner cannot keep it.
LeaseCanExpire ==
    \A m \in Monitors : owner[m] # NoWorker => leaseLeft[m] # NoTime

\* Approved versions form one line ending in the active version: every one but
\* the first was approved on top of an approved parent, and no parent was ever
\* superseded by two approvals.
LinearApprovals ==
    \A m \in Monitors :
        /\ status[m] # "absent" => /\ active[m] \in DOMAIN versions[m]
                                  /\ versions[m][active[m]].approved
        /\ \A v \in DOMAIN versions[m] :
               versions[m][v].approved /\ v # 1 =>
                   /\ versions[m][v].parent \in 1 .. v - 1
                   /\ versions[m][versions[m][v].parent].approved
        /\ \A v, u \in DOMAIN versions[m] :
               /\ versions[m][v].approved /\ versions[m][u].approved
               /\ versions[m][v].parent = versions[m][u].parent
               => v = u
=============================================================================
