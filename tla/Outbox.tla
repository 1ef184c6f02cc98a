-------------------------------- MODULE Outbox --------------------------------
(***************************************************************************)
(* Delivery of alerts: the OutboxWorker of engine/outbox.py over the       *)
(* outbox and deliveries tables of storage/runtime.py, run by the service  *)
(* every five seconds and by each "monitor run-once" process for the rows  *)
(* of its own run, with maintenance deleting rows behind their backs.      *)
(*                                                                         *)
(* A drain claims a batch in one transaction, then sends row after row.    *)
(* Every transaction is one step and so is what the target sees of a send. *)
(* The instant `now` of a drain is read once, when it starts; every        *)
(* deadline it writes counts from there.  Time is counted in ticks.        *)
(***************************************************************************)
EXTENDS Naturals, Sequences, FiniteSets

CONSTANTS
    Rows,        \* outbox rows
    Workers,     \* worker ids
    OneShots,    \* those of "run-once" processes: a fresh id for each process
    NoWorker,
    NoRow,
    Limit,       \* rows claimed at a time (50)
    LeaseTicks,  \* outbox lease (300 s)
    Delays,      \* _RETRY_DELAYS_SECONDS
    StuckAt,     \* failed attempts after which the operator is told (5)
    Horizon      \* bound: ages of a drain are told apart up to here

ASSUME OutboxAssumption ==
    /\ OneShots \subseteq Workers
    /\ NoWorker \notin Workers /\ NoRow \notin Rows
    /\ Limit \in Nat \ {0} /\ LeaseTicks \in Nat \ {0} /\ StuckAt \in Nat \ {0}
    /\ Delays \in Seq(Nat \ {0}) /\ Len(Delays) > 0
    /\ Horizon \in Nat /\ Horizon >= LeaseTicks
    /\ \A i \in 1..Len(Delays) : Delays[i] <= Horizon

Services == Workers \ OneShots

VARIABLES
    rowStatus,     \* a row is "delivered" iff it has its deliveries row
    attempts,      \* attempt_count, StuckAt standing for more
    availableIn,   \* ticks until available_at
    rowOwner,      \* lease_owner
    rowLeaseLeft,  \* ticks until lease_expires_at
    reported,      \* rows with an "outbox-stuck" operator event
    accepted,      \* what the target saw: rows whose message it has accepted
    waived,        \* rows claimed by a run-once whose delivery is disabled
    drain          \* the drain_once call of each worker

rowVars == <<rowStatus, attempts, availableIn, rowOwner, rowLeaseLeft>>
vars == <<rowVars, reported, accepted, waived, drain>>

Stages == {"idle", "ready", "sending", "answered", "reporting", "gone"}

\* todo: claimed rows not yet looked at; row: the one in hand; seen: the
\* attempt_count each was claimed with; own: what is left of a one-shot's
\* result.outbox_ids;
\* muted: NullDeliverySender; age: ticks since the drain's `now`.
DrainRow == [stage : Stages, todo : SUBSET Rows, row : Rows \cup {NoRow},
             seen : [Rows -> 0..StuckAt], own : SUBSET Rows, muted : BOOLEAN,
             age : 0..Horizon]

NoDrain == [stage |-> "idle", todo |-> {}, row |-> NoRow, seen |-> [r \in Rows |-> 0],
            own |-> {}, muted |-> FALSE, age |-> 0]

GoneDrain == [NoDrain EXCEPT !.stage = "gone"]

\* Mutant: a schema whose status column knows no delivered row.
RowStatusesOwed == {"absent", "pending", "purged"}

RowStatuses == {"absent", "pending", "delivered", "purged"}

OutboxTypeOK ==
    /\ rowStatus \in [Rows -> RowStatuses]
    /\ attempts \in [Rows -> 0..StuckAt]
    /\ availableIn \in [Rows -> 0..Horizon]
    /\ rowOwner \in [Rows -> Workers \cup {NoWorker}]
    /\ rowLeaseLeft \in [Rows -> 0..LeaseTicks]
    /\ reported \subseteq Rows
    /\ accepted \subseteq Rows
    /\ waived \subseteq Rows
    /\ drain \in [Workers -> DrainRow]

Init ==
    /\ rowStatus = [r \in Rows |-> "absent"]
    /\ attempts = [r \in Rows |-> 0]
    /\ availableIn = [r \in Rows |-> 0]
    /\ rowOwner = [r \in Rows |-> NoWorker]
    /\ rowLeaseLeft = [r \in Rows |-> 0]
    /\ reported = {}
    /\ accepted = {}
    /\ waived = {}
    /\ drain = [w \in Workers |-> NoDrain]

Minus(n, k) == IF n > k THEN n - k ELSE 0
Least(n, k) == IF n < k THEN n ELSE k

-----------------------------------------------------------------------------
(* Enqueueing and claiming *)

\* _enqueue_delivery of a run that has reported its result: the service's runs
\* leave the row to the drain loop, a one-shot drains what its own run created.
Enqueue(w, r) ==
    /\ rowStatus[r] = "absent"
    /\ drain[w].stage = "idle" \/ w \in Services
    /\ rowStatus' = [rowStatus EXCEPT ![r] = "pending"]
    /\ drain' = IF w \in OneShots THEN [drain EXCEPT ![w].own = @ \cup {r}] ELSE drain
    /\ UNCHANGED <<attempts, availableIn, rowOwner, rowLeaseLeft, reported, accepted, waived>>

\* Mutant: the claim never takes an expired lease over.
OnlyUnowned(r) == rowOwner[r] = NoWorker

\* The WHERE clause of claim_due_outbox.
LeaseOver(r) == rowLeaseLeft[r] = 0

DueRow(r) == rowStatus[r] = "pending" /\ availableIn[r] = 0 /\ LeaseOver(r)

DueRows == {r \in Rows : DueRow(r)}

\* A one-shot drains the ids of its run in chunks of at most Limit, all of them
\* with the `now` of the first; the service claims the rows due, at most Limit.
MayClaim(w, S) ==
    /\ S \subseteq DueRows /\ S # {}
    /\ IF w \in OneShots
       THEN S \subseteq drain[w].own /\ Cardinality(S) <= Limit
       ELSE Cardinality(S) = Least(Limit, Cardinality(DueRows))

\* The drain with a new batch.
WithBatch(d, S, muted) ==
    [d EXCEPT !.stage = "ready", !.todo = S, !.own = @ \ S, !.muted = muted,
              !.seen = [r \in Rows |-> IF r \in S THEN attempts[r] ELSE 0]]

Claim(w, S, muted) ==
    /\ \/ drain[w].stage = "idle" /\ (muted => w \in OneShots)
       \/ /\ w \in OneShots /\ drain[w].stage = "ready" /\ drain[w].todo = {}
          /\ muted = drain[w].muted
    /\ MayClaim(w, S)
    /\ rowOwner' = [r \in Rows |-> IF r \in S THEN w ELSE rowOwner[r]]
    /\ rowLeaseLeft' = [r \in Rows |-> IF r \in S THEN Minus(LeaseTicks, drain[w].age)
                                       ELSE rowLeaseLeft[r]]
    /\ drain' = [drain EXCEPT ![w] = WithBatch(@, S, muted)]
    /\ waived' = IF muted THEN waived \cup S ELSE waived
    /\ UNCHANGED <<rowStatus, attempts, availableIn, reported, accepted>>

-----------------------------------------------------------------------------
(* Sending one row *)

\* drain_once returns, or raises: the rows still to do stay leased.  A one-shot's
\* process ends with it.
Leave(w) ==
    drain' = [drain EXCEPT ![w] = IF w \in OneShots THEN GoneDrain ELSE NoDrain]

NextRow(w) ==
    drain' = [drain EXCEPT ![w].stage = "ready", ![w].row = NoRow,
                           ![w].seen = [@ EXCEPT ![drain[w].row] = 0]]

\* The WHERE clause of mark_delivered and reschedule_outbox.
OwnsRow(w, r) == rowStatus[r] = "pending" /\ rowOwner[r] = w

\* Mutants: the update does not look at the owner, or at nothing at all.
MayWritePending(w, r) == {rowStatus[r] = "pending", FALSE}
MayAlwaysWrite(w, r) == {TRUE, FALSE}

\* The update goes through when the row is owned, and may still fail when the
\* database refuses it.
MayWrite(w, r) == {OwnsRow(w, r), FALSE}

ClearLease(r) ==
    /\ rowOwner' = [rowOwner EXCEPT ![r] = NoWorker]
    /\ rowLeaseLeft' = [rowLeaseLeft EXCEPT ![r] = 0]

Backoff(w, r) == Delays[Least(drain[w].seen[r] + 1, Len(Delays))]

\* Mutant: the count of the claim is taken for the count of the failures.
AfterOneMore(d, r) ==
    LET stuck == d.seen[r] >= StuckAt IN
    [d EXCEPT !.stage = IF stuck THEN "reporting" ELSE "ready",
              !.row = IF stuck THEN r ELSE NoRow,
              !.todo = @ \ {r},
              !.seen = [@ EXCEPT ![r] = 0]]

\* The row is done with, but for the report when it has failed too often.
AfterFailure(d, r) ==
    LET stuck == d.seen[r] + 1 >= StuckAt IN
    [d EXCEPT !.stage = IF stuck THEN "reporting" ELSE "ready",
              !.row = IF stuck THEN r ELSE NoRow,
              !.todo = @ \ {r},
              !.seen = [@ EXCEPT ![r] = 0]]

\* Mutant: a drain counts its failure on a row that another has claimed.
RescheduleUnowned(w, r) ==
    /\ attempts' = [attempts EXCEPT ![r] = Least(@ + 1, StuckAt)]
    /\ drain' = [drain EXCEPT ![w] = AfterFailure(@, r)]
    /\ UNCHANGED <<rowStatus, availableIn, rowOwner, rowLeaseLeft>>

\* _reschedule up to the health report.
Reschedule(w, r) ==
    \E commit \in MayWrite(w, r) :
        IF commit
        THEN /\ rowStatus' = [rowStatus EXCEPT ![r] = "pending"]
             /\ attempts' = [attempts EXCEPT ![r] = Least(@ + 1, StuckAt)]
             /\ availableIn' = [availableIn EXCEPT ![r] = Minus(Backoff(w, r), drain[w].age)]
             /\ ClearLease(r)
             /\ drain' = [drain EXCEPT ![w] = AfterFailure(@, r)]
        ELSE Leave(w) /\ UNCHANGED rowVars

\* get_delivery_target raises.
TargetFails(w, r) ==
    /\ drain[w].stage = "ready" /\ r \in drain[w].todo
    /\ Reschedule(w, r)
    /\ UNCHANGED <<reported, accepted, waived>>

BeginSend(w, r) ==
    /\ drain[w].stage = "ready" /\ r \in drain[w].todo
    /\ drain' = [drain EXCEPT ![w].stage = "sending", ![w].row = r, ![w].todo = @ \ {r}]
    /\ UNCHANGED <<rowVars, reported, accepted, waived>>

\* The target accepts the message; nobody here knows yet.  A muted sender makes
\* up a message id.
Accept(w, r) ==
    /\ drain[w].stage = "sending" /\ drain[w].row = r
    /\ accepted' = IF drain[w].muted THEN accepted ELSE accepted \cup {r}
    /\ drain' = [drain EXCEPT ![w].stage = "answered"]
    /\ UNCHANGED <<rowVars, reported, waived>>

\* The answer holds a message id: mark_delivered.  A row lost to another drain
\* ends this one.
MarkDelivered(w, r) ==
    /\ drain[w].stage = "answered" /\ drain[w].row = r
    /\ \E commit \in MayWrite(w, r) :
        IF commit
        THEN /\ rowStatus' = [rowStatus EXCEPT ![r] = "delivered"]
             /\ ClearLease(r)
             /\ NextRow(w)
             /\ UNCHANGED <<attempts, availableIn>>
        ELSE Leave(w) /\ UNCHANGED rowVars
    /\ UNCHANGED <<reported, accepted, waived>>

InHand(w, r) == drain[w].stage \in {"sending", "answered"} /\ drain[w].row = r

\* The send raises, before or after the target accepted it, or the answer holds
\* no message id.
SendFails(w, r) ==
    /\ InHand(w, r) /\ ~drain[w].muted
    /\ Reschedule(w, r)
    /\ UNCHANGED <<reported, accepted, waived>>

\* emit_once keeps one event per row and six hours: that there is one is told apart.
Report(w, r) ==
    /\ drain[w].stage = "reporting" /\ drain[w].row = r
    /\ reported' = reported \cup {r}
    /\ NextRow(w)
    /\ UNCHANGED <<rowVars, accepted, waived>>

EndDrain(w) ==
    /\ \/ drain[w].stage = "ready" /\ drain[w].todo = {}
       \/ drain[w].stage = "idle" /\ w \in OneShots
    /\ Leave(w)
    /\ UNCHANGED <<rowVars, reported, accepted, waived>>

\* The process dies, its drain is cancelled, or the health sink raises.  A service
\* comes back under the same worker id.
Crash(w) ==
    /\ drain[w].stage \notin {"idle", "gone"}
    /\ Leave(w)
    /\ UNCHANGED <<rowVars, reported, accepted, waived>>

-----------------------------------------------------------------------------
(* Retention and time *)

\* maintenance.py: delivered rows after 180 days, every row of a monitor that has
\* been disabled for 30 days.
Purge(r) ==
    /\ rowStatus[r] \in {"pending", "delivered"}
    /\ rowStatus' = [rowStatus EXCEPT ![r] = "purged"]
    /\ attempts' = [attempts EXCEPT ![r] = 0]
    /\ availableIn' = [availableIn EXCEPT ![r] = 0]
    /\ ClearLease(r)
    /\ UNCHANGED <<reported, accepted, waived, drain>>

Older(d) ==
    [d EXCEPT !.age = IF d.stage \in {"idle", "gone"} THEN @ ELSE Least(@ + 1, Horizon)]

Tick ==
    /\ availableIn' = [r \in Rows |-> Minus(availableIn[r], 1)]
    /\ rowLeaseLeft' = [r \in Rows |-> Minus(rowLeaseLeft[r], 1)]
    /\ drain' = [w \in Workers |-> Older(drain[w])]
    /\ UNCHANGED <<rowStatus, attempts, rowOwner, reported, accepted, waived>>

ClaimSome(w) == \E S \in SUBSET Rows, muted \in BOOLEAN : Claim(w, S, muted)

DrainStep(w) ==
    \/ EndDrain(w)
    \/ \E r \in Rows :
        \/ TargetFails(w, r) \/ BeginSend(w, r)
        \/ Accept(w, r) \/ MarkDelivered(w, r) \/ SendFails(w, r)
        \/ Report(w, r)

Next ==
    \/ \E w \in Workers :
        \/ \E r \in Rows : Enqueue(w, r)
        \/ ClaimSome(w) \/ DrainStep(w) \/ Crash(w)
    \/ \E r \in Rows : Purge(r)
    \/ Tick

Spec == Init /\ [][Next]_vars

\* _outbox_loop drains every five seconds, a drain that is not interrupted goes on
\* (a send is bounded by the 20 s timeout of the Telegram API), and time passes.
\* Crashes may be as frequent as they like, but do not forever hit the service
\* between the claim of a row and the start of its send, or before its report.
Fairness ==
    /\ WF_vars(Tick)
    /\ \A w \in Services :
        /\ WF_vars(ClaimSome(w)) /\ WF_vars(DrainStep(w))
        /\ \A r \in Rows : SF_vars(BeginSend(w, r)) /\ SF_vars(Report(w, r))

FairSpec == Spec /\ Fairness

-----------------------------------------------------------------------------
(* Properties *)

\* Rows are fenced by worker id alone, without a generation, and the retry delay
\* and the report come from the attempt_count read at the claim.  A drain that
\* still owns a row has nevertheless the row's current count: its backoff is that
\* of the attempt it makes, and the fifth failure is reported.
SeenCountIsCurrent ==
    \A w \in Workers, r \in Rows :
        OwnsRow(w, r) /\ (r \in drain[w].todo \/ InHand(w, r)) =>
            drain[w].seen[r] = attempts[r]

\* A drain that outlives its lease and comes back with an answer for a row another
\* worker has claimed (or delivered, or retention has deleted) changes no row.
LateAnswersAreRefused ==
    [][\A w \in Workers, r \in Rows :
          /\ InHand(w, r) /\ ~OwnsRow(w, r)
          /\ drain'[w].stage # drain[w].stage
          => UNCHANGED rowVars]_vars

\* The delay and the report of a failure come from the attempt_count read at the claim,
\* minutes before.  As the row's own count tells it, its k-th failure is retried after
\* the k-th delay from the start of the drain, its StuckAt-th failure, and none before,
\* begins a report (the fifth in the code), and only a row that has failed that often,
\* or that retention took away since, is ever reported.
FailuresEscalateOnTime ==
    [][\A r \in Rows :
          /\ r \in reported' \ reported =>
                 attempts[r] = StuckAt \/ rowStatus[r] = "purged"
          /\ attempts'[r] > attempts[r] =>
                 /\ attempts'[r] = StuckAt
                    <=> \E w \in Workers : drain'[w].stage = "reporting" /\ drain'[w].row = r
                 /\ \E w \in Workers :
                        /\ rowOwner[r] = w
                        /\ availableIn'[r] =
                               Minus(Delays[Least(attempts'[r], Len(Delays))], drain[w].age)]_vars

\* Every step is one at-least-once delivery allows: in particular a row is recorded
\* as delivered only after its message was accepted (platform-design.md:232), and a
\* recorded delivery is never undone.
Contract == INSTANCE DeliveryContract
ImplementsDelivery == Contract!DeliverySpec

Settled(r) == rowStatus[r] \in {"delivered", "purged"}

\* A target that keeps accepting gets every alert, and its delivery is recorded,
\* whatever drains are interrupted or outlive their lease.
TargetAnswers(r) ==
    \A w \in Services :
        /\ SF_vars(Accept(w, r))
        /\ SF_vars(MarkDelivered(w, r) /\ rowStatus'[r] = "delivered")

EveryAlertIsSettled ==
    \A r \in Rows : TargetAnswers(r) => (rowStatus[r] = "pending" ~> Settled(r))

\* A row whose sends keep failing is reported to the operator, and kept.
TargetRefuses(r) ==
    \A w \in Services : SF_vars(SendFails(w, r) /\ OwnsRow(w, r) /\ rowOwner'[r] = NoWorker)

StuckRowsAreReported ==
    \A r \in Rows :
        TargetRefuses(r) =>
            (rowStatus[r] = "pending" ~> (r \in reported \/ Settled(r)))

===============================================================================
