---------------------------- MODULE MonitorRunner ----------------------------
(***************************************************************************)
(* Monitor runs: engine/scheduler.py, engine/runner.py and the runs,       *)
(* observations and outbox writes of storage/runtime.py, executed by       *)
(* several processes over the registry of MonitorRegistry while the        *)
(* operator changes monitors under their feet.                             *)
(*                                                                         *)
(* A lease is used by one call of MonitorRunner.run, and every claim takes *)
(* a new generation, so the calls are indexed by monitor and generation.   *)
(* Every database transaction of a call is one step, and anything may      *)
(* happen between two of them: between the awaits of one event loop, and   *)
(* between any two transactions of a one-shot process and the service.     *)
(***************************************************************************)
EXTENDS MonitorRegistry, RunDecisions

CONSTANTS OneShots   \* worker ids of "monitor run-once" processes

ASSUME OneShotAssumption == OneShots \subseteq Workers

Services == Workers \ OneShots

VARIABLES
    task,    \* the call of MonitorRunner.run for each monitor and generation
    runs,    \* the runs table, by monitor and lease_generation
    items,   \* the observations of each monitor
    outbox   \* the dedupe keys in the outbox, by monitor

taskVars == <<task, runs, items, outbox>>
runnerVars == <<registryVars, taskVars>>

Generations == 1..MaxGeneration

\* Control points of run(): what is left to do, in program order.
Stages == {"none", "claimed", "loaded", "fetching", "diffed",
           "transition", "finish", "release", "ended"}

\* What an outcome asks of the monitor (_RunOutcome.transition_to).  Whether the
\* run succeeded, and with which error, decides nothing else that is modelled.
Verdicts == {"keep", "paused_auth", "needs_review"}

TaskRow == [stage : Stages, worker : Workers \cup {NoWorker}, version : 0..MaxVersion,
            previous : Snapshots, batch : Batches, verdict : Verdicts]

EmptyBatch == [item |-> NoItem, warnings |-> FALSE]

NoTask == [stage |-> "none", worker |-> NoWorker, version |-> 0,
           previous |-> NoItem, batch |-> EmptyBatch, verdict |-> "keep"]
EndedTask == [NoTask EXCEPT !.stage = "ended"]

\* "finished" stands for success, partial_failure and failed.
RunRow == [status : {"none", "running", "finished"}, version : 0..MaxVersion]
NoRun == [status |-> "none", version |-> 0]

TypeOK ==
    /\ RegistryTypeOK
    /\ task \in [Monitors -> [Generations -> TaskRow]]
    /\ runs \in [Monitors -> [Generations -> RunRow]]
    /\ items \in [Monitors -> Snapshots]
    /\ outbox \in [Monitors -> SUBSET Keys]

RunnerInit ==
    /\ RegistryInit
    /\ task = [m \in Monitors |-> [g \in Generations |-> NoTask]]
    /\ runs = [m \in Monitors |-> [g \in Generations |-> NoRun]]
    /\ items = [m \in Monitors |-> NoItem]
    /\ outbox = [m \in Monitors |-> {}]

-----------------------------------------------------------------------------
(* Claims *)

Live(m, g) == task[m][g].stage \notin {"none", "ended"}

\* A claimed lease starts a call: _start_monitor for the service, the next
\* statement of run_monitor_once for a one-shot.
NewTasks(S, w) ==
    task' = [m \in Monitors |->
                IF m \in S
                THEN [task[m] EXCEPT ![generation[m] + 1] =
                         [NoTask EXCEPT !.stage = "claimed", !.worker = w]]
                ELSE task[m]]

\* Scheduler.tick in the service.
SchedulerTick(w) ==
    /\ w \in Services
    /\ ClaimDue(w)
    /\ NewTasks(DueMonitors, w)
    /\ UNCHANGED <<runs, items, outbox>>

\* run_monitor_once: a process of its own, with a worker id of its own.
RunOnce(w, m) ==
    /\ w \in OneShots
    /\ \A n \in Monitors : \A g \in Generations : Live(n, g) => task[n][g].worker # w
    /\ ClaimMonitor(m, w)
    /\ NewTasks({m}, w)
    /\ UNCHANGED <<runs, items, outbox>>

-----------------------------------------------------------------------------
(* One call of run() *)

At(m, g, stage) == task[m][g].stage = stage

Fenced(m, g) == HoldsLease(m, task[m][g].worker, g)

Goto(m, g, stage) == task' = [task EXCEPT ![m][g].stage = stage]

End(m, g) == task' = [task EXCEPT ![m][g] = EndedTask]

\* Mutant: the write does not check the lease inside its transaction.
MayAlwaysCommit(m, g) == {TRUE, FALSE}

\* A fenced write goes through when the lease is held, and may still fail when
\* the database refuses it.
MayCommit(m, g) == {Fenced(m, g), FALSE}

\* get_active_monitor: an own read, outside the transaction of start_run.
LoadActive(m, g) ==
    /\ At(m, g, "claimed")
    /\ task' = [task EXCEPT ![m][g].stage = "loaded", ![m][g].version = active[m]]
    /\ UNCHANGED <<registryVars, runs, items, outbox>>

\* The service stops before the call runs, or a read fails: no cleanup runs and
\* the lease stays until it expires.
NeverStarted(m, g) ==
    /\ task[m][g].stage \in {"claimed", "loaded"}
    /\ End(m, g)
    /\ UNCHANGED <<registryVars, runs, items, outbox>>

\* start_run; when the fence refuses it, run() raises without releasing.
StartRun(m, g) ==
    /\ At(m, g, "loaded")
    /\ IF Fenced(m, g)
       THEN /\ runs' = [runs EXCEPT ![m][g] =
                           [status |-> "running", version |-> task[m][g].version]]
            /\ Goto(m, g, "fetching")
       ELSE End(m, g) /\ UNCHANGED runs
    /\ UNCHANGED <<registryVars, items, outbox>>

\* The adapter's batch arrives, is valid, and the previous snapshot is read.
FetchAndDiff(m, g, batch) ==
    /\ At(m, g, "fetching")
    /\ task' = [task EXCEPT ![m][g].stage = "diffed", ![m][g].batch = batch,
                            ![m][g].previous = items[m]]
    /\ UNCHANGED <<registryVars, runs, items, outbox>>

\* The call goes on to _complete_started_run with an outcome; what it fetched is
\* not used any more.
Complete(m, g, verdict) ==
    task' = [task EXCEPT ![m][g] =
                [NoTask EXCEPT !.stage = IF verdict = "keep" THEN "finish" ELSE "transition",
                               !.worker = task[m][g].worker,
                               !.verdict = verdict]]

\* _failure_outcome: a transient network error keeps the monitor active, an
\* authentication error and every other one take it out of service.
FetchFails(m, g) ==
    /\ At(m, g, "fetching")
    /\ \E verdict \in Verdicts : Complete(m, g, verdict)
    /\ UNCHANGED <<registryVars, runs, items, outbox>>

\* The grace period of a stopping service ends, or the operator interrupts a
\* one-shot.  From here on cleanup is shielded.
Cancel(m, g) ==
    /\ At(m, g, "fetching")
    /\ Complete(m, g, "keep")
    /\ UNCHANGED <<registryVars, runs, items, outbox>>

\* apply_snapshot_and_deliveries: both tables or neither.  A refused write is an
\* internal failure of the run, hence needs_review.
Apply(m, g) ==
    /\ At(m, g, "diffed")
    /\ \E commit \in MayCommit(m, g) :
        IF commit
        THEN LET t == task[m][g] IN
             /\ items' = [items EXCEPT ![m] = CurrentItem(@, t.batch)]
             /\ outbox' = [outbox EXCEPT ![m] = @ \cup Candidates(t.previous, t.batch)]
             /\ Complete(m, g, "keep")
        ELSE Complete(m, g, "needs_review") /\ UNCHANGED <<items, outbox>>
    /\ UNCHANGED <<registryVars, runs>>

-----------------------------------------------------------------------------
(* _complete_started_run: three fenced writes, each tried whatever became of *)
(* the one before                                                            *)

MoveStatus(m, g) ==
    /\ At(m, g, "transition")
    /\ \/ TransitionMonitorStatus(m, task[m][g].worker, g, "active",
                                  task[m][g].verdict)
       \/ UNCHANGED registryVars
    /\ task' = [task EXCEPT ![m][g].stage = "finish", ![m][g].verdict = "keep"]
    /\ UNCHANGED <<runs, items, outbox>>

FinishRun(m, g) ==
    /\ At(m, g, "finish")
    /\ \E commit \in MayCommit(m, g) :
        runs' = IF commit
                THEN [runs EXCEPT ![m][g].status = "finished"]
                ELSE runs
    /\ Goto(m, g, "release")
    /\ UNCHANGED <<registryVars, items, outbox>>

\* Five minutes after a transient failure or a cancellation, else the next cron
\* instant.  Both are some positive number of ticks.
Release(m, g) ==
    /\ At(m, g, "release")
    /\ \/ \E delay \in CronDelays : ReleaseLease(m, task[m][g].worker, g, delay)
       \/ UNCHANGED registryVars
    /\ End(m, g)
    /\ UNCHANGED <<runs, items, outbox>>

\* A process dies with every call it was making; one with the same worker id
\* may come back.
RunnerCrash(w) ==
    /\ \E m \in Monitors : \E g \in Generations : Live(m, g) /\ task[m][g].worker = w
    /\ task' = [m \in Monitors |-> [g \in Generations |->
                   IF Live(m, g) /\ task[m][g].worker = w THEN EndedTask
                   ELSE task[m][g]]]
    /\ UNCHANGED <<registryVars, runs, items, outbox>>

-----------------------------------------------------------------------------
(* The operator and adaptive recovery, at any moment *)

Operate(m) == LifecycleNext(m) /\ UNCHANGED taskVars

RunnerTick == TickRegistry /\ UNCHANGED taskVars

Step(m, g) ==
    \/ LoadActive(m, g)
    \/ StartRun(m, g)
    \/ \E batch \in Batches : FetchAndDiff(m, g, batch)
    \/ FetchFails(m, g)
    \/ Apply(m, g)
    \/ MoveStatus(m, g)
    \/ FinishRun(m, g)
    \/ Release(m, g)

Interrupt(m, g) == NeverStarted(m, g) \/ Cancel(m, g)

RunnerNext ==
    \/ \E w \in Workers : SchedulerTick(w) \/ RunnerCrash(w)
    \/ \E w \in Workers, m \in Monitors : RunOnce(w, m)
    \/ \E m \in Monitors, g \in Generations : Step(m, g) \/ Interrupt(m, g)
    \/ \E m \in Monitors : Operate(m)
    \/ RunnerTick

RunnerSpec == RunnerInit /\ [][RunnerNext]_runnerVars

\* The calls run on: every started call is resumed by its event loop and every
\* await of a run ends (fetches are bounded by timeouts), the service's scheduler
\* loop ticks every 15 s, and time passes.  Nothing is assumed of the operator, of
\* one-shots, of interruptions or of crashes.
RunnerFairness ==
    /\ \A m \in Monitors, g \in Generations : WF_runnerVars(Step(m, g))
    /\ \A w \in Services : WF_runnerVars(SchedulerTick(w))
    /\ WF_runnerVars(RunnerTick)

RunnerFairSpec == RunnerSpec /\ RunnerFairness

-----------------------------------------------------------------------------
(* Properties *)

\* runner.py reads the version, fetches and reads the old snapshot outside any
\* transaction.  As long as a call still passes the fence, what it read is still
\* so: the monitor is active, on the version it runs, with the snapshot it
\* compared with.
FencedReadsAreCurrent ==
    \A m \in Monitors, g \in Generations :
        Fenced(m, g) =>
            /\ At(m, g, "claimed") => status[m] = "active"
            /\ task[m][g].stage \in {"loaded", "fetching", "diffed"} =>
                   status[m] = "active" /\ task[m][g].version = active[m]
            /\ At(m, g, "diffed") => task[m][g].previous = items[m]

\* The snapshot and the outbox of a monitor change only while it is active, under
\* a run row that is open and names the active version: never after a pause, a
\* deletion, a new version or a newer claim.
WritesOnlyUnderCurrentRun ==
    [][\A m \in Monitors :
          items'[m] # items[m] \/ outbox'[m] # outbox[m] =>
              /\ status[m] = "active"
              /\ generation[m] \in Generations
              /\ runs[m][generation[m]] = [status |-> "running", version |-> active[m]]]_runnerVars

\* The rules are evaluated between the very snapshots that follow one another, and
\* their matches are in the outbox when the new snapshot is: no interleaving, crash
\* or superseded run makes a change disappear.
NoLostChange ==
    [][\A m \in Monitors :
          items'[m] # items[m] => MatchKeys(items[m], items'[m]) \subseteq outbox'[m]]_runnerVars

\* A run's verdict counts only while the run is the current one of an active
\* monitor: a superseded run that fails late never parks a monitor the operator
\* has paused, resumed or revised since, nor one that a newer claim serves.  Every
\* other change of status supersedes every call (the generation moves).
VerdictsAreCurrent ==
    [][\A m \in Monitors :
          /\ status'[m] # status[m] /\ status[m] # "absent"
          /\ generation'[m] = generation[m]
          => /\ status[m] = "active"
             /\ generation[m] \in Generations
             /\ At(m, generation[m], "transition")
             /\ owner[m] = task[m][generation[m]].worker]_runnerVars

\* A call whose lease has expired and been reclaimed, or was dropped by the operator,
\* may finish as late as it likes: it changes no row, the next run time included
\* (platform-design.md:219-221).
SupersededCallsAreHarmless ==
    [][\A m \in Monitors, g \in Generations :
          /\ Live(m, g) /\ ~Fenced(m, g)
          /\ task'[m][g] # task[m][g] /\ task'[m][g].stage # "claimed"
          => UNCHANGED <<registryVars, runs, items, outbox>>]_runnerVars

\* Every observation and lifecycle step is one the contract allows.
Observing == INSTANCE MonitorContract
ImplementsContract == Observing!ContractSpec

\* An active monitor is always claimed again, or taken out of service: crashes,
\* interrupted calls and lost leases only delay it.
ActiveMonitorIsServed ==
    \A m \in Monitors, g \in 0 .. MaxGeneration - 1 :
        (status[m] = "active" /\ generation[m] = g)
            ~> (status[m] # "active" \/ generation[m] > g)

-----------------------------------------------------------------------------
(* What the design documents say and the code does not do *)

\* platform-design.md:215: "the same monitor is not run twice at a time, and only an
\* abnormal run whose lease has expired can be resumed".  Pausing and resuming a
\* monitor drops the lease, not the run.
OneRunAtATime ==
    \A m \in Monitors, g, h \in Generations :
        At(m, g, "fetching") /\ At(m, h, "fetching") => g = h
=============================================================================
