---------------------------- MODULE ServiceLoops ----------------------------
(***************************************************************************)
(* PersonalMonitorService.run: the periodic loops and the monitor runs in  *)
(* one task group, their failure counters, the stop by a signal, by an     *)
(* outer cancellation or by a component that keeps failing, the grace of   *)
(* the active runs, the closing of the resources, and the container's      *)
(* restarts.  The Telegram loop is modelled down to its batches and        *)
(* offset; of the other loops only the outcome of an iteration matters.    *)
(***************************************************************************)
EXTENDS Integers, Sequences, TelegramUpdates

CONSTANTS
    RunTasks,     \* bound: runs at a time, of whatever monitors: two may be of one
    Loops,        \* the periodic loops, "telegram" among them
    Counting,     \* loops whose failed iterations are counted (all but billing)
    Faulty,       \* loops whose iterations may fail for a reason outside the service
    MaxFailures,  \* _MAX_COMPONENT_FAILURES
    Wire,         \* updates the owner may send
    Resources,    \* what _close_resources closes, in order
    MaxUpdates,   \* bound: updates sent
    MaxStarts     \* bound: starts of the container

ASSUME ServiceAssumption ==
    /\ "telegram" \in Counting /\ "scheduler" \in Counting
    /\ Counting \subseteq Loops /\ Faulty \subseteq Loops
    /\ Resources \in Seq({Resources[i] : i \in DOMAIN Resources})
    /\ MaxFailures \in Nat \ {0} /\ MaxUpdates \in Nat /\ MaxStarts \in Nat

VARIABLES
    phase,      \* where run() is
    stop,       \* _stop_event
    failure,    \* a ServiceFailure is pending
    at,         \* where each loop is
    failures,   \* the failure counter of each loop
    batch,      \* update ids of the batch the Telegram loop still has to handle
    offset,     \* _telegram_offset
    run,        \* _active_runs: the tasks that run a monitor
    open,       \* resources not closed yet
    starts,     \* starts of the process so far
    sent,       \* updates sent to the bot, by id
    confirmed,  \* Telegram forgot the updates up to this id
    handled     \* history: updates whose handler returned or raised

vars == <<phase, stop, failure, at, failures, batch, offset, run, open, starts,
          sent, confirmed, handled>>
telegramVars == <<batch, offset, confirmed, handled>>

Phases == {"exited", "serving", "quiescing", "grace", "cancelling", "aborting", "closing"}
LoopPlaces == {"asleep", "busy", "handling", "ended"}

ServiceTypeOK ==
    /\ phase \in Phases /\ stop \in BOOLEAN /\ failure \in BOOLEAN
    /\ at \in [Loops -> LoopPlaces]
    /\ failures \in [Loops -> 0..MaxFailures]
    /\ batch \subseteq 1..MaxUpdates
    /\ offset \in 0..MaxUpdates + 1
    /\ run \in [RunTasks -> {"idle", "working", "cleanup"}]
    /\ open \in Seq({Resources[i] : i \in DOMAIN Resources})
    /\ starts \in 0..MaxStarts
    /\ sent \in Seq(Wire) /\ Len(sent) <= MaxUpdates
    /\ confirmed \in 0..MaxUpdates /\ handled \subseteq 1..MaxUpdates

Init ==
    /\ phase = "exited" /\ stop = FALSE /\ failure = FALSE
    /\ at = [l \in Loops |-> "ended"]
    /\ failures = [l \in Loops |-> 0]
    /\ batch = {} /\ offset = 0
    /\ run = [m \in RunTasks |-> "idle"]
    /\ open = <<>> /\ starts = 0
    /\ sent = <<>> /\ confirmed = 0 /\ handled = {}

-----------------------------------------------------------------------------
(* Start and restart *)

\* A new process: a counter, an offset and resources of its own.  When the
\* webhook preflight fails no loop is started.
Start(preflight) ==
    /\ phase = "exited" /\ starts < MaxStarts
    /\ starts' = starts + 1 /\ stop' = FALSE /\ failure' = ~preflight
    /\ phase' = IF preflight THEN "serving" ELSE "closing"
    /\ at' = [l \in Loops |-> IF preflight THEN "asleep" ELSE "ended"]
    /\ failures' = [l \in Loops |-> 0]
    /\ batch' = {} /\ offset' = 0 /\ open' = Resources
    /\ UNCHANGED <<run, sent, confirmed, handled>>

\* The process dies at any point: containers are restarted unless stopped.
Crash ==
    /\ phase # "exited" /\ starts < MaxStarts
    /\ phase' = "exited" /\ failure' = FALSE
    /\ at' = [l \in Loops |-> "ended"]
    /\ run' = [m \in RunTasks |-> "idle"]
    /\ open' = <<>> /\ batch' = {}
    /\ UNCHANGED <<stop, failures, offset, starts, sent, confirmed, handled>>

\* SIGTERM, SIGINT or the trigger of run_until.
RequestStop ==
    /\ phase = "serving" /\ ~stop /\ stop' = TRUE
    /\ UNCHANGED <<phase, failure, at, failures, run, open, starts, sent, telegramVars>>

-----------------------------------------------------------------------------
(* The loops *)

Serving == phase = "serving"

\* Every loop looks at _stop_event when its sleep is over.
Wake(l) ==
    /\ Serving /\ at[l] = "asleep"
    /\ at' = [at EXCEPT ![l] = IF stop THEN "ended" ELSE "busy"]
    /\ UNCHANGED <<phase, stop, failure, failures, run, open, starts, sent, telegramVars>>

\* Mutant: a loop that never gives up.
CountForever(l) ==
    /\ failures' = [failures EXCEPT ![l] = IF @ < MaxFailures THEN @ + 1 ELSE @]
    /\ at' = [at EXCEPT ![l] = "asleep"]
    /\ UNCHANGED <<phase, stop, failure>>

\* _component_failure: the last straw raises ServiceFailure out of the loop, and
\* the task group cancels everything else; before that the loop backs off.
CountFailure(l) ==
    /\ failures' = IF l \in Counting THEN [failures EXCEPT ![l] = @ + 1] ELSE failures
    /\ IF failures'[l] >= MaxFailures
       THEN /\ at' = [at EXCEPT ![l] = "ended"]
            /\ phase' = "aborting" /\ failure' = TRUE
       ELSE /\ at' = [at EXCEPT ![l] = "asleep"]
            /\ UNCHANGED <<phase, failure>>
    /\ UNCHANGED stop

Fails(l) ==
    /\ Serving /\ at[l] = "busy" /\ l \in Faulty
    /\ CountFailure(l)
    /\ UNCHANGED <<run, open, starts, sent, telegramVars>>

Succeeds(l) ==
    /\ Serving /\ at[l] = "busy" /\ l \notin {"telegram", "scheduler"}
    /\ at' = [at EXCEPT ![l] = "asleep"]
    /\ failures' = [failures EXCEPT ![l] = 0]
    /\ UNCHANGED <<phase, stop, failure, run, open, starts, sent, telegramVars>>

\* The tick and the starts of the claimed monitors are one step of the event loop, and
\* nobody asks whether an older run of the same monitor is still active; a stop
\* requested before it starts nothing.
SchedulerTick ==
    /\ Serving /\ at["scheduler"] = "busy"
    /\ \E due \in SUBSET {m \in RunTasks : run[m] = "idle"} :
           run' = [m \in RunTasks |-> IF m \in due /\ ~stop THEN "working" ELSE run[m]]
    /\ at' = [at EXCEPT !["scheduler"] = "asleep"]
    /\ failures' = [failures EXCEPT !["scheduler"] = 0]
    /\ UNCHANGED <<phase, stop, failure, open, starts, sent, telegramVars>>

-----------------------------------------------------------------------------
(* The Telegram loop *)

OwnerSends ==
    /\ Len(sent) < MaxUpdates
    /\ \E update \in Wire : sent' = Append(sent, update)
    /\ UNCHANGED <<phase, stop, failure, at, failures, run, open, starts, telegramVars>>

\* Telegram forgets what lies below the requested offset and returns the rest.
Forgotten == IF offset > confirmed + 1 THEN offset - 1 ELSE confirmed
Returned == Forgotten + 1 .. Len(sent)

\* One element that does not parse fails the whole poll.
Poll ==
    /\ Serving /\ at["telegram"] = "busy"
    /\ confirmed' = Forgotten
    /\ IF \E i \in Returned : Verdict(sent[i]) = "refuse"
       THEN CountFailure("telegram") /\ batch' = {}
       ELSE /\ batch' = Returned
            /\ at' = [at EXCEPT !["telegram"] = "handling"]
            /\ UNCHANGED <<phase, stop, failure, failures>>
    /\ UNCHANGED <<offset, handled, run, open, starts, sent>>

\* The batch is handled in the order of the ids.
Handling(i) ==
    /\ Serving /\ at["telegram"] = "handling" /\ ~stop
    /\ i \in batch /\ \A j \in batch : i <= j

\* Mutant: the offset moves when the handler is called, not when it is over.
AdvanceEarly(i) ==
    /\ Handling(i)
    /\ offset' = i + 1 /\ batch' = batch \ {i}
    /\ handled' \in {handled, handled \cup {i}}
    /\ UNCHANGED <<phase, stop, failure, at, failures, run, open, starts, sent, confirmed>>

\* Mutant: the offset is the id of the last update, not the one after it.
OffsetStays(i) ==
    /\ Handling(i)
    /\ handled' = handled \cup {i}
    /\ offset' = i /\ batch' = batch \ {i}
    /\ UNCHANGED <<phase, stop, failure, at, failures, run, open, starts, sent, confirmed>>

\* The handler returned or raised: either way the offset moves on.
HandlerEnds(i) ==
    /\ Handling(i)
    /\ handled' = handled \cup {i}
    /\ offset' = i + 1 /\ batch' = batch \ {i}
    /\ UNCHANGED <<phase, stop, failure, at, failures, run, open, starts, sent, confirmed>>

\* The stop may come while the handler is awaited: that update still counts, the
\* rest of the batch is left to the next process.
BatchEnds ==
    /\ Serving /\ at["telegram"] = "handling"
    /\ \/ batch = {} /\ at' = [at EXCEPT !["telegram"] = "asleep"]
                       /\ failures' = [failures EXCEPT !["telegram"] = 0]
       \/ batch # {} /\ stop /\ at' = [at EXCEPT !["telegram"] = "ended"]
                       /\ UNCHANGED failures
    /\ batch' = {}
    /\ UNCHANGED <<phase, stop, failure, run, open, starts, sent, offset, confirmed, handled>>

-----------------------------------------------------------------------------
(* The runs *)

\* The fetch of a run ends by itself, well or badly.
RunEnds(m) ==
    /\ run[m] = "working" /\ phase \notin {"closing", "exited"}
    /\ run' = [run EXCEPT ![m] = "cleanup"]
    /\ UNCHANGED <<phase, stop, failure, at, failures, open, starts, sent, telegramVars>>

\* A cancelled run still shields its cleanup.
RunCancelled(m) ==
    /\ phase \in {"aborting", "cancelling"} /\ run[m] = "working"
    /\ run' = [run EXCEPT ![m] = "cleanup"]
    /\ UNCHANGED <<phase, stop, failure, at, failures, open, starts, sent, telegramVars>>

\* finish_run and release_lease on the connection.
CleanupEnds(m) ==
    /\ run[m] = "cleanup"
    /\ run' = [run EXCEPT ![m] = "idle"]
    /\ UNCHANGED <<phase, stop, failure, at, failures, open, starts, sent, telegramVars>>

-----------------------------------------------------------------------------
(* The end of run() *)

LoopsEnded == \A l \in Loops : at[l] = "ended"
RunsEnded == \A m \in RunTasks : run[m] = "idle"

Goto(p) ==
    /\ phase' = p
    /\ UNCHANGED <<stop, failure, at, failures, run, open, starts, sent, telegramVars>>

\* The body wakes up and cancels the loops.
BodySeesStop == Serving /\ stop /\ Goto("quiescing")

\* CancelledError reaches a loop at its await: a sleep, a poll, a handler.
LoopCancelled(l) ==
    /\ phase \in {"quiescing", "aborting"} /\ at[l] # "ended"
    /\ at' = [at EXCEPT ![l] = "ended"]
    /\ batch' = IF l = "telegram" THEN {} ELSE batch
    /\ UNCHANGED <<phase, stop, failure, failures, run, open, starts, sent,
                   offset, confirmed, handled>>

\* Mutant: the wait for the runs has no timeout.
GraceNeverOver == phase = "grace" /\ RunsEnded /\ Goto("cancelling")

\* _finish_active_runs: wait for the runs, for shutdown_grace_seconds.
BeginGrace == phase = "quiescing" /\ LoopsEnded /\ Goto("grace")
GraceOver == phase = "grace" /\ ~RunsEnded /\ Goto("cancelling")

\* An outer cancellation of run() cancels the whole group.
Interrupt ==
    /\ phase \in {"serving", "quiescing", "grace"}
    /\ phase' = "aborting"
    /\ UNCHANGED <<stop, failure, at, failures, run, open, starts, sent, telegramVars>>

\* Mutant: the cancelled runs are not waited for.
LeaveGroupEarly ==
    /\ phase \in {"grace", "cancelling", "aborting"} /\ LoopsEnded
    /\ phase = "grace" => RunsEnded
    /\ phase' = "closing" /\ stop' = TRUE
    /\ UNCHANGED <<failure, at, failures, run, open, starts, sent, telegramVars>>

\* The task group is left when its last task has ended.
LeaveGroup ==
    /\ phase \in {"grace", "cancelling", "aborting"} /\ LoopsEnded /\ RunsEnded
    /\ phase' = "closing" /\ stop' = TRUE
    /\ UNCHANGED <<failure, at, failures, run, open, starts, sent, telegramVars>>

\* Every resource is closed, the ones after a failed close too.
CloseNext ==
    /\ phase = "closing" /\ open # <<>>
    /\ open' = Tail(open)
    /\ failure' \in {failure, TRUE}
    /\ UNCHANGED <<phase, stop, at, failures, run, starts, sent, telegramVars>>

Exit == phase = "closing" /\ open = <<>> /\ Goto("exited")

Progress ==
    \/ \E l \in Loops : Wake(l) \/ Succeeds(l) \/ LoopCancelled(l)
    \/ SchedulerTick \/ Poll \/ BatchEnds \/ \E i \in 1..MaxUpdates : HandlerEnds(i)
    \/ \E m \in RunTasks : RunCancelled(m) \/ CleanupEnds(m)
    \/ BodySeesStop \/ BeginGrace \/ GraceOver \/ LeaveGroup \/ CloseNext \/ Exit

Environment ==
    \/ \E preflight \in BOOLEAN : Start(preflight)
    \/ Crash \/ RequestStop \/ Interrupt \/ OwnerSends
    \/ \E l \in Loops : Fails(l)
    \/ \E m \in RunTasks : RunEnds(m)

Next == Progress \/ Environment

Spec == Init /\ [][Next]_vars

\* The event loop runs what is ready, in each task of its own: a loop wakes up
\* and its iteration ends, well or badly; the container is started again.
LoopIterates(l) ==
    \/ Wake(l) \/ Succeeds(l) \/ Fails(l) \/ LoopCancelled(l)
    \/ l = "scheduler" /\ SchedulerTick
    \/ l = "telegram" /\ (Poll \/ BatchEnds \/ \E i \in batch : HandlerEnds(i))

Fairness ==
    /\ \A l \in Loops : WF_vars(LoopIterates(l))
    /\ \A m \in RunTasks : WF_vars(RunCancelled(m)) /\ WF_vars(CleanupEnds(m))
    /\ WF_vars(BodySeesStop) /\ WF_vars(BeginGrace) /\ WF_vars(GraceOver)
    /\ WF_vars(LeaveGroup) /\ WF_vars(CloseNext) /\ WF_vars(Exit)
    /\ WF_vars(Start(TRUE))

FairSpec == Spec /\ Fairness

-----------------------------------------------------------------------------
(* Properties *)

\* Nothing that a loop or a run may still use is closed: the connection under a
\* shielded cleanup, the HTTP clients under a poll.
ResourcesOutliveTheirUsers ==
    phase \in {"closing", "exited"} => LoopsEnded /\ RunsEnded

\* Telegram is told to forget an update only when its handler is over, whatever
\* stops, cancels or kills the service in between.
ForgottenOnlyIfHandled == 1..confirmed \subseteq handled

\* An update is handled a second time only by a later process: within the first one
\* nothing that was handled comes back, however often its polls and handlers fail.
RepeatedOnlyAfterRestart == starts = 1 => batch \cap handled = {}

\* A requested stop ends the process, however long the runs would go on.
StopEndsTheService == (Serving /\ stop) ~> phase = "exited"

Refused == \E i \in confirmed + 1 .. Len(sent) : Verdict(sent[i]) = "refuse"

\* An update that cannot be parsed is not retried forever: the failures in a row
\* end the process.
RefusedUpdateEndsTheService == (Serving /\ Refused) ~> phase = "exited"

\* "Ignore unsupported update types but still advance the offset": what the
\* owner sends is passed, unless the service stops for another reason than it.
UnsupportedIsPassed ==
    \A i \in 1..MaxUpdates :
        (Serving /\ i \in DOMAIN sent)
            ~> \/ i \in handled
               \/ ~Serving /\ failures["telegram"] < MaxFailures

=============================================================================
