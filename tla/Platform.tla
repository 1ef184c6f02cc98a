------------------------------- MODULE Platform -------------------------------
(***************************************************************************)
(* The whole of personal_monitor around one registry: the runs of          *)
(* MonitorRunner and the owner's side of ControlPlane, which share nothing *)
(* but the monitors and monitor_versions tables, the clock and the process *)
(* of the service.  What each of the two modules lets "everyone else" do   *)
(* to the registry is here what the other one really does.                 *)
(***************************************************************************)
EXTENDS MonitorRunner, ControlPlane

platformVars == <<registryVars, taskVars, chatVars>>

PlatformInit == RunnerInit /\ ControlInit

\* Scheduler and runner: the service and every "monitor run-once" process.
RunsMove ==
    /\ \/ \E w \in Workers : SchedulerTick(w)
       \/ \E w \in Workers, m \in Monitors : RunOnce(w, m)
       \/ \E m \in Monitors, g \in Generations : Step(m, g) \/ Interrupt(m, g)
    /\ UNCHANGED chatVars

\* The owner, Telegram and the polling loop of the service.
OwnerSideMoves ==
    /\ (\E u \in Updates : Send(u)) \/ Poll \/ PollFails \/ Handle
    /\ UNCHANGED taskVars

\* AdaptiveRecovery stores a repair, in a transaction of its own.
RecoveryStores ==
    /\ \E m \in Monitors : StoreCandidate(m, active[m])
    /\ UNCHANGED <<taskVars, chatVars>>

Busy(w) == \E m \in Monitors, g \in Generations : Live(m, g) /\ task[m][g].worker = w

\* A process dies with all it was doing: the service with its runs and with the
\* handler, the batch and the offset of its polling loop.
ProcessDies(w) ==
    /\ \/ RunnerCrash(w)
       \/ ~Busy(w) /\ UNCHANGED <<registryVars, taskVars>>
    /\ \/ w \in Services /\ ControlCrash
       \/ w \in OneShots /\ UNCHANGED chatVars
       \/ w \in Services /\ batch = 0 /\ UNCHANGED chatVars

\* One clock for leases, schedules and tokens.
PlatformTick == ControlTick /\ UNCHANGED taskVars

PlatformNext ==
    \/ RunsMove
    \/ OwnerSideMoves
    \/ RecoveryStores
    \/ \E w \in Workers : ProcessDies(w)
    \/ PlatformTick

PlatformSpec == PlatformInit /\ [][PlatformNext]_platformVars

-----------------------------------------------------------------------------
(* Properties *)

\* Runs and owner side were checked apart, each beside an environment that may do
\* anything plausible to the registry.  Together they leave neither of the two
\* specifications: what holds of each apart holds of them together.
SidesKeepTheirSpecs == RunnerSpec /\ ControlSpec

\* A monitor the owner has paused or deleted is touched by nothing but a
\* confirmation about this very monitor, as it is now: no run that was under way,
\* no repair, no restart and no other button changes its status, its version, its
\* snapshot or its outbox.
StoppedMonitorsAreLeftAlone ==
    [][\A m \in Monitors :
          /\ status[m] \in {"paused_user", "disabled"}
          /\ <<status[m], active[m], items[m], outbox[m]>>'
                 # <<status[m], active[m], items[m], outbox[m]>>
          => /\ call.stage = "receipt" /\ call'.stage # "receipt"
             /\ call.payload.monitor = m
             /\ call.payload.expected = status[m] /\ call.payload.version = active[m]
             /\ UNCHANGED <<items, outbox>>]_platformVars

\* What a language model or adaptive recovery has staged runs only after the owner
\* said so: a call that may still write runs an approved version, ...
UnapprovedNeverRuns ==
    \A m \in Monitors, g \in Generations :
        Fenced(m, g) /\ task[m][g].stage \in {"loaded", "fetching", "diffed"} =>
            /\ task[m][g].version \in DOMAIN versions[m]
            /\ versions[m][task[m][g].version].approved

Approved(m) == {v \in DOMAIN versions[m] : versions[m][v].approved}

\* ... and a version becomes approved only in the step that uses up a receipt about
\* it: of a new monitor, or of this candidate of this monitor, whose status and
\* active version are still those the preview showed.
ApprovedByTheOwner ==
    [][\A m \in Monitors :
          Approved(m)' # Approved(m) =>
              /\ call.stage = "receipt" /\ call'.stage # "receipt"
              /\ \/ call.payload.action = "create" /\ status[m] = "absent"
                 \/ /\ call.payload.action \in {"update", "repair_activation"}
                    /\ call.payload.monitor = m
                    /\ call.payload.expected = status[m] /\ call.payload.version = active[m]
                    /\ Approved(m)' = Approved(m) \cup {call.payload.candidate}]_platformVars

===============================================================================
