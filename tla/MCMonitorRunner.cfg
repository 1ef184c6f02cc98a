\* One monitor, the service and one one-shot, two lease generations, two values of
\* the watched field, a parent version with two candidates.
CONSTANTS
    m1 = m1
    svc = svc
    once = once
    a = a
    b = b
    NoWorker = NoWorker
    NoItem = NoItem
    Monitors = {m1}
    Workers = {svc, once}
    OneShots = {once}
    Contents = {a, b}
    Rules = {"new_item", "field_changed"}
    Satisfying = {}
    NotifyNoChange = FALSE
    MaxVersion = 3
    MaxGeneration = 2
    LeaseTicks = 1
    IntervalTicks = 1
SPECIFICATION RunnerFairSpec
INVARIANTS TypeOK FencedReadsAreCurrent ScheduleMatchesStatus LinearApprovals
PROPERTIES WritesOnlyUnderCurrentRun NoLostChange VerdictsAreCurrent SupersededCallsAreHarmless ActiveMonitorIsServed ImplementsContract
CHECK_DEADLOCK FALSE
