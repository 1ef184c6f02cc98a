\* The service alone, with a lease much longer than the schedule.
CONSTANTS
    m1 = m1
    svc = svc
    a = a
    NoWorker = NoWorker
    NoItem = NoItem
    Monitors = {m1}
    Workers = {svc}
    OneShots = {}
    Contents = {a}
    Rules = {"new_item"}
    Satisfying = {}
    NotifyNoChange = FALSE
    MaxVersion = 1
    MaxGeneration = 4
    LeaseTicks = 6
    IntervalTicks = 1
SPECIFICATION RunnerSpec
INVARIANT OneRunAtATime
CHECK_DEADLOCK FALSE
