CONSTANTS
    m1 = m1
    svc = svc
    a = a
    NoWorker = NoWorker
    NoItem = NoItem
    Monitors = {m1}
    Workers = {svc}
    OneShots = {}
    Contents = {a}
    Rules = {"new_item"}
    Satisfying = {}
    NotifyNoChange = FALSE
    t1 = t1
    t2 = t2
    NoToken = NoToken
    NoMonitor = NoMonitor
    Tokens = {t1, t2}
    MaxVersion = 2
    MaxGeneration = 2
    LeaseTicks = 1
    IntervalTicks = 1
    TokenTicks = 1
    MaxQueue = 1
SPECIFICATION PlatformSpec
SYMMETRY TokenSymmetry
INVARIANT UnapprovedNeverRuns
PROPERTIES SidesKeepTheirSpecs StoppedMonitorsAreLeftAlone ApprovedByTheOwner
CHECK_DEADLOCK FALSE
