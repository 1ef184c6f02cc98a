\* One monitor, two tokens, two updates waiting at a time.
CONSTANTS
    m1 = m1
    w1 = w1
    t1 = t1
    t2 = t2
    NoWorker = NoWorker
    NoToken = NoToken
    NoMonitor = NoMonitor
    Monitors = {m1}
    Workers = {w1}
    Tokens = {t1, t2}
    MaxVersion = 3
    MaxGeneration = 2
    LeaseTicks = 1
    IntervalTicks = 1
    TokenTicks = 1
    MaxQueue = 2
SPECIFICATION ControlFairSpec
INVARIANTS ControlTypeOK UpdateOffersAreTheirOwn
PROPERTIES ImplementsApprovals UpdatesAreHandled
CHECK_DEADLOCK FALSE
