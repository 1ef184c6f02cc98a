\* One row, the service and one one-shot, strong fairness where the spec states it.
CONSTANTS
    r1 = r1
    svc = svc
    once = once
    NoWorker = NoWorker
    NoRow = NoRow
    Rows = {r1}
    Workers = {svc, once}
    OneShots = {once}
    Limit = 1
    LeaseTicks = 1
    Delays <- TwoDelays
    StuckAt = 2
    Horizon = 2
SPECIFICATION FairSpec
PROPERTIES EveryAlertIsSettled StuckRowsAreReported
CHECK_DEADLOCK FALSE
