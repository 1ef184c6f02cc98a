\* Two rows, the service and one one-shot, a lease of one tick.
CONSTANTS
    r1 = r1
    r2 = r2
    svc = svc
    once = once
    NoWorker = NoWorker
    NoRow = NoRow
    Rows = {r1, r2}
    Workers = {svc, once}
    OneShots = {once}
    Limit = 2
    LeaseTicks = 1
    Delays <- TwoDelays
    StuckAt = 2
    Horizon = 2
SPECIFICATION Spec
SYMMETRY RowSymmetry
INVARIANTS OutboxTypeOK SeenCountIsCurrent
PROPERTIES LateAnswersAreRefused FailuresEscalateOnTime ImplementsDelivery
CHECK_DEADLOCK FALSE
