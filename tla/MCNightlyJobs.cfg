\* One monitor with one event, one grant; limits of one and two days.
CONSTANTS
    Monitors = {m1}
    Keys = {k1}
    RowLimit = 1
    DeliveryDays = 2
    RestoreDays = 1
    Tables <- MCTables
    Probes = {m1}
    NumGrants = 1
    Original = 2
    Baseline = 1
    Thresholds <- MCThresholds
    FirstDay = 1
    ExpiryDays <- MCExpiry
    MaxUsage = 1
SPECIFICATION FairSpec
CHECK_DEADLOCK FALSE
INVARIANTS AlertsAreToldOnce BackfillIsNeutral
PROPERTIES EventsAreToldOncePerWindow UndeliveredIsKept ForgottenUnlessProbed
