\* One notice, of one of two agencies, and a gate of two dates.
CONSTANTS
    n1 = n1
    lh = lh
    sh = sh
    Notices = {n1}
    Agencies = {lh, sh}
    AgencyOf <- MCAgencyOf
    Twice = 2
    Streak = 2
SPECIFICATION Spec
INVARIANTS GateNeedsTheStreak RepeatsAreExplained MatchedNoticesWereTold
CHECK_DEADLOCK FALSE
