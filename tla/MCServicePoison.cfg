\* Nothing fails by itself; the owner sends photos and locations.
CONSTANTS
    RunTasks = {t1}
    Loops <- MCLoops
    Counting <- MCCounting
    Faulty = {}
    MaxFailures = 2
    Wire <- MCUnsupported
    Resources <- MCResources
    MaxUpdates = 2
    MaxStarts = 2
SPECIFICATION FairSpec
CHECK_DEADLOCK FALSE
PROPERTIES UnsupportedIsPassed
