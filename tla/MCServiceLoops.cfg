\* Two runs, a Telegram loop that fails by itself and on a GIF, a billing loop that
\* fails without being counted, two failures in a row end the service.
CONSTANTS
    RunTasks = {t1, t2}
    Loops <- MCLoops
    Counting <- MCCounting
    Faulty = {"telegram", "billing"}
    MaxFailures = 2
    Wire <- MCWire
    Resources <- MCResources
    MaxUpdates = 2
    MaxStarts = 2
SPECIFICATION FairSpec
CHECK_DEADLOCK FALSE
INVARIANTS ResourcesOutliveTheirUsers ForgottenOnlyIfHandled RepeatedOnlyAfterRestart
PROPERTIES StopEndsTheService RefusedUpdateEndsTheService
