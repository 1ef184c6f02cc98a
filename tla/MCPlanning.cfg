\* Timeouts in seconds; Cli, Run, Handler and Client stand for 120, 125, 128 and 130.
CONSTANTS
    c1 = c1
    c2 = c2
    Calls = {c1, c2}
    NoCall = NoCall
    Auth = 10
    Cli = 20
    Run = 25
    Handler = 28
    Client = 30
    Stop = 1
    Removal = 5
    Attempts = 3
SPECIFICATION Spec
INVARIANTS OneCodexProcess
PROPERTIES RefusalsAreExcused
