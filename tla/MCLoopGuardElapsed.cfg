SPECIFICATION Spec
CONSTANTS
    Runs = {r1}
    Threads = {t1, t2}
    None = None
    MaxAutoHops = 1
    MaxParallel = 1
    Outputs = {0}
    Plans = {1}
    ClockSteps = {12}
    MaxTools = 1
    MaxPlans = 2
    MaxTime = 12
INVARIANT TimeIsNoJudge
CHECK_DEADLOCK FALSE
