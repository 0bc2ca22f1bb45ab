SPECIFICATION Spec
CONSTANTS
    Runs = {r1}
    Threads = {t1, t2}
    None = None
    MaxAutoHops = 1
    MaxParallel = 2
    Outputs = {0}
    Plans = {1}
    ClockSteps = {12}
    MaxTools = 2
    MaxPlans = 1
    MaxTime = 0
INVARIANT EveryToolCounts
CHECK_DEADLOCK FALSE
