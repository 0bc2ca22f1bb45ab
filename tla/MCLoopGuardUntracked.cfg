SPECIFICATION Spec
CONSTANTS
    Runs = {r1, r2}
    Threads = {t1}
    None = None
    MaxAutoHops = 1
    MaxParallel = 1
    Outputs = {0}
    Plans = {1}
    ClockSteps = {12}
    MaxTools = 1
    MaxPlans = 1
    MaxTime = 12
INVARIANT WholeChainIsTimed
CHECK_DEADLOCK FALSE
