SPECIFICATION Spec
CONSTANTS
    Runs = {r1, r2, r3}
    Threads = {t1}
    None = None
    MaxAutoHops = 1
    MaxParallel = 1
    Outputs = {0}
    Plans = {1}
    ClockSteps = {12}
    MaxTools = 4
    MaxPlans = 1
    MaxTime = 0
INVARIANT HopLimitPerInitiation
CHECK_DEADLOCK FALSE
