SPECIFICATION Spec
CONSTANTS
    Runs = {r1, r2, r3}
    Threads = {t1, t2}
    None = None
    MaxAutoHops = 1
    MaxParallel = 2
    Outputs = {5}
    Plans = {1}
    ClockSteps = {12}
    MaxTools = 4
    MaxPlans = 1
    MaxTime = 12
SYMMETRY GuardSymmetry
INVARIANTS
    TypeOK
    AutonomyIsBounded
    StopsAreDeserved
CHECK_DEADLOCK FALSE
