SPECIFICATION Spec
CONSTANTS
    Key = "key"
    Policy = "policy"
    Origins <- MCOrigins
    Contents = {"said"}
    Altered = "altered"
    ClockSteps <- CoarseClock
    MaxParents = 2
    MaxEvents = 4
    MaxForeign = 1
    MaxAltered = 1
INVARIANTS
    TypeOK
    ParentsPrecede
    ChildrenMirrorParents
    AncestorsAreExact
    ExplainIsCausal
    BrokenAreExactlyTheForeign
CHECK_DEADLOCK FALSE
