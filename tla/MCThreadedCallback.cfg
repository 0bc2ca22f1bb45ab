SPECIFICATION ThreadedSpec
CONSTANTS
    None = None
    AuditOperations = {"modify", "write"}
    Tools <- MCTools
    Keywords <- MCKeywords
    Grant <- MCGrant
    BudgetLimit = 26
    Approvals <- MCApprovals
    MaxCalls = 3
    MaxFinishes = 0
    MaxTokens = 1
    MaxResets = 1
    MaxTime = 0
    t1 = t1
    t2 = t2
    Threads <- MCThreads
SYMMETRY ThreadSymmetry
INVARIANTS
    ThreadedTypeOK
    KindsBoundedByThreads
    BudgetNeverOvercharges
    GraphTellsStops
    SerialStartsAreExact
CHECK_DEADLOCK FALSE
