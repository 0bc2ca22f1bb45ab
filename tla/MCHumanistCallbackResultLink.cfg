SPECIFICATION Spec
CONSTANTS
    None = None
    AuditOperations = {"modify", "write"}
    Tools <- MCTools
    Keywords <- MCKeywords
    Grant <- MCGrant
    BudgetLimit = 20
    Approvals <- MCApprovals
    MaxCalls = 3
    MaxFinishes = 1
    MaxTokens = 1
    MaxResets = 1
    MaxTime = 1
INVARIANT ResultLinkedToOwnCall
CHECK_DEADLOCK FALSE
