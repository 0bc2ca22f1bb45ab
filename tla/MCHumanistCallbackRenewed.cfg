SPECIFICATION Spec
CONSTANTS
    None = None
    AuditOperations = {"modify", "write"}
    Tools <- MCTools
    Keywords <- MCKeywords
    Grant <- MCGrant
    BudgetLimit = 20
    Approvals <- MCLastingApprovals
    MaxCalls = 3
    MaxFinishes = 1
    MaxTokens = 1
    MaxResets = 1
    MaxTime = 2
INVARIANT RenewedAuthorityCrosses
CHECK_DEADLOCK FALSE
