SPECIFICATION Spec
CONSTANTS
    None = None
    AuditOperations = {"modify", "write"}
    Actors = {"alice", "bob"}
    Grants <- MCGrants
    Ttls <- MCTtls
    Approvals <- MCApprovals
    ProposedActions <- MCActions
    HumanHorizon = 2
    MaxTime = 5
    MaxEnvelopes = 2
    MaxTokens = 2
INVARIANT FreshTokenHonoured
CHECK_DEADLOCK FALSE
