SPECIFICATION FairSpec
CONSTANTS
    None = None
    AuditOperations = {"modify", "write"}
    Actors = {"alice", "bob"}
    Grants <- MCGrants
    Ttls <- MCTtls
    Approvals <- MCApprovals
    ProposedActions <- MCActions
    HumanHorizon = 2
    MaxTime = 5
    MaxEnvelopes = 2
    MaxTokens = 2
INVARIANT TypeOK
PROPERTIES
    AuthorityMovesForAReason
    ImplementsBoundedAuthority
    TimeBoundedAuthorityLapses
CHECK_DEADLOCK FALSE
