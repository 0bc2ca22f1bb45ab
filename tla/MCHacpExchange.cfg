SPECIFICATION BuilderSpec
CHECK_DEADLOCK FALSE
CONSTANTS
    Absent = Absent
    IllTyped = IllTyped
    Genesis = Genesis
    OwnKey = OwnKey
    OtherKey = OtherKey
    HmacKeys = {}
    Keys = {OwnKey}
    PublicKey = OwnKey
    Scopes <- MCScopes
    EnvelopeSettings <- MCEnvelopeSettings
    TokenSettings <- MCTokenSettings
    CompactActions <- MCCompactActions
    HttpRequests <- MCHttpRequests
    CliEnvelopes <- MCCliEnvelopes
    CliTokens <- MCCliTokens
    WireEnvelopes <- MCWireEnvelopes
    WireTokens = {}
    OtherActions <- MCOtherActions
    Requests <- ResolvedRequests
    Policies <- MCPolicies
    Lifetime = 1
    MaxEnvelopes = 2
    MaxTokens = 1
    MaxId = 5
    MaxRevoked = 0
    MaxCount = 0
    LastCall = 0
    MaxTime = 0
INVARIANTS TypeOK AllowedWasSigned
