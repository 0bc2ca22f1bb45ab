SPECIFICATION FairSpec
CHECK_DEADLOCK FALSE
CONSTANTS
    Absent = Absent
    IllTyped = IllTyped
    Genesis = Genesis
    OwnKey = OwnKey
    OtherKey = OtherKey
    HmacKeys = {}
    Keys = {}
    PublicKey = OwnKey
    Scopes = {}
    EnvelopeSettings = {}
    TokenSettings = {}
    CompactActions = {}
    HttpRequests = {}
    CliEnvelopes = {}
    CliTokens = {}
    WireEnvelopes <- MCWireEnvelopes
    WireTokens <- MCWireTokens
    OtherActions <- MCOtherActions
    Requests <- MCRequests
    Policies <- BothPolicies
    Lifetime = 1
    MaxEnvelopes = 2
    MaxTokens = 1
    MaxId = 5
    MaxRevoked = 2
    MaxCount = 2
    LastCall <- MCLastCall
    MaxTime = 3
INVARIANT TargetIsBound
PROPERTIES DenialIsFinal TemporaryAuthorityLapses
