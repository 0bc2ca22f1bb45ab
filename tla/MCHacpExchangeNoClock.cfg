SPECIFICATION Spec
CHECK_DEADLOCK FALSE
CONSTANTS
    Absent = Absent
    IllTyped = IllTyped
    Genesis = Genesis
    OwnKey = OwnKey
    OtherKey = OtherKey
    HmacKeys = {}
    Keys = {}
    PublicKey = OwnKey
    Scopes = {}
    EnvelopeSettings = {}
    TokenSettings = {}
    CompactActions = {}
    HttpRequests = {}
    CliEnvelopes = {}
    CliTokens = {}
    WireEnvelopes <- MCWireEnvelopes
    WireTokens = {}
    OtherActions <- MCOtherActions
    Requests <- ResolvedRequests
    Policies <- ClocklessPolicies
    Lifetime = 1
    MaxEnvelopes = 2
    MaxTokens = 1
    MaxId = 5
    MaxRevoked = 0
    MaxCount = 0
    LastCall <- MCLastCall
    MaxTime = 2
INVARIANT ExpiredIsDenied
