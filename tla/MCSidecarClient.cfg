SPECIFICATION ClientSpec
CHECK_DEADLOCK FALSE
CONSTANTS
    Absent = Absent
    IllTyped = IllTyped
    Genesis = Genesis
    OwnKey = OwnKey
    Headers = Headers
    HmacKeys = {}
    Keys = {}
    PublicKey = OwnKey
    Scopes = {}
    EnvelopeSettings = {}
    TokenSettings = {}
    CompactActions = {}
    HttpRequests = {}
    CliEnvelopes = {}
    CliTokens = {}
    WireEnvelopes <- MCWireEnvelopes
    WireTokens <- MCWireTokens
    OtherActions = {}
    Requests = {}
    Policies <- MCPolicies
    Lifetime = 1
    MaxEnvelopes = 0
    MaxTokens = 0
    MaxId = 0
    MaxRevoked = 0
    MaxCount = 1
    LastCall <- MCLastCall
    MaxTime = 0
    Dictionaries = {Headers}
    Calls <- MCCalls
    MaxRequests = 3
INVARIANTS
    ClientTypeOK
    FailsClosed
    DefiniteErrorsAreDenials
    TokensAreSpentWhereGiven
    RetriesTellWhatHappened
