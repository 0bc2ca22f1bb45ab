SPECIFICATION Spec
CONSTANTS
    l1 = l1
    l2 = l2
    t1 = t1
    t2 = t2
    t3 = t3
    Ledgers = {l1, l2}
    Threads = {t1, t2, t3}
    LedgerOf <- MCLedgerOf
    Intents = {"research", "export"}
    Genesis = Genesis
    Cut = "cut"
    Altered = "altered"
    MaxCalls = 3
    MaxTorn = 1
    MaxExits = 1
    MaxAltered = 1
INVARIANTS
    TypeOK
    VerificationIsExact
    AlteringIsNoticed
    TornWriteCostsOneRecord
CHECK_DEADLOCK FALSE
