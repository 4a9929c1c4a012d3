SPECIFICATION Spec
CONSTANTS
    AccountIDs = {1, 2}
    Accounts = {1}
    Keys = {g1, g2, g3}
    Amounts = {0, 2}
    GrantOps = {"issue", "drawdown", "waterfall", "expire"}
    Procs = {p1, p2}
    MaxClock = 2
    MaxRequests = 3
    g1 = g1
    g2 = g2
    g3 = g3
    p1 = p1
    p2 = p2
    NoKey = NoKey
    Currency <- OneCurrency
    Opening <- OpeningOne
    Issued <- TwoGrants
    Terms <- EarlyTerms
SYMMETRY Symmetric
INVARIANTS
    TypeOK ReadsAreCurrent GrantAudit CyclesExplained
PROPERTIES WaterfallExact GrantsBeforeCash ImplementsAtomicGrants
CHECK_DEADLOCK FALSE
