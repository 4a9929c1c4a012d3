SPECIFICATION Spec
CONSTANTS
    AccountIDs = {1}
    Accounts = {1}
    Keys = {g1, g2, g3}
    Amounts = {2}
    GrantOps = {"drawdown"}
    Procs = {p1, p2}
    MaxClock = 0
    MaxRequests = 2
    g1 = g1
    g2 = g2
    g3 = g3
    p1 = p1
    p2 = p2
    NoKey = NoKey
    Currency <- OneCurrency
    Opening <- OpeningOne
    Issued <- TwoGrants
    Terms <- EarlyTerms
SYMMETRY Symmetric
PROPERTIES DrawdownExact
CHECK_DEADLOCK FALSE
