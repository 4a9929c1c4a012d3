SPECIFICATION Spec
CONSTANTS
    AccountIDs = {1, 2}
    Accounts = {1, 2}
    Keys = {k1}
    Amounts = {1}
    Ops = {"deposit"}
    Procs = {p1, p2}
    MaxRequests = 2
    k1 = k1
    k2 = k2
    USD = USD
    NoKey = NoKey
    p1 = p1
    p2 = p2
    Currency <- OneCurrency
    Opening <- OpeningTwo
INVARIANTS AtMostOncePerKey
CHECK_DEADLOCK FALSE
