SPECIFICATION FairDurableSpec
CONSTANTS
    AccountIDs = {1, 2, 3, 4}
    Accounts = {1, 2, 3}
    Keys = {k1}
    Amounts <- SignedAmounts
    Ops = {"transfer", "deposit", "withdraw"}
    Procs = {p1, p2}
    MaxRequests = 2
    MaxCrashes = 1
    k1 = k1
    USD = USD
    EUR = EUR
    NoKey = NoKey
    p1 = p1
    p2 = p2
    Currency <- TwoCurrencies
    Opening <- OpeningEach
INVARIANTS DoubleEntry
PROPERTIES DurableIsAtomic EveryRequestAnswered
CHECK_DEADLOCK FALSE
