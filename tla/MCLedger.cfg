SPECIFICATION Spec
CONSTANTS
    AccountIDs = {1, 2}
    Accounts = {1, 2}
    Keys = {k1, k2}
    Amounts = {1, 2}
    Ops = {"transfer", "deposit", "withdraw"}
    Procs = {p1, p2}
    MaxRequests = 3
    k1 = k1
    k2 = k2
    USD = USD
    NoKey = NoKey
    p1 = p1
    p2 = p2
    Currency <- OneCurrency
    Opening <- OpeningTwo
SYMMETRY ProcsAndKeys
INVARIANTS
    TypeOK NoLostUpdate AuditChain DoubleEntry TransferCovered AnsweredIsRecorded
    NoWaitCycle Reconciled
PROPERTIES ImplementsAtomicLedger
CHECK_DEADLOCK FALSE
