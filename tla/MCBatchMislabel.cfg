SPECIFICATION Spec
CONSTANTS
    AccountIDs = {1, 2}
    Accounts = {1}
    Keys = {}
    NoKey = NoKey
    Amounts = {1}
    batchSyncGroup = 2
    Procs = {p1}
    MaxFailures = 1
    MaxLosses = 0
    p1 = p1
    p2 = p2
    Currency <- OneCurrency
    Opening <- OpeningOne
    Batches <- DepositsOfFive
INVARIANTS MislabelledPerFailure
CHECK_DEADLOCK FALSE
