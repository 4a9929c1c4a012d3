SPECIFICATION FairSpec
CONSTANTS
    AccountIDs = {1, 2, 3}
    Accounts = {1, 2}
    Keys = {}
    NoKey = NoKey
    Amounts = {1}
    batchSyncGroup = 2
    Procs = {p1}
    MaxFailures = 0
    MaxLosses = 1
    p1 = p1
    p2 = p2
    Currency <- OneCurrency
    Opening <- OpeningOne
    Batches <- Crossing
PROPERTIES EveryBatchReturns
CHECK_DEADLOCK FALSE
