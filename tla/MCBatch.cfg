SPECIFICATION FairSpec
CONSTANTS
    AccountIDs = {1, 2, 3}
    Accounts = {1, 2}
    Keys = {}
    NoKey = NoKey
    Amounts = {1}
    batchSyncGroup = 2
    Procs = {p1, p2}
    MaxFailures = 1
    MaxLosses = 1
    p1 = p1
    p2 = p2
    Currency <- OneCurrency
    Opening <- OpeningOne
    Batches <- Crossing
INVARIANTS AuditChain TruthfulBeforeFailure CleanOnReturn
PROPERTIES ConnectedBatchReturns
CHECK_DEADLOCK FALSE
