SPECIFICATION Spec
CONSTANTS
    Goroutines = {g1, g2, g3}
    g1 = g1
    g2 = g2
    g3 = g3
    Nobody = Nobody
    BatchSizes = {0, 2, 5}
    concurrency = 4
    FlushAt = 2
    MaxTasks = 3
    Accounts = {1, 2, 3}
    Existing = {0, 1, 2}
    MinAccounts = 2
    PoolSize = 2
    Limit = 2
    Opening = 1
    Amount = 1
    opsPerAccount = 1
    transferCount = 2
    chunkSize = 2
    MaxUntold = 1
    Workers = {1, 2}
    GroupSize = 3
    DrawAmount = 2
    Small = 2
    Cash = 6
    PreFund = 8
    FanOut = 2
    Found = {7, 8}
    Before <- Leftovers
    MaxCalls = 4
    MaxFaults = 2
INVARIANTS
    EachEventOnce SummaryIsComplete BufferBounded AlarmsExplained
    DebitsAccounted CashIsSafetyNet
PROPERTIES DepletedExplained OverdraftExplained 
CHECK_DEADLOCK FALSE
