SPECIFICATION Spec
CONSTANTS
    Account <- AllAccounts
    Constrained <- AllConstrained
    MaxErrors = 1
    Fundings <- UpToTwoEach
    batchSize = 2
    Goroutines = {1, 2}
    MaxBatches = 2
    nWorkers = 2
    nChains = 2
    nDests = 2
    Target = 3
    Small = 4
    Cash = 2
    topUpEvery = 9
    MaxOps = 8
INVARIANTS VerifyPasses ChainsSettled AnsweredDrawsHappened
PROPERTIES DrawsInPriorityOrder
CHECK_DEADLOCK FALSE
