\* The owner pauses for a while.
SPECIFICATION KeeperSpec
CONSTANTS
    a1 = a1
    a2 = a2
    Accounts = {a1}
    Vaults = {v1}
    MinInterval = 1
    MaxInterval = 2
    RunsModulus = 4
    Executors = {e1}
    NoExecutor = NoExecutor
    ParamChoices = {}
    MintAmounts = {1}
    Approvals = {}
    MaxBatch = 2
    MaxRules = 2
    MaxBalance = 3
    MaxTime = 2
    OurExecutor = e1
    PageSize = 1
    MaxBatchSize = 1
    MaxNoopStrikes = 2
    GasPerRule = 70
    GasBatchOverhead = 15
    Configs <- MCPaused
    InnerGas = 60
    GasReserve = 4
INVARIANTS
    TransientNeverQuarantines
