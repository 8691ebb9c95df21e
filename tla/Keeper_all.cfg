\* Every disturbance at once, dead orders before one that can run with the keeper
\* almost alone, and a registry that grows; pages of one rule, batches of two.
SPECIFICATION FairSpec
CONSTANTS
    a1 = a1
    a2 = a2
    Accounts = {a1, a2}
    Vaults = {v1}
    MinInterval = 1
    MaxInterval = 2
    RunsModulus = 4
    Executors = {e1}
    NoExecutor = NoExecutor
    ParamChoices <- MCChoices
    MintAmounts = {1}
    Approvals = {}
    MaxBatch = 2
    MaxRules = 2
    MaxBalance = 1
    MaxTime = 3
    OurExecutor = e1
    PageSize = 1
    MaxBatchSize = 2
    MaxNoopStrikes = 2
    GasPerRule = 70
    GasBatchOverhead = 15
    Configs <- MCAll
    InnerGas = 60
    GasReserve = 4
INVARIANTS
    KeeperTypeOK
    BatchNoopsBounded
    ScanMissesNothing
PROPERTIES
    DueIsServed
