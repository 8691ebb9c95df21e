\* Two orders of one account in batches, or two accounts and two executors.
SPECIFICATION MCSpec
CONSTANTS
    a1 = a1
    a2 = a2
    e1 = e1
    e2 = e2
    Accounts = {a1, a2}
    Vaults = {v1}
    MinInterval = 1
    MaxInterval = 2
    RunsModulus = 3
    Executors = {e1, e2}
    NoExecutor = NoExecutor
    ParamChoices <- MCParams
    MintAmounts = {2}
    Approvals = {0, 3}
    MaxBatch = 2
    MaxRules = 2
    MaxBalance = 4
    MaxTime = 4
INVARIANTS
    EngineInv
    RunsAndSpendBounded
    StatusTellsWhy
    RemainingRunsExact
PROPERTIES
    ClosedIsFinal
    OnlyNamedExecutorPulls
    ImplementsStandingOrder
