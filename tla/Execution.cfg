\* An account with two orders, a vault with orders of its own and one without.
SPECIFICATION MCSpec
CONSTANTS
    a1 = a1
    v1 = v1
    v2 = v2
    Self = Self
    Accounts = {a1, v1}
    Vaults = {v1, v2}
    MinInterval = 1
    MaxInterval = 1
    RunsModulus = 4
    ParamChoices <- MCParams
    Approvals = {3}
    Transfers = {1}
    Recipients = {Self}
    Funds <- MCFunds
    MaxBatch = 2
    MaxDepth = 3
    MaxRules = 2
    MaxTime = 2
INVARIANTS
    ExecutionInv
    StoppedTwiceOver
PROPERTIES
    KeepsNothing
    RunsOnceIfDue
    PaysWhatIsDue
