\* A cancel built from a snapshot that executions have since overtaken.
SPECIFICATION InstrSpec
CONSTANTS
    Accounts = {a1}
    Vaults = {v1}
    MinInterval = 1
    MaxInterval = 2
    RunsModulus = 4
    Executors = {e1}
    NoExecutor = NoExecutor
    ParamChoices <- MCOneTwo
    MintAmounts = {}
    Approvals = {}
    MaxBatch = 1
    MaxRules = 2
    MaxBalance = 4
    MaxTime = 4
    Clients = {"cli"}
    OurExecutor = e1
    FixedMints = {}
    None = None
    MaxPayments <- MCThree
PROPERTIES
    CancelOnlyTightens
