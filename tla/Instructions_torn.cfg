\* The web page pays with the new nonce and the old rules.
SPECIFICATION InstrSpec
CONSTANTS
    Accounts = {a1}
    Vaults = {v1}
    MinInterval = 1
    MaxInterval = 2
    RunsModulus = 4
    Executors = {e1}
    NoExecutor = NoExecutor
    ParamChoices <- MCOne
    MintAmounts = {}
    Approvals = {}
    MaxBatch = 1
    MaxRules = 2
    MaxBalance = 4
    MaxTime = 4
    Clients = {"web"}
    OurExecutor = e1
    FixedMints = {}
    None = None
    MaxPayments <- MCThree
INVARIANTS
    AllowanceCoversCommitment
