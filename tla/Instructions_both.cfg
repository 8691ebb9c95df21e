\* One account, up to two orders; three payments by script, or two from the page.
SPECIFICATION InstrSpec
CONSTANTS
    Accounts = {a1}
    Vaults = {v1}
    MinInterval = 1
    MaxInterval = 2
    RunsModulus = 4
    Executors = {e1}
    NoExecutor = NoExecutor
    ParamChoices <- MCOne
    MintAmounts = {}
    Approvals = {}
    MaxBatch = 1
    MaxRules = 2
    MaxBalance = 4
    MaxTime = 2
    Clients = {"cli", "web"}
    OurExecutor = e1
    FixedMints = {1}
    None = None
    MaxPayments <- MCPayments
INVARIANTS
    InstrTypeOK
    ScriptsStarveNone
    AuthorityBounded
    RebuiltAsksNoMore
    SelectedVaultIsTaken
    WindowsPartition
    QuotesSuffice
    RetryFits
PROPERTIES
    NoBlindLanding
    FundsItself
