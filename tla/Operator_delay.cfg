\* The mint is rate limited.
SPECIFICATION Spec
CONSTANTS
    p1 = p1
    h1 = h1
    Payments = {p1}
    Hashes = {h1}
    Ours = {h1}
    Commits <- MCCommits
    None = None
    NonceOf <- MCNonce
    OrphanTTL = 1
    OrphanMax = 1
    MaxClock = 0
    MaxRestarts = 0
    Disturbances = {"delay"}
INVARIANTS
    CompletedIsExecuted
