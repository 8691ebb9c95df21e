\* The operator alone: two payments for one instruction, one for the next; room
\* for one held payment.  And with the page: two calls, one or two presses.
SPECIFICATION MCSpec
CONSTANTS
    p1 = p1
    p2 = p2
    p3 = p3
    draft1 = draft1
    order1 = order1
    None = None
    Payments = {p1, p2, p3}
    Hashes <- MCHashes
    Ours <- MCHashes
    Commits <- MCCommits
    NonceOf <- MCNonce
    OrphanTTL = 1
    OrphanMax = 1
    MaxClock = 2
    MaxRestarts = 2
    Disturbances = {"restart", "torn", "disconnect", "faults", "delay", "byhand"}
    Drafts = {draft1}
    Orders = {order1}
    MaxChain = 1
    MaxPosts = 2
    MaxPresses = 1
    PaymentOf <- MCPaymentOf
INVARIANTS
    OperatorTypeOK
    NothingLeftBeside
    SubmittedOnce
PROPERTIES
    HeldUntilDue
    KnownIsCarriedThrough
    ImplementsPage
    VouchedIsBegun
