\* Two drafts, an order to stop.
SPECIFICATION Spec
CONSTANTS
    Drafts = {d1, d2}
    Orders = {o1}
    None = None
    MaxChain = 1
    MaxPosts = 3
    MaxPresses = 1
CHECK_DEADLOCK FALSE
INVARIANTS
    PaidIsHeld
