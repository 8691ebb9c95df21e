\* One payment, completed again and again, or given to the older handler under
\* nine configurations; the attempts and the wait just outlast the round.
SPECIFICATION MCSpec
CONSTANTS
    p1 = p1
    Payments = {p1}
    Confirmations = 3
    FirstRound = 1
    Epoch = 2
    FinalWithin = 1
    Attempts = 5
    Outages = 1
    MaxLedger = 6
    MaxTime = 16
    Handlers = {h1}
    Starts = {0, 1, 3}
    Epochs = {1, 2, 3}
    Timeout = 4
    AnswerWithin = 1
    MaxHandlerTime = 9
INVARIANTS
    AttestationInv
    WaitingIsEnough
    PollsItsRound
    OutlastsTheRound
    WaitOutlastsTheRound
