\* Two workers of one source on one Redis, retrying once, under fairness; the cooldown
\* of half a second is a halt of one second.
SPECIFICATION FairSpec
CONSTANTS
    Worker = {w1, w2}
    UseRedis = TRUE
    Threshold = 2
    Cooldown = 1
    Second = 2
    MaxResends = 1
    MaxStreak = 3
    Attempts = 2
    ProxyEnabled = FALSE
    Escapes = FALSE
    MaxCalls = 1
    MaxCount = 3
INVARIANTS
    TypeOK
    OwedHalt
    StreakIsConsecutive
    AssertionHolds
    RefusalIsReported
    OverrunBounded
    NoUnseenAttempt
PROPERTIES
    NoEarlyCancel
    TripIsEarned
    ImplementsGate
    HaltLifts
    CallReturns
