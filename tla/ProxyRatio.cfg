\* The claim that no more requests are proxied than counted.
SPECIFICATION Spec
CONSTANTS
    Worker = {w1}
    UseRedis = FALSE
    Threshold = 2
    Cooldown = 2
    Second = 1
    MaxResends = 0
    MaxStreak = 3
    Attempts = 2
    ProxyEnabled = TRUE
    Escapes = TRUE
    MaxCalls = 1
    MaxCount = 3
INVARIANTS
    ProxyRatioAtMostOne
