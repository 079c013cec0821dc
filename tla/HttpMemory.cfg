\* One process without Redis and with a proxy: its breaker dies with it.
SPECIFICATION Spec
CONSTANTS
    Worker = {w1}
    UseRedis = FALSE
    Threshold = 2
    Cooldown = 2
    Second = 1
    MaxResends = 0
    MaxStreak = 3
    Attempts = 2
    ProxyEnabled = TRUE
    Escapes = TRUE
    MaxCalls = 3
    MaxCount = 7
INVARIANTS
    MemoryAgrees
    ProxiedAreCounted
PROPERTIES
    ImplementsGate
