\* Two workers whose clocks may be a tick apart, over three windows of two ticks.
SPECIFICATION Spec
CONSTANTS
    Worker = {w1, w2}
    WarningAt = 1
    AggressiveAt = 2
    Window = 2
    ProxyEnabled = TRUE
    MaxSkew = 1
    MaxResends = 1
    MaxTime = 4
    MaxCount = 3
SYMMETRY Workers
CHECK_DEADLOCK FALSE
INVARIANTS
    TypeOK
    CountIsComplete
    DirectBudget
    WindowBudget
