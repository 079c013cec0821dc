\* Any stream of up to 4 bytes told apart, under timeouts of half a second.
SPECIFICATION FairSpec
CONSTANTS
    Timeout = 1
    Second = 2
    MaxBytes = 4
INVARIANTS
    BreakerHearsAnswers
    StopsAtOnce
    PartialIsExplained
PROPERTIES
    StreamEnds
CHECK_DEADLOCK FALSE
