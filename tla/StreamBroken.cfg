\* The claim that a failed stream raises, whichever the backend.
SPECIFICATION Spec
CONSTANTS
    Timeout = 3
    Second = 2
    MaxBytes = 3
INVARIANTS
    FailureRaises
CHECK_DEADLOCK FALSE
