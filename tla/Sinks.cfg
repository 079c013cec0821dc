\* Two transform workers, three runs over up to three records of four entities.
SPECIFICATION Spec
CONSTANTS
    a = a
    sep = sep
    None = None
    Char <- Chars
    Sep = sep
    Word <- NoneWord
    Worker = {w1, w2}
    Entity <- Entities
    MaxRecords = 3
    MaxRuns = 3
SYMMETRY Workers
INVARIANTS
    AckedIsStored
    ReplayIsIdempotent
    NothingFolded
    FinishedIsNewest
CHECK_DEADLOCK FALSE
