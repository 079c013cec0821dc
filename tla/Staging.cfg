\* Two ingest workers that write up to three files, under a replay.
SPECIFICATION Spec
CONSTANTS
    Writer = {w1, w2}
    MaxFiles = 3
    MaxRows = 2
SYMMETRY Writers
INVARIANTS
    TypeOK
    AckedIsReplayed
    ReplayInOrder
PROPERTIES
    RaisesOnlyTorn
    RawIsImmutable
