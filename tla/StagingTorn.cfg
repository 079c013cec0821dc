\* The claim that what was landed can always be replayed.
SPECIFICATION Spec
CONSTANTS
    Writer = {w1}
    MaxFiles = 2
    MaxRows = 2
INVARIANTS
    AlwaysReplayable
