\* Two requests, two runs of the indexer, syncs and every fault; or one of each.
CONSTANTS
    r1 = r1  r2 = r2  i1 = i1  i2 = i2  None = None
    Requests = {r1, r2}
    Indexers = {i1, i2}
    Patches = {"approved"}
    Synced = TRUE
    Blank = {2}
    Faults = TRUE
    MaxEdits = 3
    MaxRuns = 3
    RaceEdits = 2
    RaceRuns = 2
SPECIFICATION MCSpec
\* Edits and runs are bounded, and a deleted document is at its end.
CHECK_DEADLOCK FALSE
SYMMETRY MCSymmetry
INVARIANTS ServedFromStored ReviewedAlone
PROPERTIES LifeAlone
