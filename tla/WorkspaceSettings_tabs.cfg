\* Two requests of one user at a time; tokens live one and two seconds.
CONSTANTS
    u1 = u1  c1 = c1  c2 = c2  w1 = w1
    Users = {u1}
    Calls = {c1, c2}
    Workers = {w1}
    TicksPerSecond = 2
    AccessLife = 1
    RefreshLife = 2
    MaxTime = 4
    MaxCalls = 4
SPECIFICATION SettingsSpec
SYMMETRY MCSymmetry
\* The clock is bounded: when it stops and nothing is in progress, all is quiet.
CHECK_DEADLOCK FALSE
INVARIANTS ChecksTakeHold EditsMerge
PROPERTIES RevokedOnlyListens NewPairWorks
