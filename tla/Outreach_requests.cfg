SPECIFICATION MCSpec
CONSTANTS
    vip = vip
    troubled = troubled
    Calls = {r1, r2}
    Customers = {vip, troubled}
    Profile <- MCProfile
    Days = {0, 50, 100}
    Thresholds = {45}
    MaxPerRun = 1
    Batch = 1
    Orders = {o1}
    MaxRequests = 3
    MaxRows = 3
    MaxSeconds = 1
    MaxDays = 3
INVARIANTS
    
    FunnelIsQueued
CHECK_DEADLOCK FALSE
