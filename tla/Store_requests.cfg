\* Imports that overlap, fail and are repeated while the shop changes; or requests
\* about two orders while the shop moves them on.
CONSTANTS
    r1 = r1  r2 = r2
    Requests = {r1, r2}
    Listing <- MCListing
    PageSize = 2
    Nameless = {"nameless"}
    Malformed = {3}
    Policies = "policies"
    Instagram = "instagram"
    Seasons = {"ramadan"}
    Packs = {"perfumes"}
    OtherSectors = {"toys"}
    FirstSector = "other"
    MaxRequests = 3
    MaxChanges = 1
    MaxDeletes = 1
    Orders = {"1001", "1002"}
    MaxAsked = 3
SPECIFICATION MCSpec
SYMMETRY MCSymmetry
\* Requests are bounded: when they are used up nothing happens.
CHECK_DEADLOCK FALSE
INVARIANTS OneUnlessRaced ZidSyncStores WritesAreTrue
