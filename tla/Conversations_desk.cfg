\* Two workers and two agents that race; or one turn and one request at a time.
CONSTANTS
    w1 = w1  w2 = w2  a1 = a1  a2 = a2  NoOne = NoOne
    TextsKept = TRUE
    Workers = {w1, w2}
    Agents = {a1, a2}
    AgentOps = {"accept", "resolve", "reply"}
    PatchTo = {"active", "resolved"}
    MaxTurns = 4
    MaxRequests = 4
    RaceTurns = 3
    RaceRequests = 2
SPECIFICATION MCSpec
SYMMETRY MCSymmetry
\* Turns and requests are bounded: when they are used up nothing happens.
CHECK_DEADLOCK FALSE
INVARIANTS CountsNeverAhead WaitingIsQueued QueueAgreesAlone
PROPERTIES DeskAlone
