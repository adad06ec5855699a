\* Three tabs of two agents and a request.
CONSTANTS
    t1 = t1  t2 = t2  t3 = t3  q1 = q1  u1 = u1  u2 = u2
    Tabs = {t1, t2, t3}
    Requests = {q1}
    UserOf <- MCUserOf
    AtStart <- MCAtStart
    Talkers = {t3}
SPECIFICATION SocketSpec
\* Every tab connects once: in the end all have gone.
CHECK_DEADLOCK FALSE
INVARIANTS LiveAreToldOnce
PROPERTIES MissedWithinRemovals GoneIsRemoved
