\* The promise of the stream: a failed message is tried again.
CONSTANTS
    m1 = m1  m2 = m2  p1 = p1  p2 = p2  p3 = p3  w1 = w1  w2 = w2
    Messages = {m1, m2}
    Voice = {}
    Image = {}
    Foreign = {}
    Unroutable = {}
    Payloads <- MCPayloads
    Posts = {p1}
    Workers = {w1}
    BatchSize = 2
    ChannelRow = {TRUE}
    Faults = {}
SPECIFICATION FairSpec
\* The POSTs are bounded by Posts: when they are used up the system rests.
CHECK_DEADLOCK FALSE
PROPERTIES FailedIsRetried
