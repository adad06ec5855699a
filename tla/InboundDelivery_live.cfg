\* No faults: an Instagram message and an image, with and without a whatsapp channel.
CONSTANTS
    m1 = m1  m2 = m2  p1 = p1  p2 = p2  p3 = p3  w1 = w1  w2 = w2
    Messages = {m1, m2}
    Voice = {}
    Image = {m2}
    Foreign = {m1}
    Unroutable = {}
    Payloads <- MCPayloads
    Posts = {p1, p2}
    Workers = {w1, w2}
    BatchSize = 2
    ChannelRow = {TRUE, FALSE}
    Faults = {}
SPECIFICATION FairSpec
\* The POSTs are bounded by Posts: when they are used up the system rests.
CHECK_DEADLOCK FALSE
PROPERTIES  BatchesEnd
