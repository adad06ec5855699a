\* An image and a voice note; every fault may happen.
CONSTANTS
    m1 = m1  m2 = m2  p1 = p1  p2 = p2  p3 = p3  w1 = w1  w2 = w2
    Messages = {m1, m2}
    Voice = {m2}
    Image = {m1}
    Foreign = {}
    Unroutable = {}
    Payloads <- MCPayloads
    Posts = {p1, p2}
    Workers = {w1, w2}
    BatchSize = 2
    ChannelRow = {TRUE}
    Faults = {"task", "crash", "turn", "send"}
SPECIFICATION Spec
SYMMETRY MCSymmetry
\* The POSTs are bounded by Posts: when they are used up the system rests.
CHECK_DEADLOCK FALSE
INVARIANTS AckedIsStored HeldOnce OneEntryPerWindow
PROPERTIES LedgerSpec
