\* Two webhooks and every fault; or one webhook and repeated callbacks.
CONSTANTS
    w1 = w1  w2 = w2  h1 = h1  h2 = h2
    Workers = {w1, w2}
    Handlers = {h1, h2}
    MaxAttempts = 2
    Sources = {TRUE, FALSE}
    Deliveries = {0, 1, 2}
    Faults = TRUE
    PushFaults = TRUE
    MaxTriggers = 2
    MaxCalls = 4
    RepeatedCalls = 3
SPECIFICATION MCSpec
\* Webhooks are bounded: when all chains have ended nothing happens.
CHECK_DEADLOCK FALSE
INVARIANTS NextStepIsQueued
PROPERTIES CallsInChain AnswerStays ChainsEndRepeated
