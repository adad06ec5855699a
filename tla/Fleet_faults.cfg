\* Two workers, two streams, every fault; a silent worker is pruned after two ticks.
CONSTANTS
    Workers = {1, 2}
    Streams = {1, 2}
    BatchSize = 2
    BeatEvery = 0
    DiscoverEvery = 1
    Cutoff = 2
    Faults = {"die", "message", "redis"}
    MaxEntries = 1
SPECIFICATION Spec
\* Time never stops.
INVARIANTS ClassifiedOnce NoneForgotten OneWorkerPerStream
PROPERTIES PublishedIsTaken
