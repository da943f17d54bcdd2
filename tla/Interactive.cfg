SPECIFICATION InteractiveSpec

CONSTANTS
    s1 = s1
    s2 = s2
    Subscribers <- TwoSubscribers
    MaxSubscribers = 2
    MaxBytes = 3
    MaxChunks = 2
    MaxRead = 2
    MaxOutput = 4
    MaxWritten <- OneTalks
    ChannelCapacity = 1
    Batch = 2

INVARIANTS QueuesSound HandlersSound CallsAreWhole
PROPERTIES TranscriptFinal ImplementsFeed NobodyWaits
CHECK_DEADLOCK FALSE
