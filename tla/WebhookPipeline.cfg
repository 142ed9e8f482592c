\* One event, two slots, two requests: retries, stalls, crashes, redelivery.
SPECIFICATION FairSpec
CONSTANTS
    e1 = e1
    w1 = w1
    w2 = w2
    a1 = a1
    a2 = a2
    Event = {e1}
    Worker = {w1, w2}
    Api = {a1, a2}
    NoEvent = NoEvent
    NoWorker = NoWorker
    JobAttempts = 2
    MAX_ATTEMPTS = 2
    MaxStalled = 1
    MaxFaults = 3
    MaxDuplicates = 1
INVARIANTS
    TypeOK
    ProcessedMeansApplied
    DoneKeyMeansProcessed
    OnceUnlessFaulted
    AckedIsKept
    DlqMeansExhausted
PROPERTIES
    ImplementsDelivery
    ProcessedStays
    EverySettles
CHECK_DEADLOCK FALSE
