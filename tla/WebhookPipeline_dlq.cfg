\* processor.ts:29 against onFailed: an exhausted job may reach no queue.
SPECIFICATION Spec
CONSTANTS
    e1 = e1
    w1 = w1
    a1 = a1
    Event = {e1}
    Worker = {w1}
    Api = {a1}
    NoEvent = NoEvent
    NoWorker = NoWorker
    JobAttempts = 2
    MAX_ATTEMPTS = 2
    MaxStalled = 3
    MaxFaults = 3
    MaxDuplicates = 0
INVARIANTS
    FailedReachesDlq
CHECK_DEADLOCK FALSE
