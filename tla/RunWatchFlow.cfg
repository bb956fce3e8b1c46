SPECIFICATION Spec
CONSTANTS
    Second = 2
    PollInterval = 3
    MaxPollInterval = 5
    Timeout = 9
    FailFast = TRUE
    Polls <- MCPolls
    NoPoll <- MCNoPoll
    MaxTime = 12
    MaxLate = 1
    MaxKeys = 2
INVARIANTS
    OneFetchInFlight
    OneLiveClock
    EverySecondShown
    CancellationSticks
PROPERTIES
    PollsPaced
    ImplementsPromise
    Terminates
