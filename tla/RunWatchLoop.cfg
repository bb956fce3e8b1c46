SPECIFICATION Spec
CONSTANTS
    Workflows = {build, deploy}
    Outcomes <- MCOutcomes
    BySHA = TRUE
    PollInterval = 1
    MaxPollInterval = 2
    SearchInterval = 1
    ShaWait = 1
    Timeout = 1
    FailFast = TRUE
    ReadTimeout = 1
    MaxTime = 13
INVARIANTS SuccessIsTrue TimeoutIsDue NotFoundIsLate
PROPERTIES ImplementsPromise Terminates
