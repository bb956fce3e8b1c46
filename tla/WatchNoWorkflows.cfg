SPECIFICATION Spec
CONSTANTS
    Workflows = {build, deploy}
    Outcomes <- MCOutcomes
    BySHA = FALSE
    PollInterval = 1
    MaxPollInterval = 2
    SearchInterval = 2
    ShaWait = 4
    Timeout = 1
    FailFast = FALSE
    ReadTimeout = 1
    MaxTime = 14
INVARIANT TimeoutMeansNotComplete
