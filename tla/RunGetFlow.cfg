SPECIFICATION Spec
CONSTANTS
    None = None
    r1 = r1
    w1 = w1
    w2 = w2
    j1 = j1
    j2 = j2
    Filters = {f1}
    Runs = {r1}
    Workflows = {w1, w2}
    Jobs = {j1, j2}
    Steps = {s1}
    RunOf <- MCRunOf
    WorkflowOf <- MCWorkflowOf
    LogLength = 2
    MaxEpoch = 3
    MaxOpens = 1
CHECK_DEADLOCK FALSE
INVARIANTS
    NeverStuck
    ShownIsPickedUnlessStrayed
    PagerShowsTheStep
    StreamGoesOn
PROPERTIES
    StaysPut
