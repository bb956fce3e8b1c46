SPECIFICATION Spec
CONSTANTS
    p1 = p1
    p2 = p2
    testsuite = testsuite
    None = None
    Torn = Torn
    Procs = {p1, p2}
    Extensions = {testsuite}
    Official = {testsuite}
    Parts <- Sizes
INVARIANTS
    RunsWhatItSays
    StartsUnlessStirred
