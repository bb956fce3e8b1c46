SPECIFICATION Spec
CONSTANTS
    None = None
    std = std
    other = other
    h1 = h1
    h2 = h2
    t1 = t1
    t2 = t2
    dark = dark
    DefaultPath = std
    DefaultHost = h1
    Hosts = {h1, h2}
    Tokens = {t1, t2}
    Prefs = {dark}
    HostOf <- MCHostOf
    Procs = {p1, p2, p3}
    Paths = {std}
    Commands <- CalmCommands
    Stored <- CalmStored
    Rings <- CalmRings
    Faults = {"locked", "absent"}
INVARIANT
    DeviceIDAgreement
PROPERTY
    SavedTokenIsUsed
SYMMETRY Interchangeable
