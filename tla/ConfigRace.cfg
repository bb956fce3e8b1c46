SPECIFICATION Spec
CONSTANTS
    None = None
    std = std
    other = other
    h1 = h1
    h2 = h2
    t1 = t1
    t2 = t2
    dark = dark
    DefaultPath = std
    DefaultHost = h1
    Hosts = {h1, h2}
    Tokens = {t1, t2}
    Prefs = {dark}
    HostOf <- MCHostOf
    Procs = {p1, p2}
    Paths = {std, other}
    Commands <- RaceCommands
    Stored <- RaceStored
    Rings <- RaceRings
    Faults = {"absent", "locked", "timeout", "crash", "torn"}
INVARIANTS
    WritersAlone
    KeyringFiledUnderHost
PROPERTIES
    ImplementsRegister
    KeyringMeansNoPlaintext
    CommandsEnd
