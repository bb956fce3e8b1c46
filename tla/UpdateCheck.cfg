SPECIFICATION Spec
CONSTANTS
    p1 = p1
    p2 = p2
    cli = cli
    ext = ext
    None = None
    Self = cli
    Extensions = {ext}
    Procs = {p1, p2}
    CacheWindow = 2
    NotifyDelay = 1
    FetchTime = 1
    Installed = 0
    MaxTime = 4
    MaxReleases = 2
INVARIANTS
    RecordIsBacked
PROPERTIES
    NoticeIsTimely
    RecordsOnlyAdvance
    FinishReturns
