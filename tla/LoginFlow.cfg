SPECIFICATION Spec
CONSTANTS
    None = None
    Hosts = {cloud, server}
    DefaultHost = cloud
    Pastes = {pat}
    MaxFlows = 2
INVARIANTS
    SoundUnlessStrayed
    CancelledSavesNothing
PROPERTIES
    WaitEnds
