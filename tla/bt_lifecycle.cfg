SPECIFICATION Spec
CONSTANTS
    p1 = p1
    p2 = p2
    h1 = h1
    Profiles = {p1}
    Hosts = {h1, h2}
    IrkHosts = {h1}
    NoPeer = NoPeer
    NoProfile = NoProfile
    Legacy = Legacy
    Gates = {"hid", "address"}
    QueueCap = 8
    EvtCap = 2
    Faults = {"api", "completion"}
    Starts <- McLifecycle
INVARIANTS
    TypeOK
    LinkNeedsHost
    ViewMatchesLink
    RadioAdmitsSavedPeer
PROPERTIES
    StaleCallbacksRejected
CHECK_DEADLOCK FALSE
