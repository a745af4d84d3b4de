SPECIFICATION FairSpec
CONSTANTS
    p1 = p1
    p2 = p2
    h1 = h1
    Profiles = {p1}
    Hosts = {h1}
    IrkHosts = {}
    NoPeer = NoPeer
    NoProfile = NoProfile
    Legacy = Legacy
    Gates = {"hid"}
    QueueCap = 1
    EvtCap = 1
    Faults = {"link_down", "completion"}
    Starts <- McProgress
PROPERTIES
    CloseEnds
    OpenSettles
    SaveResolves
CHECK_DEADLOCK FALSE
