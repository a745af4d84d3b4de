SPECIFICATION Spec
CONSTANTS
    p1 = p1
    p2 = p2
    h1 = h1
    Profiles = {p1}
    Hosts = {h1}
    IrkHosts = {}
    NoPeer = NoPeer
    NoProfile = NoProfile
    Legacy = Legacy
    Gates = {"hid"}
    QueueCap = 8
    EvtCap = 2
    Faults = {}
    Starts <- McOneAttempt
PROPERTIES
    PairingWindowKept
CHECK_DEADLOCK FALSE
