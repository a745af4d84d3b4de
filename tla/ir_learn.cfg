SPECIFICATION FairSpec
CONSTANTS
    Keys = {k1, k2}
    NoKey = NoKey
    NoCode = NoCode
    CmdCap = 2
    EvtCap = 2
    Faults = {"disable", "enable", "receive", "transmit", "save"}
    Limit <- McLimit
INVARIANTS
    KeyGetsItsOwnCode
    BufferStable
    NeverDeaf
    ReceiverAgrees
PROPERTIES
    FreshCapture
    WaitEnds
    ReceiverStops
