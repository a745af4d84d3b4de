SPECIFICATION RemovalSpec
CONSTANTS
    StackMax = 8
    MaxRemotes = 2
    EventMax = 1
    ForgetMax = 1
    Ids = {i1, i2}
    NoId = none
    Starts <- McStarts
SYMMETRY IdSymmetry
PROPERTY
    UnpairKeepsRemote
