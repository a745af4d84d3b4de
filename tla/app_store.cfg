SPECIFICATION Spec
CONSTANTS
    MaxRemotes = 3
    KeyCount = 3
    ModeKey = 2
    Codes = {"c1", "c2", "c3"}
    Texts = {"t"}
    LegacyMax = 3
    Starts <- McStarts
    Recorded = {"c1"}
INVARIANTS
    TypeOK
    RamIsDurable
    ReadersSeeWhole
    MigrationComplete
PROPERTIES
    StoreKeptReadable
    CallsAreAtomic
