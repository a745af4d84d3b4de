SPECIFICATION FairSpec
CHECK_DEADLOCK FALSE
CONSTANTS
    NoKey = NoKey
    None = None
    Wrap = 4
    LongPress = 2
    RepeatDelay = 2
    RepeatRate = 1
    LongestHold = 2
    UiCap = 2
    Cap = 2
    TextLength = 2
    Profiles = {"mapped", "patterns", "firetv", "text"}
    Used <- McUsed
    Presses <- McPresses
    Trouble <- McTrouble
INVARIANTS
    HoldIsTimed
    MovementHasFinger
    HostAgrees
    PowerSendsOne
PROPERTIES
    ReconnectsIdle
    LongPressStops
    MenuIsStill
