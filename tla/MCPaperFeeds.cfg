SPECIFICATION Spec
CONSTANTS
    MaxTime = 5
    Skews = {2}
    Drifts <- MCDrifts
    Delays = {0, 2}
    Floor = 1
    Slew = 1
    Window = 2
    Ages = {0}
    StaleTrade = 1
    MaxDrops = 1
    None = None
INVARIANTS
    RefIsTheBook
    ClockSound
    ReplayIsLive
CONSTRAINT
    MCDriftBound
CHECK_DEADLOCK FALSE
