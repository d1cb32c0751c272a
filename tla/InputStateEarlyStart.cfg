\* The pointer thread may run before the constructor has finished.
SPECIFICATION FairSpec
CONSTANTS
    shift = shift
    lower = lower
    none = none
    origin = origin
    elsewhere = elsewhere
    Keysyms <- MCShift
    ModifierOf <- MCModifierOf
    NoModifier = none
    UsageOf <- MCUsageOf
    Rollover = 1
    Buttons = {0, 1}
    Wheels = {0, 1}
    Positions <- MCPositions
    Origin = origin
    MaxViewers = 1
    MaxGeneration = 2
    MaxLost = 0
    EarlyStart = TRUE
PROPERTY
    TransitionsAreSent
\* The foreground thread stops for good here: that is what the run shows.
CHECK_DEADLOCK FALSE
