\* Two keys, one of them a modifier, buttons and the wheel; the HID may fail
\* once, and all the threads are fair.
SPECIFICATION FairSpec
CONSTANTS
    shift = shift
    lower = lower
    none = none
    origin = origin
    elsewhere = elsewhere
    Keysyms <- MCKeysyms
    ModifierOf <- MCModifierOf
    NoModifier = none
    UsageOf <- MCUsageOf
    Rollover = 1
    Buttons = {0, 1}
    Wheels = {0, 1}
    Positions <- MCPositions
    Origin = origin
    MaxViewers = 1
    MaxGeneration = 2
    MaxLost = 1
    EarlyStart = FALSE
INVARIANTS GenerationOrder NoLostWakeup EveryTickArrives KeyNeverOvertakes ReleasedWhenUnwatched
PROPERTIES ImplementsOrder FlushReturns MovementIsSent TransitionsAreSent DestructionEnds
