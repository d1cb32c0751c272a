\* The newest of two frames is published while the older one is being taken.
CONSTANTS
    v1 = v1  v2 = v2
    SlotCount = 2
    Viewers = {v1}
    Validity = {TRUE}
    MaxFrames = 2
SPECIFICATION FairSpec
PROPERTY NewestArrives
CHECK_DEADLOCK FALSE
