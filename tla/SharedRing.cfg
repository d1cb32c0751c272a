\* Three slots; latest_frame_ and both viewers may hold one each.  The core
\* may stop after any frame, so the model may stop as well.
CONSTANTS
    v1 = v1  v2 = v2
    SlotCount = 3
    Viewers = {v1, v2}
    Validity = {TRUE, FALSE}
    MaxFrames = 4
SPECIFICATION FairSpec
INVARIANTS LeaseIntact NoSlotLost
PROPERTIES ImplementsMailbox FramesAreTaken
CHECK_DEADLOCK FALSE
