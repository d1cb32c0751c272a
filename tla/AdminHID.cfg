\* Two threads, four posts, three faults of the core, any number of timeouts.
CONSTANTS
    foreground = foreground
    pointer = pointer
    Callers <- MCCallers
    MaxPosts = 4
    MaxFaults = 3
SPECIFICATION FairSpec
INVARIANTS NothingOutstanding LostPerFault
PROPERTIES ImplementsChannel PostReturns
\* The input is destroyed in the end.
CHECK_DEADLOCK FALSE
