CONSTANTS
    NoFile = NoFile
    Subs = {"media", "capability"}
    Fds = {1, 2}
    MaxFaults = 2
SPECIFICATION FairSpec
INVARIANTS PublishedIsOpen NothingRetained
PROPERTIES StopReturns Resubscribed
\* The service ends when its subscriptions have been stopped.
CHECK_DEADLOCK FALSE
