CONSTANTS
    NoFile = NoFile
    Subs = {"audio", "capability"}
    Fds = {1, 2}
    MaxFaults = 1
SPECIFICATION Spec
INVARIANTS CapabilityPersists
CHECK_DEADLOCK FALSE
