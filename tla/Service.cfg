\* One viewer; the audio setting changes twice, the core restarts once.
CONSTANTS
    v1 = v1
    Viewers = {v1}
    MaxChanges = 2
    MaxRestarts = 1
    MaxFaults = 1
SPECIFICATION FairSpec
PROPERTIES Served OnlyListenerRemains DroppedForCause AudioFollows SessionsFollow SignalEnds
