\* The core may stop sending sound, so the model may stop as well.
CONSTANTS
    v1 = v1  v2 = v2
    Absent = Absent  Closed = Closed
    Viewers = {v1, v2}
    Rate = 3
    Frequencies = {2, 3, 4}
    Default = 2
    Lengths = {1, 2}
    MaxQueued = 2
    MaxDeferred = 8
    MaxPackets = 4
SPECIFICATION Spec
SYMMETRY Symmetry
INVARIANTS TypeOK StreamUnderstood NothingSkipped NoDrift OnlySlowViewersCut
