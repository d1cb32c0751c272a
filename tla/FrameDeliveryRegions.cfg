\* A viewer that asks for one half of the screen after the other, while the
\* picture stays as it is.
CONSTANTS
    v1 = v1  v2 = v2  t1 = t1  t2 = t2
    light = light  dark = dark  small = small  large = large
    Empty = Empty  Garbage = Garbage  Blank = Blank
    NoFrame = NoFrame  Absent = Absent
    Viewers = {v1}
    Resizable = {v1}
    Continuous = {}
    Direct <- MCSingle
    Switching = {}
    Tiles <- MCTiles
    Colors <- MCColors
    Sizes = {small}
    Regions <- MCHalves
    Incremental = {TRUE}
    Validity = {TRUE}
    Chunks = 2
    MaxFrames = 2
SPECIFICATION FairSpec
PROPERTY RequestsAnswered
