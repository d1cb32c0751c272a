\* Requests that ask for changes only, so that no viewer's forced update
\* takes the frame rate of another; one takes pixels, the other JPEG.
CONSTANTS
    v1 = v1  v2 = v2  t1 = t1  t2 = t2
    light = light  dark = dark  small = small  large = large
    Empty = Empty  Garbage = Garbage  Blank = Blank
    NoFrame = NoFrame  Absent = Absent
    Viewers = {v1, v2}
    Resizable = {v1}
    Continuous = {}
    Direct <- MCApart
    Switching = {}
    Tiles = {t1}
    Colors <- MCColors
    Sizes = {small, large}
    Regions = {{t1}}
    Incremental = {TRUE}
    Validity = {TRUE}
    Chunks = 1
    MaxFrames = 3
SPECIFICATION FairSpec
PROPERTIES RequestsAnswered ResizeEnds
