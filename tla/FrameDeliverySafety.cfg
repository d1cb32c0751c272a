\* Two viewers: one takes pixels and can be told of a new size; the other
\* changes between pixels and JPEG and cannot.  Two frames of either size
\* follow one another, and some do not decode.
CONSTANTS
    v1 = v1  v2 = v2  t1 = t1  t2 = t2
    light = light  dark = dark  small = small  large = large
    Empty = Empty  Garbage = Garbage  Blank = Blank
    NoFrame = NoFrame  Absent = Absent
    Viewers = {v1, v2}
    Resizable = {v1}
    Continuous = {v2}
    Direct <- MCApart
    Switching = {v2}
    Tiles <- MCTiles
    Colors <- MCColors
    Sizes = {small, large}
    Regions <- MCScreen
    Incremental = {TRUE, FALSE}
    Validity = {TRUE, FALSE}
    Chunks = 2
    MaxFrames = 2
SYMMETRY Symmetry
SPECIFICATION Spec
INVARIANTS NoInterleaving DamageKept ShowsOnlyFrames DecodedIsCurrent
PROPERTY OutputCompleted
