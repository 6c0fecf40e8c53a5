SPECIFICATION FairSpec
CONSTANTS
    Sides = {"left", "right"}
    None = None
    Sizes = {0, 1, 2}
    VertexTime = 2
    ColorTime = 1
    SlowFrame = 2
    MaxEffects = 3
    MaxResizes = 2
INVARIANTS
    OneLoop
    NothingLeaks
    FlakesBlendInTheLight
PROPERTIES
    SpotlightFollows
