SPECIFICATION FairSpec
CONSTANTS
    Pages <- HeroPages
    Duration <- HeroDurations
    Opening = "opening"
    ShrinkTime = 1
    GapTime = 0
    TrackTime = 1
    RestoreTime = 0
    Timeline = 3
    Versions = 4
    None = None
INVARIANTS
    MovesWhileAnimated
    StrokeShowsTheTimeLeft
    PausedOnlyWhenWanted
PROPERTIES
    KeepsPaging
