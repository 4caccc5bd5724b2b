SPECIFICATION Spec
CONSTANTS
    Platforms = {"NT", "brk"}
    Page = 22
    _amblksiz = 20
    Start = 53
    Top = 95
    Sizes = {3, 10}
    Sbrks = {2}
    MaxBlocks = 2
    MaxOwn = 2
    ShrinkAnytime = FALSE
    SbrkRace = FALSE
    Blocks = 12
    MaxFree = 4
INVARIANT TypeOK
INVARIANT HeapsExact
INVARIANT BoundsHold
INVARIANT RoversLive
PROPERTY ReallocGivesBack
PROPERTY NullMeansFull
PROPERTY BlocksOwn
PROPERTY CallsEnd
PROPERTY GrowthSuffices
CONSTRAINT BreakAsRead
