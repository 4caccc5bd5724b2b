SPECIFICATION Spec
CONSTANTS
    NodeCells = 2
    TinyCells = 1
    SubCells = 2
    Subpages = 2
    SectorCells = 2
    RelocCells = 2
    NameCells = 1
    HeapCells = 4
    CacheBlocks = 1
    MaxNodes = 2
    MaxHuge = 1
    MaxRelocs = 2
    MaxOther = 2
    Format = "MK_OS2_16BIT"
    Sizes = {1, 3, 4}
    Accesses <- MCAccesses
    MaxOwned = 2
    MaxDepth = 9
INVARIANT TypeOK
INVARIANT PlacesExact
INVARIANT SwapListExact
INVARIANT RelocsKept
INVARIANT SpilledBeforeFatal
PROPERTY ActsAsMemory
CHECK_DEADLOCK FALSE
