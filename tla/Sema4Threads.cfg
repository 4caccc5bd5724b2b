SPECIFICATION FairSpec
CONSTANTS
    Threads = {t1, t2}
    NoThread = NoThread
    Sems = {1, 2, 3}
    NHeap = 3
    MAX_CRITICAL_SECTION = 3
    MaxCalls = 3
INVARIANT TypeOK
INVARIANT NeverFatal
INVARIANT OwnSection
PROPERTY Exclusive
PROPERTY SectionKept
PROPERTY CallsReturn
CHECK_DEADLOCK FALSE
