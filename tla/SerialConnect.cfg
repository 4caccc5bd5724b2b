SPECIFICATION FairSpec
CONSTANTS
    MIN_BAUD = 5
    LOW_BAUD = 4
    TestTicks <- MCTestTicks
    StringTicks <- MCStringTicks
    MAX_BAUD_SET_TICKS = 6
    SYNC_SLOP = 2
    SYNC_TIME_OUT = 10
    Second = 18
    MaxBauds = {0, 3, 5}
    Carries <- MCCarries
    MaxLate = 2
    MaxNoise = 2
INVARIANT TypeOK
INVARIANT ServerLast
INVARIANT OnTime
INVARIANT InStep
INVARIANT HighestSpeed
PROPERTY ConnectEnds
CHECK_DEADLOCK FALSE
