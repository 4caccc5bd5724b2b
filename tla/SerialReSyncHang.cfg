SPECIFICATION FairSpec
CONSTANTS
    MIN_BAUD = 4
    LOW_BAUD = 3
    TestTicks <- MCTestTicks
    StringTicks <- MCStringTicks
    MAX_BAUD_SET_TICKS = 6
    SYNC_SLOP = 2
    SYNC_TIME_OUT = 10
    Second = 18
    MaxBauds = {0, 4}
    Carries <- MCCarries
    MaxLate = 2
    MaxNoise = 1
PROPERTY ReSyncReturns
CHECK_DEADLOCK FALSE
