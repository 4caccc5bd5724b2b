SPECIFICATION FairSpec
CONSTANTS
    t1 = t1
    t2 = t2
    s1 = s1
    d1 = d1
    d2 = d2
    Threads = {t1, t2}
    Streams = {s1, d1, d2}
    Static = {s1}
    None = None
    Handles = {1, 2}
    Programs <- TwoOpeners
    MaxCalls = 1
INVARIANT OneList
CHECK_DEADLOCK FALSE
