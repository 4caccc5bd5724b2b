SPECIFICATION Spec
CONSTANTS
    WireMod = 2
    CtrMod = 2
    MAX_ERRORS = 2
    ClearsInput = FALSE
    Prompt = FALSE
    OneWay = {2}
    MaxRequests = 3
    MaxNoise = 2
    MaxGiveUps = 2
    RcvCap = 3
INVARIANT InOrderOnce
CHECK_DEADLOCK FALSE
