SPECIFICATION FairSpec
CONSTANTS
    WireMod = 2
    CtrMod = 2
    MAX_ERRORS = 2
    ClearsInput = TRUE
    Prompt = TRUE
    OneWay = {}
    MaxRequests = 4
    MaxNoise = 1
    MaxGiveUps = 0
    RcvCap = 3
INVARIANT AckedIsAccepted
INVARIANT NumbersAgree
PROPERTY Contract
CHECK_DEADLOCK FALSE
