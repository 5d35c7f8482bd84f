SPECIFICATION Spec
CONSTANTS
    Lines = {1, 2}
    NumSets = 1
    NumWays = 1
    Parts = {1, 2}
    Scripts <- TwiceEvicted
    numReqPerCycle = 1
    latency = 1
    numStage = 1
    numMSHREntry = 1
    writeBufferCapacity = 2
    maxInflightFetch = 1
    maxInflightEviction = 2
    BufCap = 2
    SenderCap = 1
    PortCap = 2
    FlushKinds = {"flush"}
    MaxFlush = 0
    Rejects = {}
    ShootdownWhenQuiet = TRUE
INVARIANTS ReadsNeverGoBack
