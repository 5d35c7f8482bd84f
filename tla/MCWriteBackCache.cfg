SPECIFICATION Spec
CONSTANTS
    Lines = {1, 2, 3, 4}
    NumSets = 3
    NumWays = 1
    Parts = {1, 2}
    Scripts <- AllScripts
    numReqPerCycle = 2
    latency = 1
    numStage = 1
    numMSHREntry = 2
    writeBufferCapacity = 1
    maxInflightFetch = 2
    maxInflightEviction = 1
    BufCap = 4
    SenderCap = 1
    PortCap = 2
    FlushKinds = {"flush"}
    MaxFlush = 0
    Rejects = {}
    ShootdownWhenQuiet = TRUE
INVARIANTS Sound Coherent

