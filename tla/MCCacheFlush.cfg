SPECIFICATION Spec
CONSTANTS
    Lines = {1, 2}
    NumSets = 1
    NumWays = 1
    Parts = {1, 2}
    Scripts <- FlushScripts
    numReqPerCycle = 1
    latency = 1
    numStage = 1
    numMSHREntry = 1
    writeBufferCapacity = 1
    maxInflightFetch = 1
    maxInflightEviction = 1
    BufCap = 2
    SenderCap = 1
    PortCap = 2
    FlushKinds = {"flush", "shootdown"}
    MaxFlush = 1
    Rejects = {"top", "bottom"}
    ShootdownWhenQuiet = TRUE
INVARIANTS Sound Coherent
PROPERTIES FlushWritesBack EverythingEnds
