SPECIFICATION Spec
CONSTANTS
    NumReqs = 3
    bufferSize = 2
    numReqPerCycle = 2
    PortCap = 2
    EndCap = 1
    NumCtrl = 2
INVARIANTS InOrder ExactlyOnce TableMatchesList NoMissedWakeup
PROPERTIES ImplementsFIFO
CHECK_DEADLOCK FALSE
