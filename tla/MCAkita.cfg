CONSTANTS
    NumPorts = 3
    MaxMsgs = 2
    Traffics <- MCTraffics
    Periods <- MCPeriods
    BufSize = 1
    PortCap = 1
    PerTick = 2
    NumQueues = 2
    Events <- MCEvents
    Roots = {"tickA", "tickB", "tickC"}
    Time <- MCTime
    Secondary = {"conn", "link"}
    Children <- MCChildren
SPECIFICATION SpecOfUnit
INVARIANTS NoMissedWakeup TicksAhead FIFOPerPair OneHolder
PROPERTIES ImplementsEngine Settles
CHECK_DEADLOCK FALSE
