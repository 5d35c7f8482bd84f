CONSTANT Active = {"RTU", "RDMA", "switch"}
CONSTANTS
    Chiplets = {1, 2}
    Accesses = {1, 2, 3}
    Src <- TwoSrc
    Home <- TwoHome
    Via <- TwoVia
    PortCap = 1
    EndCap = 1
    MaxDrains = 1
SPECIFICATION UnitSpec
INVARIANTS ExactlyOnce  InOrderOnce
PROPERTIES Answered
CHECK_DEADLOCK FALSE
