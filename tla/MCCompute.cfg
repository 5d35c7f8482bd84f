SPECIFICATION SpecOfUnit
CONSTANTS
  wavefrontSize = 4
  numSIMD = 2
  wfPoolSize = 2
  sregUnits = 5
  vregUnits = 3
  ldsUnits = 4
  sregGranularity = 2
  vregGranularity = 2
  ldsGranularity = 2
  Launches <- TwoHalves
  numDispatchers = 2
  NumCU = 2
  numChiplets = 2
  Algs = {"round-robin", "greedy", "old-chiplet-aware", "chiplet-aware",
          "lasp-Xdiv", "lasp-Ydiv", "lasp-Xblk", "lasp-Yblk"}
  Timing = FALSE
  Latency = 0
  Overhead = 1
  PortCap = 1
  Active = {"dispatchers", "CU"}
  Programs <- AllPrograms
  BarrierSize = 2
  NumFlush = 2
INVARIANTS ResourcesMatch  
 
CHECK_DEADLOCK FALSE
