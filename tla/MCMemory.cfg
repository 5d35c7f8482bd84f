SPECIFICATION Spec
CONSTANTS
    Active = {"allocator", "MMU", "DRAM", "L1V"}
    Kinds = {"default", "interleaved", "hugepagesinterleaved", "pta", "xorpta", "partitioned",
             "partitionedpta", "lasp", "laspnaivept", "lasptpp", "hslaware", "hugelasp",
             "hugehslaware", "buddy"}
    FreeKinds = {"default", "interleaved", "lasp"}
    Pids = {1, 2}
    Counts = {1, 5}
    MaxCalls = 3
    l1 = l1
    l2 = l2
INVARIANTS  WalksEndAtPage ExactlyOnce FreshReads
PROPERTIES Answered
CHECK_DEADLOCK FALSE
