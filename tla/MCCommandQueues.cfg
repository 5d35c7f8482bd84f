SPECIFICATION Spec
CONSTANTS
    h1 = h1
    h2 = h2
    g1 = g1
    g2 = g2
    Hosts = {h1, h2}
    QueueOrder <- TwoQueues
    GPUs = {g1, g2}
    Home <- OnBoth
    Rounds <- Concurrently
    Engines = {1, 2}
INVARIANTS RequestsHaveTheirCommand FlagMatchesEngine
CHECK_DEADLOCK FALSE
