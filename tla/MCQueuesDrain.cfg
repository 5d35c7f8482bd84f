SPECIFICATION Spec
CONSTANTS
    h1 = h1
    h2 = h2
    g1 = g1
    g2 = g2
    Hosts = {h1}
    QueueOrder <- OneQueue
    GPUs = {g1}
    Home <- OnFirst
    Rounds <- OneDrain
    Engines = {1, 2}
PROPERTY DrainReturns
CHECK_DEADLOCK FALSE
