SPECIFICATION FairSpec
CONSTANTS
    p1 = p1
    p2 = p2
    p3 = p3
    c1 = c1
    c2 = c2
    c3 = c3
    r1 = r1
    r2 = r2
    r3 = r3
    w1 = w1
    w2 = w2
    Problems <- TheBuffer
    Producers <- TwoProducers
    Consumers <- TwoConsumers
    MaxCapacity = 1
    IntMod = 8
    Readers <- OneReader
    Writers <- OneWriter
    N = 2
    MaxCount = 2
PROPERTIES
    Termination
CHECK_DEADLOCK FALSE
