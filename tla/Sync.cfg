SPECIFICATION FairSpec
CONSTANTS
    p1 = p1
    p2 = p2
    p3 = p3
    c1 = c1
    c2 = c2
    c3 = c3
    r1 = r1
    r2 = r2
    r3 = r3
    w1 = w1
    w2 = w2
    Problems <- AllProblems
    Producers <- ThreeProducers
    Consumers <- ThreeConsumers
    MaxCapacity = 2
    IntMod = 32
    Readers <- ThreeReaders
    Writers <- TwoWriters
    N = 5
    MaxCount = 2
INVARIANTS
    RingConsistent
    BufferWakeups
    Exclusion
    ReaderWriterWakeups
    NeighboursExclude
    NoCircularWait
    SleepOnlyWhenFull
PROPERTIES
    BoundedFifo
    WriterPriority
    Termination
