SPECIFICATION FairSpec
CONSTANTS
    Producers = {p1, p2}
    Consumers = {c1, c2, c3}
    Capacity = 2
    MaxOffered = 4
INVARIANTS
    Fifo
    EvictionsReported
    OnlyStaleEvicted
    NoLostWakeup
PROPERTIES
    SleepersAreServed
