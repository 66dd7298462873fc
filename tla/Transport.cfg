SPECIFICATION ServedSpec
CONSTANTS
    Senders = {s1}
    SendQueueCapacity = 2
    WireSize = 2
    MaxMessages = 4
    MaxCommands = 2
CHECK_DEADLOCK FALSE
INVARIANTS
    NothingElseLost
    CommandsWhole
    SendsAreNoticed
PROPERTIES
    QuietAfterStop
    KeepsOrder
    StopReturns
    QueueFlushed
