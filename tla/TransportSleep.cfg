SPECIFICATION Spec
CONSTANTS
    Senders = {s1}
    SendQueueCapacity = 1
    WireSize = 1
    MaxMessages = 1
    MaxCommands = 0
CHECK_DEADLOCK FALSE
INVARIANT
    SleepIsInterrupted
