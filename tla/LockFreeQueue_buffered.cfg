\* One producer, one consumer, with the store buffers of x86.
CONSTANTS
    Producers = {p1}
    Consumers = {c1}
    Builds <- BufferedSPSC
    Capacity = 2
    MaxPushes <- SomePushes
SPECIFICATION QueueSpec
INVARIANT NobodySleepsForGood
CHECK_DEADLOCK FALSE
