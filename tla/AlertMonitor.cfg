\* Two threads that log, one that crashes and the drain thread, over a queue of
\* two; the drain thread and the crashing one dispatch at once.
SPECIFICATION FairSpec
CONSTANTS
    Drain = d
    Threads = {d, t}
    Callers = {c1, c2}
    Keys = {k1, k2}
    Channels = 2
    Cooldown = 1
    MaxPerHour = 2
    Hour = 2
    Epoch = 1
    MaxTime = 2
    MaxCalls = 4
    QueueSize = 2
    MaxEmits = 3
    MaxCrashes = 1
INVARIANTS TypeOK HourlyCap CooldownKept AlertsAccounted
PROPERTIES DrainProceeds
CHECK_DEADLOCK FALSE
