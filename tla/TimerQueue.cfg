\* Two timers and two interval timers, one of them started exactly.
CONSTANTS
    a = a
    b = b
    x = x
    y = y
    NULL = NULL
    OneShot = {a, b}
    Interval = {x, y}
    Period <- PeriodDef
    Jitter <- JitterDef
    Exact = {y}
    MaxStep = 2
SPECIFICATION FairSpec
INVARIANTS
    HeapSound
PROPERTIES
    ImplementsAlarms
    Fires
CHECK_DEADLOCK FALSE
