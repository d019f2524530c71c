\* Three routers of one priority, one crash, two steps out of time.
CONSTANTS
    Rtr = {1, 2, 3}
    Equal = 1
    MaxPri = 1
    Pri <- AllEqual
    MaxDowns = 1
    MaxLate = 2
SPECIFICATION FairSpec
PROPERTIES
    Agreement
    NoPreemption
    BackupTakesOver
CHECK_DEADLOCK FALSE
