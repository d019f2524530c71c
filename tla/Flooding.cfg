\* Two neighbours, two LSAs with three instances between them.
CONSTANTS
    n1 = n1
    n2 = n2
    Nbr = {n1, n2}
    None = None
    Key = {k1, k2}
    MaxInstances = 3
    PktLsas = 1
    max_retrans_window = 2
SPECIFICATION FairSpec
INVARIANTS
    CountIsRight
    RxmtIsRight
PROPERTIES
    AllAcknowledged
CHECK_DEADLOCK FALSE
