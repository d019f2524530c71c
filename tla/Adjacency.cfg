\* Two neighbours on one link compete for one slot of each kind.
CONSTANTS
    n1 = n1  n2 = n2  n3 = n3  eth0 = eth0
    Nbr = {n1, n2}
    Ifc = {eth0}
    ifcOf <- OneLink
    MaxDDs = 1
    Self = Self
    NoAddr = NoAddr
SPECIFICATION FairSpec
INVARIANTS
    TypeOK
    SlotsCounted
    QueueSound
    WantedIsQueued
    StatesGuarded
    NoDanglingCall
PROPERTIES
    EvalRaisesNothing
    HandlersTerminate
    PendingServed
