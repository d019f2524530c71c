\* An own and a foreign LSA and one neighbour, with every sequence number up to
\* the last and an environment that may settle.
CONSTANTS
    Rtr = {rtr}
    Net = {}
    Foreign = {f}
    Nbr = {n1}
    RcvAges = {0, 5}
    Bodies = {b1}
    Nothing = Nothing
    InitLSSeq = 1
    MaxLSSeq = 2
    MinLSInterval = 1
    LSRefreshTime = 2
    MaxAgeDiff = 2
    MaxAge = 5
    MinArrival = 1
SPECIFICATION FairSpec
INVARIANTS
    TypeOK
    NoChangeLost
    RefreshedInTime
PROPERTIES
    NeverOlder
    FlushedLeaves
CHECK_DEADLOCK FALSE
