\* Nothing out of time, one value of the uninitialised byte.
CONSTANTS
    A = A  B = B
    Master = A
    Slave = B
    Lsa = {1, 2}
    Own <- OwnOne
    Opts = {0}
    MaxHdrs = 1
    MaxReqs = 1
    SeqMod = 3
    Cap = 2
    MaxOdd = 0
SPECIFICATION FairSpec
PROPERTIES
    Converges
CHECK_DEADLOCK FALSE
