\* Two routers with an LSA each and one that may be learned elsewhere; once the
\* byte of a DD differs from that of the others, or a timer expires too early,
\* or a packet arrives twice.
CONSTANTS
    A = A  B = B
    Master = A
    Slave = B
    Lsa = {1, 2, 3}
    Own <- OwnOne
    Opts = {0, 1}
    MaxHdrs = 1
    MaxReqs = 1
    SeqMod = 3
    Cap = 2
    MaxOdd = 1
SPECIFICATION Spec
INVARIANTS
    Driven
    RequestsMissing
    Synchronized
CHECK_DEADLOCK FALSE
