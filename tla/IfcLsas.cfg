\* A router with two neighbours; its id is between theirs.
CONSTANTS
    Rtr = {1, 2, 3}
    Me = 2
    MaxPri = 2
    MaxFull = 3
    None = None
SPECIFICATION Spec
INVARIANTS
    LsasFresh
    OnlyWantedFull
    DrNeighbourAlive
    ElectionIsRfc
