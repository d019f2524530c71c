\* Twelve keys, the least for which a removal shifts twice on its way up.
CONSTANTS
    AllOnes = 11
    Twice = {2}
    MaxWatched = 3
    NULL = NULL
SPECIFICATION Spec
INVARIANTS
    TableSound
PROPERTIES
    NextIsSuccessor
