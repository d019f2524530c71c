\* Three objects, ages up to 2.
CONSTANTS
    Lsa = {x1, x2, x3}
    MaxAge = 2
    DoNotAge = 9
    NoLsa = NoLsa
SPECIFICATION Spec
INVARIANTS
    LinksSound
    NoneMissed
PROPERTIES
    ImplementsAges
