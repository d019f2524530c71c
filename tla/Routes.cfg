\* Three next hops of equal cost to stub network 3, and lists of two.
SPECIFICATION SpecRoutes
CONSTANTS
    Router <- Routers
    Network <- Networks
    LsId <- LsIds
    AdvRtr <- AdvRtrs
    Contents <- BodiesOf
    None = None
    NULL = NULL
    r0 = r0
    r1 = r1
    r2 = r2
    n1 = n1
    n2 = n2
    Root = r0
    Ifaces <- RootIfaces
    DR <- DRs
    IfcStates <- StatesOf
    Prefix = {1, 2, 3}
    Host = 10
    MAXPATH = 2
    Infinity = 16777215
INVARIANTS
    LinksMutual
    RoutesFresh
    KernelAgrees
    IfmapMatches
