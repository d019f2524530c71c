------------------------------- MODULE Routes -------------------------------
(***************************************************************************)
(* The calculation of the routes from the link graph (ospfCalc.cpp), the      *)
(* lists of next hops it merges (RtrTblEntry.cpp), and what it tells the      *)
(* kernel (system.cpp).                                                      *)
(*                                                                         *)
(* Addresses are integers, Host to a network: Net(a) is what masking a leaves. *)
(* Costs of links from routers are at least 1.  What the kernel knows is the  *)
(* first next hop of each route.                                             *)
(***************************************************************************)
EXTENDS LinkGraph, LeftistHeap, SequencesExt

CONSTANTS
    Root,       \* this router
    Ifaces,     \* its interfaces in the order of the list: [addr, phy, cost]
    DR,         \* DR[i]: the LS ID of the network-LSA of interface i's network
    IfcStates,  \* of all interfaces: "transit" and "stub" as in the LSA, or "down"
    Prefix,     \* the entries of the routing table, networks as integers
    Host, MAXPATH, Infinity

VARIABLES
    ifmap,      \* the interfaces of the links of the own router-LSA
    run,        \* n_dijkstras & 1
    rte,        \* the routing table
    kernel      \* the kernel's routes for networks that are not attached

routes == <<graph, ifmap, run, rte, kernel>>

Net(a) == a \div Host

ASSUME RoutesAssumption ==
    /\ IsFiniteSet(Node) /\ NULL \notin Node /\ Root \in Router
    /\ Host \in Nat \ {0} /\ MAXPATH \in Nat \ {0}
    /\ Ifaces \in Seq([addr : Nat, phy : Nat, cost : Nat])
    /\ \A i, j \in DOMAIN Ifaces :
         Net(Ifaces[i].addr) = Net(Ifaces[j].addr) \/ Ifaces[i].phy = Ifaces[j].phy => i = j

\* A link of a router costs something and, if it is to a network, is from an address
\* there; the links of a network are to routers.
ASSUME ContentsAssumption ==
    \A v \in Node : \A b \in Contents[v] :
      /\ DOMAIN b = 1..Len(b)
      /\ \A i \in DOMAIN b : b[i].cost \in Nat /\ b[i].data \in Nat
      /\ v \in Router => \A i \in DOMAIN b : b[i].type # "STUB" => b[i].cost > 0
      /\ v \in Network => \A i \in DOMAIN b : b[i].type = "PP"
      /\ \A w \in Network : \A i \in LinksTo(b, w) :
           b[i].data > 0 /\ Net(b[i].data) = Net(LsId[w])

Attached == {Net(Ifaces[i].addr) : i \in DOMAIN Ifaces}

NoRoute == [type |-> "NONE", run |-> 0, cost |-> Infinity, path |-> <<>>]

InitRoutes ==
    /\ InitGraph
    /\ ifmap = <<>>
    /\ run = 0
    /\ rte = [p \in Prefix |-> NoRoute]
    /\ kernel = [p \in Prefix \ Attached |-> None]

-----------------------------------------------------------------------------
(* EPath: a sequence of at most MAXPATH next hops.  merge goes by the order of *)
(* addresses and of interfaces at once, and where these differ a list may have *)
(* a next hop twice.                                                         *)

Hop(ifc, gw) == [addr |-> ifc.addr, phy |-> ifc.phy, gw |-> gw]

\* In merge, b goes before a, and: b is not looked at before a is placed.
Precedes(b, a) ==
    \/ a.addr > b.addr
    \/ a.phy > b.phy
    \/ a.phy = b.phy /\ a.gw > b.gw

Waits(b, a) ==
    /\ a.addr <= b.addr
    /\ a.phy < b.phy \/ (a.phy = b.phy /\ a.gw < b.gw)

\* One turn of the loops of merge: the head of one list is placed or, if it is also
\* that of the other, dropped.
Placed(s) ==
    LET Keep(h) == IF Len(s.out) < MAXPATH THEN Append(s.out, h) ELSE s.out
    IN  IF s.p \o s.q = <<>> THEN s
        ELSE IF s.p = <<>> THEN [s EXCEPT !.q = Tail(@), !.out = Keep(s.q[1])]
        ELSE IF s.q = <<>> \/ Waits(s.q[1], s.p[1])
        THEN [s EXCEPT !.p = Tail(@), !.out = Keep(s.p[1])]
        ELSE IF Precedes(s.q[1], s.p[1]) THEN [s EXCEPT !.q = Tail(@), !.out = Keep(s.q[1])]
        ELSE [s EXCEPT !.q = Tail(@)]

merge(p, q) ==
    LET turn[n \in 0..(Len(p) + Len(q))] ==
          IF n = 0 THEN [p |-> p, q |-> q, out |-> <<>>] ELSE Placed(turn[n - 1])
    IN  IF p = <<>> THEN q
        ELSE IF q = <<>> \/ Len(p) = MAXPATH THEN p
        ELSE IF Len(q) = MAXPATH THEN q
        ELSE turn[Len(p) + Len(q)].out

\* Every next hop without a gateway over the network of gw gets it.  None there has
\* a gateway already: the network is attached, and all paths to it begin with it.
addgateway(p, gw) ==
    [i \in DOMAIN p |-> IF Net(p[i].addr) = Net(gw) /\ p[i].gw = 0
                        THEN [p[i] EXCEPT !.gw = gw] ELSE p[i]]

\* The address of W towards V: on the network net if it has one there.
ospf_find_gw(W, V, net) ==
    LET to == {j \in DOMAIN nbr[W] : nbr[W][j] = V}
        on == {j \in to : Net(body[W][j].data) = net}
    IN  IF on # {} THEN body[W][Min(on)].data
        ELSE IF to # {} THEN body[W][Max(to)].data ELSE 0

-----------------------------------------------------------------------------
(* Dijkstra's algorithm.  Its state is a record: the candidates, t_state,      *)
(* cost0, t_epath and t_direct of each node, and the routing table.          *)

\* Mutant: of equal costs a router comes before a network.
CostOfSwapped(v, cost) == <<cost, IF v \in Network THEN 1 ELSE 2>>

\* lsa_type breaks ties: of equal costs a network is first.
CostOf(v, cost) == <<cost, IF v \in Network THEN 2 ELSE 1>>

\* An entry at the start of a run: nothing has changed and no state is saved.
Unmarked(e) ==
    [type |-> e.type, run |-> e.run, cost |-> e.cost, path |-> e.path,
     changed |-> FALSE, old |-> <<>>]

dijk_init ==
    [cand |-> IF parsed[Root] THEN add(Empty, Root, CostOf(Root, 0))
              ELSE Empty,
     state |-> [v \in Node |-> IF v = Root /\ parsed[v] THEN "ONCAND" ELSE "UNINIT"],
     cost |-> [v \in Node |-> 0],
     epath |-> [v \in Node |-> <<>>],
     direct |-> [v \in Node |-> FALSE],
     run |-> 1 - run,
     rte |-> [p \in Prefix |-> Unmarked(rte[p])]]

\* Mutant: the last state is saved at every better path, not at the first.
new_intraResaved(c, p, V, i) ==
    LET e == c.rte[p]
        total == c.cost[V] + (IF i = 0 THEN 0 ELSE body[V][i].cost)
        first == e.type = "SPF" /\ e.run # c.run
        equal == e.type = "SPF" /\ ~first /\ total = e.cost
        hops == IF V = Root THEN <<Hop(ifmap[i], 0)>> ELSE c.epath[V]
    IN  IF e.type = "SPF" /\ ~first /\ total > e.cost THEN c
        ELSE [c EXCEPT !.rte[p] =
                [type |-> "SPF", run |-> c.run, cost |-> total,
                 path |-> IF equal THEN merge(hops, e.path) ELSE hops,
                 changed |-> e.changed \/ e.type # "SPF",
                 old |-> IF e.type = "SPF" THEN <<e.cost, e.path>> ELSE e.old]]

\* A path to p by node V; i is the link of a stub network, 0 for V's own network.
\* The first path of a run replaces what the last run found.
new_intra(c, p, V, i) ==
    LET e == c.rte[p]
        total == c.cost[V] + (IF i = 0 THEN 0 ELSE body[V][i].cost)
        first == e.type = "SPF" /\ e.run # c.run
        equal == e.type = "SPF" /\ ~first /\ total = e.cost
        hops == IF V = Root THEN <<Hop(ifmap[i], 0)>> ELSE c.epath[V]
    IN  IF e.type = "SPF" /\ ~first /\ total > e.cost THEN c
        ELSE [c EXCEPT !.rte[p] =
                [type |-> "SPF", run |-> c.run, cost |-> total,
                 path |-> IF equal THEN merge(hops, e.path) ELSE hops,
                 changed |-> e.changed \/ e.type # "SPF",
                 old |-> IF first THEN <<e.cost, e.path>> ELSE e.old]]

add_next_hop(c, W, V, i) ==
    LET new == IF V = Root
               THEN <<Hop(ifmap[i], IF W \in Network THEN 0
                                    ELSE ospf_find_gw(W, V, Net(ifmap[i].addr)))>>
               ELSE IF c.direct[V] /\ V \in Network
               THEN addgateway(c.epath[V], ospf_find_gw(W, V, Net(LsId[V])))
               ELSE c.epath[V]
    IN  [c EXCEPT !.epath[W] = merge(@, new)]

\* The i-th link of V, which is on the tree, leads to W.
Relax(c, V, i, W) ==
    LET new_cost == c.cost[V] + body[V][i].cost
        waiting == c.state[W] = "ONCAND"
        better == ~waiting \/ new_cost < c.cost[W]
        rest == IF waiting THEN del(c.cand, W) ELSE c.cand
        d == IF better
             THEN [c EXCEPT !.cand = add(rest, W, CostOf(W, new_cost)),
                            !.state[W] = "ONCAND", !.cost[W] = new_cost,
                            !.direct[W] = V = Root, !.epath[W] = <<>>]
             ELSE [c EXCEPT !.direct[W] = @ \/ V = Root]
    IN  IF c.state[W] = "ONTREE" \/ (waiting /\ new_cost > c.cost[W]) THEN c
        ELSE add_next_hop(d, W, V, i)

FollowLink(c, V, i) ==
    IF body[V][i].type = "STUB" THEN new_intra(c, body[V][i].id, V, i)
    ELSE IF nbr[V][i] = None THEN c
    ELSE Relax(c, V, i, nbr[V][i])

FollowLinks(c, V) ==
    LET turn[i \in 0..Len(body[V])] == IF i = 0 THEN c ELSE FollowLink(turn[i - 1], V, i)
    IN  turn[Len(body[V])]

\* The nearest candidate goes on the tree.
Visited(c) ==
    LET V == gethead(c.cand)
        d == [c EXCEPT !.cand = rmhead(@), !.state[V] = "ONTREE"]
        e == IF V \in Network THEN new_intra(d, Net(LsId[V]), V, 0) ELSE d
    IN  IF V = NULL THEN c ELSE FollowLinks(e, V)

\* Each node goes on the tree once at most.
dijkstra(c) ==
    LET turn[n \in 0..Cardinality(Node)] == IF n = 0 THEN c ELSE Visited(turn[n - 1])
    IN  turn[Cardinality(Node)]

-----------------------------------------------------------------------------
(* What rt_scan makes of the entries after a run.                            *)

\* declare_unreachable, of what the run has not reached.  dijk_run of an entry
\* without a route is never read.
Scanned(e, parity) ==
    IF e.type = "SPF" /\ e.run # parity
    THEN [Unmarked(NoRoute) EXCEPT !.changed = TRUE]
    ELSE e

state_changed(e) == e.type = "SPF" /\ e.old # <<e.cost, e.path>>

\* rtadd and rtdel, whose other arguments the kernel does not look at.
sys_install(e) == IF e.type = "SPF" THEN e.path[1] ELSE None

\* After run c, the entries are finished and the kernel is told of the changes.
rt_scan(c) ==
    LET after == [p \in Prefix |-> Scanned(c.rte[p], c.run)]
    IN  /\ run' = c.run
        /\ rte' = [p \in Prefix |->
                    [k \in DOMAIN NoRoute |-> after[p][k]]]
        /\ kernel' = [p \in DOMAIN kernel |->
                    IF after[p].changed \/ state_changed(after[p])
                    THEN sys_install(after[p]) ELSE kernel[p]]

\* The calculation of the routes clears full_sched.
full_calculation == Calculated /\ rt_scan(dijkstra(dijk_init))

-----------------------------------------------------------------------------
(* The own router-LSA.                                                       *)

\* The interfaces that are not down, in their order, and their links.
Up(s) ==
    LET up[n \in 0..Len(Ifaces)] ==
          IF n = 0 THEN <<>> ELSE IF s[n] = "down" THEN up[n - 1] ELSE Append(up[n - 1], n)
    IN  up[Len(Ifaces)]

\* The data is the address, or the mask, for which Host stands.
rl_insert(i, st) ==
    [type |-> IF st = "transit" THEN "TNET" ELSE "STUB",
     id |-> IF st = "transit" THEN DR[i] ELSE Net(Ifaces[i].addr),
     cost |-> Ifaces[i].cost,
     data |-> IF st = "transit" THEN Ifaces[i].addr ELSE Host]

OwnLsa(s) == [k \in DOMAIN Up(s) |-> rl_insert(Up(s)[k], s[Up(s)[k]])]

ASSUME OwnAssumption == \A s \in IfcStates : OwnLsa(s) \in Contents[Root] \cup {<<>>}

\* Mutant: ifmap is rebuilt although the origination has to wait.
rl_origEarly(s, late) ==
    LET b == OwnLsa(s)
    IN  /\ ifmap' = [k \in DOMAIN Up(s) |-> Ifaces[Up(s)[k]]]
        /\ IF late THEN UNCHANGED graph
           ELSE IF b = <<>> THEN
                IF parsed[Root] THEN Expire(Root, body[Root]) ELSE UNCHANGED graph
           ELSE IF parsed[Root] /\ body[Root] = b THEN UNCHANGED graph
           ELSE Install(Root, b)
        /\ UNCHANGED <<run, rte, kernel>>

\* Without an interface that is up the LSA is flushed.  The origination may have
\* to wait, and then nothing is changed.
rl_orig(s, late) ==
    LET b == OwnLsa(s)
    IN  /\ ~late
        /\ ifmap' = [k \in DOMAIN Up(s) |-> Ifaces[Up(s)[k]]]
        /\ IF b = <<>>
           THEN IF parsed[Root] THEN Expire(Root, body[Root]) ELSE UNCHANGED graph
           ELSE IF parsed[Root] /\ body[Root] = b THEN UNCHANGED graph
           ELSE Install(Root, b)
        /\ UNCHANGED <<run, rte, kernel>>

-----------------------------------------------------------------------------
(* The steps.                                                               *)

Originate == \E s \in IfcStates, late \in BOOLEAN : rl_orig(s, late)

Others(v) ==
    /\ Change(v)
    /\ UNCHANGED <<ifmap, run, rte, kernel>>

\* The own router-LSA is refreshed, flushed to start its numbers again, removed.
\* One that a neighbour returns is added with the contents received, but the same
\* handler ends by originating or flushing it, and routes are not calculated
\* meanwhile: it amounts to rl_orig, a refresh or an expiry.
Own ==
    /\ \/ Refresh(Root)
       \/ parsed[Root] /\ Expire(Root, body[Root])
       \/ Delete(Root)
    /\ UNCHANGED <<ifmap, run, rte, kernel>>

\* DBageTimer::action.
Tick == full_sched /\ full_calculation /\ UNCHANGED ifmap

NextRoutes ==
    \/ Originate
    \/ \E v \in Node \ {Root} : Others(v)
    \/ Own
    \/ Tick

SpecRoutes == InitRoutes /\ [][NextRoutes]_routes

-----------------------------------------------------------------------------
(* The reference: all paths from the root, from the contents of the LSAs only. *)

Source == [nodes |-> <<Root>>, cost |-> 0, link |-> 0]

\* Path p with one more node w, once for each link there; link is the first one.
Step(p, w) ==
    LET v == Last(p.nodes)
    IN  {[nodes |-> Append(p.nodes, w), cost |-> p.cost + body[v][i].cost,
          link |-> IF p.link = 0 THEN i ELSE p.link] :
            i \in IF Adjacent(body, parsed, v, w) THEN LinksTo(body[v], w) ELSE {}}

Longer(ps) == ps \cup UNION {UNION {Step(p, w) : w \in Node \ ToSet(p.nodes)} : p \in ps}

\* paths[n]: those of at most n + 1 nodes.
Paths ==
    LET paths[n \in 0..(Cardinality(Node) - 1)] ==
          IF n = 0 THEN {Source} ELSE Longer(paths[n - 1])
    IN  IF parsed[Root] THEN paths[Cardinality(Node) - 1] ELSE {}

\* The interface that link l of the root is about.
IfcOf(l) ==
    CHOOSE ifc \in ToSet(Ifaces) : IF l.type = "STUB" THEN Net(ifc.addr) = l.id
                                   ELSE ifc.addr = l.data

AddressTo(w, v) == body[w][Min(LinksTo(body[w], v))].data

\* The router that a packet on path p is sent to; none on the last network.
Gateway(p) ==
    IF p.nodes[2] \in Router THEN AddressTo(p.nodes[2], Root)
    ELSE IF Len(p.nodes) = 2 THEN 0
    ELSE AddressTo(p.nodes[3], p.nodes[2])

FirstHop(p, i) ==
    IF p = Source THEN Hop(IfcOf(body[Root][i]), 0)
    ELSE Hop(IfcOf(body[Root][p.link]), Gateway(p))

\* What the last node of path p makes reachable.
Offers(p) ==
    LET v == Last(p.nodes)
    IN  {[to |-> body[v][i].id, cost |-> p.cost + body[v][i].cost, hop |-> FirstHop(p, i)] :
            i \in {j \in DOMAIN body[v] : body[v][j].type = "STUB"}}
        \cup (IF v \in Network
              THEN {[to |-> Net(LsId[v]), cost |-> p.cost, hop |-> FirstHop(p, 0)]} ELSE {})

\* All that a next hop can be: an interface, and there nothing or the address by
\* which some other router is on its network.
Addresses ==
    UNION {UNION {{b[i].data : i \in {j \in DOMAIN b : b[j].type = "TNET"}} :
                  b \in Contents[v]} : v \in Router \ {Root}}

NextHops ==
    UNION {{Hop(Ifaces[i], gw) : gw \in {0} \cup {a \in Addresses : Net(a) = Net(Ifaces[i].addr)}} :
           i \in DOMAIN Ifaces}

-----------------------------------------------------------------------------
(* Properties. *)

\* Whenever no calculation is due, each entry has the least cost of all paths
\* that the database offers, only next hops of paths of that cost and, unless its
\* list is full, the next hops of all of them.
RoutesFresh ==
    ~full_sched =>
        LET offers == UNION {Offers(p) : p \in Paths}
        IN  \A p \in Prefix :
              LET here == {o \in offers : o.to = p}
                  least == {o \in here : \A x \in here : o.cost <= x.cost}
                  hops == {o.hop : o \in least}
              IN  IF here = {} THEN rte[p].type = "NONE"
                  ELSE /\ rte[p].type = "SPF" /\ rte[p].path # <<>>
                       /\ \A o \in least : rte[p].cost = o.cost
                       /\ ToSet(rte[p].path) \subseteq hops
                       /\ Len(rte[p].path) <= MAXPATH
                       /\ Len(rte[p].path) = MAXPATH \/ hops \subseteq ToSet(rte[p].path)

\* The kernel is told of every route and of every route that is gone.
KernelAgrees ==
    \A p \in DOMAIN kernel :
        kernel[p] = IF rte[p].type = "SPF" THEN rte[p].path[1] ELSE None

\* The i-th entry of ifmap is the interface of the i-th link of the own
\* router-LSA, although one is rebuilt from the interfaces and the other comes
\* from the database.
IfmapMatches ==
    parsed[Root] => /\ Len(ifmap) = Len(body[Root])
                    /\ \A i \in DOMAIN ifmap : ifmap[i] = IfcOf(body[Root][i])

=============================================================================
