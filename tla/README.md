# Verification of THospf

TLA+ models of THospf (`src/THospf`), a single-area OSPFv2 router in C++: what
its state machines, lists, timers and database do, checked with TLC on small
instances and, where it matters most, proved with TLAPS for every instance.
All source files below are in `src/THospf`.

Contents: 1 the system, 2 the modules, 3 the runs, 4 fairness, 5 what is
proved, 6 what the models leave out, 7 what was observed, 8 the plan.

## 1. The system

The program is one process with one thread. `main.cpp` loops: it fires the due
timers (`TimerQueue::fire`), sleeps in `select` until the next one is due or a
packet arrives, and runs the packet's handler to the end. (Netlink messages are
not read: the call is commented out at `main.cpp:112`.) There is no parallelism
inside a router; what is hard is that

* handlers **nest**: a Hello changes a neighbour, the neighbour's change makes
  the interface elect a Designated Router, the election re-evaluates every
  neighbour on the interface, and each of those may start or end an adjacency;
* **timers and packets interleave** freely: retransmission, inactivity,
  progress, hold, wait and ageing timers race with the packets they wait for;
* **two routers** run the protocol over raw IP: packets are lost, duplicated and
  reordered, and a router may restart with no memory;
* deletions are **deferred**: Down neighbours until the next tick, invalid LSAs
  until the last list lets go of them.

| Component | Files | State | Operations |
|---|---|---|---|
| Neighbour FSM, exchange slots | `NeighborFSM.cpp`, `Neighbor.cpp` | `n_state`, `remote_init`, `n_adj_pend`, queue `g_adj_head..tail`, `local_inits`, `remote_inits`, `n_dbx_nbrs`, `delete_neighbors` | `nbr_fsm`, `nba_eval1/2`, `exit_dbxchg`, `AddPendAdj`, `DelPendAdj`, `delete_down_neighbors` |
| Interface FSM, DR election | `InterfaceFSM.cpp`, `Interface.cpp` | `if_state`, `if_dr`, `if_bdr`, `if_dr_n`, wait timer | `ifc_fsm`, `ifa_start`, `ifa_elect`, `ifa_reset` |
| Hello | `ospfHello.cpp` | per neighbour `n_dr`, `n_bdr`, `prior`, inactivity timer | `send_hello`, `recv_hello` |
| Database exchange | `ospfDD.cpp`, `ospfRequest.cpp` | `n_ddseq`, `n_imms`, `n_ddpkt`, `ddlist`, `reqlist`, `database_sent`, `req_goal`, DD, request, hold and progress timers | `send_dd`, `recv_dd`, `process_dd`, `retrans_dd`, `send_req`, `recv_req`, `ospf_rmreq` |
| Flooding | `ospfUpdate.cpp`, `ospfAck.cpp`, `LsaList.cpp` | `retrans`, `pend_retrans`, `failed_retrans`, `retrans_cnt`, `n_update`, `n_imack` | `recv_update`, `flood`, `send_updates`, `recv_ack`, `retrans_updates` |
| LSA database and ageing | `LSA.cpp`, `LSA.h`, `LShdr.h` | age bins, `Bin0`, `MaxAge_list`, refresh bins, `lsa_rxmt` | `AddLSA`, `DeleteLSA`, `start_aging`, `dbage`, `deferred_lsas`, `refresh_lsas`, `do_refreshes`, `maxage_lsas`, `free_maxage_lsas` |
| Origination | `ospfOrig.cpp`, `rtrLSA.cpp`, `netLSA.cpp` | `ls_seqno`, deferral flags, `if_fullcnt` | `ospf_get_seqno`, `lsa_reorig`, `originated`, `rl_orig`, `nl_orig` |
| Timers | `Timer.cpp`, `Queue.cpp` | leftist heap of due times | `start`, `restart`, `stop`, `fire`, `combine`, `del`, `adjust` |
| Data structures | `Table.cpp`, `Patricia.cpp`, `LsaList.cpp` | AVL tree with a sorted list through it, Patricia tree, counted lists of LSAs | `add`, `remove`, `find`, `previous`, `garbage_collect` |
| Routing | `ospfCalc.cpp`, `RtrTblEntry.cpp` | candidate heap, SPF tree, routing table, equal-cost paths | `dijkstra`, `rt_scan`, `krt_sync` |
| Multicast groups | `phyint.cpp` | references of group memberships | `multi_join`, `multi_leave` |
| System | `system.cpp`, `main.cpp`, `OSPF.cpp`, `ospfUtil.cpp` | sockets, interface map, packet buffers | I/O, `resolvePkt`, `tick`, `run_fsm` |

How they interact: `resolvePkt` finds the interface and calls `recv_hello`,
`recv_dd`, `recv_req`, `recv_update` or `recv_ack`. Those raise events, which
`run_fsm` looks up in the tables of the two state machines; a transition of one
raises events at the other (`nbr_fsm` -> `ifc_fsm` -> `ifa_elect` ->
`ifa_allNeighbors_event` -> `nba_reeval`). Transitions originate the
router-LSA and the network-LSA (`rl_orig`, `nl_orig`), which are flooded
(`AddLSA`, `flood`) onto the retransmission lists of all neighbours. The tick
(`DBageTimer::action`, once a second) ages the database, originates what was
put off, refreshes, flushes, deletes Down neighbours and gives free exchange
slots to waiting ones. What makes each component correct:

* slots: the counters agree with the neighbours, nobody who waits is
  forgotten, passed over for ever, or freed while on the queue;
* election: all routers of a link agree in the end; established roles last;
* exchange: two routers that are Full know the same, and get there;
* flooding: everything is sent until acknowledged, and the counters that stop
  timers and hold MaxAge LSAs in the database are exact;
* database: every change is said in the end, refreshed in time, never replaced
  by something older, and flushed LSAs leave; ages are those of the real time;
* LSAs of an interface say what it is like when its handlers have ended;
* timers ring when they are due, in order, whatever handlers do to them meanwhile;
* tables stay balanced and sorted, and an iteration survives their changes;
* links point to each other exactly if both ends say so, routes are shortest and
  list every equal-cost next hop, and the kernel has what the routing table has.

## 2. The modules

| Module | Models | Extends |
|---|---|---|
| `Adjacency` | one router's neighbours, the slots, the nested state machines | |
| `AdjacencyProofs` | its types, waiting queue, slots and nested handlers, proved | `Adjacency` |
| `DDExchange` | two routers exchanging databases over a lossy link | |
| `DDExchangeProofs` | what drives an exchange and what it requests, proved | `DDExchange` |
| `Election` | `ifa_elect` as operators on an interface | |
| `DRLink` | the routers of a link electing by Hellos | `Election` |
| `IfcLsas` | one interface: elections, adjacencies, the LSAs about it | `Election` |
| `IfcLsasProofs` | its invariants and the election, proved | `IfcLsas` |
| `LsaLife` | own and foreign LSAs in the database | |
| `LsaLifeProofs` | its invariants and `NeverOlder`, proved | `LsaLife` |
| `Ages` | abstract: what others rely on about the age of an LSA | |
| `AgeBins` | the ring of age bins; implements `Ages` | `Ages` (`INSTANCE`) |
| `AgeBinsProofs` | its theorems | `AgeBins` |
| `Flooding` | retransmission lists, timer, window, counters | |
| `FloodingProofs` | its counters, proved | `Flooding` |
| `LeftistHeap` | the priority queue of `Queue.cpp` as operators | |
| `Alarms` | abstract: what a set of timers promises | |
| `TimerQueue` | timers and main loop; implements `Alarms` | `LeftistHeap`, `Alarms` (`INSTANCE`) |
| `TimerQueueProofs` | the queue's operations, and the timers as alarms, proved | `TimerQueue` |
| `Table` | the AVL tree with the list through it, and its iterator | |
| `LinkGraph` | router-LSAs and network-LSAs as a graph with back pointers | |
| `Routes` | shortest paths, equal-cost next hops, kernel | `LinkGraph`, `LeftistHeap` |
| `RoutesProofs` | the pointers of `LinkGraph`, and all of `Routes`, proved | `Routes`, `TimerQueueProofs` |

`MC...` modules give names to values of constants. In the modules a definition
has the name of the function or field it stands for where there is one; a
definition commented "Mutant:" is a plausible mistake in the code, kept to show
that a property notices it, and is used by nothing.

**Adjacency.** A handler runs to its end before the next begins, but calls
other handlers at any point. The variable `calls` is the call stack: a packet or
timer (`RecvHello`, `RecvFirstDD`, `AdjTmo`, `Inactive`, `Tick`, ...) pushes the
events it raises if the stack is empty, and each `Step` runs the event on top
(`NbrStep`, `IfcStep`, `Drain`, `Reap`), changing the state as `nbr_fsm` or
`ifc_fsm` does and pushing what that raises. Calls for all neighbours
(`ifa_allNeighbors_event`) are one frame with a set of neighbours, taken in any
order. The outcome of an election is any; which one it is, is in `Election`.
Request and description lists are empty or not.

**DDExchange.** `rt[r]` is `r`'s `Neighbor` object and database, `chan[r]` the
packets on their way to it. Each function of the code is an operator from record
to record (`recv_dd`, `process_dd`, `send_dd`, `retrans_dd`, `recv_update`,
`flood`, ...), each packet and timer an action. A database is a set of LSAs, in
the order in which a snapshot describes them; `Roots` are the elements at which
the snapshot may start, as the tree is balanced. Restarts are the progress
timer's. One bound is for all that is unusual: `late` counts timers that expire
while packets are under way and packets that arrive twice, `odd` counts the
Descriptions whose uninitialised byte differs from that of the others.

**Election, DRLink, IfcLsas.** An interface is a record with its role, and what
each neighbour has declared. `ifa_elect` runs the two loops as folds over the
list of neighbours, with one operator for what each neighbour does to the choice
(`TakesBdr`, `TakesDr`, ...), and runs them again if the router's own role changed
(the operator `Of` only names an intermediate result, which TLC then computes once). In
`DRLink` every router of a link has one, and Hellos reach all, some or none;
`late` counts the Hellos lost and the timers that do not wait for a Hello due
before them, and `calm` says that crashes are over. In `IfcLsas` the neighbours
do what they like and the record grows by the Full neighbours, `if_dr_n`,
`if_fullcnt` and the two LSAs as last put together.

**LsaLife.** `ospf` is the database with `MaxAge_list`, `pending_refresh` and
the refresh bins; `Tick` is `DBageTimer::action`, all of its calls in order.
`want` is what the interfaces make an own LSA say; its changes come with a call
of `rl_orig` or `nl_orig` (`Change`). Neighbours return own LSAs with any number,
as after a restart, and a foreign LSA may be a network-LSA for what is an own
address now, which `originated` flushes; as interfaces come and go, `RecvUpdate`
leaves open whether it is. `SendDD` is what an exchange does to LSAs at MaxAge.
Ages are integers.

**AgeBins, Ages.** That an integer is the right view of an age is shown apart:
`AgeBins` has `Bin0`, the bins, `agefwd`, `agerv` and the loop of `maxage_lsas`
step by step, and implements `Ages`, where time passes for all LSAs at once and
never for one at MaxAge that was not flooded. While the walk goes on, LSAs that are
not in its bin may be replaced (`Add`): the flooding of what it ages may end an
exchange, which originates the router's own LSA. An LSA with DoNotAge that the walk
meets may stay or be aged (`Visit`).

**Flooding.** Per neighbour the three retransmission lists, `retrans_cnt`, the
timer and window; per LSA `lsa_rxmt`. An object is a key and the number of the
instance; objects that were replaced are invalid and stay on lists until
`garbage_collect` (`Among` are those of a list that are left). `ddlist` are the LSAs of
a neighbour's snapshot that are at MaxAge: `SendDD` puts them on its retransmission
list instead of describing them, if they are still valid.

**LeftistHeap, TimerQueue, Alarms.** A queue is its root and, for each element in
it, the links and `dist` the object holds; `combine`, `adjust`, `add`, `rmhead`
and `del` are those of `Queue.cpp`, pointer by pointer. A loop is what one turn of it
does (`Lowered`, `Raised`), taken as often as the queue has elements. `at` is where the main
loop is: firing due timers (`Fire`), running the action of one, in `select`, or
handling a packet. Actions and handlers start, stop and restart any timer, also
the one whose action runs and those that are due next. Abstractly, a timer is
an alarm that is a number of seconds away; there is no heap.

**Table.** Items hold their links, so a table is its root, the head of its list
and the links and balance of its members. `add` and `remove` follow the path of
slots (addresses of links) as the code does and shift on the way back; `add` of a
key that is there takes over its item's place. `search` is a `TblSearch`, kept
while the table changes.

**LinkGraph, Routes.** `body` is the contents of each LSA in the database, `nbr`
the pointers `tl_nbr` of its links; `AddLSA`, `Expire` and `DeleteLSA` parse and
unparse LSAs, and every parsed LSA corrects the pointers of both ends
(`tlp_link`, `unlink`). `Routes` adds the routing table, the parity `run` of
`n_dijkstras`, `ifmap` and the routes given to the kernel. `full_calculation` is
the whole of it: the candidates wait in a `LeftistHeap` (nearest first, networks
before routers), next hops are merged as `EPath::merge` does, then `rt_scan`
and what it tells the kernel. A loop is a function of the number of its turns
(`Placed`, `FollowLinks`, `Visited`). The reference of `RoutesFresh` is the set of all
paths, computed from the contents of the LSAs without the pointers. A list of
next hops is a sequence; that the code keeps one object per list, in a Patricia
tree, is left out. `Host` stands for the mask that a stub link has as its data. An own
router-LSA that a neighbour returns is not a step of its own: the handler that adds it
ends by originating or flushing it, so `Own` and `Originate` have what is left.

## 3. The runs

States are TLC's distinct states. Every property has a mutant in `PROJECT.json`
that breaks it in its run.

| Run | Shows | States |
|---|---|---|
| `adjacency` | `TypeOK`, `SlotsCounted`, `QueueSound`, `WantedIsQueued`, `StatesGuarded`, `NoDanglingCall`, `EvalRaisesNothing`: slots, queue, timers and lists stay consistent; `HandlersTerminate`, `PendingServed`: no endless recursion; who waits is served | 74k |
| `dd` | `Driven`: the exchange never waits for what nobody sends; `RequestsMissing`, `Synchronized`: nothing is lost between two Full routers | 877k |
| `dd_live` | `Converges`: wherever losses have left it, the exchange ends | 13k |
| `life` | `TypeOK`, `NoChangeLost`, `RefreshedInTime`, `NeverOlder`, `FlushedLeaves`: changes are said, refreshes come in time, nothing older replaces a newer instance, what is flushed leaves | 194k |
| `age_bins` | `LinksSound`, `NoneMissed`, `ImplementsAges`: the ring of bins computes the ages of `Ages`, and the walk over the oldest bin misses none | 114k |
| `flooding` | `CountIsRight`, `RxmtIsRight`, `AllAcknowledged`: counters and timer agree with the lists, and everything is acknowledged in the end | 148k |
| `ifc_lsas` | `LsasFresh`, `OnlyWantedFull`, `DrNeighbourAlive`, `ElectionIsRfc`: the election is that of RFC 2328, 9.4, settles at once, and adjacencies and LSAs follow it | 18k |
| `ifc_net` | `NetLsaWhenFull` is violated: see 7 | |
| `drlink` | `Agreement`: all agree in the end; `NoPreemption`, `BackupTakesOver`: a newcomer displaces nobody, and the Backup takes over | 270k |
| `timers` | `HeapSound`: the queue stays a leftist heap of exactly the active timers; `ImplementsAlarms`: they ring like alarms; `Fires`: an active timer rings or is stopped | 17k |
| `table` | `TableSound`: tree, balances, list and count stay those of one set; `NextIsSuccessor`: an iteration misses and repeats nothing that stays | 96k |
| `routes` | `LinksMutual`: pointers are as the LSAs say; `RoutesFresh`: after a calculation the table has the shortest paths and all their next hops; `KernelAgrees`, `IfmapMatches`: kernel and interface map follow | 87k |

The bounds, and why they are enough:

* `adjacency`: two neighbours that compete for one slot of each kind (`MaxDDs`, 2
  in the program), so that one waits while the other holds slots, or both wait. That
  all of it but liveness is right with any number of neighbours and any limit is
  proved (section 5).
* `dd`: each router owns one LSA, a third may be learned during the exchange;
  one header per Description and one reference per request make every list take
  several packets. Sequence numbers count modulo 3, as the routers are at most one
  apart; two packets under way per direction are enough for a packet and its
  overtaken answer. `MaxOdd` is 1: one timer or packet out of time or one odd
  byte, anywhere in the exchange. `Synchronized` speaks of the exchanges
  with nothing out of time. `dd_live` has neither.
* `life`: two sequence numbers, so that an LSA rolls over after one refresh, and
  the intervals in their order, 1 < 2 < 4 < 5 seconds; own and foreign LSA.
* `age_bins`: three LSAs, for a list with a middle; three ages.
* `flooding`: two neighbours, two LSAs, three instances: an entry that is
  replaced while it is on one of the lists, beside one that is not. One LSA per
  packet and a window of 2.
* `ifc_lsas`: two neighbours, one below and one above the router, priorities
  0..2, and three adjacencies that become Full (`MaxFull`).
* `drlink`: three routers of one priority, so that their ids decide, a newcomer
  meets an established pair, and one may crash; two Hellos or timers out of time.
* `timers`: four timers of both kinds, so that the heap has three levels, and
  periods of 1 to 3 half seconds with clock steps of one or two, so that several are
  due at once.
* `table`: twelve keys, the fewest with which a removal shifts twice on its way up.
  The tables that are reached by additions and removals alone are all of them; during
  an iteration at most `MaxWatched` items are in the table.
* `routes`: a router with two neighbours and two networks and ways of equal cost, so
  that next hops are merged and a way vanishes. A stub network may have three next hops
  while a list holds two (`MAXPATH`, 4 in the program), so that lists are cut off; and of
  the two interfaces the one with the lower address has the higher number.

`CHECK_DEADLOCK FALSE` is where a settled system may stop: nothing to flood, no
packet under way, no timer active. The other runs are checked for deadlock.

## 4. Fairness

* The main loop ends every handler and comes back to the timers, and the tick is
  an interval timer that nothing stops: `WF(Step)` and `SF(Tick)` (strong, as
  other handlers disable it while they run). `PendingServed` assumes that
  Hellos stop changing (`Settled`) and that exchanges end or are ended by the
  progress timer (`SlotsComeFree`).
* `DDExchange`: a router handles what arrives and its due timers fire, with
  strong fairness, as a packet under way disables them (`MaxOdd = 0`: timers are
  seconds, a round trip milliseconds). `Converges` assumes that the link stops
  losing packets and that progress and hold timers, which are longer than an
  exchange, stop firing (`Undisturbed`).
* `LsaLife`, `Flooding`, `DRLink`: the tick goes on, timers expire, and what is
  sent again for ever is acknowledged in the end. The environment *may* settle
  (`calm`), and what is promised after that is stated with `calm`. Some of this is
  written as `[]<>` of a condition on states instead of `WF`, which says the same
  and is much cheaper to check.
* `TimerQueue`: actions and handlers end and `select` returns, so the main loop goes
  on and time with it.

## 5. What is proved

For every set of neighbours, interfaces, LSAs and every bound that satisfies the
named assumptions on the constants (`ConstantsAssumption`, `ExchangeAssumption`,
`ElectionAssumption`, `LifeAssumption`, `NothingAssumption`, `AgeAssumption`,
`FloodingAssumption`, `TimerQueueAssumption`, `GraphAssumption`, `RoutesAssumption`,
`ContentsAssumption`, `OwnAssumption`):

* `AdjacencyProofs!TypeCorrect` and `QueueCorrect`. `QueueSound` is inductive
  together with `TypeOK`: it speaks of flag, queue and state of a neighbour, and
  every action that changes one of the three is one of four kinds, for each of
  which there is a lemma: unlink (`UnlinkSound`), append (`AppendSound`), take the
  head (`TailSound`), and a change of state of one who does not wait (`StateSound`).
  That the deletion of the first entry met is the deletion of all is a
  consequence of the invariant, and `WithoutFacts` says it of sequences.
* `AdjacencyProofs!SlotsCorrect`: `SlotsCounted` for any number of neighbours and any
  limit. Each counter is the cardinality of a set of neighbours, and every event
  moves at most one neighbour into or out of each set, so the lemmas `Joins`,
  `Leaves` and `Stays` say by how much it changes. `SlotsCounted` alone is not
  inductive: `nba_eval1` takes a local slot without writing `remote_init`, so it
  counts rightly only because the flag is clear outside ExStart, Exchange and
  Loading; the conjunct `FlagsClear` says so. A slot taken
  (`Takes`), given back (`GivesBack`) and left alone (`Keeps`) are the three
  cases, and the events follow from them.
* `AdjacencyProofs!WantedIsQueuedAlways`, `StatesGuardedAlways`, `NoDanglingCallEver`
  and `EvalRaisesNothingEver`: with the two above, all that `adjacency` checks
  except liveness. `WantedIsQueued` and `StatesGuarded` are true
  when no handler runs. The invariants say what is true while one does: a
  neighbour that is not as it should be is the target of an event in progress
  (`InProgress`) that will see to it, and `NbrStepAwaits`, `HandlerAwaits` and
  `DrainEffect` say which events each step takes and raises. A neighbour is
  freed when nothing else is in progress and, by `QueueSound`, is not queued, hence
  `NoDanglingCall`.
* `DDExchangeProofs!OnlyMissingRequested`, `AlwaysDriven` and `FairlyDriven`:
  `RequestsMissing` and `Driven` for all databases, packet sizes and bounds of the
  link, and with any number of steps out of time. Every function of the program has
  a lemma that says what it makes of a `Neighbor` record (`StartIs`, `ProcessIs`,
  `NegotiatedIs`, `RecvUpdateIs`, `FloodIs`, ...), so that a step is the lemma of its
  handler. `Consistent` is true in the middle of a handler too. It adds that nothing
  is requested below Exchange, and that the hold timer runs in Loading and Full only:
  otherwise a hold timer that expires would drop a Description that is owed.
  `Driving` is true when the handler has ended.
* `IfcLsasProofs!AlwaysElectionIsRfc`: for any routers, priorities and order of the
  list of neighbours, the two loops elect whom RFC 2328, 9.4 names. A loop that keeps
  the best so far ends with the greatest element of a total order
  (`BdrIsPreferred`, `DrIsHighest`); the order of the Backup depends on who declares
  itself Backup (`Preferred`). That the loops need not run a third time (`Settles`)
  rests on two facts: only the router's own two roles matter to a second run
  (`RolesDecide`), and in it who is Designated Router or Backup stays (`DrStays`,
  `BdrStays`).
* `IfcLsasProofs!AlwaysLsasFresh`, `AlwaysOnlyWantedFull`, `AlwaysDrNeighbourAlive`.
  The inductive invariant is `Settled`. Within a handler less is true: `Ready`, where
  a Full adjacency may not be wanted any more, and without its LSA parts `Sound`.
  `ElectSettles` says that an election makes the one from the other, and each event
  is either such an election or one of the changes that need none (`BelowSettles`,
  `NbrChangedSettled`). As every change of a neighbour is followed by an election
  only in `MULTI`, the invariant has to say that before the first election nothing is
  Full and nobody is Designated Router (`Quiet`).
* `LsaLifeProofs!AlwaysNoChangeLost`, `AlwaysRefreshedInTime`, `OnlyNewer` and
  `FairlyKept`: any LSAs and neighbours, any ages and intervals in the order that
  `LifeAssumption` requires, any numbers drawn for refreshes. `Inv` adds to the types,
  per LSA, three things. `Sane`: what is on `MaxAge_list` is in the database and at
  MaxAge, what rolls over is an own LSA flushed with the last number, nothing is past
  MaxAge. For own LSAs not in `echoed`, `Said`: `Current`, in terms of a limit for how long an origination may still
  be put off. `Booked`: an own LSA that has reached LSRefreshTime is in
  `pending_refresh`, *and* its place there is not beyond the sum of the refresh bins of
  the seconds it has left; without the second part `RefreshedInTime` is not
  inductive, as other entries could be served in its stead.
  A second of `dbage` is five loops over sets of LSAs. What the body of each does to
  one LSA leaves the others alone (`Only`), so that the loop, in whatever order,
  does to each what its body does to the LSA as it was (`Each`); `do_refreshes` takes
  entries from a list and is done by the number of entries served (`RunAll`). In
  the middle of the second the limits are weaker by one: `AfterSecond`,
  `AfterDeferred`, `AfterRefresh`, `AfterMaxage`, `AfterRefreshes` and `AfterFree` follow
  them until they are those of a state again. `Line` says meanwhile whether an
  LSA is still the instance the second began with; it must be, or be a newer one,
  for `free_maxage_lsas` finds only acknowledged ones on the list. That is `NeverOlder`.
* `FloodingProofs!AlwaysCountIsRight`, `AlwaysRxmtIsRight`, for any neighbours, LSAs,
  window and packet size, without fairness. Neither is inductive alone. What waits in
  `ddlist` is not on the neighbour's retransmission lists yet, as a new instance is
  another object, so `SendDD` puts no object on them twice. `Sound` says
  that no object is twice on the three lists of a neighbour, so that one `remove`
  suffices and a list is as long as the set of what is on it; `Counted` says of
  every LSA, also of one that is not in the database, that `lsa_rxmt` is the number of
  neighbours that have its current object on a list, and 0 if the LSA is gone; and the
  objects on lists are not newer than the last instance, so that a new one is
  on none. `ResendIs`, `AddIs`, `RemoveIs` and `ExpireIs` say what the four operations
  make of a neighbour's lists.
* `AgeBinsProofs!LinksHold`, `NoneMissedHolds`: the inductive invariant `IInv` adds to
  `LinksSound` that an LSA is in a bin exactly if it is not at MaxAge
  (`AllWatched`), that what the walk of `maxage_lsas` has not visited is before
  it (`AllAhead`), and that no LSA is younger than it was received. An auxiliary
  field `rest`, the set of the LSAs behind each one, takes the place of a
  recursive definition of "reachable", which the prover could not use.
* `AgeBinsProofs!Implementation`: `AgeBins` implements `Ages`. Ages are computed
  from bins, so that the second that passes by moving `Bin0` passes for all LSAs at
  once (`SecondPasses`); it is a step of `Ages` because of `NoneMissed`, and the
  installations and deletions are because a bin's age fits what was received
  (`NotYounger`).
* `TimerQueueProofs!QueueSound`: for any elements and costs, the leftist heap stays one
  through `add`, `rmhead` and `del` of any of its elements, its elements and costs are
  those that they should be, and its head has the least cost. The code has no tree,
  only links; the proof has one, a function `D` from each element to the set of what is at
  it and below (`IsTree`), so that no recursive definition of "below" is needed. Merging,
  and deleting inside the heap, put one subtree in the place of another (`Replacement`);
  after that the dists above the place may be wrong and no others (`Pending`), and a turn
  of `adjust` moves the place to the parent or ends with all of them right (`AdjustIs`).
  For a deletion, `adjust` may stop where a dist has not changed, as what is above
  depends on it only. That the loops end within a turn per element is because each
  step down or up leaves a smaller or larger set `D`.
* `TimerQueueProofs!HeapSoundHolds`, `TimersAreAlarms`: any timers, periods, jitter and
  steps of the clock. `TimerInv` adds to the heap that its elements are the active timers,
  and that when the loop waits every timer is in the future: by this no timer is later than
  the last step of the clock, which `HeapSound` alone does not preserve. Each step is
  one of `Alarms` (`Ring`, `Change`, `Answered`, `Pass`) or leaves the alarms as they
  are: `Fire` is `Ring` because the head of the heap is the alarm that is due first, and
  `Select` is `Pass` because none is due.
* `RoutesProofs!LinksAreMutual`, `NoGhosts`: for every set of routers and
  networks and all that their LSAs may say, a link has a pointer exactly if both
  LSAs are parsed and name each other, and no pointer leads to an LSA that is
  expired or deleted. The assumption is `UniqueIds`: no two network-LSAs share an
  LS ID (section 7 says what happens if two do). The inductive invariant is
  `GraphTypeOK /\ LinksMutual`; `ParseExact` and `UnlinkExact` say what parsing
  and unparsing one LSA makes of everybody's pointers, and `AddInv`, `ExpireInv`
  and `DeleteInv` apply them to the operations. `StepIsGraph` carries it over to
  `Routes` (`RoutesLinksMutual`).
* `RoutesProofs!KernelAgreesHolds`, `IfmapMatchesHolds`. `RoutesInv` adds that a route
  in the table carries the parity of the last calculation; so the next one finds every
  entry that it does not reach again, and saves the state of each entry that it does
  before it changes it (`KeptEntry`, `EntryInstalled`).
* `RoutesProofs!RoutesFreshHolds`: for any routers, networks, links, costs, interfaces and
  prefixes, what `dijkstra` finds over the pointers, with the heap of `Queue.cpp`, is the
  least cost of all paths that the contents of the LSAs offer and only next hops of
  paths of that cost: of all of them, unless its list is full with `MAXPATH`. The only
  hypothesis is `UniqueIds`, which the instance of the run satisfies (`TheoremApplies`).
  The steps:
  - `HopsMerge`: whatever the order of two lists, all that `merge` puts out is on one of
    them, and what is on one of them is put out unless the list is full (`Full`);
    `NewHopsAre`: `addgateway` and `ospf_find_gw` turn next hops over a network into those
    to a router on it. A next hop that is not on a full list is not passed on either, so
    `HopsFrom` says of a list that it is complete only if neither it nor the lists it was
    made of are full, and that a full list makes those after it full;
  - `CalcInv` of the links that a run has followed. `NodeInv`: a node has the least cost
    by these links, and next hops of those by which its cost is that, as `HopsFrom` says. `EntryInv`
    says this of entries. A link followed adds itself (`RelaxInv`, `IntraInv`), as all
    links into a node come from nodes of lower `Rank` (twice the cost, and one more for
    a router): a link of no cost leads from a network to a router only, and a
    network that costs the same goes first. `TakenInv` says that the nearest
    candidate has its final cost, `RunEnds` that at the end all links of the tree have
    been followed and nothing waits;
  - `PathsMatched`: no path of the reference is better than the node it leads to, and
    one as good has a next hop of that node, unless its list is full. `AllFound`: every next hop of a node is that
    of a path along the tree, by induction on the rank. `EntryDecided` puts the two
    together for what stubs and networks offer, and `TickFresh` adds `rt_scan`;
  - `AllOffersKept`: between calculations only a change that asks for one changes what
    the paths offer (`ChangeSeen`); refreshes and deletions do not.

The prover has no induction over data: the library's induction theorems have an
operator as a parameter, which cannot be given a value. The proof modules that need
it get the same from theorems about sets: a set of natural numbers or of subsets of a finite
set that is not empty has a least member (`LeastNat`, `MinimalSubset`), so that what
a recursive function over such a set is, is determined (`RecursionExists`,
`IterUnique`). Through it the folds of the community modules can be expanded
(`BdrLoop`, `DrLoop`, `Each`), sums computed (`TotalIs`) and the length of a selection
(`AmongIs`).

Everything else is model-checked only:

* liveness (`PendingServed`, `HandlersTerminate`, `Converges`, `FlushedLeaves`,
  `AllAcknowledged`, `Agreement`, `Fires`), which is out of the prover's reach;
* `TableSound` and `NextIsSuccessor`: `Table` has `RECURSIVE` operators, in whose
  modules the prover has no arithmetic;
* `Synchronized` of `DDExchange`, which needs an invariant about all packets under
  way and what each side remembers of them; what is proved of the exchange is the
  part that concerns one router;
* `NoPreemption` and `BackupTakesOver` of `DRLink` (section 8). The
  type invariant of `DRLink` documents its variables; no run is spent on it.

## 6. What the models leave out

Authentication, areas, AS-external and summary LSAs and non-broadcast networks
are not in the build. Checksums, packet formats, the packing of LSAs into
updates and delayed acknowledgements are left out of all modules; so are the
state ATTEMPT and the loopback interface, which this build never enters, and
DoNotAge LSAs outside `AgeBins`. `Adjacency` takes any outcome of an election,
`IfcLsas` any behaviour of neighbours. Timers have no durations except where an
order matters: `LsaLife` counts seconds, `TimerQueue` has due times, and
`DDExchange` and `DRLink` tell timely timers from late ones.

What the new models take for granted, from the code that calls them:

* `TimerQueue`: timers are started with whole seconds, as all callers do; the
  clock does not go back; signals are blocked outside `select`.
* `Table`: `remove` is called for members only. (For an object whose key is held
  by another one the loop at the removal would not end.)
* `LinkGraph`: no LSA links to itself, and links have one of the four types there are
  (one of an unknown type is never given a pointer by the LSA it is in). `Routes`: links from routers cost at least
  1, as the configured costs do, those of a network-LSA are to routers, and a router
  gives an address on the network of its link to one (`ContentsAssumption`); no two
  interfaces are on one network or have one number, which `system.cpp:267-277` and
  `:404-502` give to physical interfaces one by one (`RoutesAssumption`), and what the interfaces make the
  router say is among what it may say (`OwnAssumption`). `phy_up` asks for a
  calculation at the start; the set of attached networks is fixed. The kernel has the first next hop
  of a route, and only networks that are not attached (`rtadd` returns for
  `directs`). External and inter-area routes are never computed by this build.

Without a module: the Patricia tree (`Patricia.cpp`), which finds the one object
of a list of next hops, so that lists can be compared by address; the group
memberships of `phyint.cpp`, of which section 7 says what can be seen by reading;
sockets, netlink and the parsing of the configuration, which are I/O.

## 7. What was observed

* **No network-LSA** (`ifc_net`). `if_fullcnt` starts at 0 (`Interface.cpp:24`) and
  is decremented when a neighbour leaves Full (`NeighborFSM.cpp:199`), but not
  incremented when one becomes Full (`:188-194`). So `nl_raw_orig` originates
  nothing (`netLSA.cpp:164`), and `rl_insert` calls the link a stub, against the
  comment at `netLSA.cpp:156`.
* **Updates for other interfaces are dropped.** `send_updates` walks the
  interfaces twice with one iterator (`ospfUpdate.cpp:309`, `:315`) that is not reset,
  so the second walk is empty and `a_update`, which holds what `LSA::flood` wants
  to go out of other interfaces and what the router originates, is freed unsent,
  against the comment at `ospfUpdate.cpp:122`. Such LSAs travel by the
  retransmission timer. `Flooding` does not depend on the first transmission.
* **A deferred change may be dropped.** A neighbour that returns an own LSA with a
  larger number and the same contents replaces the database copy, and with it the
  mark that an origination was put off (`ospfUpdate.cpp:89-91`); nor is the copy
  refreshed if it was old. `NoChangeLost` and `RefreshedInTime` exempt it (`echoed`).
* **The snapshot is not the database.** `AddTypesToList` follows the sorted list
  from the tree's root (`LSA.cpp:170`), so lesser LSAs are not described.
  `Synchronized` exempts them (`missed`).
* **An LSA may stay for ever.** One that rolled over, and is not wanted any more when
  its old instance has been flushed, keeps the invalid sequence number at MaxAge
  (`free_maxage_lsas`, `LSA.cpp:773-777`), off `MaxAge_list`: `FlushedLeaves` exempts it.
* **An uninitialised byte** of the DD (`ospfDD.cpp:161`) is compared by the peer. If it
  changes with each packet, `Converges` fails; with a constant one it holds.
* **The head of the queue may be passed over** by elections (`InterfaceFSM.cpp:300`),
  hence `Settled` in `PendingServed`.
* **A newcomer may elect itself** if, with four routers or more, it ends waiting because
  of a Backup that then ceases to be one; hence `Established` in `NoPreemption`.
* **The walk over the oldest bin.** `maxage_lsas` keeps a pointer to the next LSA
  (`LSA.cpp:738`) while flooding the one it is at may end an exchange, which originates the
  router-LSA (`LSA.cpp:751`). An own LSA returned by a neighbour (`echoed`) is not in the
  refresh schedule and may reach MaxAge; if it is the next one of the walk and is
  replaced, the walk continues at an LSA that has left the bin. `AgeBins` leaves this case out (`Add`).
* **Two network-LSAs with one LS ID** (a Designated Router that changed its router
  id): `tl_nbr` of the routers points to the one with the larger advertising
  router. When that one goes, `delete_actions` schedules no calculation, and when a
  router's LSA goes while the other network-LSA points to it, that pointer is left
  dangling, against the comment at `LSA.cpp:406-408`. `LinksMutual` is stated for
  unique ids.
* **The last key.** An iteration that starts after the key whose indexes are all ones
  wraps round (`Table.cpp:484`). `NextIsSuccessor` exempts it.
* **Routes.** `EPath::merge` goes by the addresses of interfaces in its first test
  only, and by their numbers in the others. Where the two orders differ, as they do in
  the run, a list is not sorted, and a next hop that is on both lists may be kept twice, which
  takes the place of another one if the list is full. Nor does the code say which next hops are left
  out of a full list. `RoutesFresh` promises neither; `rtdel` is not guarded by
  `directs` as `rtadd` is; the second `declare_unreachable` of `rt_scan` does not
  report the change; the entries for routers are never scanned; `krtdeletes`
  stays empty and nothing calls `delete_from_ifmap`.
* **Groups.** `multi_join` never records a membership (`phyint.cpp:53`), so the last
  `multi_leave` is not noticed.

## 8. Plan

Done: `Adjacency`, `DDExchange`, `IfcLsas` with `Election`, `LsaLife`, `AgeBins` with
`Ages`, `Flooding`, `TimerQueue` with `LeftistHeap` and `Alarms`, and `Routes` with
`LinkGraph`, each with proofs; `DRLink` and `Table`, without. Left:

1. Proofs: `NoPreemption` and `BackupTakesOver` of `DRLink`, on the lemmas about elections
   that `IfcLsasProofs` has; `Synchronized` of `DDExchange`; the tree of `Table`, with
   the subtrees as sets, as for the heap.
2. `Updates`: the packing of LSAs into updates and acknowledgements and which
   interface each goes out of, with the run that shows the second loop of
   `send_updates` idle.
3. `LsaInstance`: `cmp_instance` and `cmp_contents`, with wrap-around and ages.
4. `Groups`: the memberships of `phyint.cpp`; `Prefixes`: the Patricia tree.
