------------------------------ MODULE MCRoutes ------------------------------
(***************************************************************************)
(* Root is on network n1, whose DR is r1, and on n2, whose DR is r2.  r2 is on *)
(* both, and r1 and r2 have a point-to-point link, which r1 may declare a       *)
(* virtual one.  Stub network 3 is at r1 or r2 or, at the same cost, at both,  *)
(* and then there are three next hops to it, of which a list holds two.  The   *)
(* interface with the lower address is that with the higher number.           *)
(***************************************************************************)
EXTENDS Routes

CONSTANTS r0, r1, r2, n1, n2

Routers == {r0, r1, r2}
Networks == {n1, n2}

LsIds == [n \in Networks |-> IF n = n1 THEN 11 ELSE 22]

AdvRtrs == [v \in Routers \cup Networks |->
              CASE v = r0 -> 0 [] v \in {r1, n1} -> 1 [] OTHER -> 2]

RootIfaces == <<[addr |-> 29, phy |-> 1, cost |-> 2], [addr |-> 19, phy |-> 2, cost |-> 2]>>

StatesOf == {"transit", "stub", "down"} \X {"transit", "down"}

DRs == <<22, 11>>

Transit(id, cost, data) == [type |-> "TNET", id |-> id, cost |-> cost, data |-> data]
ToRouter(r, cost, data) == [type |-> "PP", id |-> r, cost |-> cost, data |-> data]
Virtual(r, cost, data) == [ToRouter(r, cost, data) EXCEPT !.type = "VL"]
Stub(p, cost) == [type |-> "STUB", id |-> p, cost |-> cost, data |-> Host]

\* The links of routers to their networks and to each other, and their stubs.
BodiesOf ==
    [v \in Routers \cup Networks |->
      CASE v = r0 -> {OwnLsa(s) : s \in StatesOf} \ {<<>>}
        [] v = r1 -> {<<Transit(11, 1, 11), ToRouter(r2, 1, 41), Stub(3, 1)>>,
                        <<Virtual(r2, 1, 41), Stub(1, 1)>>}
        [] v = r2 -> {<<Transit(11, 1, 12), Transit(22, 1, 22), ToRouter(r1, 2, 42), Stub(3, 1)>>}
        [] v = n1 -> {<<ToRouter(r0, 0, 0), ToRouter(r1, 0, 0), ToRouter(r2, 0, 0)>>}
        [] v = n2 -> {<<ToRouter(r0, 0, 0), ToRouter(r2, 0, 0)>>}]

ASSUME TheoremApplies == UniqueIds
=============================================================================
