------------------------------ MODULE IfcLsas ------------------------------
(***************************************************************************)
(* One interface of the router while it is up: what its neighbours do makes it    *)
(* elect a Designated Router (InterfaceFSM.cpp), the election decides which        *)
(* adjacencies are kept (NeighborFSM.cpp), and both decide what the router says    *)
(* of the interface in its router-LSA (rtrLSA.cpp) and in the network-LSA it       *)
(* originates as Designated Router (netLSA.cpp).                                  *)
(*                                                                         *)
(* The state machines call each other, so that each handler is an operator on     *)
(* the record s of all there is to an interface.  The neighbours do what they      *)
(* like.  An LSA is what rl_orig or nl_orig has last put together: when it gets    *)
(* into the database is in LsaLife.                                               *)
(***************************************************************************)
EXTENDS Election

CONSTANTS
    Me,         \* the router
    MaxFull,    \* bound of how often an adjacency becomes Full
    None        \* no LSA

Peers == Rtr \ {Me}

ASSUME IfcLsasAssumption == Me \in Rtr /\ IsFiniteSet(Rtr) /\ MaxFull \in Nat

VARIABLE s      \* the interface
vars == s

NoNbr == UnknownAddr

Links == [type : {"Stub"}] \cup [type : {"Transit"}, dr : Addr]
NetLsas == [ids : SUBSET Rtr, n : Int]  \* the routers listed, and for how many there is room

TypeOK ==
    /\ s.ifc \in Ifcs
    /\ s.full \subseteq {q \in Peers : s.ifc.nbr[q].state = "2Way"}
    /\ s.dr_n \in Peers \cup {NoNbr}
    /\ s.fullcnt \in Int
    /\ s.rlsa \in Links \cup {None}
    /\ s.nlsa \in NetLsas \cup {None}

\* When a neighbour becomes Full, nothing counts it: if_fullcnt is only decremented.
Init ==
    \E pri \in 0..MaxPri :
        s = [ifc |-> [addr |-> Me, pri |-> pri, state |-> "Down", dr |-> UnknownAddr,
                      bdr |-> UnknownAddr, nbr |-> [q \in Rtr |-> Unheard]],
             full |-> {},           \* the neighbours in state Full
             dr_n |-> NoNbr,        \* if_dr_n
             fullcnt |-> 0,         \* if_fullcnt
             fulls |-> 0,           \* adjacencies so far
             rlsa |-> None,         \* the router-LSA's link for the interface
             nlsa |-> None]         \* the network-LSA

-----------------------------------------------------------------------------
(* What there is to say. *)

rl_insert(i) ==
    IF \/ i.ifc.state = "DR" /\ i.fullcnt > 0
       \/ i.ifc.state \in {"Backup", "Other"} /\ i.dr_n # NoNbr /\ i.dr_n \in i.full
    THEN [type |-> "Transit", dr |-> i.ifc.dr]
    ELSE [type |-> "Stub"]

nl_raw_orig(i) ==
    IF i.ifc.state # "DR" \/ i.fullcnt = 0 THEN None
    ELSE [ids |-> {Me} \cup i.full, n |-> i.fullcnt + 1]

rl_orig(i) == [i EXCEPT !.rlsa = rl_insert(i)]
nl_orig(i) == [i EXCEPT !.nlsa = nl_raw_orig(i)]

-----------------------------------------------------------------------------
(* The state machines. *)

adjacency_wanted(i, q) ==
    i.ifc.state \in {"DR", "Backup"} \/ q \in {i.ifc.dr, i.ifc.bdr}

\* Mutant: a neighbour that leaves Full for 2-Way does not change the router-LSA.
LeaveFullSilently(i, Q) ==
    [i EXCEPT !.full = @ \ Q, !.fullcnt = @ - Cardinality(Q)]

\* The neighbours Q leave Full, each with the end of nbr_fsm.
LeaveFull(i, Q) ==
    IF Q = {} THEN i
    ELSE rl_orig([i EXCEPT !.full = @ \ Q, !.fullcnt = @ - Cardinality(Q)])

\* At the end of nbr_fsm.
NbrChanged(i) == IF i.ifc.state = "DR" THEN nl_orig(i) ELSE i

\* Mutant: the elections do not re-evaluate the adjacencies.
EvalNone(i) == i

\* Event Eval of all neighbours (nba_reeval), in state Full; what it does below is
\* in Adjacency.
Eval(i) == LeaveFull(i, {q \in i.full : ~adjacency_wanted(i, q)})

\* The order of the neighbours does not matter (ElectionIsRfc).
List == SetToSeq(Peers)

\* ifa_elect, in ifc_fsm.
Elect(i) ==
    LET Told(ifc) == Eval([i EXCEPT !.ifc = ifc,
                                    !.dr_n = IF ifc.dr \in Peers THEN ifc.dr ELSE NoNbr])
        Said(j) ==
            LET other == j.ifc.state # i.ifc.state
            IN  [j EXCEPT
                    !.rlsa = IF other \/ j.ifc.dr # i.ifc.dr THEN rl_insert(j) ELSE @,
                    !.nlsa = IF other /\ "DR" \in {j.ifc.state, i.ifc.state}
                             THEN nl_raw_orig(j) ELSE @]
    IN  Of(Said, Of(Told, ifa_elect(i.ifc, List)))

\* Event NeighborChange.
NChg(i) == IF i.ifc.state \in MULTI THEN Elect(i) ELSE i

\* Mutant: the interface is told of a neighbour it gains, not of one it loses.
BelowUntold(i, q, n) ==
    NbrChanged(LeaveFull([i EXCEPT !.ifc.nbr[q] = n], i.full \cap {q}))

\* Neighbour q falls from 2-Way or above to n, which is below.
Below(i, q, n) ==
    NChg(NbrChanged(LeaveFull([i EXCEPT !.ifc.nbr[q] = n], i.full \cap {q})))

\* Neighbour q becomes 2-Way.
Bidirectional(i, q) == NChg(NbrChanged([i EXCEPT !.ifc.nbr[q].state = "2Way"]))

-----------------------------------------------------------------------------
(* The steps. *)

\* Event InterfaceUp: ifa_start.
Up ==
    /\ s.ifc.state = "Down"
    /\ s' = rl_orig([s EXCEPT !.ifc.state = IF s.ifc.pri = 0 THEN "Other" ELSE "Wait"])

\* recv_hello: q declares n's values; the router's id is in the Hello (mine) or not;
\* q is Designated Router and says that there is no Backup (alone) or that another is.
RecvHello(q) ==
    \E n \in Nbrs, mine, alone \in BOOLEAN :
        LET old == s.ifc.nbr[q]
            seen == [s EXCEPT !.ifc.nbr[q] =
                        [n EXCEPT !.state = IF old.state = "Down" THEN "Init" ELSE @]]
            oneway == [seen.ifc.nbr[q] EXCEPT !.state = "Init"]
        IN  /\ s.ifc.state # "Down"
            /\ n.state = old.state /\ (alone => n.dr /\ ~n.bdr)
            /\ \/ /\ ~mine
                  /\ s' = IF old.state = "2Way" THEN Below(seen, q, oneway) ELSE seen
               \/ /\ mine
                  /\ \E twoway \in {IF old.state = "2Way" THEN seen ELSE Bidirectional(seen, q)} :
                        s' = IF twoway.ifc.state = "Wait" /\ (n.bdr \/ (n.dr /\ alone))
                             THEN Elect(twoway)
                             ELSE IF n # old THEN NChg(twoway)
                             ELSE twoway

\* A Description makes the neighbour 2-Way as a Hello would (nba_eval2).
RecvDD(q) ==
    /\ s.ifc.nbr[q].state = "Init"
    /\ s' = Bidirectional(s, q)

\* Event LoadingDone, or ExchangeDone with nothing to load: q becomes Full.
BecomeFull(q) ==
    /\ s.fulls < MaxFull
    /\ s.ifc.nbr[q].state = "2Way" /\ q \notin s.full /\ adjacency_wanted(s, q)
    /\ s' = NbrChanged(rl_orig([s EXCEPT !.full = @ \cup {q}, !.fulls = @ + 1]))

\* Events SeqNumberMismatch and BadLSReq.
RestartDD(q) ==
    /\ q \in s.full
    /\ s' = NbrChanged(LeaveFull(s, {q}))

\* Event InactivityTimer.
InactTimer(q) ==
    /\ s.ifc.nbr[q].state # "Down"
    /\ s' = IF s.ifc.nbr[q].state = "2Way" THEN Below(s, q, Unheard)
            ELSE NbrChanged([s EXCEPT !.ifc.nbr[q] = Unheard])

WaitTimer ==
    /\ s.ifc.state = "Wait"
    /\ s' = Elect(s)

Next ==
    \/ Up \/ WaitTimer
    \/ \E q \in Peers : RecvHello(q) \/ RecvDD(q) \/ BecomeFull(q) \/ RestartDD(q) \/ InactTimer(q)

Spec == Init /\ [][Next]_vars

-----------------------------------------------------------------------------
(* Properties. *)

\* However the state machines have called each other, the router-LSA and the
\* network-LSA say after every event what the interface and its neighbours are
\* like then.
LsasFresh ==
    /\ s.ifc.state # "Down" => s.rlsa = rl_insert(s)
    /\ s.nlsa = nl_raw_orig(s)

\* Who is not wanted any more after an election does not stay adjacent.
OnlyWantedFull == \A q \in s.full : adjacency_wanted(s, q)

\* if_dr_n, a pointer that nothing clears when its neighbour is deleted, points to a
\* neighbour that is 2-Way, while the interface is up.
DrNeighbourAlive == s.dr_n # NoNbr => s.ifc.nbr[s.dr_n].state = "2Way"

\* A Designated Router with a fully adjacent neighbour has a network-LSA.
NetLsaWhenFull == s.ifc.state = "DR" /\ s.full # {} => s.nlsa # None

-----------------------------------------------------------------------------
(* RFC 2328, 9.4, of what the interface knows. *)

Highest(i, S) ==
    IF S = {} THEN UnknownAddr
    ELSE CHOOSE a \in S : \A b \in S : ~Lower(i, a, b)

Candidates(i) ==
    {q \in Rtr \ {i.addr} : Eligible(i, q)} \cup (IF i.pri # 0 THEN {i.addr} ELSE {})
SaysDr(i, a) == IF a = i.addr THEN i.dr = i.addr ELSE i.nbr[a].dr
CallDr(i) == {a \in Candidates(i) : SaysDr(i, a)}
CallBdr(i) == {a \in Candidates(i) \ CallDr(i) : DeclaredBdr(i, a)}

RfcBdr(i) == Highest(i, IF CallBdr(i) # {} THEN CallBdr(i) ELSE Candidates(i) \ CallDr(i))
RfcDr(i) == IF CallDr(i) # {} THEN Highest(i, CallDr(i)) ELSE RfcBdr(i)

Orders == SetToSeqs(Peers)

\* One pass over the neighbours, in whatever order they are on the list, elects
\* whom the RFC names: the loops carry the best so far from one to the next and
\* compare it by rules that change with what it has declared.  And one election
\* is enough: another one, with nothing new, changes nothing, so that those of
\* the calls of ifc_fsm nested in one Hello agree.
ElectionIsRfc ==
    \A list \in Orders : LET once == ifa_elect(s.ifc, list)
                         IN  /\ Pass(s.ifc, list).bdr = RfcBdr(s.ifc)
                             /\ Pass(s.ifc, list).dr = RfcDr(s.ifc)
                             /\ ifa_elect(once, list) = once

=============================================================================
