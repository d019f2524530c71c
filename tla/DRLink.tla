------------------------------- MODULE DRLink -------------------------------
(***************************************************************************)
(* The routers of one link elect a Designated Router by Hellos (ospfHello.cpp,   *)
(* InterfaceFSM.cpp).  Each runs the code; a Hello reaches all, some or none of   *)
(* the others at once.  A router that goes down forgets everything.              *)
(***************************************************************************)
EXTENDS Election

CONSTANTS
    Pri,        \* Pri[r]: if_drpri of router r
    MaxDowns,   \* bound of the crashes
    MaxLate     \* steps that are not in time: see InTime

ASSUME DRLinkAssumption == Pri \in [Rtr -> 0..MaxPri] /\ MaxDowns \in Nat /\ MaxLate \in Nat

VARIABLES
    ifc,        \* ifc[r]: the interface of router r
    downs,      \* crashes so far
    late,       \* steps so far that were not in time
    calm,       \* from now on no Hello is lost, and routers neither start nor crash
    sent        \* who has sent its Hello in this HelloInterval, once it is calm

vars == <<ifc, downs, late, calm, sent>>

TypeOK ==
    /\ ifc \in [Rtr -> Ifcs]
    /\ \A r \in Rtr : Pri[r] = 0 => ifc[r].state # "Wait"
    /\ downs \in 0..MaxDowns
    /\ late \in 0..MaxLate /\ calm \in BOOLEAN
    /\ sent \subseteq Rtr

Off(r) == [addr |-> r, pri |-> Pri[r], state |-> "Down", dr |-> UnknownAddr,
           bdr |-> UnknownAddr, nbr |-> [q \in Rtr |-> Unheard]]

Init ==
    /\ ifc = [r \in Rtr |-> Off(r)]
    /\ downs = 0
    /\ late = 0 /\ calm = FALSE
    /\ sent = {}

Up(r) == ifc[r].state # "Down"
Others(r) == Rtr \ {r}
Live == {r \in Rtr : Up(r)}
Heard(r) == \A q \in Others(r) : Up(q) => ifc[r].nbr[q].state = "2Way"

\* The timers are slower than the Hellos: a step
\* is in time unless a Hello is lost, or a router ceases to wait, or gives a
\* neighbour up, before it has heard every router that is up.
InTime(b) ==
    /\ b \/ late < MaxLate
    /\ late' = IF b THEN late ELSE late + 1

-----------------------------------------------------------------------------
(* The handlers, as operators on an interface. *)

\* The order of the neighbours does not matter to the election (ElectionIsRfc of
\* IfcLsas).
NbrList == [r \in Rtr |-> SetToSeq(Others(r))]

Elect(i) == ifa_elect(i, NbrList[i.addr])

\* Event NeighborChange.
NChg(i) == IF i.state \in MULTI THEN Elect(i) ELSE i

\* Mutant: a router that starts does not wait for those that are there.
ifa_startAtOnce(i) == [i EXCEPT !.state = "Other"]

ifa_start(i) == [i EXCEPT !.state = IF i.pri = 0 THEN "Other" ELSE "Wait"]

\* Mutant: a change of what the neighbour declares is not looked at.
recv_helloDeaf(i, q, h) ==
    LET n == i.nbr[q]
        seen == [i EXCEPT !.nbr[q] = [state |-> IF n.state = "Down" THEN "Init" ELSE n.state,
                                      prior |-> h.pri, dr |-> h.dr = q, bdr |-> h.bdr = q]]
        oneway == [seen EXCEPT !.nbr[q].state = "Init"]
    IN  CASE i.state = "Down" -> i
          [] i.addr \notin h.nbrs -> IF n.state = "2Way" THEN NChg(oneway) ELSE oneway
          [] OTHER -> IF n.state = "2Way" THEN seen
                      ELSE NChg([seen EXCEPT !.nbr[q].state = "2Way"])

\* recv_hello of a Hello h from q.  What q declares is stored first, so that the
\* elections of all the events see it.
recv_hello(i, q, h) ==
    LET n == i.nbr[q]
        seen == [i EXCEPT !.nbr[q] = [state |-> IF n.state = "Down" THEN "Init" ELSE n.state,
                                      prior |-> h.pri, dr |-> h.dr = q, bdr |-> h.bdr = q]]
        oneway == [seen EXCEPT !.nbr[q].state = "Init"]
        twoway == IF n.state = "2Way" THEN seen ELSE NChg([seen EXCEPT !.nbr[q].state = "2Way"])
        nbr_change == seen.nbr[q].dr # n.dr \/ seen.nbr[q].bdr # n.bdr
        backup_seen == twoway.state = "Wait" /\ (h.bdr = q \/ (h.dr = q /\ h.bdr = UnknownAddr))
    IN  CASE i.state = "Down" -> i
          [] i.addr \notin h.nbrs -> IF n.state = "2Way" THEN NChg(oneway) ELSE oneway
          [] backup_seen -> Elect(twoway)
          [] nbr_change -> NChg(twoway)
          [] OTHER -> twoway

\* The Hello of interface i.
build_hello(i) ==
    [pri |-> i.pri, dr |-> i.dr, bdr |-> i.bdr,
     nbrs |-> {q \in Rtr : i.nbr[q].state # "Down"}]

\* Router r's Hello reaches the routers in to; r's own interface becomes i.
Broadcast(r, to, i) ==
    ifc' = [q \in Rtr |-> CASE q = r -> i
                            [] q \in to -> recv_hello(ifc[q], r, build_hello(ifc[r]))
                            [] OTHER -> ifc[q]]

-----------------------------------------------------------------------------
(* The steps of the routers. *)

SendHello(r, to) ==
    /\ Up(r) /\ to \subseteq Others(r)
    /\ calm => to = Others(r) /\ (r \notin sent \/ sent = Live)
    /\ Broadcast(r, to, ifc[r])
    /\ InTime(to = Others(r))
    /\ sent' = CASE ~calm -> sent [] sent = Live -> {r} [] OTHER -> sent \cup {r}
    /\ UNCHANGED <<downs, calm>>

\* ifa_start sends a Hello before it leaves state Down.
Start(r, to) ==
    /\ ~calm /\ ~Up(r) /\ to \subseteq Others(r)
    /\ Broadcast(r, to, ifa_start(ifc[r]))
    /\ InTime(to = Others(r))
    /\ UNCHANGED <<downs, calm, sent>>

Crash(r) ==
    /\ ~calm /\ Up(r) /\ downs < MaxDowns
    /\ downs' = downs + 1
    /\ ifc' = [ifc EXCEPT ![r] = Off(r)]
    /\ UNCHANGED <<late, calm, sent>>

WaitTimer(r) ==
    /\ ifc[r].state = "Wait"
    /\ ifc' = [ifc EXCEPT ![r] = Elect(@)]
    /\ InTime(Heard(r))
    /\ UNCHANGED <<downs, calm, sent>>

\* Event InactivityTimer.
InactTimer(r, q) ==
    /\ ifc[r].nbr[q].state # "Down"
    /\ calm => ~Up(q)
    /\ LET gone == [ifc[r] EXCEPT !.nbr[q] = Unheard]
       IN  ifc' = [ifc EXCEPT ![r] = IF @.nbr[q].state = "2Way" THEN NChg(gone) ELSE gone]
    /\ InTime(Heard(r) /\ ~Up(q))
    /\ UNCHANGED <<downs, calm, sent>>

\* Router q has begun the database exchange: a Description of it makes the
\* neighbour 2-Way as a Hello would.
RecvDD(r, q) ==
    /\ ifc[r].nbr[q].state = "Init" /\ ifc[q].nbr[r].state = "2Way"
    /\ {ifc[q].dr, ifc[q].bdr} \cap {r, q} # {}
    /\ ifc' = [ifc EXCEPT ![r] = NChg([@ EXCEPT !.nbr[q].state = "2Way"])]
    /\ UNCHANGED <<downs, late, calm, sent>>

Next ==
    \/ \E r \in Rtr, to \in SUBSET Rtr : SendHello(r, to) \/ Start(r, to)
    \/ \E r \in Rtr : Crash(r) \/ WaitTimer(r)
    \/ \E r, q \in Rtr : InactTimer(r, q) \/ RecvDD(r, q)

Spec == Init /\ [][Next]_vars

Settle ==
    /\ ~calm /\ calm' = TRUE
    /\ UNCHANGED <<ifc, downs, late, sent>>

\* Hellos are sent for ever, each router's once in every HelloInterval; nobody
\* waits for ever, and who is down is given up in the end.
FairSpec ==
    /\ Init /\ [][Next \/ Settle]_vars
    /\ []<>(sent = Live) /\ []<>(Cardinality(Live) > 1 => sent # Live)
    /\ []<>(\A r \in Rtr : ifc[r].state # "Wait")
    /\ []<>(\A r, q \in Rtr : ifc[r].nbr[q].state # "Down" => Up(q))

-----------------------------------------------------------------------------
(* Properties. *)

AgreedOn(d, b) == \A r \in Live : ifc[r].dr = d /\ ifc[r].bdr = b

\* Once the link is calm, its routers come to agree for ever on the Designated
\* Router and its Backup, which are up.
Agreement ==
    <>[](calm => \E d, b \in Live \cup {UnknownAddr} : AgreedOn(d, b))

\* d and b know each other as Designated Router and Backup; nobody else is
\* either of the two or is taken for it, and who has heard the two knows.
Established(d, b) ==
    /\ ifc[d].state = "DR" /\ ifc[d].bdr = b
    /\ ifc[b].state = "Backup" /\ ifc[b].dr = d
    /\ \A r \in Live \ {d, b} : ifc[r].state \in {"Wait", "Other"}
    /\ \A r \in Live : \A q \in Others(r) :
          LET n == ifc[r].nbr[q]
          IN  n.state # "Down" => n.dr = (q = d) /\ n.bdr = (q = b)

\* Once the two are established, whoever starts, with whatever address and
\* priority, displaces neither, in whatever order it hears the others.
NoPreemption ==
    [][\A d, b \in Live : Established(d, b) /\ late' = 0 =>
          \/ Established(d, b)'
          \/ {ifc'[d].state, ifc'[b].state} \cap {"Down"} # {}]_vars

\* While the Backup on which all agree is up, no other router takes over.
BackupTakesOver ==
    [][\A b \in Live : \A r \in Others(b) :
          (\A q \in Live : ifc[q].bdr = b) /\ ifc[r].state # "DR" /\ late' = 0 =>
              ifc'[r].state # "DR"]_vars
=============================================================================
