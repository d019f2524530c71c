------------------------------ MODULE LinkGraph ------------------------------
(***************************************************************************)
(* The router-LSAs and network-LSAs of the database as a graph (rtrLSA.cpp,   *)
(* netLSA.cpp, the ends of LSA.cpp).  A link names its neighbour; a pointer   *)
(* to the neighbour's object, tl_nbr, is kept with it, and is set only if the *)
(* neighbour is parsed and links back.  Every LSA that is parsed or unparsed   *)
(* corrects the pointers of its neighbours, and the routing calculation walks  *)
(* the pointers only.                                                        *)
(*                                                                         *)
(* No LSA links to itself.                                                  *)
(***************************************************************************)
EXTENDS Integers, Sequences

CONSTANTS
    Router, Network,    \* the origins of router-LSAs, the network-LSAs
    LsId, AdvRtr,       \* LS ID of a network-LSA, advertising router of an LSA
    Contents,           \* Contents[v]: what v may say, sequences of links
    None                \* no LSA

Node == Router \cup Network

\* Whether the id and the type of link l are those of a link to w.  tlp_link
\* treats a virtual link like a point-to-point one.  Links of types that nobody
\* knows, which keep the pointer they have, do not occur.
Names(l, w) == \/ l.type = "TNET" /\ w \in Network /\ l.id = LsId[w]
               \/ l.type \in {"PP", "VL"} /\ w \in Router /\ l.id = w

Says(v, b) == DOMAIN b \subseteq Nat /\ \A i \in DOMAIN b : ~Names(b[i], v)

ASSUME GraphAssumption ==
    /\ Router \cap Network = {} /\ None \notin Node
    /\ \A v \in Node : AdvRtr[v] \in Int /\ None \notin Contents[v]
    /\ \A v \in Node : \A b \in Contents[v] : Says(v, b)

VARIABLES
    body,       \* body[v]: contents of v's LSA in the database, or None
    parsed,     \* it is not at MaxAge
    nbr,        \* nbr[v][i]: tl_nbr of the i-th link of v
    full_sched  \* the routes are to be calculated

NoLinks == [i \in {} |-> None]

graph == <<body, parsed, nbr, full_sched>>

InitGraph ==
    /\ body = [v \in Node |-> None]
    /\ parsed = [v \in Node |-> FALSE]
    /\ nbr = [v \in Node |-> NoLinks]
    /\ full_sched \in BOOLEAN      \* phy_up asks for a calculation

-----------------------------------------------------------------------------
(* Of several network-LSAs with one LS ID the one with the largest            *)
(* advertising router is found.                                              *)

Lookup(bd, l) ==
    LET named == {w \in Node : Names(l, w) /\ bd[w] # None}
    IN  IF named = {} THEN None
        ELSE CHOOSE w \in named : \A x \in named : AdvRtr[x] <= AdvRtr[w]

LinksTo(b, v) == {j \in DOMAIN b : Names(b[j], v)}

Unlinked(b) == [i \in DOMAIN b |-> None]

\* Every link of u that names v gets the pointer w.
Point(b, ptrs, v, w) == [j \in DOMAIN b |-> IF j \in LinksTo(b, v) THEN w ELSE ptrs[j]]

\* Mutant: only the links of v are set, not those that point back.
parseOneSided(bd, pd, nb, v) ==
    LET W(i) == Lookup(bd, bd[v][i])
        answers(i) == W(i) # None /\ pd[W(i)] /\ LinksTo(bd[W(i)], v) # {}
    IN  [nb EXCEPT ![v] = [i \in DOMAIN bd[v] |-> IF answers(i) THEN W(i) ELSE None]]

\* tlp_link for each link: both sides are set if the neighbour links back.
parse(bd, pd, nb, v) ==
    LET W(i) == Lookup(bd, bd[v][i])
        answers(i) == W(i) # None /\ pd[W(i)] /\ LinksTo(bd[W(i)], v) # {}
        answering == {W(i) : i \in {j \in DOMAIN bd[v] : answers(j)}}
    IN  [u \in Node |->
            IF u = v THEN [i \in DOMAIN bd[v] |-> IF answers(i) THEN W(i) ELSE None]
            ELSE IF u \in answering THEN Point(bd[u], nb[u], v, v)
            ELSE nb[u]]

unlink(bd, nb, v) ==
    LET near == {nb[v][i] : i \in DOMAIN nb[v]} \ {None}
    IN  [u \in Node |->
            IF u = v THEN Unlinked(nb[v])
            ELSE IF u \in near THEN Point(bd[u], nb[u], v, None)
            ELSE nb[u]]

UnParseLSA(v) == IF parsed[v] THEN unlink(body, nbr, v) ELSE nbr

\* delete_actions: after a network-LSA another one with its LS ID is parsed again.
delete_actions(bd, pd, nb, v) ==
    LET twin == IF v \in Network THEN Lookup(bd, [type |-> "TNET", id |-> LsId[v]])
                ELSE None
    IN  IF twin = None THEN nb ELSE parse(bd, pd, nb, twin)

-----------------------------------------------------------------------------
(* The database operations.                                                 *)

\* AddLSA of an instance that is not at MaxAge: the old one is unparsed, then
\* the new one parsed.
Add(v, b) ==
    /\ body' = [body EXCEPT ![v] = b]
    /\ parsed' = [parsed EXCEPT ![v] = TRUE]
    /\ nbr' = parse(body', parsed', UnParseLSA(v), v)

\* The instance says something new, or replaces none or one at MaxAge.
Install(v, b) ==
    /\ body[v] # b \/ ~parsed[v]
    /\ Add(v, b)
    /\ full_sched' = TRUE

\* A refresh: the object is kept if no list refers to it, otherwise replaced.
Refresh(v) ==
    /\ parsed[v]
    /\ Add(v, body[v])
    /\ UNCHANGED full_sched

\* AddLSA of an instance at MaxAge: received, aged or flushed.  It is not parsed.
Expire(v, b) ==
    /\ body[v] # b \/ parsed[v]
    /\ body' = [body EXCEPT ![v] = b]
    /\ parsed' = [parsed EXCEPT ![v] = FALSE]
    /\ nbr' = [UnParseLSA(v) EXCEPT ![v] = Unlinked(b)]
    /\ full_sched' = TRUE

\* DeleteLSA, of an instance at MaxAge.
Delete(v) ==
    /\ body[v] # None /\ ~parsed[v]
    /\ body' = [body EXCEPT ![v] = None]
    /\ nbr' = delete_actions(body', parsed, [nbr EXCEPT ![v] = NoLinks], v)
    /\ UNCHANGED <<parsed, full_sched>>

Change(v) ==
    \/ \E b \in Contents[v] : Install(v, b) \/ Expire(v, b)
    \/ Refresh(v)
    \/ Delete(v)

\* What the calculation of the routes does to the graph.
Calculated == full_sched' = FALSE /\ UNCHANGED <<body, parsed, nbr>>

NextGraph == (\E v \in Node : Change(v)) \/ Calculated

SpecGraph == InitGraph /\ [][NextGraph]_graph

-----------------------------------------------------------------------------
(* Properties. *)

Slots(b) == IF b = None THEN {} ELSE DOMAIN b

GraphTypeOK ==
    /\ body = [v \in Node |-> body[v]]
    /\ \A v \in Node : body[v] \in Contents[v] \cup {None}
    /\ parsed \in [Node -> BOOLEAN]
    /\ \A v \in Node : parsed[v] => body[v] # None
    /\ nbr = [v \in Node |-> nbr[v]]
    /\ \A v \in Node : nbr[v] \in [Slots(body[v]) -> Node \cup {None}]
    /\ full_sched \in BOOLEAN

\* Both LSAs are parsed, and each has a link to the other.
Adjacent(bd, pd, v, w) ==
    pd[v] /\ pd[w] /\ LinksTo(bd[v], w) # {} /\ LinksTo(bd[w], v) # {}

\* The pointers that parsing and unparsing maintain step by step are those that
\* the contents of the database call for, in whatever order LSAs came, changed
\* and went.
LinksMutual ==
    \A v \in Node : \A i \in Slots(body[v]), w \in Node :
        (nbr[v][i] = w) = (Names(body[v][i], w) /\ Adjacent(body, parsed, v, w))

\* No pointer leads to an LSA that has left the database.
NoGhost ==
    \A v \in Node : \A i \in Slots(body[v]) :
        nbr[v][i] # None => body[nbr[v][i]] # None

\* Every network-LSA has its own LS ID, as long as no router changes its ID.
UniqueIds == \A v, w \in Network : LsId[v] = LsId[w] => v = w
=============================================================================
