---------------------------- MODULE RoutesProofs ----------------------------
(***************************************************************************)
(* The pointers between LSAs are exact, for all networks, contents and orders  *)
(* of events, provided that LS IDs of network-LSAs are unique; the kernel and   *)
(* ifmap follow what they copy; and the calculation over the pointers finds,    *)
(* for every prefix, the least cost of all paths that the contents of the      *)
(* database offer, and next hops of paths of that cost: all of them, unless     *)
(* they are too many for the list.                                            *)
(*                                                                           *)
(* The argument about the calculation: merge makes a list of next hops of      *)
(* either list, in whatever order, and leaves one out only if the list is full; *)
(* a run keeps NodeInv and EntryInv of the links it has followed (each node and  *)
(* each entry has the least cost by these links, next hops by the links of that *)
(* cost and, unless its list is full, all of them), and nodes go on the tree in *)
(* the order of their rank; at its end all links of the tree have been         *)
(* followed, so that no path of the reference is better than the node it leads  *)
(* to, and every next hop of a node is that of a path along the tree.           *)
(*                                                                           *)
(* The facts about the heap are those of TimerQueueProofs, whose other          *)
(* constants and variables have no part here.                                *)
(***************************************************************************)
EXTENDS Routes, TimerQueueProofs

-----------------------------------------------------------------------------
(* The pointers between LSAs. *)

\* The types of the database alone.
Typed(bd, pd) ==
    /\ bd = [v \in Node |-> bd[v]]
    /\ \A v \in Node : bd[v] \in Contents[v] \cup {None}
    /\ pd \in [Node -> BOOLEAN]
    /\ \A v \in Node : pd[v] => bd[v] # None

\* The pointers of u, where those to v are left out.
ExactAt(bd, pd, nb, u, v) ==
    /\ nb[u] \in [Slots(bd[u]) -> Node \cup {None}]
    /\ \A i \in Slots(bd[u]), w \in Node :
         (nb[u][i] = w) = (Names(bd[u][i], w) /\ Adjacent(bd, pd, u, w) /\ w # v)

Mutual(bd, pd, nb) == \A u \in Node : ExactAt(bd, pd, nb, u, None)

MutualBut(bd, pd, nb, v) == \A u \in Node \ {v} : ExactAt(bd, pd, nb, u, v)

\* A link names at most one LSA.
LEMMA NamesOne ==
    ASSUME UniqueIds, NEW l, NEW v \in Node, NEW w \in Node, Names(l, v), Names(l, w)
    PROVE  v = w
BY GraphAssumption DEF Names, UniqueIds, Node

\* Lookup finds what the link names, if it is in the database.
LEMMA LookupFinds ==
    ASSUME UniqueIds, NEW bd, NEW l
    PROVE  /\ \A w \in Node : Names(l, w) /\ bd[w] # None => Lookup(bd, l) = w
           /\ Lookup(bd, l) # None =>
                /\ Lookup(bd, l) \in Node
                /\ Names(l, Lookup(bd, l)) /\ bd[Lookup(bd, l)] # None
<1> DEFINE named == {w \in Node : Names(l, w) /\ bd[w] # None}
<1>1. CASE named = {}
  BY <1>1 DEF Lookup
<1>2. CASE named # {}
  <2>1. PICK w \in Node : Names(l, w) /\ bd[w] # None
    BY <1>2
  <2>2. \A x \in named : x = w
    BY <2>1, NamesOne
  <2>3. AdvRtr[w] \in Int
    BY GraphAssumption
  <2>4. w \in named /\ \A x \in named : AdvRtr[x] <= AdvRtr[w]
    BY <2>1, <2>2, <2>3
  <2>5. Lookup(bd, l) \in named
    BY <1>2, <2>4 DEF Lookup
  <2> QED
    BY <2>2, <2>5, <2>1
<1> QED
  BY <1>1, <1>2

\* A neighbour's links to v point to it or to nothing: no other pointer changes.
LEMMA Pointed ==
    ASSUME NEW b, NEW ptrs \in [Slots(b) -> Node \cup {None}], b # None,
           NEW v \in Node, NEW w \in Node \cup {None}
    PROVE  /\ Point(b, ptrs, v, w) \in [Slots(b) -> Node \cup {None}]
           /\ \A j \in Slots(b) : Point(b, ptrs, v, w)[j]
                = IF Names(b[j], v) THEN w ELSE ptrs[j]
BY DEF Point, Slots, LinksTo

\* parse makes the pointers exact if they were, but for those to v and from v.
LEMMA ParseExact ==
    ASSUME UniqueIds, NEW bd, NEW pd, NEW nb, NEW v \in Node,
           Typed(bd, pd), pd[v], MutualBut(bd, pd, nb, v)
    PROVE  Mutual(bd, pd, parse(bd, pd, nb, v))
<1> DEFINE W(i) == Lookup(bd, bd[v][i])
           answers(i) == W(i) # None /\ pd[W(i)] /\ LinksTo(bd[W(i)], v) # {}
           answering == {W(i) : i \in {j \in DOMAIN bd[v] : answers(j)}}
           new == parse(bd, pd, nb, v)
<1>1. bd[v] # None /\ Slots(bd[v]) = DOMAIN bd[v]
  BY DEF Typed, Slots
<1>2. \A i \in DOMAIN bd[v] : \A w \in Node :
         (answers(i) /\ W(i) = w) = (Names(bd[v][i], w) /\ Adjacent(bd, pd, v, w))
  <2> SUFFICES ASSUME NEW i \in DOMAIN bd[v], NEW w \in Node
               PROVE (answers(i) /\ W(i) = w)
                     = (Names(bd[v][i], w) /\ Adjacent(bd, pd, v, w))
    OBVIOUS
  <2>1. ASSUME answers(i), W(i) = w
        PROVE  Names(bd[v][i], w) /\ Adjacent(bd, pd, v, w)
    <3>1. Names(bd[v][i], w)
      BY <2>1, LookupFinds
    <3>2. i \in LinksTo(bd[v], w)
      BY <3>1 DEF LinksTo
    <3> QED
      BY <2>1, <3>1, <3>2 DEF Adjacent
  <2>2. ASSUME Names(bd[v][i], w), Adjacent(bd, pd, v, w)
        PROVE  answers(i) /\ W(i) = w
    <3>1. pd[w] /\ bd[w] # None /\ LinksTo(bd[w], v) # {}
      BY <2>2 DEF Adjacent, Typed
    <3>2. W(i) = w
      BY <2>2, <3>1, LookupFinds
    <3> QED
      BY <3>1, <3>2, GraphAssumption
  <2>3. (answers(i) /\ W(i) = w) \in BOOLEAN
    BY DEF Typed
  <2> HIDE DEF W, answers
  <2> QED
    BY <2>1, <2>2
<1>3. ExactAt(bd, pd, new, v, None)
  <2>1. new[v] = [i \in DOMAIN bd[v] |-> IF answers(i) THEN W(i) ELSE None]
    BY DEF parse
  <2>2. \A i \in DOMAIN bd[v] : W(i) \in Node \cup {None}
    BY LookupFinds
  <2> HIDE DEF W, answers, new
  <2>3. new[v] \in [Slots(bd[v]) -> Node \cup {None}]
    BY <1>1, <2>1, <2>2
  <2>4. ASSUME NEW i \in Slots(bd[v]), NEW w \in Node
        PROVE (new[v][i] = w) = (Names(bd[v][i], w) /\ Adjacent(bd, pd, v, w) /\ w # None)
    BY <1>1, <1>2, <2>1, GraphAssumption
  <2> QED
    BY <2>3, <2>4 DEF ExactAt
<1>4. ASSUME NEW u \in Node, u # v
      PROVE  ExactAt(bd, pd, new, u, None)
  <2>1. ExactAt(bd, pd, nb, u, v)
    BY <1>4 DEF MutualBut
  <2>2. (u \in answering) = Adjacent(bd, pd, v, u)
    <3>1. ASSUME u \in answering PROVE Adjacent(bd, pd, v, u)
      BY <1>2, <3>1
    <3>2. ASSUME Adjacent(bd, pd, v, u) PROVE u \in answering
      <4>1. PICK i \in DOMAIN bd[v] : Names(bd[v][i], u)
        BY <3>2 DEF Adjacent, LinksTo
      <4> QED
        BY <1>2, <3>2, <4>1
    <3>3. Adjacent(bd, pd, v, u) \in BOOLEAN
      BY DEF Adjacent, Typed
    <3> QED
      BY <3>1, <3>2, <3>3
  <2>3. Adjacent(bd, pd, v, u) = Adjacent(bd, pd, u, v)
    BY DEF Adjacent, Typed
  <2>4. CASE u \in answering
    <3>1. bd[u] # None
      BY <2>2, <2>4 DEF Adjacent, Typed
    <3>2. new[u] = Point(bd[u], nb[u], v, v)
      BY <1>4, <2>4 DEF parse
    <3>3. nb[u] \in [Slots(bd[u]) -> Node \cup {None}]
      BY <2>1 DEF ExactAt
    <3>4. /\ new[u] \in [Slots(bd[u]) -> Node \cup {None}]
          /\ \A j \in Slots(bd[u]) :
               new[u][j] = IF Names(bd[u][j], v) THEN v ELSE nb[u][j]
      BY <3>1, <3>2, <3>3, Pointed
    <3>5. ASSUME NEW j \in Slots(bd[u]), NEW w \in Node
          PROVE (new[u][j] = w) = (Names(bd[u][j], w) /\ Adjacent(bd, pd, u, w) /\ w # None)
      <4>1. (nb[u][j] = w) = (Names(bd[u][j], w) /\ Adjacent(bd, pd, u, w) /\ w # v)
        BY <2>1 DEF ExactAt
      <4>2. Names(bd[u][j], v) => (Names(bd[u][j], w) = (w = v))
        BY NamesOne DEF Names
      <4>3. Adjacent(bd, pd, u, v) /\ w # None
        BY <2>2, <2>3, <2>4, GraphAssumption
      <4>4. CASE w = v
        BY <3>4, <4>1, <4>3, <4>4 DEF Names
      <4>5. CASE w # v
        BY <3>4, <4>1, <4>2, <4>3, <4>5
      <4> QED
        BY <4>4, <4>5
    <3> QED
      BY <3>4, <3>5 DEF ExactAt
  <2>5. CASE u \notin answering
    <3>1. new[u] = nb[u]
      BY <1>4, <2>5 DEF parse
    <3>2. ~Adjacent(bd, pd, u, v)
      BY <2>2, <2>3, <2>5
    <3>3. ASSUME NEW j \in Slots(bd[u]), NEW w \in Node
          PROVE (new[u][j] = w) = (Names(bd[u][j], w) /\ Adjacent(bd, pd, u, w) /\ w # None)
      <4>1. (nb[u][j] = w) = (Names(bd[u][j], w) /\ Adjacent(bd, pd, u, w) /\ w # v)
        BY <2>1 DEF ExactAt
      <4> QED
        BY <3>1, <3>2, <4>1, GraphAssumption
    <3> QED
      BY <2>1, <3>1, <3>3 DEF ExactAt
  <2> QED
    BY <2>4, <2>5
<1> QED
  BY <1>3, <1>4 DEF Mutual
\* unlink takes exactly the pointers to v away, whatever v says next.
LEMMA UnlinkExact ==
    ASSUME UniqueIds, NEW bd, NEW pd, NEW nb, NEW v \in Node,
           Typed(bd, pd), Mutual(bd, pd, nb),
           NEW b \in Contents[v] \cup {None}, NEW p \in BOOLEAN,
           NEW new, new = IF pd[v] THEN unlink(bd, nb, v) ELSE nb
    PROVE  MutualBut([bd EXCEPT ![v] = b], [pd EXCEPT ![v] = p], new, v)
<1> DEFINE near == {nb[v][i] : i \in DOMAIN nb[v]} \ {None}
           cd == [bd EXCEPT ![v] = b]
           qd == [pd EXCEPT ![v] = p]
<1>1. ASSUME NEW u \in Node \ {v}
      PROVE  ExactAt(cd, qd, new, u, v)
  <2>1. ExactAt(bd, pd, nb, u, None) /\ ExactAt(bd, pd, nb, v, None)
    BY DEF Mutual
  <2>2. cd[u] = bd[u]
    BY DEF Typed
  <2>3. ASSUME NEW w \in Node, w # v
        PROVE  Adjacent(cd, qd, u, w) = Adjacent(bd, pd, u, w)
    <3>1. cd[w] = bd[w] /\ qd[w] = pd[w] /\ qd[u] = pd[u]
      BY <2>3 DEF Typed
    <3> QED
      BY <2>2, <3>1 DEF Adjacent
  <2>4. (pd[v] /\ u \in near) = Adjacent(bd, pd, u, v)
    <3>1. ASSUME pd[v], u \in near PROVE Adjacent(bd, pd, u, v)
      <4>1. PICK i \in Slots(bd[v]) : nb[v][i] = u
        BY <2>1, <3>1 DEF ExactAt
      <4>2. Adjacent(bd, pd, v, u)
        BY <2>1, <4>1 DEF ExactAt
      <4> QED
        BY <4>2 DEF Adjacent
    <3>2. ASSUME Adjacent(bd, pd, u, v) PROVE pd[v] /\ u \in near
      <4>1. pd[v] /\ bd[v] # None /\ Adjacent(bd, pd, v, u)
        BY <3>2 DEF Adjacent, Typed
      <4>2. PICK i \in Slots(bd[v]) : Names(bd[v][i], u)
        BY <4>1 DEF Adjacent, LinksTo, Slots
      <4>3. nb[v][i] = u /\ i \in DOMAIN nb[v] /\ u # None
        BY <2>1, <4>1, <4>2, GraphAssumption DEF ExactAt
      <4> QED
        BY <4>1, <4>3
    <3>3. Adjacent(bd, pd, u, v) \in BOOLEAN /\ pd[v] \in BOOLEAN
      BY DEF Adjacent, Typed
    <3> QED
      BY <3>1, <3>2, <3>3
  <2>5. /\ new[u] \in [Slots(bd[u]) -> Node \cup {None}]
        /\ \A j \in Slots(bd[u]), w \in Node :
             (new[u][j] = w) = (Names(bd[u][j], w) /\ Adjacent(bd, pd, u, w) /\ w # v)
    <3>1. nb[u] \in [Slots(bd[u]) -> Node \cup {None}]
      BY <2>1 DEF ExactAt
    <3>2. CASE pd[v] /\ u \in near
      <4>1. new[u] = Point(bd[u], nb[u], v, None)
        BY <3>2 DEF unlink
      <4>2. bd[u] # None
        BY <2>4, <3>2 DEF Adjacent, Typed
      <4>3. /\ new[u] \in [Slots(bd[u]) -> Node \cup {None}]
            /\ \A j \in Slots(bd[u]) :
                 new[u][j] = IF Names(bd[u][j], v) THEN None ELSE nb[u][j]
        BY <3>1, <4>1, <4>2, Pointed
      <4>4. ASSUME NEW j \in Slots(bd[u]), NEW w \in Node
            PROVE (new[u][j] = w)
                  = (Names(bd[u][j], w) /\ Adjacent(bd, pd, u, w) /\ w # v)
        <5>1. (nb[u][j] = w) = (Names(bd[u][j], w) /\ Adjacent(bd, pd, u, w) /\ w # None)
          BY <2>1 DEF ExactAt
        <5>2. Names(bd[u][j], v) => (Names(bd[u][j], w) = (w = v))
          BY NamesOne DEF Names
        <5>3. w # None
          BY GraphAssumption
        <5>4. CASE w = v
          BY <2>4, <3>2, <4>3, <5>1, <5>3, <5>4 DEF Names
        <5>5. CASE w # v
          BY <4>3, <5>1, <5>2, <5>3, <5>5
        <5> QED
          BY <5>4, <5>5
      <4> QED
        BY <4>3, <4>4
    <3>3. CASE ~(pd[v] /\ u \in near)
      <4>1. new[u] = nb[u]
        BY <3>3 DEF unlink
      <4>2. ~Adjacent(bd, pd, u, v)
        BY <2>4, <3>3
      <4>3. ASSUME NEW j \in Slots(bd[u]), NEW w \in Node
            PROVE (new[u][j] = w)
                  = (Names(bd[u][j], w) /\ Adjacent(bd, pd, u, w) /\ w # v)
        <5>1. (nb[u][j] = w) = (Names(bd[u][j], w) /\ Adjacent(bd, pd, u, w) /\ w # None)
          BY <2>1 DEF ExactAt
        <5> QED
          BY <4>1, <4>2, <5>1, GraphAssumption
      <4> QED
        BY <3>1, <4>1, <4>3
    <3> QED
      BY <3>2, <3>3
  <2> HIDE DEF cd, qd, near
  <2>6. ASSUME NEW j \in Slots(bd[u]), NEW w \in Node
        PROVE (new[u][j] = w) = (Names(cd[u][j], w) /\ Adjacent(cd, qd, u, w) /\ w # v)
    <3>1. (new[u][j] = w) = (Names(bd[u][j], w) /\ Adjacent(bd, pd, u, w) /\ w # v)
      BY <2>5
    <3>2. CASE w = v
      BY <3>1, <3>2
    <3>3. CASE w # v
      BY <2>2, <2>3, <3>1, <3>3
    <3> QED
      BY <3>2, <3>3
  <2> QED
    BY <2>2, <2>5, <2>6 DEF ExactAt
<1> QED
  BY <1>1 DEF MutualBut

-----------------------------------------------------------------------------
(* The invariant. *)

GraphInv == GraphTypeOK /\ LinksMutual

LEMMA InvIsMutual ==
    ASSUME GraphTypeOK
    PROVE  Typed(body, parsed) /\ (LinksMutual = Mutual(body, parsed, nbr))
<1>1. Typed(body, parsed)
  BY DEF GraphTypeOK, Typed
<1>2. \A u \in Node : u # None
  BY GraphAssumption
<1>3. \A u \in Node : nbr[u] \in [Slots(body[u]) -> Node \cup {None}]
  BY DEF GraphTypeOK
<1> QED
  BY <1>1, <1>2, <1>3 DEF LinksMutual, Mutual, ExactAt

\* The same of the next state.
LEMMA MutualIsInvNext ==
    ASSUME Typed(body', parsed'), Mutual(body', parsed', nbr'),
           nbr' = [v \in Node |-> nbr'[v]], full_sched' \in BOOLEAN
    PROVE  GraphInv'
<1>1. GraphTypeOK'
  <2>1. \A v \in Node : nbr'[v] \in [Slots(body'[v]) -> Node \cup {None}]
    BY DEF Mutual, ExactAt
  <2> QED
    BY <2>1 DEF GraphTypeOK, Typed, Slots
<1>2. LinksMutual'
  <2>1. \A u \in Node : u # None
    BY GraphAssumption
  <2>2. ASSUME NEW v \in Node, NEW i \in Slots(body'[v]), NEW w \in Node
        PROVE (nbr'[v][i] = w) = (Names(body'[v][i], w) /\ Adjacent(body', parsed', v, w))
    BY <2>1 DEF Mutual, ExactAt
  <2> QED
    BY <2>2 DEF LinksMutual, Slots
<1> QED
  BY <1>1, <1>2 DEF GraphInv

\* The pointers of an LSA that is not parsed are all null, and none leads to it.
LEMMA UnparsedExact ==
    ASSUME NEW bd, NEW pd, NEW nb, NEW v \in Node, MutualBut(bd, pd, nb, v),
           ~pd[v], nb[v] \in [Slots(bd[v]) -> {None}]
    PROVE  Mutual(bd, pd, nb)
<1>1. ExactAt(bd, pd, nb, v, None)
  BY GraphAssumption DEF ExactAt, Adjacent
<1>2. ASSUME NEW u \in Node, u # v
      PROVE  ExactAt(bd, pd, nb, u, None)
  <2>1. ExactAt(bd, pd, nb, u, v)
    BY <1>2 DEF MutualBut
  <2>2. ~Adjacent(bd, pd, u, v)
    BY DEF Adjacent
  <2> QED
    BY <2>1, <2>2, GraphAssumption DEF ExactAt
<1> QED
  BY <1>1, <1>2 DEF Mutual

LEMMA InitInv == InitGraph => GraphInv
<1> SUFFICES ASSUME InitGraph PROVE GraphInv
  OBVIOUS
<1>1. \A v \in Node : body[v] = None /\ parsed[v] = FALSE /\ nbr[v] = NoLinks
  BY DEF InitGraph
<1>2. NoLinks \in [{} -> Node \cup {None}]
  BY DEF NoLinks
<1>3. GraphTypeOK
  <2>1. \A v \in Node : nbr[v] \in [Slots(body[v]) -> Node \cup {None}]
    BY <1>1, <1>2 DEF Slots
  <2> QED
    BY <1>1, <2>1 DEF InitGraph, GraphTypeOK
<1>4. LinksMutual
  BY <1>1 DEF LinksMutual, Slots
<1> QED
  BY <1>3, <1>4 DEF GraphInv

\* Add leaves the pointers exact.
LEMMA AddInv ==
    ASSUME UniqueIds, GraphInv, NEW v \in Node, NEW b \in Contents[v], Add(v, b),
           full_sched' \in BOOLEAN
    PROVE  GraphInv'
<1>1. Typed(body, parsed) /\ Mutual(body, parsed, nbr) /\ nbr = [u \in Node |-> nbr[u]]
  BY InvIsMutual DEF GraphInv, GraphTypeOK
<1>2. body' = [body EXCEPT ![v] = b] /\ parsed' = [parsed EXCEPT ![v] = TRUE]
  BY DEF Add
<1>3. b # None
  BY GraphAssumption
<1>4. Typed(body', parsed')
  BY <1>1, <1>2, <1>3 DEF Typed
<1> DEFINE un == UnParseLSA(v)
<1>5. MutualBut(body', parsed', un, v)
  <2>1. un = IF parsed[v] THEN unlink(body, nbr, v) ELSE nbr
    BY DEF UnParseLSA
  <2> HIDE DEF un
  <2> QED
    BY <1>1, <1>2, <2>1, UnlinkExact
<1>6. nbr' = parse(body', parsed', un, v) /\ parsed'[v]
  BY <1>1, <1>2 DEF Add, Typed
<1> HIDE DEF un
<1>7. Mutual(body', parsed', nbr')
  BY <1>4, <1>5, <1>6, ParseExact
<1>8. nbr' = [u \in Node |-> nbr'[u]]
  BY <1>6 DEF parse
<1> QED
  BY <1>4, <1>7, <1>8, MutualIsInvNext

\* Expire leaves the pointers exact: the LSA is not parsed.
LEMMA ExpireInv ==
    ASSUME UniqueIds, GraphInv, NEW v \in Node, NEW b \in Contents[v], Expire(v, b)
    PROVE  GraphInv'
<1>1. Typed(body, parsed) /\ Mutual(body, parsed, nbr) /\ nbr = [u \in Node |-> nbr[u]]
  BY InvIsMutual DEF GraphInv, GraphTypeOK
<1>2. body' = [body EXCEPT ![v] = b] /\ parsed' = [parsed EXCEPT ![v] = FALSE]
  BY DEF Expire
<1>3. b # None
  BY GraphAssumption
<1>4. Typed(body', parsed') /\ ~parsed'[v] /\ body'[v] = b
  BY <1>1, <1>2, <1>3 DEF Typed
<1> DEFINE un == UnParseLSA(v)
<1>5. MutualBut(body', parsed', un, v) /\ un = [u \in Node |-> un[u]]
  <2>1. un = IF parsed[v] THEN unlink(body, nbr, v) ELSE nbr
    BY DEF UnParseLSA
  <2> HIDE DEF un
  <2>2. MutualBut(body', parsed', un, v)
    BY <1>1, <1>2, <2>1, UnlinkExact
  <2>3. un = [u \in Node |-> un[u]]
    BY <1>1, <2>1 DEF unlink
  <2> QED
    BY <2>2, <2>3
<1>6. nbr' = [un EXCEPT ![v] = Unlinked(b)]
  BY DEF Expire
<1> HIDE DEF un
<1>7. /\ nbr' = [u \in Node |-> nbr'[u]]
      /\ nbr'[v] = Unlinked(b)
      /\ \A u \in Node \ {v} : nbr'[u] = un[u]
  BY <1>5, <1>6
<1>8. MutualBut(body', parsed', nbr', v)
  BY <1>5, <1>7 DEF MutualBut, ExactAt
<1>9. nbr'[v] \in [Slots(body'[v]) -> {None}]
  BY <1>3, <1>4, <1>7 DEF Unlinked, Slots
<1>10. Mutual(body', parsed', nbr')
  BY <1>4, <1>8, <1>9, UnparsedExact
<1> QED
  BY <1>4, <1>7, <1>10, MutualIsInvNext DEF Expire

\* Delete takes an LSA away to which no pointer leads, and no other one has its ID.
LEMMA DeleteInv ==
    ASSUME UniqueIds, GraphInv, NEW v \in Node, Delete(v)
    PROVE  GraphInv'
<1>1. /\ Typed(body, parsed) /\ Mutual(body, parsed, nbr)
      /\ nbr = [u \in Node |-> nbr[u]] /\ ~parsed[v]
  BY InvIsMutual DEF GraphInv, GraphTypeOK, Delete
<1>2. body' = [body EXCEPT ![v] = None] /\ parsed' = parsed /\ full_sched' = full_sched
  BY DEF Delete
<1>3. Typed(body', parsed') /\ ~parsed'[v] /\ body'[v] = None
  BY <1>1, <1>2 DEF Typed
<1>4. v \in Network => Lookup(body', [type |-> "TNET", id |-> LsId[v]]) = None
  <2> DEFINE l == [type |-> "TNET", id |-> LsId[v]]
  <2>1. ASSUME v \in Network, Lookup(body', l) # None
        PROVE  FALSE
    <3>1. /\ Lookup(body', l) \in Node
          /\ Names(l, Lookup(body', l)) /\ body'[Lookup(body', l)] # None
      BY <2>1, LookupFinds
    <3>2. Names(l, v)
      BY <2>1 DEF Names
    <3> HIDE DEF l
    <3> QED
      BY <1>3, <3>1, <3>2, NamesOne
  <2> QED
    BY <2>1
<1>5. nbr' = [nbr EXCEPT ![v] = NoLinks]
  <2>1. nbr' = delete_actions(body', parsed, [nbr EXCEPT ![v] = NoLinks], v)
    BY DEF Delete
  <2>. QED
    BY <1>4, <2>1 DEF delete_actions
<1>6. /\ nbr' = [u \in Node |-> nbr'[u]]
      /\ nbr'[v] = NoLinks
      /\ \A u \in Node \ {v} : nbr'[u] = nbr[u]
  BY <1>1, <1>5
<1>7. MutualBut(body', parsed', nbr', v)
  <2>1. parsed' = [parsed EXCEPT ![v] = FALSE]
    BY <1>1, <1>2 DEF Typed
  <2>2. ~parsed[v] /\ None \in Contents[v] \cup {None} /\ FALSE \in BOOLEAN
    BY <1>1
  <2>3. MutualBut(body', parsed', nbr, v)
    <3> DEFINE new == IF parsed[v] THEN unlink(body, nbr, v) ELSE nbr
    <3>1. new = nbr
      BY <2>2
    <3>2. new = IF parsed[v] THEN unlink(body, nbr, v) ELSE nbr
      OBVIOUS
    <3> HIDE DEF new
    <3>3. PICK b \in Contents[v] \cup {None} : b = None
      OBVIOUS
    <3>4. body' = [body EXCEPT ![v] = b]
      BY <1>2, <3>3
    <3>5. MutualBut(body', parsed', new, v)
      BY <1>1, <2>1, <3>2, <3>4, UnlinkExact
    <3> QED
      BY <3>1, <3>5
  <2> QED
    BY <1>6, <2>3 DEF MutualBut, ExactAt
<1>8. nbr'[v] \in [Slots(body'[v]) -> {None}]
  BY <1>3, <1>6 DEF NoLinks, Slots
<1>9. Mutual(body', parsed', nbr')
  BY <1>3, <1>7, <1>8, UnparsedExact
<1>10. full_sched' \in BOOLEAN
  BY <1>2 DEF GraphInv, GraphTypeOK
<1> QED
  BY <1>3, <1>6, <1>9, <1>10, MutualIsInvNext

LEMMA StepInv == UniqueIds /\ GraphInv /\ [NextGraph]_graph => GraphInv'
<1> SUFFICES ASSUME UniqueIds, GraphInv, [NextGraph]_graph PROVE GraphInv'
  OBVIOUS
<1>1. ASSUME NEW v \in Node, NEW b \in Contents[v], Install(v, b) PROVE GraphInv'
  BY <1>1, AddInv DEF Install
<1>2. ASSUME NEW v \in Node, NEW b \in Contents[v], Expire(v, b) PROVE GraphInv'
  BY <1>2, ExpireInv
<1>3. ASSUME NEW v \in Node, Refresh(v) PROVE GraphInv'
  BY <1>3, AddInv DEF Refresh, GraphInv, GraphTypeOK
<1>4. ASSUME NEW v \in Node, Delete(v) PROVE GraphInv'
  BY <1>4, DeleteInv
<1>5. CASE Calculated
  <2>1. /\ body' = body /\ parsed' = parsed /\ nbr' = nbr
        /\ full_sched' \in BOOLEAN
    BY <1>5 DEF Calculated
  <2>2. GraphTypeOK'
    BY <2>1 DEF GraphInv, GraphTypeOK
  <2>3. LinksMutual'
    BY <2>1 DEF GraphInv, LinksMutual
  <2> QED
    BY <2>2, <2>3 DEF GraphInv
<1>6. CASE UNCHANGED graph
  BY <1>6 DEF graph, GraphInv, GraphTypeOK, LinksMutual, Adjacent
<1> QED
  BY <1>1, <1>2, <1>3, <1>4, <1>5, <1>6 DEF NextGraph, Change

-----------------------------------------------------------------------------
(* The theorems. *)

\* Types, for every set of LSAs and all their contents.
THEOREM GraphTypeCorrect == ASSUME UniqueIds PROVE SpecGraph => []GraphTypeOK
<1>1. GraphInv => GraphTypeOK
  BY DEF GraphInv
<1> QED
  BY <1>1, InitInv, StepInv, PTL DEF SpecGraph

\* The pointers that parse and unlink keep (rtrLSA.cpp, netLSA.cpp) are those that
\* the contents of the LSAs call for.
THEOREM LinksAreMutual == ASSUME UniqueIds PROVE SpecGraph => []LinksMutual
<1>1. GraphInv => LinksMutual
  BY DEF GraphInv
<1> QED
  BY <1>1, InitInv, StepInv, PTL DEF SpecGraph

\* The calculation never follows a pointer to an LSA that has been deleted.
THEOREM NoGhosts == ASSUME UniqueIds PROVE SpecGraph => []NoGhost
<1>1. GraphInv => NoGhost
  <2> SUFFICES ASSUME GraphInv, NEW v \in Node, NEW i \in Slots(body[v]), nbr[v][i] # None
               PROVE  body[nbr[v][i]] # None
    BY DEF NoGhost
  <2>1. nbr[v][i] \in Node
    BY DEF GraphInv, GraphTypeOK
  <2> QED
    BY <2>1 DEF GraphInv, LinksMutual, Adjacent, GraphTypeOK
<1> QED
  BY <1>1, InitInv, StepInv, PTL DEF SpecGraph

-----------------------------------------------------------------------------
(* The steps of Routes are steps of LinkGraph. *)

LEMMA StepIsGraph == GraphInv /\ [NextRoutes]_routes => [NextGraph]_graph
<1>. SUFFICES ASSUME GraphInv, [NextRoutes]_routes PROVE [NextGraph]_graph
  OBVIOUS
<1>1. Root \in Node
  BY RoutesAssumption DEF Node
<1>2. ASSUME parsed[Root], Expire(Root, body[Root]) PROVE Change(Root)
  <2>1. body[Root] \in Contents[Root]
    BY <1>1, <1>2 DEF GraphInv, GraphTypeOK
  <2>. QED
    BY <1>2, <2>1 DEF Change
<1>3. ASSUME NEW s \in IfcStates, NEW late \in BOOLEAN, rl_orig(s, late)
      PROVE  Change(Root) \/ UNCHANGED graph
  <2>1. CASE OwnLsa(s) = <<>>
    BY <1>2, <1>3, <2>1 DEF rl_orig
  <2>2. CASE OwnLsa(s) # <<>>
    <3>1. OwnLsa(s) \in Contents[Root]
      BY <2>2, OwnAssumption
    <3>. QED
      BY <1>3, <2>2, <3>1 DEF rl_orig, Change
  <2>. QED
    BY <2>1, <2>2
<1>4. CASE Originate
  BY <1>1, <1>3, <1>4 DEF Originate, NextGraph
<1>5. CASE \E v \in Node \ {Root} : Others(v)
  BY <1>5 DEF Others, NextGraph
<1>6. CASE Own
  BY <1>1, <1>2, <1>6 DEF Own, NextGraph, Change
<1>7. CASE Tick
  BY <1>7 DEF Tick, full_calculation, NextGraph
<1>8. CASE UNCHANGED routes
  BY <1>8 DEF routes
<1>. QED
  BY <1>4, <1>5, <1>6, <1>7, <1>8 DEF NextRoutes

-----------------------------------------------------------------------------
(* The interfaces of the links. *)

\* The numbers of the interfaces that are up are a sequence.
LEMMA UpIs ==
    ASSUME NEW s
    PROVE  Up(s) \in Seq(DOMAIN Ifaces)
<1>. DEFINE n == Len(Ifaces)
            V == Seq(DOMAIN Ifaces)
            more(q, i) == IF s[i] = "down" THEN q ELSE Append(q, i)
            Loop(f) == f = [i \in 0..n |-> IF i = 0 THEN <<>> ELSE more(f[i - 1], i)]
            IsUp(f, m) == /\ f \in [0..m -> V]
                          /\ f[0] = <<>>
                          /\ \A i \in 1..m : f[i] = more(f[i - 1], i)
            S == {m \in 0..n : \E f : IsUp(f, m)}
<1>1. n \in Nat /\ DOMAIN Ifaces = 1..n
  BY RoutesAssumption
<1>2. Up(s) = (CHOOSE f : Loop(f))[n]
  BY DEF Up
<1>3. <<>> \in V /\ \A i \in 1..n : \A q \in V : more(q, i) \in V
  <2>. DEFINE D == DOMAIN Ifaces
  <2>1. ASSUME NEW i \in D, NEW q \in Seq(D) PROVE Append(q, i) \in Seq(D)
    <3>. HIDE DEF D
    <3>. QED
      BY <2>1
  <2>2. ASSUME NEW i \in D, NEW q \in Seq(D) PROVE more(q, i) \in Seq(D)
    BY <2>1
  <2>3. <<>> \in Seq(D)
    OBVIOUS
  <2>. QED
    BY <1>1, <2>2, <2>3
<1>. HIDE DEF n, V, more
<1>4. 0 \in S
  <2>1. IsUp([i \in 0..0 |-> <<>>], 0)
    BY <1>3
  <2>. HIDE DEF IsUp
  <2>. QED
    BY <1>1, <2>1
<1>5. ASSUME NEW m \in 1..n, m - 1 \in S PROVE m \in S
  <2>1. PICK f : IsUp(f, m - 1)
    BY <1>5
  <2>. DEFINE g == [i \in 0..m |-> IF i = m THEN more(f[m - 1], m) ELSE f[i]]
  <2>2. f[m - 1] \in V /\ more(f[m - 1], m) \in V
    BY <1>1, <1>3, <2>1
  <2>3. g \in [0..m -> V] /\ g[0] = <<>>
    BY <1>1, <2>1, <2>2
  <2>4. ASSUME NEW i \in 1..m PROVE g[i] = more(g[i - 1], i)
    <3>1. g[i - 1] = f[i - 1]
      BY <1>1, <2>4
    <3>2. CASE i = m
      BY <1>1, <3>1, <3>2
    <3>3. CASE i # m
      <4>1. i \in 1..(m - 1) /\ g[i] = f[i]
        BY <1>1, <3>3
      <4>2. f[i] = more(f[i - 1], i)
        BY <2>1, <4>1
      <4>. QED
        BY <3>1, <4>1, <4>2
    <3>. QED
      BY <3>2, <3>3
  <2>5. IsUp(g, m)
    <3>. HIDE DEF g
    <3>. QED
      BY <2>3, <2>4
  <2>. HIDE DEF IsUp, g
  <2>6. m \in 0..n /\ \E h : IsUp(h, m)
    BY <1>1, <2>5
  <2>. QED
    BY <2>6
<1>6. n \in S
  <2>. HIDE DEF S
  <2>1. 0..n \subseteq S
    BY <1>1, <1>4, <1>5, UpTo
  <2>. QED
    BY <1>1, <2>1
<1>7. PICK f : IsUp(f, n)
  BY <1>6
<1>8. Loop(f)
  BY <1>1, <1>7
<1>. DEFINE h == CHOOSE g : Loop(g)
<1>9. Loop(h)
  <2>. HIDE DEF Loop
  <2>. QED
    BY <1>8
<1>10. h[0] = <<>> /\ \A i \in 1..n : h[i] = more(h[i - 1], i)
  <2>. HIDE DEF h
  <2>. QED
    BY <1>1, <1>9
<1>. HIDE DEF h
<1>. DEFINE Good == {i \in 0..n : h[i] \in V}
<1>11. 0 \in Good /\ \A i \in 1..n : i - 1 \in Good => i \in Good
  BY <1>1, <1>3, <1>10
<1>12. n \in Good
  <2>. HIDE DEF Good
  <2>1. 0..n \subseteq Good
    BY <1>1, <1>11, UpTo
  <2>. QED
    BY <1>1, <2>1
<1>13. h[n] \in V
  BY <1>12
<1>. QED
  BY <1>2, <1>13 DEF h, V

\* The links of the own LSA are those of these interfaces.
Fits(ifs, b) ==
    /\ Len(ifs) = Len(b)
    /\ \A i \in DOMAIN ifs : ifs[i] = IfcOf(b[i])

LEMMA OwnLsaIs ==
    ASSUME NEW s
    PROVE  Fits([k \in DOMAIN Up(s) |-> Ifaces[Up(s)[k]]], OwnLsa(s))
<1>. DEFINE ifs == [k \in DOMAIN Up(s) |-> Ifaces[Up(s)[k]]]
            b == OwnLsa(s)
<1>1. PICK n \in Nat : DOMAIN Up(s) = 1..n
  BY UpIs
<1>2. Len(ifs) = n /\ DOMAIN ifs = 1..n
  BY <1>1
<1>3. Len(b) = n /\ DOMAIN b = 1..n
  BY <1>1 DEF OwnLsa
<1>4. ASSUME NEW k \in 1..n PROVE ifs[k] = IfcOf(b[k])
  <2>. DEFINE i == Up(s)[k]
              l == b[k]
              Is(ifc) == IF l.type = "STUB" THEN Net(ifc.addr) = l.id ELSE ifc.addr = l.data
  <2>1. i \in DOMAIN Ifaces /\ l = rl_insert(i, s[i]) /\ ifs[k] = Ifaces[i]
    BY <1>1, UpIs DEF OwnLsa
  <2>. HIDE DEF ifs, b, i
  <2>2. Ifaces[i] \in ToSet(Ifaces)
    BY <2>1 DEF ToSet
  <2>3. Is(Ifaces[i])
    BY <2>1 DEF rl_insert
  <2>4. ASSUME NEW ifc \in ToSet(Ifaces), Is(ifc) PROVE ifc = Ifaces[i]
    <3>1. PICK j \in DOMAIN Ifaces : ifc = Ifaces[j]
      BY <2>4 DEF ToSet
    <3>2. Net(ifc.addr) = Net(Ifaces[i].addr)
      BY <2>1, <2>4 DEF rl_insert
    <3>. QED
      BY <2>1, <3>1, <3>2, RoutesAssumption
  <2>5. IfcOf(l) = CHOOSE ifc \in ToSet(Ifaces) : Is(ifc)
    BY DEF IfcOf
  <2>. HIDE DEF Is
  <2>6. IfcOf(l) = Ifaces[i]
    BY <2>2, <2>3, <2>4, <2>5
  <2>. QED
    BY <2>1, <2>6
<1>. QED
  BY <1>2, <1>3, <1>4 DEF Fits

-----------------------------------------------------------------------------
(* The loops of the calculation. *)

\* There is one state after each link that is followed.
LinksFollowed(c, V, n, h) ==
    /\ h[0] = c
    /\ \A i \in 1..n : h[i] = FollowLink(h[i - 1], V, i)
    /\ FollowLinks(c, V) = h[n]

LEMMA FollowLinksIs ==
    ASSUME NEW c, NEW V, Len(body[V]) \in Nat
    PROVE  \E h : LinksFollowed(c, V, Len(body[V]), h)
<1>. DEFINE n == Len(body[V])
            more(d, i) == FollowLink(d, V, i)
            Loop(f) == f = [i \in 0..n |-> IF i = 0 THEN c ELSE more(f[i - 1], i)]
            IsRun(f, m) == /\ f = [i \in 0..m |-> f[i]]
                           /\ f[0] = c
                           /\ \A i \in 1..m : f[i] = more(f[i - 1], i)
            S == {m \in 0..n : \E f : IsRun(f, m)}
            h == CHOOSE f : Loop(f)
<1>1. FollowLinks(c, V) = h[n]
  BY DEF FollowLinks
<1>2. n \in Nat
  OBVIOUS
<1>. HIDE DEF more, n
<1>3. 0 \in S
  <2>1. IsRun([i \in 0..0 |-> c], 0)
    OBVIOUS
  <2>. HIDE DEF IsRun
  <2>. QED
    BY <1>2, <2>1
<1>4. ASSUME NEW m \in 1..n, m - 1 \in S PROVE m \in S
  <2>1. PICK f : IsRun(f, m - 1)
    BY <1>4
  <2>. DEFINE g == [i \in 0..m |-> IF i = m THEN more(f[m - 1], m) ELSE f[i]]
  <2>2. g = [i \in 0..m |-> g[i]] /\ g[0] = c
    BY <1>2, <2>1
  <2>3. ASSUME NEW i \in 1..m PROVE g[i] = more(g[i - 1], i)
    <3>1. g[i - 1] = f[i - 1]
      BY <1>2, <2>3
    <3>2. CASE i = m
      BY <1>2, <3>1, <3>2
    <3>3. CASE i # m
      <4>1. i \in 1..(m - 1) /\ g[i] = f[i]
        BY <1>2, <3>3
      <4>2. f[i] = more(f[i - 1], i)
        BY <2>1, <4>1
      <4>. QED
        BY <3>1, <4>1, <4>2
    <3>. QED
      BY <3>2, <3>3
  <2>4. IsRun(g, m)
    <3>. HIDE DEF g
    <3>. QED
      BY <2>2, <2>3
  <2>. HIDE DEF IsRun, g
  <2>5. m \in 0..n /\ \E k : IsRun(k, m)
    BY <1>2, <2>4
  <2>. QED
    BY <2>5
<1>5. n \in S
  <2>. HIDE DEF S
  <2>1. 0..n \subseteq S
    BY <1>2, <1>3, <1>4, UpTo
  <2>. QED
    BY <1>2, <2>1
<1>6. PICK f : IsRun(f, n)
  BY <1>5
<1>7. Loop(f)
  <2>1. \A i \in 0..n : f[i] = IF i = 0 THEN c ELSE more(f[i - 1], i)
    <3>1. f[0] = c /\ \A i \in 1..n : f[i] = more(f[i - 1], i)
      BY <1>6
    <3>2. ASSUME NEW i \in 0..n PROVE i = 0 \/ i \in 1..n
      BY <1>2
    <3>. QED
      BY <3>1, <3>2
  <2>2. [i \in 0..n |-> f[i]] = [i \in 0..n |-> IF i = 0 THEN c ELSE more(f[i - 1], i)]
    BY <2>1
  <2>. QED
    BY <1>6, <2>2
<1>8. Loop(h)
  <2>. HIDE DEF Loop
  <2>. QED
    BY <1>7
<1>9. h[0] = c /\ \A i \in 1..n : h[i] = more(h[i - 1], i)
  <2>. HIDE DEF h
  <2>. QED
    BY <1>2, <1>8
<1>. QED
  BY <1>1, <1>9 DEF LinksFollowed, more, n

\* And one after each node that is visited.
NodesVisited(c, n, h) ==
    /\ h[0] = c
    /\ \A i \in 1..n : h[i] = Visited(h[i - 1])
    /\ dijkstra(c) = h[n]

LEMMA DijkstraIs ==
    ASSUME NEW c
    PROVE  Cardinality(Node) \in Nat /\ \E h : NodesVisited(c, Cardinality(Node), h)
<1>. DEFINE n == Cardinality(Node)
            Loop(f) == f = [i \in 0..n |-> IF i = 0 THEN c ELSE Visited(f[i - 1])]
            IsRun(f, m) == /\ f = [i \in 0..m |-> f[i]]
                           /\ f[0] = c
                           /\ \A i \in 1..m : f[i] = Visited(f[i - 1])
            S == {m \in 0..n : \E f : IsRun(f, m)}
            h == CHOOSE f : Loop(f)
<1>1. dijkstra(c) = h[n]
  BY DEF dijkstra
<1>2. n \in Nat
  BY RoutesAssumption, FS_CardinalityType
<1>. HIDE DEF n
<1>3. 0 \in S
  <2>1. IsRun([i \in 0..0 |-> c], 0)
    OBVIOUS
  <2>. HIDE DEF IsRun
  <2>. QED
    BY <1>2, <2>1
<1>4. ASSUME NEW m \in 1..n, m - 1 \in S PROVE m \in S
  <2>1. PICK f : IsRun(f, m - 1)
    BY <1>4
  <2>. DEFINE g == [i \in 0..m |-> IF i = m THEN Visited(f[m - 1]) ELSE f[i]]
  <2>2. g = [i \in 0..m |-> g[i]] /\ g[0] = c
    BY <1>2, <2>1
  <2>3. ASSUME NEW i \in 1..m PROVE g[i] = Visited(g[i - 1])
    <3>1. g[i - 1] = f[i - 1]
      BY <1>2, <2>3
    <3>2. CASE i = m
      BY <1>2, <3>1, <3>2
    <3>3. CASE i # m
      <4>1. i \in 1..(m - 1) /\ g[i] = f[i]
        BY <1>2, <3>3
      <4>2. f[i] = Visited(f[i - 1])
        BY <2>1, <4>1
      <4>. QED
        BY <3>1, <4>1, <4>2
    <3>. QED
      BY <3>2, <3>3
  <2>4. IsRun(g, m)
    <3>. HIDE DEF g
    <3>. QED
      BY <2>2, <2>3
  <2>. HIDE DEF IsRun, g
  <2>5. m \in 0..n /\ \E k : IsRun(k, m)
    BY <1>2, <2>4
  <2>. QED
    BY <2>5
<1>5. n \in S
  <2>. HIDE DEF S
  <2>1. 0..n \subseteq S
    BY <1>2, <1>3, <1>4, UpTo
  <2>. QED
    BY <1>2, <2>1
<1>6. PICK f : IsRun(f, n)
  BY <1>5
<1>7. Loop(f)
  <2>1. \A i \in 0..n : f[i] = IF i = 0 THEN c ELSE Visited(f[i - 1])
    <3>1. f[0] = c /\ \A i \in 1..n : f[i] = Visited(f[i - 1])
      BY <1>6
    <3>2. ASSUME NEW i \in 0..n PROVE i = 0 \/ i \in 1..n
      BY <1>2
    <3>. QED
      BY <3>1, <3>2
  <2>2. [i \in 0..n |-> f[i]] = [i \in 0..n |-> IF i = 0 THEN c ELSE Visited(f[i - 1])]
    BY <2>1
  <2>. QED
    BY <1>6, <2>2
<1>8. Loop(h)
  <2>. HIDE DEF Loop
  <2>. QED
    BY <1>7
<1>9. h[0] = c /\ \A i \in 1..n : h[i] = Visited(h[i - 1])
  <2>. HIDE DEF h
  <2>. QED
    BY <1>2, <1>8
<1>. QED
  BY <1>1, <1>2, <1>9 DEF NodesVisited, n

-----------------------------------------------------------------------------
(* The state of the calculation. *)

Waiting(c) == {v \in Node : c.state[v] = "ONCAND"}

\* Its types.
Record(c) ==
    c = [cand |-> c.cand, state |-> c.state, cost |-> c.cost, epath |-> c.epath,
         direct |-> c.direct, run |-> c.run, rte |-> c.rte]

Fields(c) ==
    /\ Record(c)
    /\ c.state \in [Node -> {"UNINIT", "ONCAND", "ONTREE"}]
    /\ c.cost \in [Node -> Nat]
    /\ c.epath = [v \in Node |-> c.epath[v]]
    /\ c.direct \in [Node -> BOOLEAN]
    /\ c.rte = [p \in Prefix |-> c.rte[p]]

\* The candidates are in the queue with their costs; nothing else is.
Queued(c) ==
    /\ IsQueue(c.cand, Waiting(c))
    /\ \A v \in Waiting(c) : c.cand.elt[v].cost = CostOf(v, c.cost[v])

IsCalc(c) ==
    /\ Fields(c)
    /\ Queued(c)
    /\ \A v \in Node : c.state[v] # "UNINIT" => parsed[v]

\* Of v nothing is different in d.
SameNode(c, d, v) ==
    /\ d.state[v] = c.state[v] /\ d.cost[v] = c.cost[v]
    /\ d.epath[v] = c.epath[v] /\ d.direct[v] = c.direct[v]

LEMMA CostIsCost ==
    ASSUME NEW v, NEW n \in Nat
    PROVE  CostOf(v, n) \in Costs
BY DEF CostOf, Costs

\* A path by node V gives an entry this value.
Improved(e, r, total, hops) ==
    IF e.type = "SPF" /\ e.run = r /\ total > e.cost THEN e
    ELSE [type |-> "SPF", run |-> r, cost |-> total,
          path |-> IF e.type = "SPF" /\ e.run = r /\ total = e.cost THEN merge(hops, e.path)
                   ELSE hops,
          changed |-> e.changed \/ e.type # "SPF",
          old |-> IF e.type = "SPF" /\ e.run # r THEN <<e.cost, e.path>> ELSE e.old]

OfferCost(c, V, i) == c.cost[V] + (IF i = 0 THEN 0 ELSE body[V][i].cost)

OfferHops(c, V, i) == IF V = Root THEN <<Hop(ifmap[i], 0)>> ELSE c.epath[V]

LEMMA IntraIs ==
    ASSUME NEW c, IsCalc(c), NEW p, NEW V, NEW i
    PROVE  LET d == new_intra(c, p, V, i)
           IN  /\ IsCalc(d) /\ d.run = c.run
               /\ \A v \in Node : SameNode(c, d, v)
               /\ \A q \in Prefix \ {p} : d.rte[q] = c.rte[q]
               /\ p \in Prefix =>
                    d.rte[p] = Improved(c.rte[p], c.run, OfferCost(c, V, i), OfferHops(c, V, i))
<1>. DEFINE d == new_intra(c, p, V, i)
            e == c.rte[p]
            total == OfferCost(c, V, i)
            hops == OfferHops(c, V, i)
            worse == e.type = "SPF" /\ e.run = c.run /\ total > e.cost
            x == [type |-> "SPF", run |-> c.run, cost |-> total,
                  path |-> IF e.type = "SPF" /\ e.run = c.run /\ total = e.cost
                           THEN merge(hops, e.path) ELSE hops,
                  changed |-> e.changed \/ e.type # "SPF",
                  old |-> IF e.type = "SPF" /\ e.run # c.run THEN <<e.cost, e.path>> ELSE e.old]
            Is(z) ==
                /\ IsCalc(z) /\ z.run = c.run
                /\ \A v \in Node : SameNode(c, z, v)
                /\ \A q \in Prefix \ {p} : z.rte[q] = c.rte[q]
                /\ p \in Prefix => z.rte[p] = Improved(e, c.run, total, hops)
<1>1. CASE worse
  <2>1. d = c
    BY <1>1 DEF new_intra, OfferCost
  <2>2. Improved(e, c.run, total, hops) = e
    BY <1>1 DEF Improved
  <2>3. Is(c)
    BY <2>2 DEF SameNode
  <2>. QED
    BY <2>1, <2>3
<1>2. CASE ~worse
  <2>1. d = [c EXCEPT !.rte[p] = x]
    <3>1. CASE e.type # "SPF"
      BY <3>1 DEF new_intra, OfferCost, OfferHops
    <3>2. CASE e.type = "SPF" /\ e.run # c.run
      BY <3>2 DEF new_intra, OfferCost, OfferHops
    <3>3. CASE e.type = "SPF" /\ e.run = c.run
      BY <1>2, <3>3 DEF new_intra, OfferCost, OfferHops
    <3>. QED
      BY <3>1, <3>2, <3>3
  <2>2. Improved(e, c.run, total, hops) = x
    BY <1>2 DEF Improved
  <2>. HIDE DEF x, total, hops
  <2>. DEFINE z == [c EXCEPT !.rte[p] = x]
  <2>3. /\ z.state = c.state /\ z.cost = c.cost /\ z.epath = c.epath /\ z.direct = c.direct
        /\ z.cand = c.cand /\ z.run = c.run /\ z.rte = [c.rte EXCEPT ![p] = x]
        /\ Record(z)
    BY DEF IsCalc, Fields, Record
  <2>4. Fields(z)
    BY <2>3 DEF IsCalc, Fields
  <2>5. Waiting(z) = Waiting(c)
    BY <2>3 DEF Waiting
  <2>6. IsCalc(z)
    BY <2>3, <2>4, <2>5 DEF IsCalc, Queued
  <2>7. p \in Prefix => z.rte[p] = x
    BY <2>3 DEF IsCalc, Fields
  <2>8. \A q \in Prefix \ {p} : z.rte[q] = c.rte[q]
    BY <2>3 DEF IsCalc, Fields
  <2>9. \A v \in Node : SameNode(c, z, v)
    BY <2>3 DEF SameNode
  <2>. HIDE DEF z
  <2>10. Is(z)
    BY <2>2, <2>3, <2>6, <2>7, <2>8, <2>9
  <2>11. d = z
    BY <2>1 DEF z
  <2>. HIDE DEF d
  <2>. QED
    BY <2>10, <2>11 DEF d, total, hops
<1>. QED
  BY <1>1, <1>2

\* The next hops that V adds for W.
NewHops(c, W, V, i) ==
    IF V = Root
    THEN <<Hop(ifmap[i], IF W \in Network THEN 0
                         ELSE ospf_find_gw(W, V, Net(ifmap[i].addr)))>>
    ELSE IF c.direct[V] /\ V \in Network
    THEN addgateway(c.epath[V], ospf_find_gw(W, V, Net(LsId[V])))
    ELSE c.epath[V]

LEMMA AddNextHopIs ==
    ASSUME NEW c, NEW W, NEW V, NEW i
    PROVE  add_next_hop(c, W, V, i) = [c EXCEPT !.epath[W] = merge(@, NewHops(c, W, V, i))]
BY DEF add_next_hop, NewHops

LinkCost(c, V, i) == c.cost[V] + body[V][i].cost

Skipped(c, W, total) == c.state[W] = "ONTREE" \/ (c.state[W] = "ONCAND" /\ total > c.cost[W])

Equalled(c, W, total) == c.state[W] = "ONCAND" /\ total = c.cost[W]

\* d is what becomes of c when link i of V has led to W.
Relaxed(c, d, V, i, W) ==
    /\ IsCalc(d) /\ d.rte = c.rte /\ d.run = c.run
    /\ \A v \in Node \ {W} : SameNode(c, d, v)
    /\ Skipped(c, W, LinkCost(c, V, i)) => SameNode(c, d, W)
    /\ ~Skipped(c, W, LinkCost(c, V, i)) =>
         /\ d.state[W] = "ONCAND" /\ d.cost[W] = LinkCost(c, V, i)
         /\ d.direct[W] = (V = Root \/ (Equalled(c, W, LinkCost(c, V, i)) /\ c.direct[W]))
         /\ d.epath[W] = merge(IF Equalled(c, W, LinkCost(c, V, i)) THEN c.epath[W] ELSE <<>>,
                               NewHops(c, W, V, i))

\* Nodes keep their types.
LEMMA FieldsKept ==
    ASSUME NEW c, Fields(c), NEW z, Record(z), NEW W, NEW dir \in BOOLEAN, NEW hops,
           z.state = c.state \/ z.state = [c.state EXCEPT ![W] = "ONCAND"],
           z.cost = c.cost \/ \E n \in Nat : z.cost = [c.cost EXCEPT ![W] = n],
           z.direct = [c.direct EXCEPT ![W] = dir], z.epath = [c.epath EXCEPT ![W] = hops],
           z.rte = c.rte
    PROVE  Fields(z)
<1>1. z.state \in [Node -> {"UNINIT", "ONCAND", "ONTREE"}]
  BY DEF Fields
<1>2. z.cost \in [Node -> Nat]
  <2>1. c.cost \in [Node -> Nat]
    BY DEF Fields
  <2>2. \A n \in Nat : [c.cost EXCEPT ![W] = n] \in [Node -> Nat]
    BY <2>1
  <2>. QED
    BY <2>1, <2>2
<1>3. z.direct \in [Node -> BOOLEAN]
  <2>1. c.direct \in [Node -> BOOLEAN]
    BY DEF Fields
  <2>. QED
    BY <2>1
<1>4. z.epath = [v \in Node |-> z.epath[v]]
  BY DEF Fields
<1>. QED
  BY <1>1, <1>2, <1>3, <1>4 DEF Fields

LEMMA RelaxIs ==
    ASSUME NEW c, IsCalc(c), NEW V \in Node, NEW W \in Node \ {V}, parsed[W], NEW i,
           body[V][i].cost \in Nat
    PROVE  Relaxed(c, Relax(c, V, i, W), V, i, W)
<1>. DEFINE total == LinkCost(c, V, i)
            waiting == c.state[W] = "ONCAND"
            rest == IF waiting THEN del(c.cand, W) ELSE c.cand
            X == Waiting(c)
            new == NewHops(c, W, V, i)
<1>1. total \in Nat /\ c.cost[W] \in Nat
  BY DEF IsCalc, Fields, LinkCost
<1>2. /\ c.cost = [c.cost EXCEPT ![W] = c.cost[W]]
      /\ c.state \in [Node -> {"UNINIT", "ONCAND", "ONTREE"}]
  BY DEF IsCalc, Fields
<1>3. CASE Skipped(c, W, total)
  <2>1. Relax(c, V, i, W) = c
    BY <1>3 DEF Relax, Skipped, LinkCost
  <2>. QED
    BY <1>3, <2>1 DEF Relaxed, SameNode
<1>4. CASE Equalled(c, W, total)
  <2>. DEFINE dir == c.direct[W] \/ V = Root
              f == [c EXCEPT !.direct[W] = dir]
              z == [f EXCEPT !.epath[W] = merge(c.epath[W], new)]
  <2>1. ~Skipped(c, W, total) /\ waiting /\ ~(total < c.cost[W])
    BY <1>1, <1>4 DEF Skipped, Equalled
  <2>2. Relax(c, V, i, W) = add_next_hop(f, W, V, i)
    BY <2>1 DEF Relax, Skipped, LinkCost
  <2>3. f.direct = [c.direct EXCEPT ![W] = dir] /\ f.epath = c.epath
    BY DEF IsCalc, Fields, Record
  <2>4. NewHops(f, W, V, i) = new
    BY <2>3 DEF NewHops, IsCalc, Fields
  <2>5. add_next_hop(f, W, V, i) = [f EXCEPT !.epath[W] = merge(c.epath[W], new)]
    BY <2>3, <2>4, AddNextHopIs
  <2>. HIDE DEF new
  <2>6. Record(f) /\ f.cand = c.cand /\ f.state = c.state /\ f.cost = c.cost /\ f.run = c.run
        /\ f.rte = c.rte
    BY DEF IsCalc, Fields, Record
  <2>. HIDE DEF f
  <2>7. /\ z.cand = c.cand /\ z.state = c.state /\ z.cost = c.cost /\ z.run = c.run /\ z.rte = c.rte
        /\ z.direct = [c.direct EXCEPT ![W] = dir]
        /\ z.epath = [c.epath EXCEPT ![W] = merge(c.epath[W], new)] /\ Record(z)
    BY <2>3, <2>6 DEF Record
  <2>8. Fields(z)
    <3>1. dir \in BOOLEAN
      OBVIOUS
    <3>. DEFINE m == merge(c.epath[W], new)
    <3>2. z.epath = [c.epath EXCEPT ![W] = m]
      BY <2>7
    <3>. HIDE DEF z, dir, m
    <3>3. Fields(c)
      BY DEF IsCalc
    <3>. QED
      BY <2>7, <3>1, <3>2, <3>3, FieldsKept
  <2>. HIDE DEF z
  <2>9. Queued(z)
    BY <2>7 DEF IsCalc, Queued, Waiting
  <2>10. IsCalc(z)
    BY <2>7, <2>8, <2>9 DEF IsCalc
  <2>11. \A v \in Node \ {W} : SameNode(c, z, v)
    BY <2>7 DEF SameNode, IsCalc, Fields
  <2>12. z.direct[W] = dir /\ z.epath[W] = merge(c.epath[W], new)
    BY <2>7 DEF IsCalc, Fields
  <2>13. Relaxed(c, z, V, i, W)
    BY <1>4, <2>1, <2>7, <2>10, <2>11, <2>12 DEF Relaxed, Equalled, new
  <2>. QED
    BY <2>2, <2>5, <2>13 DEF z
<1>5. CASE ~Skipped(c, W, total) /\ ~Equalled(c, W, total)
  <2>. DEFINE q == add(rest, W, CostOf(W, total))
              f == [c EXCEPT !.cand = q, !.state[W] = "ONCAND", !.cost[W] = total,
                             !.direct[W] = V = Root, !.epath[W] = <<>>]
              z == [f EXCEPT !.epath[W] = merge(<<>>, new)]
  <2>1. ~waiting \/ total < c.cost[W]
    BY <1>1, <1>5 DEF Skipped, Equalled
  <2>2. ~(c.state[W] = "ONTREE" \/ (waiting /\ total > c.cost[W]))
    BY <1>5 DEF Skipped
  <2>3. Relax(c, V, i, W) = add_next_hop(f, W, V, i)
    BY <2>1, <2>2 DEF Relax, LinkCost
  <2>4. /\ f.cand = q /\ f.state = [c.state EXCEPT ![W] = "ONCAND"]
        /\ f.cost = [c.cost EXCEPT ![W] = total] /\ f.run = c.run /\ f.rte = c.rte
        /\ f.direct = [c.direct EXCEPT ![W] = V = Root]
        /\ f.epath = [c.epath EXCEPT ![W] = <<>>] /\ Record(f)
    <3>1. Record(c)
      BY DEF IsCalc, Fields
    <3>. DEFINE first == V = Root
    <3>2. f = [c EXCEPT !.cand = q, !.state[W] = "ONCAND", !.cost[W] = total,
                        !.direct[W] = first, !.epath[W] = <<>>]
      OBVIOUS
    <3>. HIDE DEF q, total, first, f
    <3>3. /\ f.cand = q /\ f.state = [c.state EXCEPT ![W] = "ONCAND"]
          /\ f.cost = [c.cost EXCEPT ![W] = total] /\ f.run = c.run /\ f.rte = c.rte
          /\ f.direct = [c.direct EXCEPT ![W] = first]
          /\ f.epath = [c.epath EXCEPT ![W] = <<>>] /\ Record(f)
      BY <3>1, <3>2 DEF Record
    <3>. QED
      BY <3>3 DEF first
  <2>5. NewHops(f, W, V, i) = new
    BY <2>4 DEF NewHops, IsCalc, Fields
  <2>6. add_next_hop(f, W, V, i) = [f EXCEPT !.epath[W] = merge(<<>>, new)]
    <3>1. f.epath[W] = <<>>
      BY <2>4 DEF IsCalc, Fields
    <3>. QED
      BY <2>5, <3>1, AddNextHopIs
  <2>. HIDE DEF new, q
  <2>8. /\ z.cand = q /\ z.state = [c.state EXCEPT ![W] = "ONCAND"]
        /\ z.cost = [c.cost EXCEPT ![W] = total] /\ z.run = c.run /\ z.rte = c.rte
        /\ z.direct = [c.direct EXCEPT ![W] = V = Root]
        /\ z.epath = [c.epath EXCEPT ![W] = merge(<<>>, new)] /\ Record(z)
    <3>1. [[c.epath EXCEPT ![W] = <<>>] EXCEPT ![W] = merge(<<>>, new)]
          = [c.epath EXCEPT ![W] = merge(<<>>, new)]
      BY DEF IsCalc, Fields
    <3>. HIDE DEF f, total
    <3>. QED
      BY <2>4, <3>1 DEF Record
  <2>9. Fields(z)
    <3>. DEFINE first == V = Root
    <3>1. first \in BOOLEAN /\ z.direct = [c.direct EXCEPT ![W] = first]
      BY <2>8
    <3>. DEFINE m == merge(<<>>, new)
    <3>2. z.epath = [c.epath EXCEPT ![W] = m]
      BY <2>8
    <3>3. Fields(c)
      BY DEF IsCalc
    <3>. HIDE DEF z, f, total, first, m
    <3>4. \E n \in Nat : z.cost = [c.cost EXCEPT ![W] = n]
      BY <1>1, <2>8
    <3>. QED
      BY <2>8, <3>1, <3>2, <3>3, <3>4, FieldsKept
  <2>. HIDE DEF z
  <2>10. Waiting(z) = X \cup {W}
    BY <2>8, <1>2 DEF Waiting
  <2>11. IsQueue(rest, X \ {W}) /\ KeepsCosts(c.cand, rest, X \ {W})
    <3>1. IsQueue(c.cand, X)
      BY DEF IsCalc, Queued
    <3>2. CASE waiting
      <4>1. W \in X
        BY <3>2 DEF Waiting
      <4>. QED
        BY <3>1, <3>2, <4>1, DelIs
    <3>3. CASE ~waiting
      <4>1. X \ {W} = X
        BY <3>3 DEF Waiting
      <4>. QED
        BY <3>1, <3>3, <4>1 DEF KeepsCosts
    <3>. QED
      BY <3>2, <3>3
  <2>12. /\ IsQueue(q, (X \ {W}) \cup {W})
         /\ KeepsCosts(rest, q, X \ {W}) /\ q.elt[W].cost = CostOf(W, total)
    <3>1. W # NULL /\ CostOf(W, total) \in Costs
      BY <1>1, CostIsCost, RoutesAssumption
    <3>. HIDE DEF rest, X, total
    <3>. QED
      BY <2>11, <3>1, AddIs DEF q
  <2>13. Queued(z)
    <3>1. (X \ {W}) \cup {W} = Waiting(z)
      BY <2>10
    <3>2. IsQueue(z.cand, Waiting(z))
      BY <2>8, <2>12, <3>1
    <3>3. ASSUME NEW v \in Waiting(z) PROVE z.cand.elt[v].cost = CostOf(v, z.cost[v])
      <4>1. CASE v = W
        <5>1. z.cost[W] = total
          BY <2>8 DEF IsCalc, Fields
        <5>. QED
          BY <2>8, <2>12, <4>1, <5>1
      <4>2. CASE v # W
        <5>1. v \in X \ {W} /\ z.cost[v] = c.cost[v]
          BY <2>8, <2>10, <3>3, <4>2, <1>2 DEF Waiting
        <5>2. c.cand.elt[v].cost = CostOf(v, c.cost[v])
          BY <5>1 DEF IsCalc, Queued
        <5>3. q.elt[v].cost = c.cand.elt[v].cost
          BY <2>11, <2>12, <5>1 DEF KeepsCosts
        <5>. QED
          BY <2>8, <5>1, <5>2, <5>3
      <4>. QED
        BY <4>1, <4>2
    <3>. QED
      BY <3>2, <3>3 DEF Queued
  <2>14. IsCalc(z)
    <3>1. \A v \in Node : z.state[v] # "UNINIT" => parsed[v]
      BY <2>8 DEF IsCalc, Fields
    <3>. QED
      BY <2>9, <2>13, <3>1 DEF IsCalc
  <2>15. \A v \in Node \ {W} : SameNode(c, z, v)
    BY <2>8 DEF SameNode, IsCalc, Fields
  <2>16. /\ z.state[W] = "ONCAND" /\ z.cost[W] = total
         /\ z.direct[W] = (V = Root) /\ z.epath[W] = merge(<<>>, new)
    BY <2>8 DEF IsCalc, Fields
  <2>17. Relaxed(c, z, V, i, W)
    BY <1>5, <2>8, <2>14, <2>15, <2>16 DEF Relaxed, new
  <2>. QED
    BY <2>3, <2>6, <2>17 DEF z
<1>. QED
  BY <1>3, <1>4, <1>5

\* The nearest candidate is taken.
Taken(c) == [c EXCEPT !.cand = rmhead(@), !.state[gethead(c.cand)] = "ONTREE"]

\* V has been taken out of c, and is not farther than any other candidate.
IsTaken(c, d, V) ==
    /\ V \in Waiting(c) /\ IsCalc(d) /\ d.rte = c.rte /\ d.run = c.run
    /\ d.state = [c.state EXCEPT ![V] = "ONTREE"]
    /\ d.cost = c.cost /\ d.epath = c.epath /\ d.direct = c.direct
    /\ \A w \in Waiting(c) : ~cmp_cost(CostOf(w, c.cost[w]), CostOf(V, c.cost[V]))

LEMMA TakenIs ==
    ASSUME NEW c, IsCalc(c), gethead(c.cand) # NULL
    PROVE  IsTaken(c, Taken(c), gethead(c.cand))
<1>. DEFINE V == gethead(c.cand)
            X == Waiting(c)
            d == Taken(c)
<1>1. IsQueue(c.cand, X) /\ c.cand.root = V /\ V # NULL
  BY DEF IsCalc, Queued, gethead
<1>2. V \in X
  BY <1>1, RootOf
<1>3. IsQueue(rmhead(c.cand), X \ {V}) /\ KeepsCosts(c.cand, rmhead(c.cand), X \ {V})
  BY <1>1, RmheadIs
<1>4. Record(c)
  BY DEF IsCalc, Fields
<1>5. /\ Record(d) /\ d.cand = rmhead(c.cand) /\ d.state = [c.state EXCEPT ![V] = "ONTREE"]
      /\ d.cost = c.cost /\ d.epath = c.epath /\ d.direct = c.direct
      /\ d.run = c.run /\ d.rte = c.rte
  <2>. DEFINE z == rmhead(c.cand)
  <2>1. d = [c EXCEPT !.cand = z, !.state[V] = "ONTREE"]
    BY DEF Taken
  <2>. HIDE DEF z, V, d
  <2>2. /\ Record(d) /\ d.cand = z /\ d.state = [c.state EXCEPT ![V] = "ONTREE"]
        /\ d.cost = c.cost /\ d.epath = c.epath /\ d.direct = c.direct
        /\ d.run = c.run /\ d.rte = c.rte
    BY <1>4, <2>1 DEF Record
  <2>. QED
    BY <2>2 DEF z
<1>. HIDE DEF V, d
<1>6. Fields(d)
  BY <1>5 DEF IsCalc, Fields
<1>7. Waiting(d) = X \ {V}
  BY <1>5, <1>6 DEF Waiting, IsCalc, Fields
<1>8. Queued(d)
  <2>1. IsQueue(d.cand, Waiting(d))
    BY <1>3, <1>5, <1>7
  <2>2. ASSUME NEW v \in Waiting(d) PROVE d.cand.elt[v].cost = CostOf(v, d.cost[v])
    <3>1. v \in X \ {V}
      BY <1>7, <2>2
    <3>2. c.cand.elt[v].cost = CostOf(v, c.cost[v])
      BY <3>1 DEF IsCalc, Queued
    <3>. QED
      BY <1>3, <1>5, <3>1, <3>2 DEF KeepsCosts
  <2>. QED
    BY <2>1, <2>2 DEF Queued
<1>9. \A v \in Node : d.state[v] # "UNINIT" => parsed[v]
  BY <1>2, <1>5 DEF IsCalc, Fields, Waiting
<1>10. ASSUME NEW w \in X PROVE ~cmp_cost(CostOf(w, c.cost[w]), CostOf(V, c.cost[V]))
  <2>1. ~Less(c.cand.elt, w, V)
    BY <1>1, <1>10, RootIsLeast
  <2>2. c.cand.elt[w].cost = CostOf(w, c.cost[w]) /\ c.cand.elt[V].cost = CostOf(V, c.cost[V])
    BY <1>2, <1>10 DEF IsCalc, Queued
  <2>. QED
    BY <2>1, <2>2 DEF Less
<1>. QED
  BY <1>2, <1>5, <1>6, <1>8, <1>9, <1>10 DEF IsTaken, IsCalc, V, d

\* Where a run starts.
LEMMA StartsAt ==
    ASSUME Root \in Node, parsed \in [Node -> BOOLEAN], rte = [p \in Prefix |-> rte[p]]
    PROVE  /\ IsCalc(dijk_init) /\ dijk_init.run = 1 - run
           /\ dijk_init.rte = [p \in Prefix |-> Unmarked(rte[p])]
           /\ \A v \in Node : dijk_init.state[v] = IF v = Root /\ parsed[v] THEN "ONCAND" ELSE "UNINIT"
           /\ \A v \in Node : dijk_init.cost[v] = 0 /\ dijk_init.epath[v] = <<>>
<1>. DEFINE d == dijk_init
            cand == IF parsed[Root] THEN add(Empty, Root, CostOf(Root, 0)) ELSE Empty
            state == [v \in Node |-> IF v = Root /\ parsed[v] THEN "ONCAND" ELSE "UNINIT"]
            entries == [p \in Prefix |-> Unmarked(rte[p])]
<1>1. d = [cand |-> cand, state |-> state, cost |-> [v \in Node |-> 0],
           epath |-> [v \in Node |-> <<>>], direct |-> [v \in Node |-> FALSE],
           run |-> 1 - run, rte |-> entries]
  BY DEF dijk_init
<1>2. state \in [Node -> {"UNINIT", "ONCAND", "ONTREE"}]
  OBVIOUS
<1>3. IsQueue(cand, {v \in Node : state[v] = "ONCAND"})
  <2>1. CASE parsed[Root]
    <3>1. Root \notin {} /\ Root # NULL /\ CostOf(Root, 0) \in Costs
      BY CostIsCost, RoutesAssumption
    <3>2. IsQueue(add(Empty, Root, CostOf(Root, 0)), {} \cup {Root})
      BY <3>1, AddIs, EmptyQueue
    <3>3. {v \in Node : state[v] = "ONCAND"} = {} \cup {Root}
      BY <2>1
    <3>. QED
      BY <2>1, <3>2, <3>3
  <2>2. CASE ~parsed[Root]
    <3>1. {v \in Node : state[v] = "ONCAND"} = {}
      BY <2>2
    <3>. QED
      BY <2>2, <3>1, EmptyQueue
  <2>. QED
    BY <2>1, <2>2
<1>4. \A v \in Node : state[v] = "ONCAND" => cand.elt[v].cost = CostOf(v, 0)
  <2>. SUFFICES ASSUME parsed[Root] PROVE add(Empty, Root, CostOf(Root, 0)).elt[Root].cost = CostOf(Root, 0)
    OBVIOUS
  <2>1. Root \notin {} /\ Root # NULL /\ CostOf(Root, 0) \in Costs
    BY CostIsCost, RoutesAssumption
  <2>2. IsQueue(Empty, {})
    BY EmptyQueue
  <2>. DEFINE k == CostOf(Root, 0)
  <2>. HIDE DEF k
  <2>3. k \in Costs
    BY <2>1 DEF k
  <2>. DEFINE X == {}
  <2>4. IsQueue(Empty, X) /\ Root \notin X /\ Root # NULL
    BY <2>1, <2>2
  <2>. HIDE DEF X
  <2>5. /\ IsQueue(add(Empty, Root, k), X \cup {Root})
        /\ KeepsCosts(Empty, add(Empty, Root, k), X)
        /\ add(Empty, Root, k).elt[Root].cost = k
    BY <2>3, <2>4, AddIs
  <2>. QED
    BY <2>5 DEF k
<1>5. \A v \in Node : state[v] # "UNINIT" => parsed[v]
  OBVIOUS
<1>6. \A v \in Node : state[v] = IF v = Root /\ parsed[v] THEN "ONCAND" ELSE "UNINIT"
  OBVIOUS
<1>. HIDE DEF cand, state, d
<1>7. Fields(d)
  <2>1. Record(d)
    BY <1>1 DEF Record
  <2>2. d.rte = [p \in Prefix |-> d.rte[p]]
    <3>1. entries = [p \in Prefix |-> entries[p]]
      OBVIOUS
    <3>. HIDE DEF entries
    <3>. QED
      BY <1>1, <3>1
  <2>. HIDE DEF entries
  <2>3. /\ d.state = state /\ d.cost = [v \in Node |-> 0] /\ d.epath = [v \in Node |-> <<>>]
        /\ d.direct = [v \in Node |-> FALSE]
    BY <1>1
  <2>. QED
    BY <1>2, <2>1, <2>2, <2>3 DEF Fields
<1>. HIDE DEF entries
<1>8. /\ d.cand = cand /\ d.state = state /\ d.cost = [v \in Node |-> 0] /\ d.run = 1 - run
      /\ d.rte = entries /\ d.epath = [v \in Node |-> <<>>]
  BY <1>1
<1>9. Queued(d)
  BY <1>3, <1>4, <1>8 DEF Queued, Waiting
<1>10. IsCalc(d)
  BY <1>5, <1>7, <1>8, <1>9 DEF IsCalc
<1>. QED
  BY <1>6, <1>8, <1>10 DEF d, entries

-----------------------------------------------------------------------------
(* What a run does to the entries. *)

\* A link with a pointer leads to another node that is parsed and links back.
LEMMA LinkLeads ==
    ASSUME GraphInv, NEW V \in Node, parsed[V], NEW i \in DOMAIN body[V]
    PROVE  /\ body[V] \in Contents[V]
           /\ nbr[V][i] # None =>
                /\ nbr[V][i] \in Node \ {V} /\ parsed[nbr[V][i]]
                /\ Names(body[V][i], nbr[V][i]) /\ Adjacent(body, parsed, V, nbr[V][i])
<1>1. body[V] \in Contents[V] /\ body[V] # None
  BY DEF GraphInv, GraphTypeOK
<1>2. i \in Slots(body[V])
  BY <1>1 DEF Slots
<1>3. ASSUME nbr[V][i] # None
      PROVE  /\ nbr[V][i] \in Node /\ Names(body[V][i], nbr[V][i])
             /\ Adjacent(body, parsed, V, nbr[V][i])
  <2>1. nbr[V][i] \in Node
    BY <1>2, <1>3 DEF GraphInv, GraphTypeOK
  <2>. QED
    BY <1>2, <2>1 DEF GraphInv, LinksMutual
<1>4. Says(V, body[V])
  BY <1>1, GraphAssumption
<1>5. ~Names(body[V][i], V)
  BY <1>4 DEF Says
<1>. QED
  BY <1>1, <1>3, <1>5 DEF Adjacent

\* The links of a node that is parsed are numbered, and their costs are numbers.
LEMMA LinksNumbered ==
    ASSUME GraphInv, NEW V \in Node, parsed[V]
    PROVE  /\ Len(body[V]) \in Nat /\ DOMAIN body[V] = 1..Len(body[V])
           /\ \A i \in DOMAIN body[V] : body[V][i].cost \in Nat
<1>1. body[V] \in Contents[V] /\ body[V] # None
  BY DEF GraphInv, GraphTypeOK
<1>2. DOMAIN body[V] = 1..Len(body[V]) /\ \A i \in DOMAIN body[V] : body[V][i].cost \in Nat
  BY <1>1, ContentsAssumption
<1>3. Len(body[V]) \in Nat
  BY <1>1, ContentsAssumption
<1>. QED
  BY <1>2, <1>3

\* One step of the calculation: entries are kept or improved.
Carries(c, d) ==
    /\ IsCalc(d) /\ d.run = c.run
    /\ \A p \in Prefix :
         \/ d.rte[p] = c.rte[p]
         \/ \E total, hops : d.rte[p] = Improved(c.rte[p], c.run, total, hops)

LEMMA IntraCarries ==
    ASSUME NEW c, IsCalc(c), NEW p, NEW V, NEW i
    PROVE  Carries(c, new_intra(c, p, V, i))
<1>. DEFINE d == new_intra(c, p, V, i)
<1>1. /\ IsCalc(d) /\ d.run = c.run
      /\ \A q \in Prefix \ {p} : d.rte[q] = c.rte[q]
      /\ p \in Prefix =>
           d.rte[p] = Improved(c.rte[p], c.run, OfferCost(c, V, i), OfferHops(c, V, i))
  BY IntraIs
<1>. HIDE DEF d
<1>2. ASSUME NEW q \in Prefix
      PROVE  \/ d.rte[q] = c.rte[q]
             \/ \E total, hops : d.rte[q] = Improved(c.rte[q], c.run, total, hops)
  BY <1>1
<1>. QED
  BY <1>1, <1>2 DEF Carries, d

LEMMA FollowCarries ==
    ASSUME GraphInv, NEW c, IsCalc(c), NEW V \in Node, parsed[V], NEW i \in DOMAIN body[V]
    PROVE  Carries(c, FollowLink(c, V, i))
<1>1. CASE body[V][i].type = "STUB"
  BY <1>1, IntraCarries DEF FollowLink
<1>2. CASE body[V][i].type # "STUB" /\ nbr[V][i] = None
  BY <1>2 DEF FollowLink, Carries
<1>3. CASE body[V][i].type # "STUB" /\ nbr[V][i] # None
  <2>. DEFINE W == nbr[V][i]
  <2>1. W \in Node \ {V} /\ parsed[W] /\ body[V][i].cost \in Nat
    BY <1>3, LinkLeads, LinksNumbered
  <2>2. FollowLink(c, V, i) = Relax(c, V, i, W)
    BY <1>3 DEF FollowLink
  <2>. HIDE DEF W
  <2>3. Relaxed(c, Relax(c, V, i, W), V, i, W)
    BY <2>1, RelaxIs
  <2>. QED
    BY <2>2, <2>3 DEF Relaxed, Carries
<1>. QED
  BY <1>1, <1>2, <1>3

\* What a run has made of entry e: nothing, or a route of this run, with what the
\* kernel has to be told by.
KeptEntry(e, x, r) ==
    \/ x = Unmarked(e)
    \/ /\ x.type = "SPF" /\ x.run = r
       /\ x.changed = TRUE \/ (e.type = "SPF" /\ x.old = <<e.cost, e.path>>)

Kept(c) == \A p \in Prefix : KeptEntry(rte[p], c.rte[p], c.run)

LEMMA ImprovedKept ==
    ASSUME NEW e, NEW x, NEW r, KeptEntry(e, x, r), NEW total, NEW hops,
           e.type = "SPF" => e.run # r
    PROVE  KeptEntry(e, Improved(x, r, total, hops), r)
<1>. DEFINE y == Improved(x, r, total, hops)
<1>1. CASE x.type = "SPF" /\ x.run = r /\ total > x.cost
  BY <1>1 DEF Improved
<1>2. CASE ~(x.type = "SPF" /\ x.run = r /\ total > x.cost)
  <2>1. /\ y.type = "SPF" /\ y.run = r /\ y.changed = (x.changed \/ x.type # "SPF")
        /\ y.old = IF x.type = "SPF" /\ x.run # r THEN <<x.cost, x.path>> ELSE x.old
    BY <1>2 DEF Improved
  <2>. HIDE DEF y
  <2>2. y.changed = TRUE \/ (e.type = "SPF" /\ y.old = <<e.cost, e.path>>)
    <3>1. CASE x = Unmarked(e) /\ e.type = "SPF"
      <4>1. x.type = "SPF" /\ x.run # r /\ x.cost = e.cost /\ x.path = e.path
        BY <3>1 DEF Unmarked
      <4>. QED
        BY <2>1, <3>1, <4>1
    <3>2. CASE x = Unmarked(e) /\ e.type # "SPF"
      <4>1. x.type # "SPF"
        BY <3>2 DEF Unmarked
      <4>. QED
        BY <2>1, <4>1
    <3>3. CASE x # Unmarked(e)
      BY <2>1, <3>3 DEF KeptEntry
    <3>. QED
      BY <3>1, <3>2, <3>3
  <2>3. KeptEntry(e, y, r)
    BY <2>1, <2>2 DEF KeptEntry
  <2>. QED
    BY <2>3 DEF y
<1>. QED
  BY <1>1, <1>2

\* The state of a run after some of its steps.
Carried(c) == IsCalc(c) /\ c.run = 1 - run /\ Kept(c)

\* Entries are of the last run.
RteTyped ==
    /\ run \in {0, 1}
    /\ rte = [p \in Prefix |-> rte[p]]
    /\ \A p \in Prefix : /\ rte[p].type \in {"NONE", "SPF"}
                         /\ rte[p].type = "SPF" => rte[p].run = run

LEMMA CarriedOn ==
    ASSUME RteTyped, NEW c, Carried(c), NEW d, Carries(c, d)
    PROVE  Carried(d)
<1>1. d.run = c.run /\ c.run = 1 - run /\ IsCalc(d)
  BY DEF Carried, Carries
<1>2. ASSUME NEW p \in Prefix PROVE KeptEntry(rte[p], d.rte[p], c.run)
  <2>1. KeptEntry(rte[p], c.rte[p], c.run)
    BY DEF Carried, Kept
  <2>2. rte[p].type = "SPF" => rte[p].run # c.run
    BY <1>1 DEF RteTyped
  <2>3. CASE d.rte[p] = c.rte[p]
    BY <2>1, <2>3
  <2>4. ASSUME NEW total, NEW hops, d.rte[p] = Improved(c.rte[p], c.run, total, hops)
        PROVE  KeptEntry(rte[p], d.rte[p], c.run)
    BY <2>1, <2>2, <2>4, ImprovedKept
  <2>. QED
    BY <2>3, <2>4 DEF Carries
<1>. QED
  BY <1>1, <1>2 DEF Carried, Kept

LEMMA FollowsCarried ==
    ASSUME GraphInv, RteTyped, NEW c, Carried(c), NEW V \in Node, parsed[V]
    PROVE  Carried(FollowLinks(c, V))
<1>. DEFINE n == Len(body[V])
<1>1. n \in Nat /\ DOMAIN body[V] = 1..n
  BY LinksNumbered
<1>2. PICK h : LinksFollowed(c, V, n, h)
  BY <1>1, FollowLinksIs
<1>. HIDE DEF n
<1>. DEFINE S == {i \in 0..n : Carried(h[i])}
<1>3. 0 \in S
  BY <1>1, <1>2 DEF LinksFollowed
<1>4. ASSUME NEW i \in 1..n, i - 1 \in S PROVE i \in S
  <2>1. Carried(h[i - 1]) /\ i \in 0..n
    BY <1>1, <1>4
  <2>2. h[i] = FollowLink(h[i - 1], V, i)
    BY <1>2 DEF LinksFollowed
  <2>. DEFINE g == h[i - 1]
  <2>3. Carries(g, FollowLink(g, V, i))
    BY <1>1, <2>1, FollowCarries DEF Carried
  <2>. HIDE DEF g
  <2>4. Carried(FollowLink(g, V, i))
    BY <2>1, <2>3, CarriedOn DEF g
  <2>. QED
    BY <2>1, <2>2, <2>4 DEF g
<1>5. n \in S
  <2>. HIDE DEF S
  <2>1. 0..n \subseteq S
    BY <1>1, <1>3, <1>4, UpTo
  <2>. QED
    BY <1>1, <2>1
<1>. QED
  BY <1>2, <1>5 DEF LinksFollowed

\* A visit: the nearest candidate is taken, its own network is offered if it is one,
\* and its links are followed.
Entered(c) ==
    LET V == gethead(c.cand)
        d == Taken(c)
    IN  IF V \in Network THEN new_intra(d, Net(LsId[V]), V, 0) ELSE d

LEMMA VisitedIs ==
    ASSUME NEW c
    PROVE  /\ gethead(c.cand) = NULL => Visited(c) = c
           /\ gethead(c.cand) # NULL => Visited(c) = FollowLinks(Entered(c), gethead(c.cand))
BY DEF Visited, Entered, Taken

LEMMA VisitedCarried ==
    ASSUME GraphInv, RteTyped, NEW c, Carried(c)
    PROVE  Carried(Visited(c))
<1>. DEFINE V == gethead(c.cand)
<1>1. CASE V = NULL
  BY <1>1, VisitedIs
<1>2. CASE V # NULL
  <2>1. IsTaken(c, Taken(c), V)
    BY <1>2, TakenIs DEF Carried
  <2>2. V \in Node /\ parsed[V]
    <3>1. V \in Waiting(c)
      BY <2>1 DEF IsTaken
    <3>. HIDE DEF V
    <3>. QED
      BY <3>1 DEF Waiting, Carried, IsCalc
  <2>3. Carries(c, Taken(c))
    <3>1. IsCalc(Taken(c)) /\ Taken(c).rte = c.rte /\ Taken(c).run = c.run
      BY <2>1 DEF IsTaken
    <3>. QED
      BY <3>1 DEF Carries
  <2>4. Carried(Taken(c))
    BY <2>3, CarriedOn
  <2>5. Carried(Entered(c))
    <3>. DEFINE d == Taken(c)
                p == Net(LsId[V])
    <3>1. IsCalc(d) /\ Carried(d)
      BY <2>4 DEF Carried
    <3>. HIDE DEF d, p
    <3>2. Carries(d, new_intra(d, p, V, 0))
      BY <3>1, IntraCarries
    <3>3. Carried(new_intra(d, p, V, 0))
      BY <3>1, <3>2, CarriedOn
    <3>. QED
      BY <3>1, <3>3 DEF Entered, d, p
  <2>6. Carried(FollowLinks(Entered(c), V))
    <3>. HIDE DEF V
    <3>. QED
      BY <2>2, <2>5, FollowsCarried
  <2>. QED
    BY <1>2, <2>6, VisitedIs
<1>. QED
  BY <1>1, <1>2

\* At its end.
LEMMA RunCarried ==
    ASSUME GraphInv, RteTyped
    PROVE  Carried(dijkstra(dijk_init))
<1>. DEFINE n == Cardinality(Node)
            c == dijk_init
<1>1. Carried(c)
  <2>1. Root \in Node /\ parsed \in [Node -> BOOLEAN] /\ rte = [p \in Prefix |-> rte[p]]
    BY RoutesAssumption DEF Node, GraphInv, GraphTypeOK, RteTyped
  <2>2. IsCalc(c) /\ c.run = 1 - run /\ c.rte = [p \in Prefix |-> Unmarked(rte[p])]
    BY <2>1, StartsAt
  <2>. HIDE DEF c
  <2>. QED
    BY <2>2 DEF Carried, Kept, KeptEntry
<1>. HIDE DEF c
<1>2. n \in Nat /\ \E h : NodesVisited(c, n, h)
  BY DijkstraIs
<1>3. PICK h : NodesVisited(c, n, h)
  BY <1>2
<1>. HIDE DEF n
<1>. DEFINE S == {i \in 0..n : Carried(h[i])}
<1>4. 0 \in S
  BY <1>1, <1>2, <1>3 DEF NodesVisited
<1>5. ASSUME NEW i \in 1..n, i - 1 \in S PROVE i \in S
  <2>1. Carried(h[i - 1]) /\ i \in 0..n
    BY <1>2, <1>5
  <2>2. h[i] = Visited(h[i - 1])
    BY <1>3 DEF NodesVisited
  <2>. DEFINE g == h[i - 1]
  <2>3. Carried(g)
    BY <2>1
  <2>. HIDE DEF g
  <2>4. Carried(Visited(g))
    BY <2>3, VisitedCarried
  <2>. QED
    BY <2>1, <2>2, <2>4 DEF g
<1>6. n \in S
  <2>. HIDE DEF S
  <2>1. 0..n \subseteq S
    BY <1>2, <1>4, <1>5, UpTo
  <2>. QED
    BY <1>2, <2>1
<1>. QED
  BY <1>3, <1>6 DEF NodesVisited, c

-----------------------------------------------------------------------------
(* The routes, the kernel and the interfaces. *)

RoutesInv ==
    /\ GraphInv
    /\ RteTyped
    /\ kernel = [p \in Prefix \ Attached |-> kernel[p]]
    /\ KernelAgrees
    /\ IfmapMatches

LEMMA InitRoutesInv == InitRoutes => RoutesInv
<1>. SUFFICES ASSUME InitRoutes PROVE RoutesInv
  OBVIOUS
<1>1. GraphInv
  BY InitInv DEF InitRoutes
<1>2. RteTyped
  BY DEF InitRoutes, RteTyped, NoRoute
<1>3. kernel = [p \in Prefix \ Attached |-> kernel[p]] /\ KernelAgrees
  BY DEF InitRoutes, KernelAgrees, NoRoute
<1>4. IfmapMatches
  <2>1. Root \in Node
    BY RoutesAssumption DEF Node
  <2>. QED
    BY <2>1 DEF InitRoutes, InitGraph, IfmapMatches
<1>. QED
  BY <1>1, <1>2, <1>3, <1>4 DEF RoutesInv

\* What full_calculation makes of one entry and of the kernel's route.
LEMMA EntryInstalled ==
    ASSUME NEW e, e.type \in {"NONE", "SPF"}, NEW r, e.type = "SPF" => e.run # r,
           NEW x, KeptEntry(e, x, r), NEW k, k = sys_install(e)
    PROVE  LET y == Scanned(x, r)
           IN  /\ y.type \in {"NONE", "SPF"} /\ (y.type = "SPF" => y.run = r)
               /\ (IF y.changed \/ state_changed(y) THEN sys_install(y) ELSE k) = sys_install(y)
<1>. DEFINE y == Scanned(x, r)
            told == IF y.changed \/ state_changed(y) THEN sys_install(y) ELSE k
<1>1. CASE x = Unmarked(e) /\ e.type = "SPF"
  <2>1. y = [Unmarked(NoRoute) EXCEPT !.changed = TRUE]
    BY <1>1 DEF Scanned, Unmarked
  <2>2. y.type = "NONE" /\ y.changed = TRUE
    BY <2>1 DEF Unmarked, NoRoute
  <2>. HIDE DEF y
  <2>. QED
    BY <2>2 DEF y
<1>2. CASE x = Unmarked(e) /\ e.type = "NONE"
  <2>1. y = x /\ x.type = "NONE"
    BY <1>2 DEF Scanned, Unmarked
  <2>2. sys_install(y) = None /\ k = None
    BY <1>2, <2>1 DEF sys_install
  <2>. QED
    BY <2>1, <2>2
<1>3. CASE x # Unmarked(e)
  <2>1. x.type = "SPF" /\ x.run = r /\ (x.changed = TRUE \/ (e.type = "SPF" /\ x.old = <<e.cost, e.path>>))
    BY <1>3 DEF KeptEntry
  <2>2. y = x
    BY <2>1 DEF Scanned
  <2>3. CASE x.changed = TRUE
    BY <2>1, <2>2, <2>3
  <2>4. CASE e.type = "SPF" /\ x.old = <<e.cost, e.path>> /\ x.old = <<x.cost, x.path>>
    <3>1. sys_install(x) = x.path[1] /\ k = e.path[1] /\ x.path = e.path
      BY <2>1, <2>4 DEF sys_install
    <3>. QED
      BY <2>1, <2>2, <3>1
  <2>5. CASE x.old # <<x.cost, x.path>>
    <3>1. state_changed(x)
      BY <2>1, <2>5 DEF state_changed
    <3>. QED
      BY <2>1, <2>2, <3>1
  <2>. QED
    BY <2>1, <2>3, <2>4, <2>5
<1>. QED
  BY <1>1, <1>2, <1>3

LEMMA TickInv ==
    ASSUME RoutesInv, full_calculation
    PROVE  RteTyped' /\ kernel' = [p \in Prefix \ Attached |-> kernel'[p]] /\ KernelAgrees'
<1>. DEFINE c == dijkstra(dijk_init)
            after == [p \in Prefix |-> Scanned(c.rte[p], c.run)]
<1>1. Carried(c)
  BY RunCarried DEF RoutesInv
<1>2. /\ run' = c.run
      /\ rte' = [p \in Prefix |-> [k \in DOMAIN NoRoute |-> after[p][k]]]
      /\ kernel' = [p \in DOMAIN kernel |->
                      IF after[p].changed \/ state_changed(after[p])
                      THEN sys_install(after[p]) ELSE kernel[p]]
  BY DEF full_calculation, rt_scan
<1>. HIDE DEF c
<1>3. DOMAIN kernel = Prefix \ Attached
  BY DEF RoutesInv
<1>4. c.run = 1 - run /\ c.run \in {0, 1}
  BY <1>1 DEF Carried, RoutesInv, RteTyped
<1>5. ASSUME NEW p \in Prefix
      PROVE  /\ after[p].type \in {"NONE", "SPF"} /\ (after[p].type = "SPF" => after[p].run = c.run)
             /\ p \notin Attached =>
                  (IF after[p].changed \/ state_changed(after[p])
                   THEN sys_install(after[p]) ELSE kernel[p]) = sys_install(after[p])
  <2>. DEFINE e == rte[p]
              x == c.rte[p]
  <2>1. e.type \in {"NONE", "SPF"} /\ (e.type = "SPF" => e.run # c.run)
    BY <1>4 DEF RoutesInv, RteTyped
  <2>2. KeptEntry(e, x, c.run)
    BY <1>1 DEF Carried, Kept
  <2>3. after[p] = Scanned(x, c.run)
    OBVIOUS
  <2>4. p \notin Attached => kernel[p] = sys_install(e)
    BY <1>3 DEF RoutesInv, KernelAgrees, sys_install
  <2>. HIDE DEF after, e, x
  <2>5. /\ Scanned(x, c.run).type \in {"NONE", "SPF"}
        /\ Scanned(x, c.run).type = "SPF" => Scanned(x, c.run).run = c.run
    BY <2>1, <2>2, EntryInstalled
  <2>. DEFINE y == Scanned(x, c.run)
  <2>6. ASSUME p \notin Attached
        PROVE  (IF y.changed \/ state_changed(y) THEN sys_install(y) ELSE kernel[p]) = sys_install(y)
    <3>. DEFINE k == kernel[p]
    <3>1. k = sys_install(e)
      BY <2>4, <2>6
    <3>. HIDE DEF k
    <3>2. (IF y.changed \/ state_changed(y) THEN sys_install(y) ELSE k) = sys_install(y)
      BY <2>1, <2>2, <3>1, EntryInstalled
    <3>. QED
      BY <3>2 DEF k
  <2>. HIDE DEF y
  <2>7. after[p] = y
    BY <2>3 DEF y
  <2>. QED
    BY <2>5, <2>6, <2>7 DEF y
<1>. HIDE DEF after
<1>6. ASSUME NEW p \in Prefix
      PROVE  rte'[p].type = after[p].type /\ rte'[p].run = after[p].run /\ rte'[p].path = after[p].path
  <2>1. rte'[p] = [k \in DOMAIN NoRoute |-> after[p][k]]
    BY <1>2
  <2>2. DOMAIN NoRoute = {"type", "run", "cost", "path"}
    BY DEF NoRoute
  <2>. QED
    BY <2>1, <2>2
<1>7. RteTyped'
  BY <1>2, <1>4, <1>5, <1>6 DEF RteTyped
<1>8. kernel' = [p \in Prefix \ Attached |-> kernel'[p]]
  BY <1>2, <1>3
<1>9. ASSUME NEW p \in Prefix \ Attached
      PROVE  kernel'[p] = IF rte'[p].type = "SPF" THEN rte'[p].path[1] ELSE None
  <2>1. kernel'[p] = sys_install(after[p])
    BY <1>2, <1>3, <1>5
  <2>2. rte'[p].type = after[p].type /\ rte'[p].path = after[p].path
    BY <1>6
  <2>. QED
    BY <2>1, <2>2 DEF sys_install
<1>10. KernelAgrees'
  BY <1>8, <1>9 DEF KernelAgrees
<1>. QED
  BY <1>7, <1>8, <1>10

\* The own LSA changes only with the interfaces it is made of.
LEMMA IfmapKept ==
    ASSUME IfmapMatches, UNCHANGED ifmap, parsed'[Root] => parsed[Root] /\ body'[Root] = body[Root]
    PROVE  IfmapMatches'
BY DEF IfmapMatches

LEMMA OriginateInv ==
    ASSUME GraphInv, IfmapMatches, NEW s \in IfcStates, NEW late \in BOOLEAN, rl_orig(s, late)
    PROVE  IfmapMatches'
<1>. DEFINE b == OwnLsa(s)
<1>1. Fits(ifmap', b)
  BY OwnLsaIs DEF rl_orig
<1>2. Root \in Node /\ parsed \in [Node -> BOOLEAN] /\ body = [v \in Node |-> body[v]]
  BY RoutesAssumption DEF Node, GraphInv, GraphTypeOK
<1>3. parsed'[Root] => body'[Root] = b
  <2>1. CASE b = <<>> /\ parsed[Root]
    BY <1>2, <2>1 DEF rl_orig, Expire
  <2>2. CASE b = <<>> /\ ~parsed[Root]
    BY <2>2 DEF rl_orig, graph
  <2>3. CASE b # <<>> /\ parsed[Root] /\ body[Root] = b
    BY <2>3 DEF rl_orig, graph
  <2>4. CASE b # <<>> /\ ~(parsed[Root] /\ body[Root] = b)
    <3>1. Install(Root, b)
      BY <2>4 DEF rl_orig
    <3>. QED
      BY <1>2, <3>1 DEF Install, Add
  <2>. QED
    BY <2>1, <2>2, <2>3, <2>4
<1>. HIDE DEF b
<1>. QED
  BY <1>1, <1>3 DEF IfmapMatches, Fits

LEMMA RoutesStep == UniqueIds /\ RoutesInv /\ [NextRoutes]_routes => RoutesInv'
<1>. SUFFICES ASSUME UniqueIds, RoutesInv, [NextRoutes]_routes PROVE RoutesInv'
  OBVIOUS
<1>1. GraphInv'
  BY StepIsGraph, StepInv DEF RoutesInv
<1>2. ASSUME UNCHANGED <<run, rte, kernel>>
      PROVE  RteTyped' /\ kernel' = [p \in Prefix \ Attached |-> kernel'[p]] /\ KernelAgrees'
  BY <1>2 DEF RoutesInv, RteTyped, KernelAgrees
<1>3. Root \in Node /\ parsed \in [Node -> BOOLEAN] /\ body = [v \in Node |-> body[v]]
  BY RoutesAssumption DEF Node, RoutesInv, GraphInv, GraphTypeOK
<1>4. CASE Originate
  <2>1. IfmapMatches'
    BY <1>4, OriginateInv DEF Originate, RoutesInv
  <2>2. UNCHANGED <<run, rte, kernel>>
    BY <1>4 DEF Originate, rl_orig
  <2>. QED
    BY <1>1, <1>2, <2>1, <2>2 DEF RoutesInv
<1>5. CASE \E v \in Node \ {Root} : Others(v)
  <2>1. PICK v \in Node \ {Root} : Others(v)
    BY <1>5
  <2>2. parsed'[Root] = parsed[Root] /\ body'[Root] = body[Root]
    BY <1>3, <2>1 DEF Others, Change, Install, Add, Expire, Refresh, Delete
  <2>3. IfmapMatches'
    BY <2>1, <2>2, IfmapKept DEF Others, RoutesInv
  <2>. QED
    BY <1>1, <1>2, <2>1, <2>3 DEF RoutesInv, Others
<1>6. CASE Own
  <2>1. parsed'[Root] => parsed[Root] /\ body'[Root] = body[Root]
    <3>1. CASE Refresh(Root)
      BY <1>3, <3>1 DEF Refresh, Add
    <3>2. CASE Expire(Root, body[Root])
      BY <1>3, <3>2 DEF Expire
    <3>3. CASE Delete(Root)
      BY <1>3, <3>3 DEF Delete
    <3>. QED
      BY <1>6, <3>1, <3>2, <3>3 DEF Own
  <2>2. IfmapMatches'
    BY <1>6, <2>1, IfmapKept DEF Own, RoutesInv
  <2>. QED
    BY <1>1, <1>2, <1>6, <2>2 DEF RoutesInv, Own
<1>7. CASE Tick
  <2>1. IfmapMatches'
    BY <1>7, IfmapKept DEF Tick, full_calculation, Calculated, RoutesInv
  <2>. QED
    BY <1>1, <1>7, <2>1, TickInv DEF RoutesInv, Tick
<1>8. CASE UNCHANGED routes
  <2>1. IfmapMatches'
    BY <1>8, IfmapKept DEF routes, graph, RoutesInv
  <2>. QED
    BY <1>1, <1>2, <1>8, <2>1 DEF RoutesInv, routes
<1>. QED
  BY <1>4, <1>5, <1>6, <1>7, <1>8 DEF NextRoutes

\* The kernel has the first next hop of every route, and no other route, after
\* any sequence of changes and calculations.
THEOREM KernelAgreesHolds == ASSUME UniqueIds PROVE SpecRoutes => []KernelAgrees
<1>1. RoutesInv => KernelAgrees
  BY DEF RoutesInv
<1>. QED
  BY <1>1, InitRoutesInv, RoutesStep, PTL DEF SpecRoutes

\* The links of the own LSA in the database are those of the interfaces in ifmap.
THEOREM IfmapMatchesHolds == ASSUME UniqueIds PROVE SpecRoutes => []IfmapMatches
<1>1. RoutesInv => IfmapMatches
  BY DEF RoutesInv
<1>. QED
  BY <1>1, InitRoutesInv, RoutesStep, PTL DEF SpecRoutes

\* The own LSA and the calculation keep the pointers exact too.
THEOREM RoutesLinksMutual == ASSUME UniqueIds PROVE SpecRoutes => []LinksMutual
<1>1. RoutesInv => LinksMutual
  BY DEF RoutesInv, GraphInv
<1>. QED
  BY <1>1, InitRoutesInv, RoutesStep, PTL DEF SpecRoutes

-----------------------------------------------------------------------------
(* Lists of next hops.  A list that is full may have left some out. *)

HopList(q) == q \in Seq(NextHops) /\ q # <<>> /\ Len(q) <= MAXPATH

Full(q) == Len(q) = MAXPATH

\* One next hop is a list of next hops.
LEMMA SingleHop ==
    ASSUME NEW h \in NextHops
    PROVE  HopList(<<h>>) /\ ToSet(<<h>>) = {h}
<1>1. /\ <<h>> \in Seq(NextHops) /\ DOMAIN <<h>> = {1} /\ <<h>>[1] = h /\ <<h>> # <<>>
      /\ Len(<<h>>) = 1
  OBVIOUS
<1>2. 1 <= MAXPATH
  BY RoutesAssumption
<1>. QED
  BY <1>1, <1>2 DEF HopList, ToSet

LEMMA IfaceIs ==
    ASSUME NEW i \in DOMAIN Ifaces
    PROVE  Ifaces[i].addr \in Nat /\ Ifaces[i].phy \in Nat
<1>. DEFINE R == [addr : Nat, phy : Nat, cost : Nat]
<1>1. Ifaces \in Seq(R)
  BY RoutesAssumption
<1>2. Ifaces[i] \in R
  <2>. HIDE DEF R
  <2>. QED
    BY <1>1
<1>. QED
  BY <1>2

\* What a next hop is.
LEMMA HopIs ==
    ASSUME NEW x \in NextHops
    PROVE  \E i \in DOMAIN Ifaces : \E gw \in Nat :
             /\ x = Hop(Ifaces[i], gw) /\ x.addr = Ifaces[i].addr /\ x.phy = Ifaces[i].phy /\ x.gw = gw
             /\ x.addr \in Nat /\ x.phy \in Nat
<1>0. PICK i \in DOMAIN Ifaces :
        \E gw \in {0} \cup {a \in Addresses : Net(a) = Net(Ifaces[i].addr)} : x = Hop(Ifaces[i], gw)
  BY DEF NextHops
<1>1. PICK gw \in {0} \cup {a \in Addresses : Net(a) = Net(Ifaces[i].addr)} : x = Hop(Ifaces[i], gw)
  BY <1>0
<1>2. gw \in Nat
  <2>1. ASSUME NEW v \in Router \ {Root}, NEW b \in Contents[v], NEW j \in DOMAIN b
        PROVE  b[j].data \in Nat
    BY ContentsAssumption DEF Node
  <2>. QED
    BY <1>1, <2>1 DEF Addresses
<1>3. Ifaces[i].addr \in Nat /\ Ifaces[i].phy \in Nat
  BY IfaceIs
<1>4. x.addr = Ifaces[i].addr /\ x.phy = Ifaces[i].phy /\ x.gw = gw
  BY <1>1 DEF Hop
<1>. QED
  BY <1>1, <1>2, <1>3, <1>4

\* merge takes only what is the same for a repetition.
LEMMA SameHop ==
    ASSUME NEW x \in NextHops, NEW y \in NextHops, ~Waits(y, x), ~Precedes(y, x)
    PROVE  x = y
<1>1. PICK i \in DOMAIN Ifaces, g \in Nat :
        /\ x = Hop(Ifaces[i], g) /\ x.addr = Ifaces[i].addr /\ x.phy = Ifaces[i].phy /\ x.gw = g
        /\ x.addr \in Nat /\ x.phy \in Nat
  BY HopIs
<1>2. PICK j \in DOMAIN Ifaces, h \in Nat :
        /\ y = Hop(Ifaces[j], h) /\ y.addr = Ifaces[j].addr /\ y.phy = Ifaces[j].phy /\ y.gw = h
        /\ y.addr \in Nat /\ y.phy \in Nat
  BY HopIs
<1>3. x.phy = y.phy /\ x.gw = y.gw
  BY <1>1, <1>2 DEF Precedes, Waits
<1>4. i = j
  BY <1>1, <1>2, <1>3, RoutesAssumption
<1>. QED
  BY <1>1, <1>2, <1>3, <1>4

LEMMA EmptyOrNot ==
    ASSUME NEW q, q \in Seq(NextHops)
    PROVE  /\ Len(q) \in Nat /\ (q = <<>> <=> Len(q) = 0) /\ (q = <<>> <=> ToSet(q) = {})
           /\ ToSet(q) \subseteq NextHops
<1>1. q # <<>> => Len(q) # 0 /\ 1 \in DOMAIN q
  OBVIOUS
<1>. QED
  BY <1>1 DEF ToSet

\* The first of a list, and the rest.
LEMMA HeadAndTail ==
    ASSUME NEW q \in Seq(NextHops), q # <<>>
    PROVE  /\ Tail(q) \in Seq(NextHops) /\ Len(Tail(q)) = Len(q) - 1 /\ Len(q) \in Nat \ {0}
           /\ q[1] \in NextHops /\ ToSet(q) = {q[1]} \cup ToSet(Tail(q))
<1>. DEFINE t == Tail(q)
            n == Len(q)
<1>1. n \in Nat \ {0} /\ DOMAIN q = 1..n
  OBVIOUS
<1>2. t \in Seq(NextHops) /\ Len(t) = n - 1 /\ DOMAIN t = 1..(n - 1)
  BY <1>1
<1>3. \A a \in 1..(n - 1) : t[a] = q[a + 1]
  BY <1>1
<1>4. q[1] \in NextHops
  BY <1>1
<1>. HIDE DEF t, n
<1>5. ToSet(q) = {q[1]} \cup ToSet(t)
  <2>1. ASSUME NEW a \in 1..n PROVE q[a] \in {q[1]} \cup ToSet(t)
    <3>1. CASE a = 1
      BY <3>1
    <3>2. CASE a # 1
      <4>1. a - 1 \in 1..(n - 1) /\ t[a - 1] = q[a]
        BY <1>1, <1>3, <3>2
      <4>. QED
        BY <1>2, <4>1 DEF ToSet
    <3>. QED
      BY <3>1, <3>2
  <2>2. ASSUME NEW a \in 1..(n - 1) PROVE t[a] \in ToSet(q)
    <3>1. a + 1 \in 1..n /\ t[a] = q[a + 1]
      BY <1>1, <1>3
    <3>. QED
      BY <1>1, <3>1 DEF ToSet
  <2>3. q[1] \in ToSet(q)
    BY <1>1 DEF ToSet
  <2>. QED
    BY <1>1, <1>2, <2>1, <2>2, <2>3 DEF ToSet
<1>. QED
  BY <1>1, <1>2, <1>4, <1>5 DEF t, n

\* A next hop put at the end of a list, if there is room.
Placing(out, h) == IF Len(out) < MAXPATH THEN Append(out, h) ELSE out

LEMMA PlacingIs ==
    ASSUME NEW q \in Seq(NextHops), Len(q) <= MAXPATH, NEW h \in NextHops
    PROVE  /\ Placing(q, h) \in Seq(NextHops) /\ Len(Placing(q, h)) <= MAXPATH
           /\ ToSet(Placing(q, h)) \subseteq ToSet(q) \cup {h}
           /\ ~Full(Placing(q, h)) => ~Full(q) /\ ToSet(Placing(q, h)) = ToSet(q) \cup {h}
<1>. DEFINE r == Append(q, h)
            n == Len(q)
<1>0. MAXPATH \in Nat \ {0}
  BY RoutesAssumption
<1>1. n \in Nat /\ DOMAIN q = 1..n
  OBVIOUS
<1>2. r \in Seq(NextHops) /\ Len(r) = n + 1 /\ DOMAIN r = 1..(n + 1)
  BY <1>1
<1>3. (\A a \in 1..n : r[a] = q[a]) /\ r[n + 1] = h
  BY <1>1
<1>4. Placing(q, h) = IF n < MAXPATH THEN r ELSE q
  BY DEF Placing
<1>5. n <= MAXPATH
  OBVIOUS
<1>. HIDE DEF r, n
<1>6. ToSet(r) = ToSet(q) \cup {h}
  <2>1. \A a \in 1..(n + 1) : r[a] \in ToSet(q) \cup {h}
    <3>. TAKE a \in 1..(n + 1)
    <3>1. a = n + 1 \/ a \in 1..n
      BY <1>1
    <3>. QED
      BY <1>1, <1>3, <3>1 DEF ToSet
  <2>2. \A a \in 1..n : q[a] \in ToSet(r)
    BY <1>1, <1>2, <1>3 DEF ToSet
  <2>3. h \in ToSet(r)
    BY <1>1, <1>2, <1>3 DEF ToSet
  <2>. QED
    BY <1>1, <1>2, <2>1, <2>2, <2>3 DEF ToSet
<1>7. CASE n < MAXPATH
  <2>1. Placing(q, h) = r /\ n + 1 <= MAXPATH /\ n # MAXPATH
    BY <1>0, <1>1, <1>4, <1>7
  <2>2. ~Full(q)
    BY <2>1 DEF Full, n
  <2>. QED
    BY <1>2, <1>6, <2>1, <2>2
<1>8. CASE ~(n < MAXPATH)
  <2>1. Placing(q, h) = q /\ n = MAXPATH
    BY <1>0, <1>1, <1>4, <1>5, <1>8
  <2>2. Full(q)
    BY <2>1 DEF Full, n
  <2>. QED
    BY <1>5, <2>1, <2>2 DEF n
<1>. QED
  BY <1>7, <1>8

\* The state of the loops of merge: unless what is out is full, nothing of U is lost.
Merging(s, U, n) ==
    /\ s = [p |-> s.p, q |-> s.q, out |-> s.out]
    /\ s.p \in Seq(NextHops) /\ s.q \in Seq(NextHops) /\ s.out \in Seq(NextHops)
    /\ Len(s.out) <= MAXPATH
    /\ ToSet(s.out) \cup ToSet(s.p) \cup ToSet(s.q) \subseteq U
    /\ ~Full(s.out) => U \subseteq ToSet(s.out) \cup ToSet(s.p) \cup ToSet(s.q)
    /\ Len(s.p) + Len(s.q) <= n

\* The head of p is placed.
LEMMA PlacedHead ==
    ASSUME NEW p, NEW q, NEW out, NEW U, NEW n \in Nat,
           Merging([p |-> p, q |-> q, out |-> out], U, n), p # <<>>
    PROVE  Merging([p |-> Tail(p), q |-> q, out |-> Placing(out, p[1])], U, n - 1)
<1>. DEFINE k == Placing(out, p[1])
            t == [p |-> Tail(p), q |-> q, out |-> k]
<1>1. /\ p \in Seq(NextHops) /\ q \in Seq(NextHops) /\ out \in Seq(NextHops)
      /\ Len(out) <= MAXPATH
      /\ ToSet(out) \cup ToSet(p) \cup ToSet(q) \subseteq U
      /\ ~Full(out) => U \subseteq ToSet(out) \cup ToSet(p) \cup ToSet(q)
      /\ Len(p) + Len(q) <= n
  BY DEF Merging
<1>2. /\ Tail(p) \in Seq(NextHops) /\ Len(Tail(p)) = Len(p) - 1 /\ Len(p) \in Nat \ {0}
      /\ p[1] \in NextHops /\ ToSet(p) = {p[1]} \cup ToSet(Tail(p))
  BY <1>1, HeadAndTail
<1>3. /\ k \in Seq(NextHops) /\ Len(k) <= MAXPATH
      /\ ToSet(k) \subseteq ToSet(out) \cup {p[1]}
      /\ ~Full(k) => ~Full(out) /\ ToSet(k) = ToSet(out) \cup {p[1]}
  BY <1>1, <1>2, PlacingIs
<1>. HIDE DEF k
<1>4. Len(q) \in Nat
  BY <1>1, EmptyOrNot
<1>5. Len(Tail(p)) + Len(q) <= n - 1
  BY <1>1, <1>2, <1>4
<1>6. ToSet(k) \cup ToSet(Tail(p)) \cup ToSet(q) \subseteq U
  BY <1>1, <1>2, <1>3
<1>7. ~Full(k) => U \subseteq ToSet(k) \cup ToSet(Tail(p)) \cup ToSet(q)
  BY <1>1, <1>2, <1>3
<1>8. t.p = Tail(p) /\ t.q = q /\ t.out = k /\ t = [p |-> t.p, q |-> t.q, out |-> t.out]
  OBVIOUS
<1>. HIDE DEF t
<1>9. Merging(t, U, n - 1)
  BY <1>1, <1>2, <1>3, <1>5, <1>6, <1>7, <1>8 DEF Merging
<1>. QED
  BY <1>9 DEF t, k

LEMMA MergingSwap ==
    ASSUME NEW p, NEW q, NEW out, NEW U, NEW n, Merging([p |-> p, q |-> q, out |-> out], U, n)
    PROVE  Merging([p |-> q, q |-> p, out |-> out], U, n)
<1>1. /\ p \in Seq(NextHops) /\ q \in Seq(NextHops) /\ out \in Seq(NextHops)
      /\ Len(out) <= MAXPATH
      /\ ToSet(out) \cup ToSet(p) \cup ToSet(q) \subseteq U
      /\ ~Full(out) => U \subseteq ToSet(out) \cup ToSet(p) \cup ToSet(q)
      /\ Len(p) + Len(q) <= n
  BY DEF Merging
<1>2. Len(p) + Len(q) = Len(q) + Len(p)
  BY <1>1, EmptyOrNot
<1>. DEFINE t == [p |-> q, q |-> p, out |-> out]
<1>3. t.p = q /\ t.q = p /\ t.out = out /\ t = [p |-> t.p, q |-> t.q, out |-> t.out]
  OBVIOUS
<1>. HIDE DEF t
<1>4. Merging(t, U, n)
  BY <1>1, <1>2, <1>3 DEF Merging
<1>. QED
  BY <1>4 DEF t

LEMMA PlacedIs ==
    ASSUME NEW s, NEW U, NEW n \in Nat \ {0}, Merging(s, U, n)
    PROVE  Merging(Placed(s), U, n - 1)
<1>. DEFINE p == s.p
            q == s.q
            out == s.out
            Put(x, y, z) == [p |-> x, q |-> y, out |-> z]
<1>1. /\ p \in Seq(NextHops) /\ q \in Seq(NextHops) /\ out \in Seq(NextHops)
      /\ s = Put(p, q, out) /\ Len(out) <= MAXPATH
      /\ ToSet(out) \cup ToSet(p) \cup ToSet(q) \subseteq U
      /\ ~Full(out) => U \subseteq ToSet(out) \cup ToSet(p) \cup ToSet(q)
      /\ Len(p) + Len(q) <= n
  BY DEF Merging
<1>2. /\ Len(p) \in Nat /\ (p = <<>> <=> Len(p) = 0)
      /\ Len(q) \in Nat /\ (q = <<>> <=> Len(q) = 0)
  BY <1>1, EmptyOrNot
<1>3. p \o q = <<>> <=> p = <<>> /\ q = <<>>
  BY <1>1
<1>. HIDE DEF p, q, out
<1>4. CASE p = <<>> /\ q = <<>>
  <2>1. Placed(s) = s
    BY <1>3, <1>4 DEF Placed, p, q
  <2>2. Len(p) + Len(q) <= n - 1
    BY <1>2, <1>4
  <2>. QED
    BY <2>1, <2>2 DEF Merging, p, q
<1>5. q # <<>> => Merging(Put(p, Tail(q), Placing(out, q[1])), U, n - 1)
  <2>. SUFFICES ASSUME q # <<>> PROVE Merging(Put(p, Tail(q), Placing(out, q[1])), U, n - 1)
    OBVIOUS
  <2>1. Merging(Put(q, p, out), U, n)
    BY <1>1, MergingSwap
  <2>2. Merging(Put(Tail(q), p, Placing(out, q[1])), U, n - 1)
    BY <2>1, PlacedHead
  <2>. QED
    BY <2>2, MergingSwap
<1>6. p # <<>> => Merging(Put(Tail(p), q, Placing(out, p[1])), U, n - 1)
  BY <1>1, PlacedHead
<1>7. q # <<>> => /\ Tail(q) \in Seq(NextHops) /\ Len(Tail(q)) = Len(q) - 1 /\ q[1] \in NextHops
                  /\ ToSet(q) = {q[1]} \cup ToSet(Tail(q))
  BY <1>1, HeadAndTail
<1>8. p # <<>> => p[1] \in NextHops /\ ToSet(p) = {p[1]} \cup ToSet(Tail(p))
  BY <1>1, HeadAndTail
<1>9. CASE p = <<>> /\ q # <<>>
  <2>1. Placed(s) = [s EXCEPT !.q = Tail(@), !.out = Placing(out, q[1])]
    BY <1>3, <1>9 DEF Placed, Placing, p, q, out
  <2>2. Placed(s) = Put(p, Tail(q), Placing(out, q[1]))
    BY <1>1, <2>1
  <2>. QED
    BY <1>5, <1>9, <2>2
<1>10. CASE p # <<>> /\ (q = <<>> \/ Waits(q[1], p[1]))
  <2>1. Placed(s) = [s EXCEPT !.p = Tail(@), !.out = Placing(out, p[1])]
    BY <1>3, <1>10 DEF Placed, Placing, p, q, out
  <2>2. Placed(s) = Put(Tail(p), q, Placing(out, p[1]))
    BY <1>1, <2>1
  <2>. QED
    BY <1>6, <1>10, <2>2
<1>11. CASE p # <<>> /\ q # <<>> /\ ~Waits(q[1], p[1]) /\ Precedes(q[1], p[1])
  <2>1. Placed(s) = [s EXCEPT !.q = Tail(@), !.out = Placing(out, q[1])]
    BY <1>3, <1>11 DEF Placed, Placing, p, q, out
  <2>2. Placed(s) = Put(p, Tail(q), Placing(out, q[1]))
    BY <1>1, <2>1
  <2>. QED
    BY <1>5, <1>11, <2>2
<1>12. CASE p # <<>> /\ q # <<>> /\ ~Waits(q[1], p[1]) /\ ~Precedes(q[1], p[1])
  <2>1. q[1] = p[1]
    BY <1>7, <1>8, <1>12, SameHop
  <2>2. Placed(s) = [s EXCEPT !.q = Tail(@)]
    BY <1>3, <1>12 DEF Placed, p, q, out
  <2>. DEFINE t == Put(p, Tail(q), out)
  <2>3. Placed(s) = t
    BY <1>1, <2>2
  <2>4. t.p = p /\ t.q = Tail(q) /\ t.out = out /\ t = [p |-> t.p, q |-> t.q, out |-> t.out]
    OBVIOUS
  <2>. HIDE DEF t
  <2>5. ToSet(p) \cup ToSet(Tail(q)) = ToSet(p) \cup ToSet(q)
    BY <1>7, <1>8, <1>12, <2>1
  <2>6. Len(p) + Len(Tail(q)) <= n - 1
    BY <1>1, <1>2, <1>7, <1>12
  <2>7. /\ ToSet(out) \cup ToSet(p) \cup ToSet(Tail(q)) \subseteq U
        /\ ~Full(out) => U \subseteq ToSet(out) \cup ToSet(p) \cup ToSet(Tail(q))
    BY <1>1, <2>5
  <2>8. Merging(t, U, n - 1)
    BY <1>1, <1>7, <1>12, <2>4, <2>6, <2>7 DEF Merging
  <2>. QED
    BY <2>3, <2>8
<1>. QED
  BY <1>4, <1>9, <1>10, <1>11, <1>12

\* When neither list is full, one turn is made for each next hop.
LEMMA MergeTurns ==
    ASSUME NEW p \in Seq(NextHops), NEW q \in Seq(NextHops), p # <<>>, q # <<>>, ~Full(p), ~Full(q)
    PROVE  /\ HopList(merge(p, q)) /\ ToSet(merge(p, q)) \subseteq ToSet(p) \cup ToSet(q)
           /\ ~Full(merge(p, q)) => ToSet(merge(p, q)) = ToSet(p) \cup ToSet(q)
<1>0. ToSet(<<>>) = {}
  BY DEF ToSet
<1>. DEFINE n == Len(p) + Len(q)
            s0 == [p |-> p, q |-> q, out |-> <<>>]
            Loop(f) == f = [i \in 0..n |-> IF i = 0 THEN s0 ELSE Placed(f[i - 1])]
            IsRun(f, m) == /\ f = [i \in 0..m |-> f[i]]
                           /\ f[0] = s0
                           /\ \A i \in 1..m : f[i] = Placed(f[i - 1])
            S == {m \in 0..n : \E f : IsRun(f, m)}
            h == CHOOSE f : Loop(f)
            U == ToSet(p) \cup ToSet(q)
<1>1. merge(p, q) = h[n].out
  BY DEF merge, Full
<1>2. n \in Nat /\ Len(p) \in Nat /\ Len(q) \in Nat
  BY EmptyOrNot
<1>3. Merging(s0, U, n)
  <2>1. s0.p = p /\ s0.q = q /\ s0.out = <<>> /\ s0 = [p |-> s0.p, q |-> s0.q, out |-> s0.out]
    OBVIOUS
  <2>2. <<>> \in Seq(NextHops) /\ Len(<<>>) <= MAXPATH /\ n <= n
    BY <1>2, RoutesAssumption
  <2>. HIDE DEF s0, n
  <2>. QED
    BY <1>0, <2>1, <2>2 DEF Merging, n
<1>. HIDE DEF s0, n, U
<1>4. 0 \in S
  <2>1. IsRun([i \in 0..0 |-> s0], 0)
    OBVIOUS
  <2>. HIDE DEF IsRun
  <2>. QED
    BY <1>2, <2>1
<1>5. ASSUME NEW m \in 1..n, m - 1 \in S PROVE m \in S
  <2>1. PICK f : IsRun(f, m - 1)
    BY <1>5
  <2>. DEFINE g == [i \in 0..m |-> IF i = m THEN Placed(f[m - 1]) ELSE f[i]]
  <2>2. g = [i \in 0..m |-> g[i]] /\ g[0] = s0
    BY <1>2, <2>1
  <2>3. ASSUME NEW i \in 1..m PROVE g[i] = Placed(g[i - 1])
    <3>1. g[i - 1] = f[i - 1]
      BY <1>2, <2>3
    <3>2. CASE i = m
      BY <1>2, <3>1, <3>2
    <3>3. CASE i # m
      <4>1. i \in 1..(m - 1) /\ g[i] = f[i]
        BY <1>2, <3>3
      <4>2. f[i] = Placed(f[i - 1])
        BY <2>1, <4>1
      <4>. QED
        BY <3>1, <4>1, <4>2
    <3>. QED
      BY <3>2, <3>3
  <2>4. IsRun(g, m)
    <3>. HIDE DEF g
    <3>. QED
      BY <2>2, <2>3
  <2>. HIDE DEF IsRun, g
  <2>5. m \in 0..n /\ \E k : IsRun(k, m)
    BY <1>2, <2>4
  <2>. QED
    BY <2>5
<1>6. n \in S
  <2>. HIDE DEF S
  <2>1. 0..n \subseteq S
    BY <1>2, <1>4, <1>5, UpTo
  <2>. QED
    BY <1>2, <2>1
<1>7. PICK f : IsRun(f, n)
  BY <1>6
<1>8. Loop(f)
  <2>1. \A i \in 0..n : f[i] = IF i = 0 THEN s0 ELSE Placed(f[i - 1])
    <3>1. f[0] = s0 /\ \A i \in 1..n : f[i] = Placed(f[i - 1])
      BY <1>7
    <3>2. ASSUME NEW i \in 0..n PROVE i = 0 \/ i \in 1..n
      BY <1>2
    <3>. QED
      BY <3>1, <3>2
  <2>2. [i \in 0..n |-> f[i]] = [i \in 0..n |-> IF i = 0 THEN s0 ELSE Placed(f[i - 1])]
    BY <2>1
  <2>. QED
    BY <1>7, <2>2
<1>9. Loop(h)
  <2>. HIDE DEF Loop
  <2>. QED
    BY <1>8
<1>10. h[0] = s0 /\ \A i \in 1..n : h[i] = Placed(h[i - 1])
  <2>. HIDE DEF h
  <2>. QED
    BY <1>2, <1>9
<1>. HIDE DEF h
<1>. DEFINE G == {i \in 0..n : Merging(h[i], U, n - i)}
<1>11. 0 \in G
  BY <1>2, <1>3, <1>10
<1>12. ASSUME NEW i \in 1..n, i - 1 \in G PROVE i \in G
  <2>. DEFINE k == n - (i - 1)
  <2>1. k \in Nat \ {0} /\ k - 1 = n - i /\ i \in 0..n
    BY <1>2
  <2>2. Merging(h[i - 1], U, k)
    BY <1>12
  <2>. HIDE DEF k
  <2>3. Merging(Placed(h[i - 1]), U, k - 1)
    BY <2>1, <2>2, PlacedIs
  <2>. QED
    BY <1>10, <2>1, <2>3
<1>13. n \in G
  <2>. HIDE DEF G
  <2>1. 0..n \subseteq G
    BY <1>2, <1>11, <1>12, UpTo
  <2>. QED
    BY <1>2, <2>1
<1>14. Merging(h[n], U, 0)
  BY <1>2, <1>13
<1>. DEFINE z == h[n]
<1>15. Merging(z, U, 0)
  BY <1>14
<1>. HIDE DEF z
<1>16. /\ z.p \in Seq(NextHops) /\ z.q \in Seq(NextHops) /\ z.out \in Seq(NextHops)
       /\ Len(z.out) <= MAXPATH /\ Len(z.p) + Len(z.q) <= 0
       /\ ToSet(z.out) \cup ToSet(z.p) \cup ToSet(z.q) \subseteq U
       /\ ~Full(z.out) => U \subseteq ToSet(z.out) \cup ToSet(z.p) \cup ToSet(z.q)
  BY <1>15 DEF Merging
<1>17. ToSet(z.p) = {} /\ ToSet(z.q) = {}
  <2>1. Len(z.p) \in Nat /\ Len(z.q) \in Nat
    BY <1>16, EmptyOrNot
  <2>. DEFINE a == Len(z.p)
              b == Len(z.q)
  <2>0. a + b <= 0 /\ a \in Nat /\ b \in Nat
    BY <1>16, <2>1
  <2>. HIDE DEF a, b
  <2>3. a = 0 /\ b = 0
    BY <2>0
  <2>2. Len(z.p) = 0 /\ Len(z.q) = 0
    BY <2>3 DEF a, b
  <2>. QED
    BY <1>16, <2>2, EmptyOrNot
<1>18. ToSet(z.out) \subseteq U /\ (~Full(z.out) => ToSet(z.out) = U) /\ U # {}
  <2>1. U # {}
    BY EmptyOrNot DEF U
  <2>. QED
    BY <1>16, <1>17, <2>1
<1>19. z.out # <<>>
  <2>1. ~Full(z.out) => ToSet(z.out) # {}
    BY <1>18
  <2>2. Full(z.out) => Len(z.out) # 0
    BY RoutesAssumption DEF Full
  <2>. QED
    BY <1>16, <2>1, <2>2, EmptyOrNot
<1>20. HopList(z.out)
  BY <1>16, <1>19 DEF HopList
<1>. QED
  BY <1>1, <1>18, <1>20 DEF z, U

\* merge makes one list of two, and leaves out next hops only if it is full.
LEMMA HopsMerge ==
    ASSUME NEW p, NEW q, p = <<>> \/ HopList(p), HopList(q)
    PROVE  /\ HopList(merge(p, q)) /\ ToSet(merge(p, q)) \subseteq ToSet(p) \cup ToSet(q)
           /\ ~Full(merge(p, q)) => /\ ToSet(merge(p, q)) = ToSet(p) \cup ToSet(q)
                                    /\ ~Full(p) /\ ~Full(q)
<1>1. p \in Seq(NextHops) /\ q \in Seq(NextHops) /\ q # <<>>
  <2>1. <<>> \in Seq(NextHops)
    OBVIOUS
  <2>. QED
    BY <2>1, Zenon DEF HopList
<1>2. ToSet(<<>>) = {} /\ ~Full(<<>>)
  BY RoutesAssumption DEF ToSet, Full
<1>3. CASE p = <<>>
  <2>1. merge(p, q) = q
    BY <1>3 DEF merge
  <2>. QED
    BY <1>2, <1>3, <2>1
<1>4. CASE p # <<>> /\ Full(p)
  <2>1. merge(p, q) = p
    BY <1>4 DEF merge, Full
  <2>. QED
    BY <1>4, <2>1
<1>5. CASE p # <<>> /\ ~Full(p) /\ Full(q)
  <2>1. merge(p, q) = q
    BY <1>1, <1>5 DEF merge, Full
  <2>. QED
    BY <1>5, <2>1
<1>6. CASE p # <<>> /\ ~Full(p) /\ ~Full(q)
  <2>1. /\ HopList(merge(p, q)) /\ ToSet(merge(p, q)) \subseteq ToSet(p) \cup ToSet(q)
        /\ ~Full(merge(p, q)) => ToSet(merge(p, q)) = ToSet(p) \cup ToSet(q)
    BY <1>1, <1>6, MergeTurns
  <2>. QED
    BY <1>6, <2>1
<1>. QED
  BY <1>3, <1>4, <1>5, <1>6

-----------------------------------------------------------------------------
(* The links that a run follows. *)

\* Under what RoutesFresh is proved.
Applies == UniqueIds

\* What a run finds: the own LSA is one that the interfaces make.
RootSays ==
    /\ body[Root] # None => \E s \in IfcStates : body[Root] = OwnLsa(s)
    /\ \E n \in Nat : DOMAIN ifmap = 1..n

Settled == GraphInv /\ RootSays /\ IfmapMatches

Edge(V, i, W) == Adjacent(body, parsed, V, W) /\ i \in LinksTo(body[V], W)

LEMMA LeastOf ==
    ASSUME NEW S \in SUBSET Nat, S # {}
    PROVE  Min(S) \in S /\ \A n \in S : Min(S) <= n
<1>. SUFFICES \E n \in S : \A m \in S : n <= m
  BY DEF Min
<1>. SUFFICES ASSUME ~\E n \in S : \A m \in S : n <= m PROVE FALSE
  OBVIOUS
<1>1. PICK k \in S : TRUE
  OBVIOUS
<1>. DEFINE T == {n \in 0..k : \A m \in 0..n : m \notin S}
<1>2. 0 \in T
  OBVIOUS
<1>3. ASSUME NEW n \in 1..k, n - 1 \in T PROVE n \in T
  <2>1. ASSUME n \in S PROVE FALSE
    <3>1. ASSUME NEW m \in S PROVE n <= m
      BY <1>3
    <3>. QED
      BY <2>1, <3>1
  <2>2. \A m \in 0..n : m \in 0..(n - 1) \/ m = n
    BY <1>1
  <2>. QED
    BY <1>1, <1>3, <2>1, <2>2
<1>4. 0..k \subseteq T
  <2>. HIDE DEF T
  <2>. QED
    BY <1>1, <1>2, <1>3, UpTo
<1>. QED
  BY <1>1, <1>4

\* The links of the root are the links of interfaces.
LEMMA RootLinkIs ==
    ASSUME Settled, parsed[Root], NEW i \in DOMAIN body[Root]
    PROVE  \E k \in DOMAIN Ifaces :
             /\ ifmap[i] = Ifaces[k] /\ IfcOf(body[Root][i]) = Ifaces[k]
             /\ body[Root][i].type \in {"TNET", "STUB"}
             /\ body[Root][i].type = "TNET" => body[Root][i].data = Ifaces[k].addr /\ body[Root][i].id = DR[k]
<1>1. Root \in Node /\ body[Root] # None
  BY RoutesAssumption DEF Node, Settled, GraphInv, GraphTypeOK
<1>2. PICK s \in IfcStates : body[Root] = OwnLsa(s)
  BY <1>1 DEF Settled, RootSays
<1>3. Len(ifmap) = Len(body[Root]) /\ \A j \in DOMAIN ifmap : ifmap[j] = IfcOf(body[Root][j])
  BY DEF Settled, IfmapMatches
<1>. DEFINE ifs == [k \in DOMAIN Up(s) |-> Ifaces[Up(s)[k]]]
            b == OwnLsa(s)
            u == Up(s)[i]
<1>4. Len(ifs) = Len(b) /\ \A j \in DOMAIN ifs : ifs[j] = IfcOf(b[j])
  BY OwnLsaIs DEF Fits
<1>5. i \in DOMAIN Up(s) /\ u \in DOMAIN Ifaces
  BY <1>2, UpIs DEF OwnLsa
<1>6. ifs[i] = Ifaces[u] /\ b[i] = rl_insert(u, s[u]) /\ i \in DOMAIN ifs
  BY <1>5 DEF OwnLsa
<1>. HIDE DEF ifs, b, u
<1>7. IfcOf(b[i]) = Ifaces[u]
  BY <1>4, <1>6
<1>8. /\ b[i].type \in {"TNET", "STUB"}
      /\ b[i].type = "TNET" => b[i].data = Ifaces[u].addr /\ b[i].id = DR[u]
  BY <1>6 DEF rl_insert
<1>9. i \in DOMAIN ifmap
  <2>1. PICK n \in Nat : DOMAIN ifmap = 1..n
    BY DEF Settled, RootSays
  <2>2. Len(ifmap) = n
    BY <2>1
  <2>3. DOMAIN body[Root] = 1..Len(body[Root])
    BY <1>1, LinksNumbered DEF Settled
  <2>. QED
    BY <1>3, <2>1, <2>2, <2>3
<1>10. ifmap[i] = Ifaces[u]
  BY <1>2, <1>3, <1>7, <1>9 DEF b
<1>. QED
  BY <1>2, <1>5, <1>7, <1>8, <1>10 DEF b

LEMMA EdgeIs ==
    ASSUME Settled, NEW V \in Node, NEW W \in Node, NEW i, Edge(V, i, W)
    PROVE  /\ V # W /\ parsed[V] /\ parsed[W] /\ i \in DOMAIN body[V] /\ nbr[V][i] = W
           /\ body[V] \in Contents[V] /\ body[W] \in Contents[W]
           /\ body[V][i].type # "STUB" /\ body[V][i].cost \in Nat /\ Names(body[V][i], W)
           /\ V \in Router => body[V][i].cost > 0
           /\ V \in Network => W \in Router
           /\ W \in Network => body[V][i].data > 0 /\ Net(body[V][i].data) = Net(LsId[W])
           /\ LinksTo(body[W], V) # {} /\ i \in Nat \ {0}
<1>1. parsed[V] /\ parsed[W] /\ i \in DOMAIN body[V] /\ Names(body[V][i], W) /\ LinksTo(body[W], V) # {}
  BY DEF Edge, Adjacent, LinksTo
<1>2. /\ body[V] # None /\ body[W] # None /\ body[V] \in Contents[V] /\ body[W] \in Contents[W]
  BY <1>1 DEF Settled, GraphInv, GraphTypeOK
<1>3. nbr[V][i] = W
  <2>1. i \in Slots(body[V])
    BY <1>1, <1>2 DEF Slots
  <2>. QED
    BY <1>1, <2>1 DEF Settled, GraphInv, LinksMutual, Edge
<1>4. ~Names(body[V][i], V)
  BY <1>1, <1>2, GraphAssumption DEF Says
<1>5. body[V][i].type # "STUB"
  BY <1>1 DEF Names
<1>6. /\ DOMAIN body[V] = 1..Len(body[V]) /\ Len(body[V]) \in Nat /\ body[V][i].cost \in Nat
      /\ V \in Router => body[V][i].cost > 0
  BY <1>1, <1>2, <1>5, ContentsAssumption, LinksNumbered DEF Settled
<1>7. V \in Network => W \in Router
  <2>1. V \in Network => body[V][i].type = "PP"
    BY <1>1, <1>2, ContentsAssumption
  <2>. QED
    BY <1>1, <2>1 DEF Names
<1>8. W \in Network => body[V][i].data > 0 /\ Net(body[V][i].data) = Net(LsId[W])
  BY <1>2, ContentsAssumption DEF Edge
<1>. QED
  BY <1>1, <1>2, <1>3, <1>4, <1>5, <1>6, <1>7, <1>8

LEMMA PointerIsEdge ==
    ASSUME Settled, NEW V \in Node, parsed[V], NEW i \in DOMAIN body[V], nbr[V][i] # None
    PROVE  nbr[V][i] \in Node /\ Edge(V, i, nbr[V][i])
<1>1. /\ nbr[V][i] \in Node /\ Names(body[V][i], nbr[V][i])
      /\ Adjacent(body, parsed, V, nbr[V][i])
  BY LinkLeads DEF Settled
<1>. QED
  BY <1>1 DEF Edge, LinksTo

\* Those of the root lead to the networks of its interfaces.
LEMMA RootEdge ==
    ASSUME Settled, NEW W \in Node, NEW i, Edge(Root, i, W)
    PROVE  /\ W \in Network
           /\ \E k \in DOMAIN Ifaces :
                /\ ifmap[i] = Ifaces[k] /\ IfcOf(body[Root][i]) = Ifaces[k]
                /\ Net(Ifaces[k].addr) = Net(LsId[W]) /\ DR[k] = LsId[W]
           /\ Hop(ifmap[i], 0) \in NextHops
<1>1. Root \in Node
  BY RoutesAssumption DEF Node
<1>2. /\ parsed[Root] /\ i \in DOMAIN body[Root] /\ Names(body[Root][i], W)
      /\ body[Root][i].type # "STUB"
      /\ W \in Network => Net(body[Root][i].data) = Net(LsId[W])
  BY <1>1, EdgeIs
<1>3. PICK k \in DOMAIN Ifaces :
        /\ ifmap[i] = Ifaces[k] /\ IfcOf(body[Root][i]) = Ifaces[k]
        /\ body[Root][i].type \in {"TNET", "STUB"}
        /\ body[Root][i].type = "TNET" => body[Root][i].data = Ifaces[k].addr /\ body[Root][i].id = DR[k]
  BY <1>2, RootLinkIs
<1>4. W \in Network /\ DR[k] = LsId[W] /\ body[Root][i].data = Ifaces[k].addr
  BY <1>2, <1>3 DEF Names
<1>5. Hop(Ifaces[k], 0) \in NextHops
  BY DEF NextHops
<1>. QED
  BY <1>2, <1>3, <1>4, <1>5

\* What ospf_find_gw finds on a network is the address that W has there.
LEMMA GwIs ==
    ASSUME Settled, NEW V \in Network, NEW W \in Node, NEW i, Edge(V, i, W)
    PROVE  /\ ospf_find_gw(W, V, Net(LsId[V])) = AddressTo(W, V)
           /\ AddressTo(W, V) > 0 /\ AddressTo(W, V) \in Nat /\ Net(AddressTo(W, V)) = Net(LsId[V])
           /\ W # Root => AddressTo(W, V) \in Addresses
<1>. DEFINE b == body[W]
            L == LinksTo(b, V)
            to == {j \in DOMAIN nbr[W] : nbr[W][j] = V}
            on == {j \in to : Net(b[j].data) = Net(LsId[V])}
<1>1. V \in Node
  BY DEF Node
<1>2. parsed[V] /\ parsed[W] /\ b \in Contents[W] /\ L # {} /\ W \in Router
  BY <1>1, EdgeIs
<1>3. Adjacent(body, parsed, W, V)
  BY DEF Edge, Adjacent
<1>4. b # None
  BY <1>2 DEF Settled, GraphInv, GraphTypeOK
<1>5. to = L
  <2>1. DOMAIN nbr[W] = Slots(b) /\ Slots(b) = DOMAIN b
    BY <1>4 DEF Settled, GraphInv, GraphTypeOK, Slots
  <2>2. \A j \in DOMAIN b : nbr[W][j] = V <=> Names(b[j], V)
    BY <1>1, <1>3, <2>1 DEF Settled, GraphInv, LinksMutual
  <2>. QED
    BY <2>1, <2>2 DEF LinksTo
<1>6. \A j \in L : b[j].data \in Nat /\ b[j].data > 0 /\ Net(b[j].data) = Net(LsId[V])
  BY <1>2, ContentsAssumption DEF LinksTo
<1>7. on = L
  BY <1>5, <1>6
<1>8. L \in SUBSET Nat
  <2>1. DOMAIN b = 1..Len(b) /\ Len(b) \in Nat
    BY <1>2, LinksNumbered DEF Settled
  <2>. QED
    BY <2>1 DEF LinksTo
<1>. DEFINE m == Min(L)
<1>9. m \in L
  BY <1>2, <1>8, LeastOf
<1>10. ospf_find_gw(W, V, Net(LsId[V])) = b[m].data
  BY <1>2, <1>7 DEF ospf_find_gw
<1>11. AddressTo(W, V) = b[m].data
  BY DEF AddressTo
<1>12. W # Root => b[m].data \in Addresses
  <2>1. b[m].type = "TNET" /\ m \in DOMAIN b
    <3>1. V \notin Router
      BY GraphAssumption
    <3>. QED
      BY <1>9, <3>1 DEF LinksTo, Names
  <2>. HIDE DEF m
  <2>. QED
    BY <1>2, <2>1 DEF Addresses
<1>. HIDE DEF m, L, b
<1>. QED
  BY <1>6, <1>9, <1>10, <1>11, <1>12

-----------------------------------------------------------------------------
(* The tree of shortest paths. *)

OnTree(c) == {v \in Node : c.state[v] = "ONTREE"}

Reached(c) == {v \in Node : c.state[v] # "UNINIT"}

\* The order in which nodes go on the tree.  A link leads to a node of higher rank.
Rank(c, v) == 2 * c.cost[v] + (IF v \in Network THEN 0 ELSE 1)

Tight(c, V, i, W) == Edge(V, i, W) /\ LinkCost(c, V, i) = c.cost[W]

\* A next hop to V as a next hop to its neighbour W.
CarryHop(h, V, W) == IF h.gw = 0 THEN [h EXCEPT !.gw = AddressTo(W, V)] ELSE h

Carry(c, V, i, W) ==
    IF V = Root THEN {Hop(ifmap[i], 0)} ELSE {CarryHop(h, V, W) : h \in ToSet(c.epath[V])}

\* The network N that next hop h of v leads to, over interface k: v itself, or one on
\* the tree, and then a router there has been found.
LeadsTo(c, v, h, k, N) ==
    /\ h = Hop(Ifaces[k], h.gw)
    /\ DR[k] = LsId[N] /\ Net(Ifaces[k].addr) = Net(LsId[N])
    /\ N = v => h.gw = 0 /\ c.direct[v] = TRUE
    /\ N # v => h.gw # 0 /\ N \in OnTree(c)

Witness(c, v, h) == \E k \in DOMAIN Ifaces : \E N \in Network : LeadsTo(c, v, h, k, N)

\* List q of W is made of the links in D by which W's cost is least.  It has all their next
\* hops unless it is full, as it also is if one of them came with a full list.
HopsFrom(c, D, W, q) ==
    /\ \A h \in ToSet(q) : \E V, i : <<V, i>> \in D /\ Tight(c, V, i, W) /\ h \in Carry(c, V, i, W)
    /\ ~Full(q) => \A V, i : <<V, i>> \in D /\ Tight(c, V, i, W) =>
                     /\ Carry(c, V, i, W) \subseteq ToSet(q)
                     /\ V = Root \/ ~Full(c.epath[V])

\* Of the links in D, which have been followed, c has made what it can: each node has
\* next hops of the links by which its cost is least.
NodeInv(c, D) ==
    /\ \A V, i : <<V, i>> \in D => V \in OnTree(c)
    /\ \A V, i, W : <<V, i>> \in D /\ W \in Node /\ Edge(V, i, W) =>
         W \in Reached(c) /\ c.cost[W] <= LinkCost(c, V, i)
    /\ \A W \in Reached(c) \ {Root} :
         /\ HopList(c.epath[W])
         /\ HopsFrom(c, D, W, c.epath[W])
         /\ \A h \in ToSet(c.epath[W]) : Witness(c, W, h)
    /\ \A U \in OnTree(c), w \in Waiting(c) : Rank(c, U) <= Rank(c, w)
    /\ parsed[Root] => Root \in Reached(c)
    /\ c.cost[Root] = 0
    /\ Reached(c) \subseteq {Root} \/ Root \in OnTree(c)

\* Another set of links makes the same list if those that count are the same.
LEMMA HopsFromSame ==
    ASSUME NEW c, NEW d, NEW D, NEW E, NEW W, NEW q, HopsFrom(c, D, W, q),
           \A U, j : <<U, j>> \in D /\ Tight(c, U, j, W) <=> <<U, j>> \in E /\ Tight(d, U, j, W),
           \A U, j : <<U, j>> \in D => Carry(d, U, j, W) = Carry(c, U, j, W) /\ d.epath[U] = c.epath[U]
    PROVE  HopsFrom(d, E, W, q)
<1>1. ASSUME NEW h \in ToSet(q)
      PROVE  \E V, i : <<V, i>> \in E /\ Tight(d, V, i, W) /\ h \in Carry(d, V, i, W)
  <2>1. PICK V, i : <<V, i>> \in D /\ Tight(c, V, i, W) /\ h \in Carry(c, V, i, W)
    BY DEF HopsFrom
  <2>2. <<V, i>> \in E /\ Tight(d, V, i, W) /\ h \in Carry(d, V, i, W)
    BY <2>1
  <2>. QED
    BY <2>2
<1>2. ASSUME ~Full(q), NEW V, NEW i, <<V, i>> \in E, Tight(d, V, i, W)
      PROVE  Carry(d, V, i, W) \subseteq ToSet(q) /\ (V = Root \/ ~Full(d.epath[V]))
  <2>1. <<V, i>> \in D /\ Tight(c, V, i, W)
    BY <1>2
  <2>2. Carry(c, V, i, W) \subseteq ToSet(q) /\ (V = Root \/ ~Full(c.epath[V]))
    BY <1>2, <2>1 DEF HopsFrom
  <2>. QED
    BY <2>1, <2>2
<1>. QED
  BY <1>1, <1>2 DEF HopsFrom

\* One more link.
LEMMA HopsFromMore ==
    ASSUME NEW d, NEW D, NEW W, NEW old, old = <<>> \/ HopList(old), HopsFrom(d, D, W, old),
           NEW V, NEW i, Tight(d, V, i, W), NEW new, HopList(new), ToSet(new) = Carry(d, V, i, W),
           V = Root \/ (Full(new) <=> Full(d.epath[V]))
    PROVE  HopsFrom(d, D \cup {<<V, i>>}, W, merge(old, new))
<1>. DEFINE E == D \cup {<<V, i>>}
            q == merge(old, new)
<1>1. \A U, j : <<U, j>> \in E <=> <<U, j>> \in D \/ (U = V /\ j = i)
  OBVIOUS
<1>2. /\ ToSet(q) \subseteq ToSet(old) \cup ToSet(new)
      /\ ~Full(q) => ToSet(q) = ToSet(old) \cup ToSet(new) /\ ~Full(old) /\ ~Full(new)
  BY HopsMerge
<1>. HIDE DEF E, q
<1>3. ASSUME NEW h \in ToSet(q)
      PROVE  \E U, j : <<U, j>> \in E /\ Tight(d, U, j, W) /\ h \in Carry(d, U, j, W)
  <2>1. CASE h \in ToSet(old)
    BY <1>1, <2>1 DEF HopsFrom
  <2>2. CASE h \in ToSet(new)
    BY <1>1, <2>2
  <2>. QED
    BY <1>2, <2>1, <2>2
<1>4. ASSUME ~Full(q), NEW U, NEW j, <<U, j>> \in E, Tight(d, U, j, W)
      PROVE  Carry(d, U, j, W) \subseteq ToSet(q) /\ (U = Root \/ ~Full(d.epath[U]))
  <2>1. CASE <<U, j>> \in D
    <3>1. Carry(d, U, j, W) \subseteq ToSet(old) /\ (U = Root \/ ~Full(d.epath[U]))
      BY <1>2, <1>4, <2>1 DEF HopsFrom
    <3>. QED
      BY <1>2, <1>4, <3>1
  <2>2. CASE U = V /\ j = i
    BY <1>2, <1>4, <2>2
  <2>. QED
    BY <1>1, <1>4, <2>1, <2>2
<1>5. HopsFrom(d, E, W, q)
  BY <1>3, <1>4 DEF HopsFrom
<1>. QED
  BY <1>5 DEF E, q

\* addgateway gives V's address on the network of W to the next hop that has none.
LEMMA GatewayAdded ==
    ASSUME Applies, Settled, NEW c, NEW V \in Network, NEW q, HopList(q),
           \A h \in ToSet(q) : Witness(c, V, h),
           NEW W \in Node \ {Root}, NEW i, Edge(V, i, W)
    PROVE  /\ HopList(addgateway(q, AddressTo(W, V)))
           /\ ToSet(addgateway(q, AddressTo(W, V))) = {CarryHop(h, V, W) : h \in ToSet(q)}
           /\ Full(addgateway(q, AddressTo(W, V))) <=> Full(q)
<1>. DEFINE gw == AddressTo(W, V)
            r == addgateway(q, gw)
            n == Len(q)
<1>1. gw \in Nat /\ gw > 0 /\ Net(gw) = Net(LsId[V]) /\ gw \in Addresses
  BY GwIs
<1>2. q \in Seq(NextHops) /\ n \in Nat /\ DOMAIN q = 1..n /\ q # <<>> /\ n <= MAXPATH
  BY DEF HopList
<1>3. ASSUME NEW h \in ToSet(q)
      PROVE  \E k \in DOMAIN Ifaces : \E N \in Network :
               /\ LeadsTo(c, V, h, k, N) /\ (h.gw = 0 <=> N = V)
               /\ h.addr = Ifaces[k].addr /\ h.phy = Ifaces[k].phy
  <2>1. PICK k \in DOMAIN Ifaces : \E N \in Network : LeadsTo(c, V, h, k, N)
    BY <1>3 DEF Witness
  <2>2. PICK N \in Network : LeadsTo(c, V, h, k, N)
    BY <2>1
  <2>3. h.gw = 0 <=> N = V
    BY <2>2 DEF LeadsTo
  <2>4. h.addr = Ifaces[k].addr /\ h.phy = Ifaces[k].phy
    BY <2>2 DEF LeadsTo, Hop
  <2>. QED
    BY <2>2, <2>3, <2>4
<1>. HIDE DEF gw
<1>4. ASSUME NEW a \in 1..n
      PROVE  r[a] = CarryHop(q[a], V, W) /\ r[a] \in NextHops
  <2>. DEFINE h == q[a]
  <2>1. h \in ToSet(q) /\ h \in NextHops
    BY <1>2, <1>4 DEF ToSet
  <2>2. PICK k \in DOMAIN Ifaces : \E N \in Network :
          /\ LeadsTo(c, V, h, k, N) /\ (h.gw = 0 <=> N = V)
          /\ h.addr = Ifaces[k].addr /\ h.phy = Ifaces[k].phy
    BY <1>3, <2>1
  <2>3. PICK N \in Network :
          /\ LeadsTo(c, V, h, k, N) /\ (h.gw = 0 <=> N = V)
          /\ h.addr = Ifaces[k].addr /\ h.phy = Ifaces[k].phy
    BY <2>2
  <2>4. h = Hop(Ifaces[k], h.gw)
    BY <2>3 DEF LeadsTo
  <2>5. r[a] = IF Net(h.addr) = Net(gw) /\ h.gw = 0 THEN [h EXCEPT !.gw = gw] ELSE h
    BY <1>2 DEF addgateway
  <2>6. h.gw = 0 => Net(h.addr) = Net(gw)
    BY <1>1, <2>3 DEF LeadsTo
  <2>7. r[a] = IF h.gw = 0 THEN [h EXCEPT !.gw = gw] ELSE h
    BY <2>5, <2>6
  <2>8. CASE h.gw = 0
    <3>1. r[a] = Hop(Ifaces[k], gw)
      BY <2>4, <2>7, <2>8 DEF Hop
    <3>2. Hop(Ifaces[k], gw) \in NextHops
      BY <1>1, <2>3, <2>6, <2>8 DEF NextHops
    <3>. QED
      BY <2>7, <2>8, <3>1, <3>2 DEF CarryHop, gw
  <2>9. CASE h.gw # 0
    BY <2>1, <2>7, <2>9 DEF CarryHop, gw
  <2>. QED
    BY <2>8, <2>9
<1>5. DOMAIN r = 1..n
  BY <1>2 DEF addgateway
<1>6. r = [a \in 1..n |-> r[a]]
  BY <1>2 DEF addgateway
<1>. HIDE DEF r, n
<1>7. r \in Seq(NextHops) /\ r # <<>>
  <2>1. r \in [1..n -> NextHops]
    BY <1>4, <1>6
  <2>2. r \in Seq(NextHops)
    BY <1>2, <2>1
  <2>3. 1 \in DOMAIN r
    BY <1>2, <1>5 DEF n
  <2>. QED
    BY <2>2, <2>3
<1>8. Len(r) = n
  BY <1>2, <1>5, <1>7
<1>9. HopList(r) /\ (Full(r) <=> Full(q))
  BY <1>2, <1>7, <1>8 DEF HopList, Full, n
<1>10. ToSet(r) = {CarryHop(h, V, W) : h \in ToSet(q)}
  <2>1. ToSet(r) = {r[a] : a \in 1..n}
    BY <1>5 DEF ToSet
  <2>2. ToSet(q) = {q[a] : a \in 1..n}
    BY <1>2 DEF ToSet
  <2>. QED
    BY <1>4, <2>1, <2>2
<1>. QED
  BY <1>9, <1>10 DEF r, gw

\* The next hops that V gives to W are those that it has, carried over.
LEMMA NewHopsAre ==
    ASSUME Applies, Settled, NEW c, NEW D, NodeInv(c, D), NEW V \in OnTree(c),
           NEW W \in Node \ {Root}, NEW i, Edge(V, i, W)
    PROVE  /\ HopList(NewHops(c, W, V, i)) /\ ToSet(NewHops(c, W, V, i)) = Carry(c, V, i, W)
           /\ V = Root \/ (Full(NewHops(c, W, V, i)) <=> Full(c.epath[V]))
<1>. DEFINE q == c.epath[V]
<1>0. V \in Node /\ W \in Node
  BY DEF OnTree
<1>1. CASE V = Root
  <2>. DEFINE h == Hop(ifmap[i], 0)
  <2>1. W \in Network /\ h \in NextHops
    BY <1>0, <1>1, RootEdge
  <2>2. NewHops(c, W, V, i) = <<h>>
    BY <1>1, <2>1 DEF NewHops
  <2>. HIDE DEF h
  <2>3. HopList(<<h>>) /\ ToSet(<<h>>) = {h}
    BY <2>1, SingleHop
  <2>. QED
    BY <1>1, <2>2, <2>3 DEF Carry, h
<1>2. CASE V # Root
  <2>1. V \in Reached(c) \ {Root}
    BY <1>2 DEF OnTree, Reached
  <2>2. HopList(q) /\ \A h \in ToSet(q) : Witness(c, V, h)
    BY <2>1 DEF NodeInv
  <2>3. Carry(c, V, i, W) = {CarryHop(h, V, W) : h \in ToSet(q)} /\ q = c.epath[V]
    BY <1>2 DEF Carry
  <2>4. CASE c.direct[V] /\ V \in Network
    <3>1. NewHops(c, W, V, i) = addgateway(q, AddressTo(W, V))
      BY <1>0, <1>2, <2>4, GwIs DEF NewHops
    <3>. HIDE DEF q
    <3>2. /\ HopList(addgateway(q, AddressTo(W, V)))
          /\ ToSet(addgateway(q, AddressTo(W, V))) = {CarryHop(h, V, W) : h \in ToSet(q)}
          /\ Full(addgateway(q, AddressTo(W, V))) <=> Full(q)
      BY <2>2, <2>4, GatewayAdded
    <3>. QED
      BY <2>3, <3>1, <3>2
  <2>5. CASE ~(c.direct[V] /\ V \in Network)
    <3>1. NewHops(c, W, V, i) = q
      BY <1>2, <2>5 DEF NewHops
    <3>2. ASSUME NEW h \in ToSet(q) PROVE CarryHop(h, V, W) = h
      <4>1. PICK k \in DOMAIN Ifaces : \E N \in Network : LeadsTo(c, V, h, k, N)
        BY <2>2, <3>2 DEF Witness
      <4>2. PICK N \in Network : LeadsTo(c, V, h, k, N)
        BY <4>1
      <4>3. h.gw # 0
        <5>1. CASE N = V
          BY <2>5, <4>2, <5>1 DEF LeadsTo
        <5>2. CASE N # V
          BY <4>2, <5>2 DEF LeadsTo
        <5>. QED
          BY <5>1, <5>2
      <4>. QED
        BY <4>3 DEF CarryHop
    <3>. HIDE DEF q
    <3>3. {CarryHop(h, V, W) : h \in ToSet(q)} = ToSet(q)
      BY <3>2
    <3>. QED
      BY <2>2, <2>3, <3>1, <3>3
  <2>. QED
    BY <2>4, <2>5
<1>. QED
  BY <1>1, <1>2

\* And each of them leads to a network.
LEMMA CarriedLead ==
    ASSUME Applies, Settled, NEW c, NEW D, NodeInv(c, D), NEW V \in OnTree(c),
           NEW W \in Node \ {Root}, W \notin OnTree(c), NEW i, Edge(V, i, W), NEW d,
           OnTree(c) \subseteq OnTree(d), V = Root => d.direct[W] = TRUE,
           NEW h \in Carry(c, V, i, W)
    PROVE  Witness(d, W, h)
<1>0. V \in Node /\ W \in Node
  BY DEF OnTree
<1>1. CASE V = Root
  <2>1. PICK k \in DOMAIN Ifaces :
          ifmap[i] = Ifaces[k] /\ Net(Ifaces[k].addr) = Net(LsId[W]) /\ DR[k] = LsId[W]
    BY <1>0, <1>1, RootEdge
  <2>2. W \in Network
    BY <1>0, <1>1, RootEdge
  <2>3. h = Hop(Ifaces[k], 0)
    BY <1>1, <2>1 DEF Carry
  <2>4. h.gw = 0
    BY <2>3 DEF Hop
  <2>5. LeadsTo(d, W, h, k, W)
    BY <1>1, <2>1, <2>3, <2>4 DEF LeadsTo
  <2>. QED
    BY <2>2, <2>5 DEF Witness
<1>2. CASE V # Root
  <2>1. V \in Reached(c) \ {Root}
    BY <1>2 DEF OnTree, Reached
  <2>2. PICK g \in ToSet(c.epath[V]) : h = CarryHop(g, V, W)
    BY <1>2 DEF Carry
  <2>3. Witness(c, V, g)
    BY <2>1 DEF NodeInv
  <2>4. PICK k \in DOMAIN Ifaces : \E N \in Network : LeadsTo(c, V, g, k, N)
    BY <2>3 DEF Witness
  <2>5. PICK N \in Network : LeadsTo(c, V, g, k, N)
    BY <2>4
  <2>6. N \in OnTree(c) /\ N # W
    BY <2>5 DEF LeadsTo
  <2>7. h.gw # 0 /\ h = Hop(Ifaces[k], h.gw)
    <3>1. CASE g.gw = 0
      <4>1. N = V
        BY <2>5, <3>1 DEF LeadsTo
      <4>. DEFINE gw == AddressTo(W, V)
      <4>2. gw > 0 /\ gw \in Nat
        BY <1>0, <4>1, GwIs
      <4>3. h = Hop(Ifaces[k], gw)
        <5>1. g = Hop(Ifaces[k], g.gw)
          BY <2>5 DEF LeadsTo
        <5>2. h = [g EXCEPT !.gw = gw]
          BY <2>2, <3>1 DEF CarryHop
        <5>. HIDE DEF gw
        <5>. QED
          BY <5>1, <5>2 DEF Hop
      <4>. HIDE DEF gw
      <4>4. h.gw = gw
        BY <4>3 DEF Hop
      <4>. QED
        BY <4>2, <4>3, <4>4
    <3>2. CASE g.gw # 0
      <4>1. h = g
        BY <2>2, <3>2 DEF CarryHop
      <4>. QED
        BY <2>5, <3>2, <4>1 DEF LeadsTo
    <3>. QED
      BY <3>1, <3>2
  <2>8. LeadsTo(d, W, h, k, N)
    <3>1. DR[k] = LsId[N] /\ Net(Ifaces[k].addr) = Net(LsId[N])
      BY <2>5 DEF LeadsTo
    <3>. QED
      BY <2>6, <2>7, <3>1 DEF LeadsTo
  <2>. QED
    BY <2>8 DEF Witness
<1>. QED
  BY <1>1, <1>2

\* V is the last node on the tree.
Latest(c, V) == V \in OnTree(c) /\ \A U \in OnTree(c) : Rank(c, U) <= Rank(c, V)

LEMMA RankIs ==
    ASSUME NEW c, IsCalc(c), NEW v \in Node
    PROVE  /\ c.cost[v] \in Nat /\ Rank(c, v) \in Nat
           /\ v \in Network => Rank(c, v) = 2 * c.cost[v]
           /\ v \notin Network => Rank(c, v) = 2 * c.cost[v] + 1
BY DEF Rank, IsCalc, Fields

\* A link leads up.
LEMMA RankUp ==
    ASSUME Settled, NEW c, IsCalc(c), NEW V \in Node, NEW W \in Node, NEW i, Edge(V, i, W)
    PROVE  /\ LinkCost(c, V, i) \in Nat
           /\ W \in Network => Rank(c, V) < 2 * LinkCost(c, V, i)
           /\ W \notin Network => Rank(c, V) < 2 * LinkCost(c, V, i) + 1
<1>. DEFINE n == body[V][i].cost
<1>1. n \in Nat /\ (V \in Router => n > 0) /\ (V \in Network => W \in Router)
  BY EdgeIs
<1>2. c.cost[V] \in Nat
  BY RankIs
<1>3. LinkCost(c, V, i) = c.cost[V] + n
  BY DEF LinkCost
<1>. HIDE DEF n
<1>4. CASE V \in Router
  <2>1. V \notin Network
    BY <1>4, GraphAssumption
  <2>2. Rank(c, V) = 2 * c.cost[V] + 1 /\ n > 0
    BY <1>1, <1>4, <2>1, RankIs
  <2>. QED
    BY <1>1, <1>2, <1>3, <2>2
<1>5. CASE V \in Network
  <2>1. W \in Router /\ W \notin Network
    BY <1>1, <1>5, GraphAssumption
  <2>2. Rank(c, V) = 2 * c.cost[V]
    BY <1>5, RankIs
  <2>. QED
    BY <1>1, <1>2, <1>3, <2>1, <2>2
<1>. QED
  BY <1>4, <1>5 DEF Node

\* What does not lie on v itself keeps its witness.
LEMMA WitnessKept ==
    ASSUME NEW c, NEW d, NEW v, NEW h, Witness(c, v, h), OnTree(c) \subseteq OnTree(d),
           d.direct[v] = c.direct[v]
    PROVE  Witness(d, v, h)
<1>1. PICK k \in DOMAIN Ifaces : \E N \in Network : LeadsTo(c, v, h, k, N)
  BY DEF Witness
<1>2. PICK N \in Network : LeadsTo(c, v, h, k, N)
  BY <1>1
<1>3. LeadsTo(d, v, h, k, N)
  BY <1>2 DEF LeadsTo
<1>. QED
  BY <1>3 DEF Witness

LEMMA RootTaken ==
    ASSUME NEW c, NEW D, NodeInv(c, D), NEW V \in OnTree(c)
    PROVE  Root \in OnTree(c)
<1>1. V \in Reached(c)
  BY DEF OnTree, Reached
<1>. QED
  BY <1>1 DEF NodeInv

\* A link from a node on the tree carries nothing that changes.
LEMMA CarrySame ==
    ASSUME NEW c, NEW d, NEW V, SameNode(c, d, V), NEW i, NEW W
    PROVE  LinkCost(d, V, i) = LinkCost(c, V, i) /\ Carry(d, V, i, W) = Carry(c, V, i, W)
BY DEF SameNode, LinkCost, Carry

LEMMA RelaxInv ==
    ASSUME Applies, Settled, NEW c, IsCalc(c), NEW D, NodeInv(c, D), NEW V, Latest(c, V),
           NEW W \in Node, NEW i, Edge(V, i, W), NEW d, Relaxed(c, d, V, i, W)
    PROVE  /\ NodeInv(d, D \cup {<<V, i>>}) /\ OnTree(d) = OnTree(c)
           /\ \A U \in OnTree(c) : SameNode(c, d, U)
<1>. DEFINE total == LinkCost(c, V, i)
            skipped == Skipped(c, W, total)
            D2 == D \cup {<<V, i>>}
            new == NewHops(c, W, V, i)
<1>1. V \in Node /\ V \in OnTree(c) /\ Root \in OnTree(c) /\ V # W /\ total \in Nat
  BY RootTaken, RankUp, EdgeIs DEF Latest, OnTree
<1>2. /\ IsCalc(d) /\ \A v \in Node \ {W} : SameNode(c, d, v)
      /\ skipped => SameNode(c, d, W)
      /\ ~skipped =>
           /\ d.state[W] = "ONCAND" /\ d.cost[W] = total
           /\ d.direct[W] = (V = Root \/ (Equalled(c, W, total) /\ c.direct[W]))
           /\ d.epath[W] = merge(IF Equalled(c, W, total) THEN c.epath[W] ELSE <<>>, new)
  BY DEF Relaxed
<1>3. ASSUME NEW X \in Node, Edge(V, i, X) PROVE X = W
  BY <1>1, <1>3, EdgeIs
<1>4. W \in OnTree(c) => skipped /\ c.cost[W] < total
  <2>. SUFFICES ASSUME W \in OnTree(c) PROVE skipped /\ c.cost[W] < total
    OBVIOUS
  <2>1. Rank(c, W) <= Rank(c, V)
    BY DEF Latest
  <2>2. c.cost[W] \in Nat /\ Rank(c, W) \in Nat /\ Rank(c, V) \in Nat
    BY <1>1, RankIs
  <2>3. CASE W \in Network
    <3>1. Rank(c, W) = 2 * c.cost[W] /\ Rank(c, V) < 2 * total
      BY <1>1, <2>3, RankIs, RankUp
    <3>. HIDE DEF total
    <3>2. c.cost[W] < total
      BY <1>1, <2>1, <2>2, <3>1
    <3>. QED
      BY <3>2 DEF OnTree, Skipped
  <2>4. CASE W \notin Network
    <3>1. Rank(c, W) = 2 * c.cost[W] + 1 /\ Rank(c, V) < 2 * total + 1
      BY <1>1, <2>4, RankIs, RankUp
    <3>. HIDE DEF total
    <3>2. c.cost[W] < total
      BY <1>1, <2>1, <2>2, <3>1
    <3>. QED
      BY <3>2 DEF OnTree, Skipped
  <2>. QED
    BY <2>3, <2>4
<1>5. c.state \in [Node -> {"UNINIT", "ONCAND", "ONTREE"}] /\ c.cost[W] \in Nat
  BY RankIs DEF IsCalc, Fields
<1>6. skipped => W \in Reached(c) /\ c.cost[W] < total
  BY <1>4, <1>5 DEF Skipped, Reached, OnTree
<1>. HIDE DEF total, skipped, new
<1>7. \A X \in Node : X # W \/ skipped => SameNode(c, d, X)
  BY <1>2
<1>8. \A U \in OnTree(c) : SameNode(c, d, U)
  BY <1>4, <1>7 DEF OnTree
<1>9. OnTree(d) = OnTree(c)
  <2>1. CASE skipped
    <3>1. \A X \in Node : d.state[X] = c.state[X]
      BY <1>7, <2>1 DEF SameNode
    <3>. QED
      BY <3>1 DEF OnTree
  <2>2. CASE ~skipped
    <3>1. \A X \in Node \ {W} : d.state[X] = c.state[X]
      BY <1>7 DEF SameNode
    <3>2. d.state[W] # "ONTREE" /\ c.state[W] # "ONTREE"
      BY <1>2, <1>4, <2>2 DEF OnTree
    <3>. QED
      BY <3>1, <3>2 DEF OnTree
  <2>. QED
    BY <2>1, <2>2
<1>10. Reached(d) = Reached(c) \cup {W}
  <2>1. \A X \in Node \ {W} : d.state[X] = c.state[X]
    BY <1>7 DEF SameNode
  <2>2. skipped => d.state[W] = c.state[W] /\ W \in Reached(c)
    BY <1>6, <1>7 DEF SameNode
  <2>3. ~skipped => d.state[W] = "ONCAND"
    BY <1>2
  <2>. QED
    BY <2>1, <2>2, <2>3 DEF Reached
<1>11. \A U \in OnTree(c) : \A j, X : /\ LinkCost(d, U, j) = LinkCost(c, U, j)
                                      /\ Carry(d, U, j, X) = Carry(c, U, j, X)
  BY <1>8, CarrySame
<1>12. \A U, j : <<U, j>> \in D2 <=> <<U, j>> \in D \/ (U = V /\ j = i)
  OBVIOUS
<1>13. \A U, j : <<U, j>> \in D2 => U \in OnTree(c)
  BY <1>1, <1>12 DEF NodeInv
<1>. HIDE DEF D2
<1>14. ASSUME NEW U, NEW j, NEW X \in Node, <<U, j>> \in D2, Edge(U, j, X)
       PROVE  X \in Reached(d) /\ d.cost[X] <= LinkCost(d, U, j)
  <2>1. U \in OnTree(c) /\ LinkCost(d, U, j) = LinkCost(c, U, j) /\ U \in Node
    BY <1>11, <1>13, <1>14 DEF OnTree
  <2>2. LinkCost(c, U, j) \in Nat /\ c.cost[X] \in Nat /\ d.cost[X] \in Nat
    BY <1>2, <1>14, <2>1, RankIs, RankUp
  <2>3. CASE <<U, j>> \in D
    <3>1. X \in Reached(c) /\ c.cost[X] <= LinkCost(c, U, j)
      BY <1>14, <2>3 DEF NodeInv
    <3>2. d.cost[X] <= c.cost[X]
      <4>1. CASE X # W \/ skipped
        BY <1>7, <2>2, <4>1 DEF SameNode
      <4>2. CASE X = W /\ ~skipped
        <5>1. d.cost[W] = total
          BY <1>2, <4>2
        <5>2. ~(total > c.cost[W])
          BY <1>5, <3>1, <4>2 DEF Reached, Skipped, skipped
        <5>. QED
          BY <1>1, <1>5, <4>2, <5>1, <5>2
      <4>. QED
        BY <4>1, <4>2
    <3>. QED
      BY <1>10, <2>1, <2>2, <3>1, <3>2
  <2>4. CASE U = V /\ j = i
    <3>1. X = W
      BY <1>3, <1>14, <2>4
    <3>2. d.cost[W] <= total
      <4>1. CASE skipped
        BY <1>1, <1>5, <1>6, <1>7, <4>1 DEF SameNode
      <4>2. CASE ~skipped
        BY <1>1, <1>2, <4>2
      <4>. QED
        BY <4>1, <4>2
    <3>. QED
      BY <1>10, <2>1, <2>4, <3>1, <3>2 DEF total
  <2>. QED
    BY <1>12, <1>14, <2>3, <2>4
<1>15. ASSUME NEW X \in Reached(d) \ {Root}
       PROVE  /\ HopList(d.epath[X]) /\ HopsFrom(d, D2, X, d.epath[X])
              /\ \A h \in ToSet(d.epath[X]) : Witness(d, X, h)
  <2>0. X \in Node
    BY DEF Reached
  <2>1. CASE X # W \/ skipped
    <3>1. SameNode(c, d, X) /\ X \in Reached(c) \ {Root}
      BY <1>6, <1>7, <1>10, <2>0, <2>1
    <3>2. /\ HopList(c.epath[X]) /\ HopsFrom(c, D, X, c.epath[X])
          /\ \A h \in ToSet(c.epath[X]) : Witness(c, X, h)
      BY <3>1 DEF NodeInv
    <3>3. d.epath[X] = c.epath[X] /\ d.direct[X] = c.direct[X] /\ d.cost[X] = c.cost[X]
      BY <3>1 DEF SameNode
    <3>4. ASSUME NEW U, NEW j, <<U, j>> \in D2, Tight(d, U, j, X)
          PROVE  <<U, j>> \in D
      <4>. SUFFICES ASSUME U = V, j = i PROVE FALSE
        BY <1>12, <3>4
      <4>1. X = W
        BY <1>3, <2>0, <3>4 DEF Tight
      <4>2. c.cost[W] < total /\ d.cost[X] = LinkCost(d, V, i)
        BY <1>6, <2>1, <3>4, <4>1 DEF Tight
      <4>. QED
        BY <1>1, <1>5, <1>11, <3>3, <4>1, <4>2 DEF total
    <3>5. ASSUME NEW U, NEW j, <<U, j>> \in D
          PROVE  /\ Tight(d, U, j, X) <=> Tight(c, U, j, X)
                 /\ Carry(d, U, j, X) = Carry(c, U, j, X) /\ d.epath[U] = c.epath[U]
      <4>1. U \in OnTree(c)
        BY <1>12, <1>13, <3>5
      <4>. QED
        BY <1>8, <1>11, <3>3, <4>1 DEF Tight, SameNode
    <3>6. HopsFrom(d, D2, X, c.epath[X])
      <4>1. \A U, j : <<U, j>> \in D /\ Tight(c, U, j, X) <=> <<U, j>> \in D2 /\ Tight(d, U, j, X)
        BY <1>12, <3>4, <3>5
      <4>. QED
        BY <3>2, <3>5, <4>1, HopsFromSame
    <3>7. \A h \in ToSet(d.epath[X]) : Witness(d, X, h)
      BY <1>9, <3>2, <3>3, WitnessKept
    <3>. QED
      BY <3>2, <3>3, <3>6, <3>7
  <2>2. CASE X = W /\ ~skipped
    <3>. DEFINE old == IF Equalled(c, W, total) THEN c.epath[W] ELSE <<>>
    <3>1. W \notin OnTree(c) /\ W # Root
      BY <1>1, <1>4, <2>2
    <3>2. /\ HopList(new) /\ ToSet(new) = Carry(c, V, i, W)
          /\ V = Root \/ (Full(new) <=> Full(c.epath[V]))
      BY <1>1, <3>1, NewHopsAre DEF new
    <3>3. Equalled(c, W, total) => W \in Reached(c) \ {Root} /\ c.cost[W] = total
      BY <3>1 DEF Equalled, Reached
    <3>4. old = <<>> \/ HopList(old)
      BY <3>3 DEF NodeInv
    <3>5. d.epath[W] = merge(old, new)
      BY <1>2, <2>2
    <3>6. HopsFrom(d, D, W, old)
      <4>0. d.cost[W] = total
        BY <1>2, <2>2
      <4>1. ASSUME NEW U, NEW j, <<U, j>> \in D
            PROVE  /\ Carry(d, U, j, W) = Carry(c, U, j, W) /\ d.epath[U] = c.epath[U]
                   /\ Tight(d, U, j, W) => Equalled(c, W, total)
                   /\ Equalled(c, W, total) => (Tight(d, U, j, W) <=> Tight(c, U, j, W))
        <5>1. U \in OnTree(c) /\ LinkCost(d, U, j) = LinkCost(c, U, j)
              /\ Carry(d, U, j, W) = Carry(c, U, j, W) /\ d.epath[U] = c.epath[U]
          BY <1>8, <1>11, <1>12, <1>13, <4>1 DEF SameNode
        <5>2. Edge(U, j, W) => W \in Reached(c) /\ c.cost[W] <= LinkCost(c, U, j)
          BY <4>1 DEF NodeInv
        <5>3. ASSUME Tight(d, U, j, W) PROVE Equalled(c, W, total)
          <6>1. W \in Reached(c) /\ c.cost[W] <= total
            BY <4>0, <5>1, <5>2, <5>3 DEF Tight
          <6>2. ~(c.state[W] = "ONTREE") /\ ~(c.state[W] = "ONCAND" /\ total > c.cost[W])
            BY <2>2 DEF skipped, Skipped
          <6>3. c.state[W] = "ONCAND"
            BY <1>5, <6>1, <6>2 DEF Reached
          <6>. QED
            BY <1>1, <1>5, <6>1, <6>2, <6>3 DEF Equalled
        <5>4. Equalled(c, W, total) => (Tight(d, U, j, W) <=> Tight(c, U, j, W))
          BY <3>3, <4>0, <5>1 DEF Tight
        <5>. QED
          BY <5>1, <5>3, <5>4
      <4>2. CASE Equalled(c, W, total)
        <5>1. HopsFrom(c, D, W, c.epath[W])
          BY <3>3, <4>2 DEF NodeInv
        <5>2. \A U, j : <<U, j>> \in D /\ Tight(c, U, j, W) <=> <<U, j>> \in D /\ Tight(d, U, j, W)
          BY <4>1, <4>2
        <5>3. HopsFrom(d, D, W, c.epath[W])
          BY <4>1, <5>1, <5>2, HopsFromSame
        <5>. QED
          BY <4>2, <5>3
      <4>3. CASE ~Equalled(c, W, total)
        <5>1. ToSet(old) = {}
          BY <4>3 DEF ToSet
        <5>2. \A U, j : <<U, j>> \in D => ~Tight(d, U, j, W)
          BY <4>1, <4>3
        <5>. QED
          BY <5>1, <5>2 DEF HopsFrom
      <4>. QED
        BY <4>2, <4>3
    <3>. HIDE DEF old
    <3>7. /\ HopList(d.epath[W])
          /\ ToSet(d.epath[W]) \subseteq ToSet(old) \cup Carry(c, V, i, W)
      BY <3>2, <3>4, <3>5, HopsMerge
    <3>8. /\ Tight(d, V, i, W) /\ Carry(d, V, i, W) = Carry(c, V, i, W)
          /\ d.epath[V] = c.epath[V]
      BY <1>1, <1>2, <1>8, <1>11, <2>2 DEF Tight, total, SameNode
    <3>9. HopsFrom(d, D2, W, d.epath[W])
      BY <3>2, <3>4, <3>5, <3>6, <3>8, HopsFromMore DEF D2
    <3>10. ASSUME NEW h \in ToSet(d.epath[W]) PROVE Witness(d, W, h)
      <4>1. CASE h \in Carry(c, V, i, W)
        <5>1. V = Root => d.direct[W] = TRUE
          BY <1>2, <2>2
        <5>. QED
          BY <1>1, <1>9, <3>1, <4>1, <5>1, CarriedLead
      <4>2. CASE h \in ToSet(old)
        <5>1. Equalled(c, W, total) /\ h \in ToSet(c.epath[W])
          BY <4>2 DEF old, ToSet
        <5>2. Witness(c, W, h)
          BY <3>3, <5>1 DEF NodeInv
        <5>3. c.direct[W] \in BOOLEAN
          BY DEF IsCalc, Fields
        <5>4. c.direct[W] = TRUE => d.direct[W] = TRUE
          BY <1>2, <2>2, <5>1
        <5>5. PICK k \in DOMAIN Ifaces : \E N \in Network : LeadsTo(c, W, h, k, N)
          BY <5>2 DEF Witness
        <5>6. PICK N \in Network : LeadsTo(c, W, h, k, N)
          BY <5>5
        <5>7. LeadsTo(d, W, h, k, N)
          BY <1>9, <5>4, <5>6 DEF LeadsTo
        <5>. QED
          BY <5>7 DEF Witness
      <4>. QED
        BY <3>7, <3>10, <4>1, <4>2
    <3>. QED
      BY <2>2, <3>7, <3>9, <3>10
  <2>. QED
    BY <2>1, <2>2
<1>16. ASSUME NEW U \in OnTree(d), NEW w \in Waiting(d) PROVE Rank(d, U) <= Rank(d, w)
  <2>1. U \in OnTree(c) /\ U \in Node /\ w \in Node
    BY <1>9 DEF OnTree, Waiting
  <2>2. Rank(d, U) = Rank(c, U)
    BY <1>8, <2>1 DEF Rank, SameNode
  <2>3. CASE w # W \/ skipped
    <3>1. SameNode(c, d, w)
      BY <1>7, <2>1, <2>3
    <3>2. w \in Waiting(c) /\ Rank(d, w) = Rank(c, w)
      BY <3>1 DEF Waiting, SameNode, Rank
    <3>. QED
      BY <2>1, <2>2, <3>2 DEF NodeInv
  <2>4. CASE w = W /\ ~skipped
    <3>1. d.cost[W] = total
      BY <1>2, <2>4
    <3>2. Rank(c, U) <= Rank(c, V) /\ Rank(c, U) \in Nat /\ Rank(c, V) \in Nat
      BY <1>1, <2>1, RankIs DEF Latest
    <3>3. CASE W \in Network
      <4>1. Rank(d, W) = 2 * total /\ Rank(c, V) < 2 * total
        BY <1>1, <1>2, <3>1, <3>3, RankIs, RankUp DEF total
      <4>. QED
        BY <1>1, <2>2, <2>4, <3>2, <4>1
    <3>4. CASE W \notin Network
      <4>1. Rank(d, W) = 2 * total + 1 /\ Rank(c, V) < 2 * total + 1
        BY <1>1, <1>2, <3>1, <3>4, RankIs, RankUp DEF total
      <4>. QED
        BY <1>1, <2>2, <2>4, <3>2, <4>1
    <3>. QED
      BY <3>3, <3>4
  <2>. QED
    BY <2>3, <2>4
<1>17. d.cost[Root] = 0 /\ (parsed[Root] => Root \in Reached(d)) /\ Root \in OnTree(d)
  BY <1>1, <1>8, <1>9, <1>10 DEF NodeInv, SameNode
<1>18. NodeInv(d, D2)
  BY <1>9, <1>13, <1>14, <1>15, <1>16, <1>17 DEF NodeInv
<1>. QED
  BY <1>8, <1>9, <1>18 DEF D2

-----------------------------------------------------------------------------
(* The entries, and the invariant of a run. *)

\* V's i-th link, or V's own network, is a way to p.
Offered(p, V, i) ==
    IF i = 0 THEN V \in Network /\ Net(LsId[V]) = p
    ELSE i \in DOMAIN body[V] /\ body[V][i].type = "STUB" /\ body[V][i].id = p

\* Some link in D is.
OfferedBy(p, D) == \E V, i : <<V, i>> \in D /\ Offered(p, V, i)

\* List q is made of the ways of cost k to p, of all of them unless it is full.
OffersFrom(c, D, p, k, q) ==
    /\ \A h \in ToSet(q) : \E V, i : /\ <<V, i>> \in D /\ Offered(p, V, i)
                                    /\ OfferCost(c, V, i) = k /\ h \in ToSet(OfferHops(c, V, i))
    /\ ~Full(q) => \A V, i : <<V, i>> \in D /\ Offered(p, V, i) /\ OfferCost(c, V, i) = k =>
                      ToSet(OfferHops(c, V, i)) \subseteq ToSet(q) /\ ~Full(OfferHops(c, V, i))

\* The entry has the least cost of the ways in D, and their next hops.

EntryIs(c, D, p, e) ==
    /\ ~OfferedBy(p, D) => e = Unmarked(rte[p])
    /\ OfferedBy(p, D) =>
         /\ e.type = "SPF" /\ e.run = c.run /\ HopList(e.path) /\ e.cost \in Nat
         /\ \A V, i : <<V, i>> \in D /\ Offered(p, V, i) => e.cost <= OfferCost(c, V, i)
         /\ OffersFrom(c, D, p, e.cost, e.path)

EntryInv(c, D) == \A p \in Prefix : EntryIs(c, D, p, c.rte[p])

CalcInv(c, D) == Carried(c) /\ NodeInv(c, D) /\ EntryInv(c, D)

\* Offers do not change with what is not on the tree.
LEMMA OfferSame ==
    ASSUME NEW c, NEW d, NEW V, SameNode(c, d, V), NEW i
    PROVE  OfferCost(d, V, i) = OfferCost(c, V, i) /\ OfferHops(d, V, i) = OfferHops(c, V, i)
BY DEF SameNode, OfferCost, OfferHops

LEMMA OffersFromSame ==
    ASSUME NEW c, NEW d, NEW D, NEW E, NEW p, NEW k, NEW q, OffersFrom(c, D, p, k, q),
           \A U, j : <<U, j>> \in E /\ Offered(p, U, j) <=> <<U, j>> \in D /\ Offered(p, U, j),
           \A U, j : <<U, j>> \in D =>
             OfferCost(d, U, j) = OfferCost(c, U, j) /\ OfferHops(d, U, j) = OfferHops(c, U, j)
    PROVE  OffersFrom(d, E, p, k, q)
<1>1. ASSUME NEW h \in ToSet(q)
      PROVE  \E V, i : /\ <<V, i>> \in E /\ Offered(p, V, i)
                       /\ OfferCost(d, V, i) = k /\ h \in ToSet(OfferHops(d, V, i))
  <2>1. PICK V, i : /\ <<V, i>> \in D /\ Offered(p, V, i)
                    /\ OfferCost(c, V, i) = k /\ h \in ToSet(OfferHops(c, V, i))
    BY DEF OffersFrom
  <2>2. /\ <<V, i>> \in E /\ Offered(p, V, i)
        /\ OfferCost(d, V, i) = k /\ h \in ToSet(OfferHops(d, V, i))
    BY <2>1
  <2>. QED
    BY <2>2
<1>2. ASSUME ~Full(q), NEW V, NEW i, <<V, i>> \in E, Offered(p, V, i), OfferCost(d, V, i) = k
      PROVE  ToSet(OfferHops(d, V, i)) \subseteq ToSet(q) /\ ~Full(OfferHops(d, V, i))
  <2>1. <<V, i>> \in D
    BY <1>2
  <2>2. OfferCost(c, V, i) = k /\ OfferHops(d, V, i) = OfferHops(c, V, i)
    BY <1>2, <2>1
  <2>. QED
    BY <1>2, <2>1, <2>2 DEF OffersFrom
<1>. QED
  BY <1>1, <1>2 DEF OffersFrom

\* A link that offers nothing leaves the entries alone.
LEMMA EntryKept ==
    ASSUME NEW c, NEW D, EntryInv(c, D), \A U, j : <<U, j>> \in D => U \in OnTree(c),
           NEW d, d.rte = c.rte, d.run = c.run, \A U \in OnTree(c) : SameNode(c, d, U),
           NEW E, D \subseteq E,
           \A U, j : <<U, j>> \in E /\ <<U, j>> \notin D => \A p \in Prefix : ~Offered(p, U, j)
    PROVE  EntryInv(d, E)
<1>. SUFFICES ASSUME NEW p \in Prefix PROVE EntryIs(d, E, p, d.rte[p])
  BY DEF EntryInv
<1>. DEFINE e == c.rte[p]
<1>1. EntryIs(c, D, p, e)
  BY DEF EntryInv
<1>2. ASSUME NEW U, NEW j
      PROVE  <<U, j>> \in E /\ Offered(p, U, j) <=> <<U, j>> \in D /\ Offered(p, U, j)
  OBVIOUS
<1>3. OfferedBy(p, E) <=> OfferedBy(p, D)
  BY <1>2 DEF OfferedBy
<1>4. ASSUME NEW U, NEW j, <<U, j>> \in D
      PROVE  OfferCost(d, U, j) = OfferCost(c, U, j) /\ OfferHops(d, U, j) = OfferHops(c, U, j)
  BY <1>4, OfferSame
<1>. HIDE DEF e
<1>5. ASSUME OfferedBy(p, D)
      PROVE  /\ e.type = "SPF" /\ e.run = d.run /\ HopList(e.path) /\ e.cost \in Nat
             /\ \A V, i : <<V, i>> \in E /\ Offered(p, V, i) => e.cost <= OfferCost(d, V, i)
             /\ OffersFrom(d, E, p, e.cost, e.path)
  <2>1. /\ e.type = "SPF" /\ e.run = d.run /\ HopList(e.path) /\ e.cost \in Nat
        /\ \A V, i : <<V, i>> \in D /\ Offered(p, V, i) => e.cost <= OfferCost(c, V, i)
        /\ OffersFrom(c, D, p, e.cost, e.path)
    BY <1>1, <1>5 DEF EntryIs
  <2>2. OffersFrom(d, E, p, e.cost, e.path)
    BY <1>2, <1>4, <2>1, OffersFromSame
  <2>3. \A V, i : <<V, i>> \in E /\ Offered(p, V, i) => e.cost <= OfferCost(d, V, i)
    BY <1>2, <1>4, <2>1
  <2>. QED
    BY <2>1, <2>2, <2>3
<1>6. ~OfferedBy(p, D) => e = Unmarked(rte[p])
  BY <1>1 DEF EntryIs
<1>7. EntryIs(d, E, p, e)
  BY <1>3, <1>5, <1>6 DEF EntryIs
<1>. QED
  BY <1>7 DEF e

\* The next hops of V.
LEMMA OfferHopsAre ==
    ASSUME Settled, NEW c, NEW D, NodeInv(c, D), NEW V \in OnTree(c), NEW i, NEW p, Offered(p, V, i),
           parsed[V]
    PROVE  HopList(OfferHops(c, V, i))
<1>1. CASE V = Root
  <2>1. i \in DOMAIN body[Root]
    <3>1. Root \notin Network
      BY RoutesAssumption, GraphAssumption
    <3>. QED
      BY <1>1, <3>1 DEF Offered
  <2>2. PICK k \in DOMAIN Ifaces : ifmap[i] = Ifaces[k]
    BY <1>1, <2>1, RootLinkIs
  <2>. DEFINE h == Hop(Ifaces[k], 0)
  <2>3. h \in NextHops
    BY DEF NextHops
  <2>. HIDE DEF h
  <2>4. HopList(<<h>>)
    BY <2>3, SingleHop
  <2>5. OfferHops(c, V, i) = <<h>>
    BY <1>1, <2>2 DEF OfferHops, h
  <2>. QED
    BY <2>4, <2>5
<1>2. CASE V # Root
  <2>1. V \in Reached(c) \ {Root}
    BY <1>2 DEF OnTree, Reached
  <2>2. HopList(c.epath[V])
    BY <2>1 DEF NodeInv
  <2>. QED
    BY <1>2, <2>2 DEF OfferHops
<1>. QED
  BY <1>1, <1>2

\* One more way to p.
LEMMA EntryImproved ==
    ASSUME Applies, NEW c, NEW D, NEW p \in Prefix, EntryIs(c, D, p, c.rte[p]),
           ~OfferedBy(p, D) => c.rte[p].type # "SPF" \/ c.rte[p].run # c.run,
           \A U, j : <<U, j>> \in D /\ Offered(p, U, j) => OfferCost(c, U, j) \in Nat,
           NEW V, NEW i, Offered(p, V, i),
           OfferCost(c, V, i) \in Nat, HopList(OfferHops(c, V, i))
    PROVE  EntryIs(c, D \cup {<<V, i>>}, p,
                   Improved(c.rte[p], c.run, OfferCost(c, V, i), OfferHops(c, V, i)))
<1>. DEFINE e == c.rte[p]
            total == OfferCost(c, V, i)
            hops == OfferHops(c, V, i)
            x == Improved(e, c.run, total, hops)
            E == D \cup {<<V, i>>}
            By(U, j) == <<U, j>> \in D /\ Offered(p, U, j)
            On(U, j) == By(U, j) \/ (U = V /\ j = i)
<1>1. \A U, j : <<U, j>> \in E /\ Offered(p, U, j) <=> On(U, j)
  OBVIOUS
<1>2. OfferedBy(p, E) /\ (OfferedBy(p, D) <=> \E U, j : By(U, j))
  BY <1>1 DEF OfferedBy
<1>3. ASSUME OfferedBy(p, D)
      PROVE  /\ e.type = "SPF" /\ e.run = c.run /\ HopList(e.path) /\ e.cost \in Nat
             /\ \A U, j : By(U, j) => e.cost <= OfferCost(c, U, j)
             /\ \A h \in ToSet(e.path) : \E U, j :
                  By(U, j) /\ OfferCost(c, U, j) = e.cost /\ h \in ToSet(OfferHops(c, U, j))
             /\ ~Full(e.path) => \A U, j : By(U, j) /\ OfferCost(c, U, j) = e.cost =>
                  ToSet(OfferHops(c, U, j)) \subseteq ToSet(e.path) /\ ~Full(OfferHops(c, U, j))
  BY <1>3 DEF EntryIs, OffersFrom
<1>4. \A U, j : By(U, j) => OfferCost(c, U, j) \in Nat
  OBVIOUS
<1>. DEFINE Of(h, U, j) == On(U, j) /\ OfferCost(c, U, j) = x.cost /\ h \in ToSet(OfferHops(c, U, j))
            In(U, j) == ToSet(OfferHops(c, U, j)) \subseteq ToSet(x.path) /\ ~Full(OfferHops(c, U, j))
            Good == /\ x.type = "SPF" /\ x.run = c.run /\ HopList(x.path) /\ x.cost \in Nat
                    /\ \A U, j : By(U, j) => x.cost <= OfferCost(c, U, j)
                    /\ x.cost <= total
                    /\ \A h \in ToSet(x.path) : \E U, j : Of(h, U, j)
                    /\ ~Full(x.path) => \A U, j : On(U, j) /\ OfferCost(c, U, j) = x.cost => In(U, j)
<1>5. total \in Nat /\ HopList(hops) /\ total = OfferCost(c, V, i) /\ hops = OfferHops(c, V, i)
  OBVIOUS
<1>. HIDE DEF e, total, hops, E, By
<1>6. ASSUME ~OfferedBy(p, D) PROVE Good
  <2>1. e.type # "SPF" \/ e.run # c.run
    BY <1>6 DEF e
  <2>2. x.type = "SPF" /\ x.run = c.run /\ x.path = hops /\ x.cost = total
    BY <2>1 DEF Improved
  <2>. HIDE DEF x
  <2>3. \A U, j : ~By(U, j)
    BY <1>2, <1>6
  <2>4. \A h \in ToSet(x.path) : Of(h, V, i)
    BY <1>5, <2>2
  <2>5. ~Full(x.path) => \A U, j : On(U, j) /\ OfferCost(c, U, j) = x.cost => In(U, j)
    BY <1>5, <2>2, <2>3
  <2>6. x.cost <= total
    BY <1>5, <2>2
  <2>. HIDE DEF Of, In, On
  <2>. QED
    BY <1>5, <2>2, <2>3, <2>4, <2>5, <2>6
<1>7. ASSUME OfferedBy(p, D), total > e.cost PROVE Good
  <2>1. x = e
    BY <1>3, <1>7 DEF Improved
  <2>2. x.cost <= total /\ total # x.cost
    BY <1>3, <1>5, <1>7, <2>1
  <2>. HIDE DEF x
  <2>3. \A h \in ToSet(x.path) : \E U, j : Of(h, U, j)
    BY <1>3, <1>7, <2>1
  <2>4. ~Full(x.path) => \A U, j : On(U, j) /\ OfferCost(c, U, j) = x.cost => In(U, j)
    BY <1>3, <1>5, <1>7, <2>1, <2>2
  <2>. HIDE DEF Of, In, On
  <2>. QED
    BY <1>3, <1>7, <2>1, <2>2, <2>3, <2>4
<1>8. ASSUME OfferedBy(p, D), total = e.cost PROVE Good
  <2>1. ~(total > e.cost)
    BY <1>3, <1>5, <1>8
  <2>2. x.type = "SPF" /\ x.run = c.run /\ x.path = merge(hops, e.path) /\ x.cost = total
    BY <1>3, <1>8, <2>1 DEF Improved
  <2>. HIDE DEF x
  <2>3. /\ HopList(x.path) /\ ToSet(x.path) \subseteq ToSet(hops) \cup ToSet(e.path)
        /\ ~Full(x.path) => /\ ToSet(x.path) = ToSet(hops) \cup ToSet(e.path)
                            /\ ~Full(hops) /\ ~Full(e.path)
    BY <1>3, <1>5, <1>8, <2>2, HopsMerge
  <2>4. ASSUME NEW h \in ToSet(x.path) PROVE \E U, j : Of(h, U, j)
    <3>1. CASE h \in ToSet(hops)
      <4>1. Of(h, V, i)
        BY <1>5, <2>2, <3>1
      <4>. QED
        BY <4>1
    <3>2. CASE h \in ToSet(e.path)
      BY <1>3, <1>8, <2>2, <3>2
    <3>. QED
      BY <2>3, <2>4, <3>1, <3>2
  <2>5. ASSUME ~Full(x.path), NEW U, NEW j, On(U, j), OfferCost(c, U, j) = x.cost PROVE In(U, j)
    <3>1. CASE By(U, j)
      BY <1>3, <1>8, <2>2, <2>3, <2>5, <3>1
    <3>2. CASE U = V /\ j = i
      BY <1>5, <2>3, <2>5, <3>2
    <3>. QED
      BY <2>5, <3>1, <3>2
  <2>6. x.cost <= total /\ \A U, j : By(U, j) => x.cost <= OfferCost(c, U, j)
    BY <1>3, <1>5, <1>8, <2>2
  <2>. HIDE DEF Of, In, On
  <2>. QED
    BY <1>5, <2>2, <2>3, <2>4, <2>5, <2>6
<1>9. ASSUME OfferedBy(p, D), total < e.cost PROVE Good
  <2>1. ~(total > e.cost) /\ total # e.cost
    BY <1>3, <1>5, <1>9
  <2>2. x.type = "SPF" /\ x.run = c.run /\ x.path = hops /\ x.cost = total
    BY <1>3, <1>9, <2>1 DEF Improved
  <2>. HIDE DEF x
  <2>3. ASSUME NEW U, NEW j, By(U, j) PROVE x.cost < OfferCost(c, U, j)
    <3>. DEFINE m == OfferCost(c, U, j)
    <3>1. m \in Nat /\ e.cost <= m /\ e.cost \in Nat
      BY <1>3, <1>4, <1>9, <2>3
    <3>. HIDE DEF m
    <3>2. x.cost < m
      BY <1>5, <1>9, <2>2, <3>1
    <3>. QED
      BY <3>2 DEF m
  <2>4. \A U, j : By(U, j) => x.cost <= OfferCost(c, U, j) /\ OfferCost(c, U, j) # x.cost
    BY <1>4, <1>5, <2>2, <2>3
  <2>5. \A h \in ToSet(x.path) : Of(h, V, i)
    BY <1>5, <2>2
  <2>6. ~Full(x.path) => \A U, j : On(U, j) /\ OfferCost(c, U, j) = x.cost => In(U, j)
    BY <1>5, <2>2, <2>4
  <2>7. x.cost <= total
    BY <1>5, <2>2
  <2>. HIDE DEF Of, In, On
  <2>. QED
    BY <1>5, <2>2, <2>4, <2>5, <2>6, <2>7
<1>. HIDE DEF Good
<1>10. Good
  BY <1>3, <1>5, <1>6, <1>7, <1>8, <1>9
<1>. HIDE DEF x
<1>11. OffersFrom(c, E, p, x.cost, x.path)
  BY <1>1, <1>10 DEF OffersFrom, Good
<1>12. \A U, j : <<U, j>> \in E /\ Offered(p, U, j) => x.cost <= OfferCost(c, U, j)
  BY <1>1, <1>5, <1>10 DEF Good
<1>13. EntryIs(c, E, p, x)
  BY <1>2, <1>10, <1>11, <1>12 DEF EntryIs, Good
<1>. QED
  BY <1>13 DEF E, x, e, total, hops

-----------------------------------------------------------------------------
(* A run keeps its invariant. *)

\* A link that leads to no node adds nothing.
LEMMA NodesKept ==
    ASSUME NEW c, NEW D, NodeInv(c, D), NEW d, \A v \in Node : SameNode(c, d, v), Root \in Node,
           NEW V \in OnTree(c), NEW i, \A W \in Node : ~Edge(V, i, W)
    PROVE  /\ NodeInv(d, D \cup {<<V, i>>}) /\ OnTree(d) = OnTree(c)
           /\ \A U \in OnTree(c) : SameNode(c, d, U)
<1>. DEFINE D2 == D \cup {<<V, i>>}
<1>1. OnTree(d) = OnTree(c) /\ Reached(d) = Reached(c) /\ Waiting(d) = Waiting(c)
  BY DEF OnTree, Reached, Waiting, SameNode
<1>2. \A v \in Node : /\ d.cost[v] = c.cost[v] /\ d.epath[v] = c.epath[v] /\ d.direct[v] = c.direct[v]
                      /\ Rank(d, v) = Rank(c, v)
  BY DEF SameNode, Rank
<1>3. \A U, j : <<U, j>> \in D2 <=> <<U, j>> \in D \/ (U = V /\ j = i)
  OBVIOUS
<1>. HIDE DEF D2
<1>4. \A U, j : <<U, j>> \in D2 => U \in OnTree(c) /\ U \in Node
  BY <1>3 DEF NodeInv, OnTree
<1>5. ASSUME NEW U, NEW j, NEW W \in Node, <<U, j>> \in D2, Edge(U, j, W)
      PROVE  W \in Reached(d) /\ d.cost[W] <= LinkCost(d, U, j)
  <2>1. <<U, j>> \in D /\ U \in Node
    BY <1>3, <1>4, <1>5
  <2>2. W \in Reached(c) /\ c.cost[W] <= LinkCost(c, U, j)
    BY <1>5, <2>1 DEF NodeInv
  <2>. QED
    BY <1>1, <1>2, <2>1, <2>2 DEF LinkCost
<1>6. ASSUME NEW W \in Reached(d) \ {Root}
      PROVE  /\ HopList(d.epath[W]) /\ HopsFrom(d, D2, W, d.epath[W])
             /\ \A h \in ToSet(d.epath[W]) : Witness(d, W, h)
  <2>1. W \in Node /\ W \in Reached(c) \ {Root}
    BY <1>1 DEF Reached
  <2>2. /\ HopList(c.epath[W]) /\ HopsFrom(c, D, W, c.epath[W])
        /\ \A h \in ToSet(c.epath[W]) : Witness(c, W, h)
    BY <2>1 DEF NodeInv
  <2>3. ASSUME NEW U, NEW j, <<U, j>> \in D
        PROVE  /\ Tight(d, U, j, W) <=> Tight(c, U, j, W)
               /\ Carry(d, U, j, W) = Carry(c, U, j, W) /\ d.epath[U] = c.epath[U]
    <3>1. U \in Node
      BY <1>3, <1>4, <2>3
    <3>2. LinkCost(d, U, j) = LinkCost(c, U, j) /\ Carry(d, U, j, W) = Carry(c, U, j, W)
      BY <3>1, CarrySame
    <3>. QED
      BY <1>2, <2>1, <3>1, <3>2 DEF Tight
  <2>4. ASSUME NEW U, NEW j, <<U, j>> \in D2, Tight(d, U, j, W) PROVE <<U, j>> \in D
    BY <1>3, <2>1, <2>4 DEF Tight
  <2>5. HopsFrom(d, D2, W, c.epath[W])
    <3>1. \A U, j : <<U, j>> \in D /\ Tight(c, U, j, W) <=> <<U, j>> \in D2 /\ Tight(d, U, j, W)
      BY <1>3, <2>3, <2>4
    <3>. QED
      BY <2>2, <2>3, <3>1, HopsFromSame
  <2>6. \A h \in ToSet(d.epath[W]) : Witness(d, W, h)
    BY <1>1, <1>2, <2>1, <2>2, WitnessKept
  <2>. QED
    BY <1>2, <2>1, <2>2, <2>5, <2>6
<1>7. \A U \in OnTree(d), w \in Waiting(d) : Rank(d, U) <= Rank(d, w)
  BY <1>1, <1>2 DEF NodeInv, OnTree, Waiting
<1>8. /\ parsed[Root] => Root \in Reached(d)
      /\ d.cost[Root] = 0
      /\ Reached(d) \subseteq {Root} \/ Root \in OnTree(d)
  BY <1>1, <1>2 DEF NodeInv
<1>9. NodeInv(d, D2)
  BY <1>1, <1>4, <1>5, <1>6, <1>7, <1>8 DEF NodeInv
<1>. QED
  BY <1>1, <1>9 DEF D2, OnTree

\* What is on the tree when V is, is on it when V's links have been followed.
LEMMA LatestKept ==
    ASSUME NEW c, NEW d, NEW V, Latest(c, V), OnTree(d) = OnTree(c),
           \A U \in OnTree(c) : SameNode(c, d, U)
    PROVE  Latest(d, V)
<1>1. \A U \in OnTree(c) : Rank(d, U) = Rank(c, U)
  BY DEF Rank, SameNode
<1>. QED
  BY <1>1 DEF Latest

\* An entry is judged by what the nodes offer.
LEMMA EntrySame ==
    ASSUME NEW c, NEW d, d.run = c.run, NEW D, NEW p, NEW e, EntryIs(c, D, p, e),
           \A U, j : <<U, j>> \in D => SameNode(c, d, U)
    PROVE  EntryIs(d, D, p, e)
<1>1. ASSUME NEW U, NEW j, <<U, j>> \in D
      PROVE  OfferCost(d, U, j) = OfferCost(c, U, j) /\ OfferHops(d, U, j) = OfferHops(c, U, j)
  BY <1>1, OfferSame
<1>2. ASSUME OfferedBy(p, D)
      PROVE  /\ e.type = "SPF" /\ e.run = d.run /\ HopList(e.path) /\ e.cost \in Nat
             /\ \A V, i : <<V, i>> \in D /\ Offered(p, V, i) => e.cost <= OfferCost(d, V, i)
             /\ OffersFrom(d, D, p, e.cost, e.path)
  <2>1. /\ e.type = "SPF" /\ e.run = d.run /\ HopList(e.path) /\ e.cost \in Nat
        /\ \A V, i : <<V, i>> \in D /\ Offered(p, V, i) => e.cost <= OfferCost(c, V, i)
        /\ OffersFrom(c, D, p, e.cost, e.path)
    BY <1>2 DEF EntryIs
  <2>2. \A V, i : <<V, i>> \in D /\ Offered(p, V, i) => e.cost <= OfferCost(d, V, i)
    BY <1>1, <2>1
  <2>3. OffersFrom(d, D, p, e.cost, e.path)
    BY <1>1, <2>1, OffersFromSame
  <2>. QED
    BY <2>1, <2>2, <2>3
<1>. QED
  BY <1>2 DEF EntryIs

\* V's way i to its network or to a stub network.
LEMMA IntraInv ==
    ASSUME Applies, Settled, RteTyped, NEW c, NEW D, CalcInv(c, D), NEW V \in OnTree(c), NEW i, NEW p,
           \A q \in Prefix : Offered(q, V, i) <=> q = p, \A W \in Node : ~Edge(V, i, W), parsed[V]
    PROVE  LET d == new_intra(c, p, V, i)
           IN  /\ CalcInv(d, D \cup {<<V, i>>}) /\ OnTree(d) = OnTree(c)
               /\ \A U \in OnTree(c) : SameNode(c, d, U)
<1>. DEFINE d == new_intra(c, p, V, i)
            D2 == D \cup {<<V, i>>}
<1>1. IsCalc(c) /\ Carried(c) /\ NodeInv(c, D) /\ EntryInv(c, D)
  BY DEF CalcInv, Carried
<1>2. /\ IsCalc(d) /\ d.run = c.run
      /\ \A v \in Node : SameNode(c, d, v)
      /\ \A q \in Prefix \ {p} : d.rte[q] = c.rte[q]
      /\ p \in Prefix =>
           d.rte[p] = Improved(c.rte[p], c.run, OfferCost(c, V, i), OfferHops(c, V, i))
  BY <1>1, IntraIs
<1>3. Carries(c, d)
  BY <1>1, IntraCarries
<1>. HIDE DEF d
<1>4. Carried(d)
  BY <1>1, <1>3, CarriedOn
<1>5. Root \in Node
  BY RoutesAssumption DEF Node
<1>6. /\ NodeInv(d, D2) /\ OnTree(d) = OnTree(c)
      /\ \A U \in OnTree(c) : SameNode(c, d, U)
  BY <1>1, <1>2, <1>5, NodesKept
<1>. HIDE DEF D2
<1>7. ASSUME NEW q \in Prefix PROVE EntryIs(c, D2, q, d.rte[q])
  <2>1. EntryIs(c, D, q, c.rte[q])
    BY <1>1 DEF EntryInv
  <2>2. CASE q # p
    <3>1. ~Offered(q, V, i) /\ d.rte[q] = c.rte[q]
      BY <1>2, <2>2
    <3>2. \A U, j : <<U, j>> \in D2 /\ Offered(q, U, j) <=> <<U, j>> \in D /\ Offered(q, U, j)
      BY <3>1 DEF D2
    <3>3. OfferedBy(q, D2) <=> OfferedBy(q, D)
      BY <3>2 DEF OfferedBy
    <3>. DEFINE e == c.rte[q]
    <3>4. EntryIs(c, D, q, e)
      BY <2>1
    <3>. HIDE DEF e
    <3>5. OfferedBy(q, D2) => OffersFrom(c, D2, q, e.cost, e.path)
      <4>1. OfferedBy(q, D2) => OffersFrom(c, D, q, e.cost, e.path)
        BY <3>3, <3>4 DEF EntryIs
      <4>. QED
        BY <3>2, <4>1, OffersFromSame
    <3>6. EntryIs(c, D2, q, e)
      BY <3>2, <3>3, <3>4, <3>5 DEF EntryIs
    <3>. QED
      BY <3>1, <3>6 DEF e
  <2>3. CASE q = p
    <3>1. Offered(p, V, i) /\ p \in Prefix
      BY <2>3
    <3>2. ~OfferedBy(p, D) => c.rte[p].type # "SPF" \/ c.rte[p].run # c.run
      <4>. SUFFICES ASSUME ~OfferedBy(p, D) PROVE c.rte[p].type # "SPF" \/ c.rte[p].run # c.run
        OBVIOUS
      <4>1. c.rte[p].type = rte[p].type /\ c.rte[p].run = rte[p].run
        BY <2>1, <2>3 DEF EntryIs, Unmarked
      <4>2. c.run = 1 - run /\ run \in {0, 1} /\ (rte[p].type = "SPF" => rte[p].run = run)
        BY <1>1, <3>1 DEF Carried, RteTyped
      <4>. QED
        BY <4>1, <4>2
    <3>3. ASSUME NEW U, NEW j, U \in OnTree(c), Offered(p, U, j) PROVE OfferCost(c, U, j) \in Nat
      <4>1. U \in Node /\ parsed[U] /\ c.cost[U] \in Nat
        BY <1>1, <3>3 DEF OnTree, IsCalc, Fields
      <4>2. j # 0 => body[U][j].cost \in Nat
        BY <3>3, <4>1, LinksNumbered DEF Offered, Settled
      <4>. DEFINE m == body[U][j].cost
      <4>3. j # 0 => m \in Nat
        BY <4>2
      <4>4. OfferCost(c, U, j) = c.cost[U] + (IF j = 0 THEN 0 ELSE m)
        BY DEF OfferCost
      <4>. HIDE DEF m
      <4>. QED
        BY <4>1, <4>3, <4>4
    <3>4. HopList(OfferHops(c, V, i))
      BY <1>1, <3>1, OfferHopsAre
    <3>5. \A U, j : <<U, j>> \in D => U \in OnTree(c)
      BY <1>1 DEF NodeInv
    <3>6. EntryIs(c, D2, p, Improved(c.rte[p], c.run, OfferCost(c, V, i), OfferHops(c, V, i)))
      BY <2>1, <2>3, <3>1, <3>2, <3>3, <3>4, <3>5, EntryImproved DEF D2
    <3>. QED
      BY <1>2, <2>3, <3>1, <3>6
  <2>. QED
    BY <2>2, <2>3
<1>8. EntryInv(d, D2)
  <2>1. \A U, j : <<U, j>> \in D2 => SameNode(c, d, U)
    BY <1>6 DEF NodeInv
  <2>. QED
    BY <1>2, <1>7, <2>1, EntrySame DEF EntryInv
<1>. QED
  BY <1>4, <1>6, <1>8 DEF CalcInv, d, D2

\* A link of V is followed.
LEMMA FollowInv ==
    ASSUME Applies, Settled, RteTyped, NEW c, NEW D, CalcInv(c, D), NEW V, Latest(c, V), parsed[V],
           NEW i \in DOMAIN body[V]
    PROVE  LET d == FollowLink(c, V, i)
           IN  /\ CalcInv(d, D \cup {<<V, i>>}) /\ OnTree(d) = OnTree(c) /\ Latest(d, V)
<1>. DEFINE D2 == D \cup {<<V, i>>}
            l == body[V][i]
<1>1. V \in Node /\ V \in OnTree(c) /\ IsCalc(c) /\ NodeInv(c, D) /\ EntryInv(c, D) /\ GraphInv
  BY DEF Latest, OnTree, CalcInv, Carried, Settled
<1>2. i \in Nat \ {0} /\ l.cost \in Nat
  BY <1>1, LinksNumbered
<1>3. CASE l.type = "STUB"
  <2>. DEFINE p == l.id
              d == new_intra(c, p, V, i)
  <2>1. FollowLink(c, V, i) = d
    BY <1>3 DEF FollowLink
  <2>2. \A q \in Prefix : Offered(q, V, i) <=> q = p
    BY <1>2, <1>3 DEF Offered
  <2>3. \A W \in Node : ~Edge(V, i, W)
    BY <1>1, <1>3, EdgeIs
  <2>. HIDE DEF p
  <2>4. /\ CalcInv(d, D2) /\ OnTree(d) = OnTree(c)
        /\ \A U \in OnTree(c) : SameNode(c, d, U)
    BY <1>1, <2>2, <2>3, IntraInv
  <2>. QED
    BY <2>1, <2>4, LatestKept
<1>4. \A p : l.type # "STUB" => ~Offered(p, V, i)
  BY <1>2 DEF Offered
<1>5. CASE l.type # "STUB" /\ nbr[V][i] = None
  <2>1. FollowLink(c, V, i) = c
    BY <1>5 DEF FollowLink
  <2>2. \A W \in Node : ~Edge(V, i, W)
    BY <1>1, <1>5, EdgeIs, GraphAssumption
  <2>3. Root \in Node /\ \A v \in Node : SameNode(c, c, v)
    BY RoutesAssumption DEF SameNode, Node
  <2>4. NodeInv(c, D2)
    BY <1>1, <2>2, <2>3, NodesKept
  <2>5. EntryInv(c, D2)
    <3>1. \A U, j : <<U, j>> \in D => U \in OnTree(c)
      BY <1>1 DEF NodeInv
    <3>2. \A U \in OnTree(c) : SameNode(c, c, U)
      BY DEF SameNode
    <3>3. ASSUME NEW U, NEW j, <<U, j>> \in D2, <<U, j>> \notin D, NEW p PROVE ~Offered(p, U, j)
      BY <1>4, <1>5, <3>3
    <3>4. D \subseteq D2
      OBVIOUS
    <3>. HIDE DEF D2
    <3>. QED
      BY <1>1, <3>1, <3>2, <3>3, <3>4, EntryKept
  <2>. QED
    BY <2>1, <2>4, <2>5 DEF CalcInv
<1>6. CASE l.type # "STUB" /\ nbr[V][i] # None
  <2>. DEFINE W == nbr[V][i]
              d == Relax(c, V, i, W)
  <2>1. W \in Node /\ Edge(V, i, W)
    BY <1>1, <1>6, PointerIsEdge
  <2>2. FollowLink(c, V, i) = d
    BY <1>6 DEF FollowLink
  <2>3. Carries(c, FollowLink(c, V, i))
    BY <1>1, FollowCarries
  <2>4. Carried(d)
    BY <2>2, <2>3, CarriedOn DEF CalcInv
  <2>5. W \in Node \ {V} /\ parsed[W]
    BY <1>1, <1>6, LinkLeads
  <2>. HIDE DEF W
  <2>6. Relaxed(c, d, V, i, W)
    BY <1>1, <1>2, <2>5, RelaxIs
  <2>. HIDE DEF d
  <2>7. NodeInv(d, D2) /\ OnTree(d) = OnTree(c) /\ \A U \in OnTree(c) : SameNode(c, d, U)
    BY <1>1, <2>1, <2>6, RelaxInv
  <2>8. EntryInv(d, D2)
    <3>1. \A U, j : <<U, j>> \in D => U \in OnTree(c)
      BY <1>1 DEF NodeInv
    <3>2. d.rte = c.rte /\ d.run = c.run
      BY <2>6 DEF Relaxed
    <3>3. ASSUME NEW U, NEW j, <<U, j>> \in D2, <<U, j>> \notin D, NEW p PROVE ~Offered(p, U, j)
      BY <1>4, <1>6, <3>3
    <3>4. D \subseteq D2
      OBVIOUS
    <3>. HIDE DEF D2
    <3>. QED
      BY <1>1, <2>7, <3>1, <3>2, <3>3, <3>4, EntryKept
  <2>. QED
    BY <2>2, <2>4, <2>7, <2>8, LatestKept DEF CalcInv
<1>. QED
  BY <1>3, <1>5, <1>6

-----------------------------------------------------------------------------
(* A run to its end. *)

\* All the ways that the nodes of T are and have.
LinksOf(T) == UNION {{<<u, i>> : i \in {0} \cup DOMAIN body[u]} : u \in T}

LEMMA LinksOfIs ==
    ASSUME NEW T, NEW u, NEW i
    PROVE  <<u, i>> \in LinksOf(T) <=> u \in T /\ i \in {0} \cup DOMAIN body[u]
<1>. DEFINE Of(w) == {<<w, j>> : j \in {0} \cup DOMAIN body[w]}
<1>1. ASSUME <<u, i>> \in LinksOf(T) PROVE u \in T /\ i \in {0} \cup DOMAIN body[u]
  <2>1. PICK w \in T : <<u, i>> \in Of(w)
    BY <1>1 DEF LinksOf
  <2>2. PICK j \in {0} \cup DOMAIN body[w] : <<u, i>> = <<w, j>>
    BY <2>1
  <2>3. u = w /\ i = j
    BY <2>2
  <2>. QED
    BY <2>2, <2>3
<1>2. ASSUME u \in T, i \in {0} \cup DOMAIN body[u] PROVE <<u, i>> \in LinksOf(T)
  <2>1. <<u, i>> \in Of(u)
    BY <1>2
  <2>. HIDE DEF Of
  <2>2. LinksOf(T) = UNION {Of(w) : w \in T}
    BY DEF LinksOf, Of
  <2>. QED
    BY <1>2, <2>1, <2>2
<1>. QED
  BY <1>1, <1>2

LEMMA LinksOfMore ==
    ASSUME NEW T, NEW V
    PROVE  LinksOf(T \cup {V}) = LinksOf(T) \cup {<<V, 0>>} \cup {<<V, i>> : i \in DOMAIN body[V]}
<1>. DEFINE Of(w) == {<<w, j>> : j \in {0} \cup DOMAIN body[w]}
<1>1. \A X : LinksOf(X) = UNION {Of(w) : w \in X}
  BY DEF LinksOf
<1>2. Of(V) = {<<V, 0>>} \cup {<<V, i>> : i \in DOMAIN body[V]}
  OBVIOUS
<1>. HIDE DEF Of
<1>3. LinksOf(T \cup {V}) = LinksOf(T) \cup Of(V)
  BY <1>1
<1>. QED
  BY <1>2, <1>3

LEMMA FollowAllInv ==
    ASSUME Applies, Settled, RteTyped, NEW c, NEW D, CalcInv(c, D), NEW V, Latest(c, V), parsed[V]
    PROVE  LET d == FollowLinks(c, V)
           IN  /\ CalcInv(d, D \cup {<<V, i>> : i \in DOMAIN body[V]}) /\ OnTree(d) = OnTree(c)
<1>. DEFINE n == Len(body[V])
            E(m) == D \cup {<<V, i>> : i \in 1..m}
<1>1. V \in Node /\ GraphInv
  BY DEF Latest, OnTree, Settled
<1>2. n \in Nat /\ DOMAIN body[V] = 1..n
  BY <1>1, LinksNumbered
<1>3. PICK h : LinksFollowed(c, V, n, h)
  BY <1>2, FollowLinksIs
<1>. HIDE DEF n
<1>. DEFINE S == {m \in 0..n : CalcInv(h[m], E(m)) /\ OnTree(h[m]) = OnTree(c) /\ Latest(h[m], V)}
<1>4. 0 \in S
  <2>1. E(0) = D /\ h[0] = c
    BY <1>3 DEF LinksFollowed
  <2>. HIDE DEF E
  <2>. QED
    BY <1>2, <2>1
<1>5. ASSUME NEW m \in 1..n, m - 1 \in S PROVE m \in S
  <2>. DEFINE g == h[m - 1]
              F == E(m - 1)
  <2>1. CalcInv(g, F) /\ OnTree(g) = OnTree(c) /\ Latest(g, V) /\ m \in DOMAIN body[V]
    BY <1>2, <1>5
  <2>2. h[m] = FollowLink(g, V, m)
    BY <1>3 DEF LinksFollowed
  <2>3. E(m) = F \cup {<<V, m>>}
    BY <1>2
  <2>. HIDE DEF g, F, E
  <2>. DEFINE d == FollowLink(g, V, m)
  <2>4. CalcInv(d, F \cup {<<V, m>>}) /\ OnTree(d) = OnTree(g) /\ Latest(d, V)
    BY <2>1, FollowInv
  <2>. HIDE DEF d
  <2>5. CalcInv(h[m], E(m)) /\ OnTree(h[m]) = OnTree(c) /\ Latest(h[m], V) /\ m \in 0..n
    BY <1>2, <2>1, <2>2, <2>3, <2>4 DEF d
  <2>. QED
    BY <2>5 DEF E
<1>6. n \in S
  <2>. HIDE DEF S
  <2>1. 0..n \subseteq S
    BY <1>2, <1>4, <1>5, UpTo
  <2>. QED
    BY <1>2, <2>1
<1>7. CalcInv(h[n], E(n)) /\ OnTree(h[n]) = OnTree(c)
  BY <1>6
<1>. QED
  BY <1>2, <1>3, <1>7 DEF LinksFollowed

\* The nearest candidate is taken.
LEMMA TakenInv ==
    ASSUME RteTyped, Root \in Node, NEW c, NEW D, CalcInv(c, D), gethead(c.cand) # NULL
    PROVE  LET V == gethead(c.cand)
               d == Taken(c)
           IN  /\ CalcInv(d, D) /\ Latest(d, V) /\ V \in Waiting(c) /\ V \notin OnTree(c)
               /\ OnTree(d) = OnTree(c) \cup {V}
<1>. DEFINE V == gethead(c.cand)
            d == Taken(c)
<1>1. Carried(c) /\ NodeInv(c, D) /\ EntryInv(c, D) /\ IsCalc(c)
  BY DEF CalcInv, Carried
<1>2. IsTaken(c, d, V)
  BY <1>1, TakenIs
<1>. HIDE DEF V, d
<1>3. /\ V \in Waiting(c) /\ IsCalc(d) /\ d.rte = c.rte /\ d.run = c.run
      /\ d.state = [c.state EXCEPT ![V] = "ONTREE"]
      /\ d.cost = c.cost /\ d.epath = c.epath /\ d.direct = c.direct
      /\ \A w \in Waiting(c) : ~cmp_cost(CostOf(w, c.cost[w]), CostOf(V, c.cost[V]))
  BY <1>2 DEF IsTaken
<1>4. V \in Node /\ V \notin OnTree(c) /\ V \in Reached(c)
  BY <1>3 DEF Waiting, OnTree, Reached
<1>5. /\ OnTree(d) = OnTree(c) \cup {V} /\ Reached(d) = Reached(c)
      /\ Waiting(d) = Waiting(c) \ {V}
  <2>1. d.state[V] = "ONTREE" /\ \A v \in Node \ {V} : d.state[v] = c.state[v]
    BY <1>1, <1>3, <1>4 DEF IsCalc, Fields
  <2>. QED
    BY <1>4, <2>1 DEF OnTree, Reached, Waiting
<1>6. \A U \in OnTree(c) : SameNode(c, d, U)
  <2>1. \A v \in Node \ {V} : d.state[v] = c.state[v]
    BY <1>1, <1>3, <1>4 DEF IsCalc, Fields
  <2>. QED
    BY <1>3, <1>4, <2>1 DEF SameNode, OnTree
<1>7. \A v : Rank(d, v) = Rank(c, v)
  BY <1>3 DEF Rank
<1>8. ASSUME NEW w \in Waiting(c) PROVE Rank(c, V) <= Rank(c, w)
  <2>1. ~cmp_cost(CostOf(w, c.cost[w]), CostOf(V, c.cost[V]))
    BY <1>3
  <2>2. c.cost[w] \in Nat /\ c.cost[V] \in Nat
    BY <1>1, <1>3 DEF Waiting, IsCalc, Fields
  <2>3. ~(c.cost[w] < c.cost[V])
    BY <2>1 DEF cmp_cost, CostOf
  <2>4. c.cost[w] = c.cost[V] => ~(w \in Network /\ V \notin Network)
    BY <2>1 DEF cmp_cost, CostOf
  <2>. QED
    BY <2>2, <2>3, <2>4 DEF Rank
<1>9. Latest(d, V)
  <2>1. \A U \in OnTree(c) : Rank(c, U) <= Rank(c, V)
    BY <1>1, <1>3 DEF NodeInv
  <2>2. Rank(c, V) \in Nat
    BY <1>1, <1>4, RankIs
  <2>. QED
    BY <1>5, <1>7, <2>1, <2>2 DEF Latest
<1>10. Carried(d)
  <2>1. Carries(c, d)
    BY <1>3 DEF Carries
  <2>. QED
    BY <1>1, <2>1, CarriedOn
<1>11. \A U, j : <<U, j>> \in D => U \in OnTree(c)
  BY <1>1 DEF NodeInv
<1>12. EntryInv(d, D)
  <2>1. D \subseteq D
    OBVIOUS
  <2>. QED
    BY <1>1, <1>3, <1>6, <1>11, <2>1, EntryKept
<1>13. ASSUME NEW W \in Reached(d) \ {Root}
       PROVE  /\ HopList(d.epath[W]) /\ HopsFrom(d, D, W, d.epath[W])
              /\ \A h \in ToSet(d.epath[W]) : Witness(d, W, h)
  <2>1. W \in Reached(c) \ {Root}
    BY <1>5
  <2>2. /\ HopList(c.epath[W]) /\ HopsFrom(c, D, W, c.epath[W])
        /\ \A h \in ToSet(c.epath[W]) : Witness(c, W, h)
    BY <1>1, <2>1 DEF NodeInv
  <2>3. \A U, j : Carry(d, U, j, W) = Carry(c, U, j, W) /\ (Tight(d, U, j, W) <=> Tight(c, U, j, W))
    BY <1>3 DEF Tight, LinkCost, Carry
  <2>4. \A h \in ToSet(d.epath[W]) : Witness(d, W, h)
    BY <1>3, <1>5, <2>2, WitnessKept
  <2>5. HopsFrom(d, D, W, c.epath[W])
    BY <1>3, <2>2, <2>3, HopsFromSame
  <2>. QED
    BY <1>3, <2>2, <2>4, <2>5
<1>14. ASSUME NEW U, NEW j, NEW W \in Node, <<U, j>> \in D, Edge(U, j, W)
       PROVE  W \in Reached(d) /\ d.cost[W] <= LinkCost(d, U, j)
  <2>1. W \in Reached(c) /\ c.cost[W] <= LinkCost(c, U, j)
    BY <1>1, <1>14 DEF NodeInv
  <2>. QED
    BY <1>3, <1>5, <2>1 DEF LinkCost
<1>15. ASSUME NEW U \in OnTree(d), NEW w \in Waiting(d) PROVE Rank(d, U) <= Rank(d, w)
  <2>1. w \in Waiting(c) /\ U \in OnTree(c) \cup {V}
    BY <1>5
  <2>. QED
    BY <1>1, <1>7, <1>8, <2>1 DEF NodeInv
<1>16. Reached(c) \subseteq {Root} \/ Root \in OnTree(c)
  BY <1>1 DEF NodeInv
<1>17. Root \in OnTree(d)
  <2>1. Reached(c) \subseteq {Root} => V = Root
    BY <1>4
  <2>. QED
    BY <1>5, <1>16, <2>1
<1>18. d.cost[Root] = 0 /\ (parsed[Root] => Root \in Reached(d))
  BY <1>1, <1>3, <1>5 DEF NodeInv
<1>19. NodeInv(d, D)
  BY <1>5, <1>11, <1>13, <1>14, <1>15, <1>17, <1>18 DEF NodeInv
<1>. QED
  BY <1>3, <1>4, <1>5, <1>9, <1>10, <1>12, <1>19 DEF CalcInv, V, d

\* A node's own network, if it is one.
LEMMA EnteredInv ==
    ASSUME Applies, Settled, RteTyped, NEW c, NEW D, CalcInv(c, D), gethead(c.cand) # NULL
    PROVE  LET V == gethead(c.cand)
               d == Entered(c)
           IN  /\ CalcInv(d, D \cup {<<V, 0>>}) /\ Latest(d, V) /\ V \in Waiting(c) /\ V \notin OnTree(c)
               /\ OnTree(d) = OnTree(c) \cup {V} /\ parsed[V]
<1>. DEFINE V == gethead(c.cand)
            t == Taken(c)
            p == Net(LsId[V])
            D2 == D \cup {<<V, 0>>}
            d == IF V \in Network THEN new_intra(t, p, V, 0) ELSE t
<1>1. Entered(c) = d
  BY DEF Entered
<1>2. Root \in Node
  BY RoutesAssumption DEF Node
<1>3. /\ CalcInv(t, D) /\ Latest(t, V) /\ V \in Waiting(c) /\ V \notin OnTree(c)
      /\ OnTree(t) = OnTree(c) \cup {V}
  BY <1>2, TakenInv
<1>. HIDE DEF t, V
<1>4. V \in Node /\ parsed[V] /\ V \in OnTree(t)
  BY <1>3 DEF Waiting, CalcInv, Carried, IsCalc
<1>5. \A W \in Node : ~Edge(V, 0, W)
  BY <1>4, EdgeIs
<1>6. CASE V \in Network
  <2>1. \A q \in Prefix : Offered(q, V, 0) <=> q = p
    BY <1>6 DEF Offered
  <2>. HIDE DEF p
  <2>. DEFINE z == new_intra(t, p, V, 0)
  <2>2. /\ CalcInv(z, D2) /\ OnTree(z) = OnTree(t) /\ \A U \in OnTree(t) : SameNode(t, z, U)
    BY <1>3, <1>4, <1>5, <2>1, IntraInv
  <2>3. Latest(z, V)
    BY <1>3, <2>2, LatestKept
  <2>4. d = z
    BY <1>6
  <2>. QED
    BY <1>1, <1>3, <1>4, <2>2, <2>3, <2>4 DEF V
<1>7. CASE V \notin Network
  <2>1. \A q : ~Offered(q, V, 0)
    BY <1>7 DEF Offered
  <2>2. \A v \in Node : SameNode(t, t, v)
    BY DEF SameNode
  <2>3. NodeInv(t, D2)
    BY <1>2, <1>3, <1>4, <1>5, <2>2, NodesKept DEF CalcInv
  <2>4. EntryInv(t, D2)
    <3>1. \A U, j : <<U, j>> \in D => U \in OnTree(t)
      BY <1>3 DEF CalcInv, NodeInv
    <3>2. \A U \in OnTree(t) : SameNode(t, t, U)
      BY DEF SameNode
    <3>3. ASSUME NEW U, NEW j, <<U, j>> \in D2, <<U, j>> \notin D, NEW q PROVE ~Offered(q, U, j)
      BY <2>1, <3>3
    <3>4. D \subseteq D2
      OBVIOUS
    <3>. HIDE DEF D2
    <3>. QED
      BY <1>3, <3>1, <3>2, <3>3, <3>4, EntryKept DEF CalcInv
  <2>5. d = t
    BY <1>7
  <2>. QED
    BY <1>1, <1>3, <1>4, <2>3, <2>4, <2>5 DEF CalcInv, V
<1>. QED
  BY <1>6, <1>7

\* A visit: one candidate more is on the tree, and all it has is followed.
LEMMA VisitedInv ==
    ASSUME Applies, Settled, RteTyped, NEW c, CalcInv(c, LinksOf(OnTree(c)))
    PROVE  LET d == Visited(c)
           IN  /\ CalcInv(d, LinksOf(OnTree(d)))
               /\ Waiting(c) = {} => d = c
               /\ Waiting(c) # {} =>
                    \E V \in Node : V \notin OnTree(c) /\ OnTree(d) = OnTree(c) \cup {V}
<1>. DEFINE V == gethead(c.cand)
<1>1. V = NULL <=> Waiting(c) = {}
  <2>1. IsQueue(c.cand, Waiting(c))
    BY DEF CalcInv, Carried, IsCalc, Queued
  <2>. QED
    BY <2>1, RootOf DEF gethead
<1>2. CASE V = NULL
  BY <1>1, <1>2, VisitedIs
<1>3. CASE V # NULL
  <2>. DEFINE e == Entered(c)
              d == FollowLinks(e, V)
              T == OnTree(c)
              D == LinksOf(T) \cup {<<V, 0>>}
  <2>1. Visited(c) = d
    BY <1>3, VisitedIs
  <2>2. /\ CalcInv(e, D) /\ Latest(e, V) /\ V \in Waiting(c) /\ V \notin T
        /\ OnTree(e) = T \cup {V} /\ parsed[V]
    <3>. DEFINE D1 == LinksOf(T)
    <3>1. CalcInv(c, D1)
      OBVIOUS
    <3>. HIDE DEF D1
    <3>2. /\ CalcInv(e, D1 \cup {<<V, 0>>}) /\ Latest(e, V) /\ V \in Waiting(c) /\ V \notin OnTree(c)
          /\ OnTree(e) = OnTree(c) \cup {V} /\ parsed[V]
      BY <1>3, <3>1, EnteredInv
    <3>. QED
      BY <3>2 DEF D1
  <2>. HIDE DEF V, e, D, T
  <2>3. CalcInv(d, D \cup {<<V, i>> : i \in DOMAIN body[V]}) /\ OnTree(d) = OnTree(e)
    BY <2>2, FollowAllInv
  <2>4. D \cup {<<V, i>> : i \in DOMAIN body[V]} = LinksOf(T \cup {V})
    BY LinksOfMore DEF D
  <2>5. CalcInv(d, LinksOf(OnTree(d)))
    BY <2>2, <2>3, <2>4
  <2>6. V \in Node /\ Waiting(c) # {}
    BY <2>2 DEF Waiting
  <2>. HIDE DEF d
  <2>7. V \notin OnTree(c) /\ OnTree(d) = OnTree(c) \cup {V}
    BY <2>2, <2>3 DEF T
  <2>. QED
    BY <2>1, <2>5, <2>6, <2>7
<1>. QED
  BY <1>2, <1>3

\* Where it starts.
LEMMA StartInv ==
    ASSUME Settled, RteTyped
    PROVE  CalcInv(dijk_init, LinksOf({})) /\ OnTree(dijk_init) = {}
<1>. DEFINE d == dijk_init
            D == LinksOf({})
<1>1. Root \in Node /\ parsed \in [Node -> BOOLEAN] /\ rte = [p \in Prefix |-> rte[p]]
  BY RoutesAssumption DEF Node, Settled, GraphInv, GraphTypeOK, RteTyped
<1>2. /\ IsCalc(d) /\ d.run = 1 - run
      /\ d.rte = [p \in Prefix |-> Unmarked(rte[p])]
      /\ \A v \in Node : d.state[v] = IF v = Root /\ parsed[v] THEN "ONCAND" ELSE "UNINIT"
      /\ \A v \in Node : d.cost[v] = 0 /\ d.epath[v] = <<>>
  BY <1>1, StartsAt
<1>3. D = {}
  BY DEF LinksOf
<1>. HIDE DEF d, D
<1>4. OnTree(d) = {} /\ Reached(d) \subseteq {Root} /\ (parsed[Root] => Root \in Reached(d))
  BY <1>1, <1>2 DEF OnTree, Reached
<1>5. NodeInv(d, D)
  BY <1>1, <1>2, <1>3, <1>4 DEF NodeInv
<1>6. EntryInv(d, D)
  BY <1>2, <1>3 DEF EntryInv, EntryIs, OfferedBy
<1>7. Carried(d)
  BY <1>2 DEF Carried, Kept, KeptEntry
<1>. QED
  BY <1>4, <1>5, <1>6, <1>7 DEF CalcInv, d, D

\* At the end all that was reached is on the tree.
LEMMA RunEnds ==
    ASSUME Applies, Settled, RteTyped
    PROVE  LET c == dijkstra(dijk_init)
           IN  CalcInv(c, LinksOf(OnTree(c))) /\ Waiting(c) = {}
<1>. DEFINE n == Cardinality(Node)
            c == dijk_init
<1>1. CalcInv(c, LinksOf({})) /\ OnTree(c) = {}
  BY StartInv
<1>. HIDE DEF c
<1>2. n \in Nat /\ \E h : NodesVisited(c, n, h)
  BY DijkstraIs
<1>3. PICK h : NodesVisited(c, n, h)
  BY <1>2
<1>. DEFINE Good(m) == /\ CalcInv(h[m], LinksOf(OnTree(h[m])))
                       /\ Waiting(h[m]) = {} \/ Cardinality(OnTree(h[m])) = m
            S == {m \in 0..n : Good(m)}
<1>4. 0 \in S
  <2>1. Cardinality({}) = 0
    BY FS_EmptySet
  <2>2. h[0] = c
    BY <1>3 DEF NodesVisited
  <2>. HIDE DEF n
  <2>. QED
    BY <1>1, <1>2, <2>1, <2>2
<1>5. ASSUME NEW m \in 1..n, m - 1 \in S PROVE m \in S
  <2>. DEFINE g == h[m - 1]
              d == Visited(g)
  <2>. HIDE DEF n
  <2>1. CalcInv(g, LinksOf(OnTree(g))) /\ (Waiting(g) = {} \/ Cardinality(OnTree(g)) = m - 1)
    BY <1>5
  <2>2. h[m] = d
    BY <1>3 DEF NodesVisited
  <2>. HIDE DEF g
  <2>3. /\ CalcInv(d, LinksOf(OnTree(d)))
        /\ Waiting(g) = {} => d = g
        /\ Waiting(g) # {} =>
             \E V \in Node : V \notin OnTree(g) /\ OnTree(d) = OnTree(g) \cup {V}
    BY <2>1, VisitedInv
  <2>. HIDE DEF d
  <2>4. CASE Waiting(g) = {}
    BY <1>2, <2>2, <2>3, <2>4
  <2>5. CASE Waiting(g) # {}
    <3>1. PICK V \in Node : V \notin OnTree(g) /\ OnTree(d) = OnTree(g) \cup {V}
      BY <2>3, <2>5
    <3>2. IsFiniteSet(OnTree(g))
      <4>1. OnTree(g) \subseteq Node
        BY DEF OnTree
      <4>. QED
        BY <4>1, RoutesAssumption, FS_Subset
    <3>3. Cardinality(OnTree(d)) = Cardinality(OnTree(g)) + 1
      BY <3>1, <3>2, FS_AddElement
    <3>4. Cardinality(OnTree(d)) = m
      BY <1>2, <2>1, <2>5, <3>3
    <3>. QED
      BY <1>2, <2>2, <2>3, <3>4
  <2>. QED
    BY <2>4, <2>5
<1>6. n \in S
  <2>. HIDE DEF S, n
  <2>1. 0..n \subseteq S
    BY <1>2, <1>4, <1>5, UpTo
  <2>. QED
    BY <1>2, <2>1
<1>. DEFINE z == h[n]
<1>7. CalcInv(z, LinksOf(OnTree(z))) /\ (Waiting(z) = {} \/ Cardinality(OnTree(z)) = n)
  BY <1>6
<1>8. dijkstra(c) = z
  BY <1>3 DEF NodesVisited
<1>. HIDE DEF z
<1>9. Cardinality(OnTree(z)) = n => Waiting(z) = {}
  <2>. SUFFICES ASSUME Cardinality(OnTree(z)) = n PROVE Waiting(z) = {}
    OBVIOUS
  <2>1. OnTree(z) \subseteq Node
    BY DEF OnTree
  <2>2. OnTree(z) = Node
    BY <2>1, RoutesAssumption, FS_Subset
  <2>. QED
    BY <2>2 DEF OnTree, Waiting
<1>. QED
  BY <1>7, <1>8, <1>9 DEF c

-----------------------------------------------------------------------------
(* The paths of the reference. *)

\* h[n] are the paths of at most n + 1 nodes.
PathsBy(h) ==
    /\ h[0] = {Source}
    /\ \A n \in 1..(Cardinality(Node) - 1) : h[n] = Longer(h[n - 1])
    /\ Paths = IF parsed[Root] THEN h[Cardinality(Node) - 1] ELSE {}

SomePaths == \E h : PathsBy(h)

LEMMA PathsAre == SomePaths
<1>. DEFINE n == Cardinality(Node) - 1
            base == {Source}
            Loop(f) == f = [i \in 0..n |-> IF i = 0 THEN base ELSE Longer(f[i - 1])]
            IsRun(f, m) == /\ f = [i \in 0..m |-> f[i]]
                           /\ f[0] = base
                           /\ \A i \in 1..m : f[i] = Longer(f[i - 1])
            S == {m \in 0..n : \E f : IsRun(f, m)}
            h == CHOOSE f : Loop(f)
<1>1. Paths = IF parsed[Root] THEN h[n] ELSE {}
  BY DEF Paths
<1>2. n \in Nat
  <2>1. Root \in Node /\ IsFiniteSet(Node)
    BY RoutesAssumption DEF Node
  <2>2. Cardinality(Node) \in Nat /\ Cardinality(Node) # 0
    BY <2>1, FS_CardinalityType, FS_EmptySet
  <2>. QED
    BY <2>2
<1>. HIDE DEF n, base
<1>3. 0 \in S
  <2>1. IsRun([i \in 0..0 |-> base], 0)
    OBVIOUS
  <2>. HIDE DEF IsRun
  <2>. QED
    BY <1>2, <2>1
<1>4. ASSUME NEW m \in 1..n, m - 1 \in S PROVE m \in S
  <2>1. PICK f : IsRun(f, m - 1)
    BY <1>4
  <2>. DEFINE g == [i \in 0..m |-> IF i = m THEN Longer(f[m - 1]) ELSE f[i]]
  <2>2. g = [i \in 0..m |-> g[i]] /\ g[0] = base
    BY <1>2, <2>1
  <2>3. ASSUME NEW i \in 1..m PROVE g[i] = Longer(g[i - 1])
    <3>1. g[i - 1] = f[i - 1]
      BY <1>2, <2>3
    <3>2. CASE i = m
      BY <1>2, <3>1, <3>2
    <3>3. CASE i # m
      <4>1. i \in 1..(m - 1) /\ g[i] = f[i]
        BY <1>2, <3>3
      <4>2. f[i] = Longer(f[i - 1])
        BY <2>1, <4>1
      <4>. QED
        BY <3>1, <4>1, <4>2
    <3>. QED
      BY <3>2, <3>3
  <2>4. IsRun(g, m)
    <3>. HIDE DEF g
    <3>. QED
      BY <2>2, <2>3
  <2>. HIDE DEF IsRun, g
  <2>5. m \in 0..n /\ \E k : IsRun(k, m)
    BY <1>2, <2>4
  <2>. QED
    BY <2>5
<1>5. n \in S
  <2>. HIDE DEF S
  <2>1. 0..n \subseteq S
    BY <1>2, <1>3, <1>4, UpTo
  <2>. QED
    BY <1>2, <2>1
<1>6. PICK f : IsRun(f, n)
  BY <1>5
<1>7. Loop(f)
  <2>1. \A i \in 0..n : f[i] = IF i = 0 THEN base ELSE Longer(f[i - 1])
    <3>1. f[0] = base /\ \A i \in 1..n : f[i] = Longer(f[i - 1])
      BY <1>6
    <3>2. ASSUME NEW i \in 0..n PROVE i = 0 \/ i \in 1..n
      BY <1>2
    <3>. QED
      BY <3>1, <3>2
  <2>2. [i \in 0..n |-> f[i]] = [i \in 0..n |-> IF i = 0 THEN base ELSE Longer(f[i - 1])]
    BY <2>1
  <2>. QED
    BY <1>6, <2>2
<1>8. Loop(h)
  <2>. HIDE DEF Loop
  <2>. QED
    BY <1>7
<1>9. h[0] = base /\ \A i \in 1..n : h[i] = Longer(h[i - 1])
  <2>. HIDE DEF h
  <2>. QED
    BY <1>2, <1>8
<1>10. PathsBy(h)
  BY <1>1, <1>9 DEF PathsBy, n, base
<1>. QED
  BY <1>10 DEF SomePaths

LEMMA PathsAreNext == SomePaths'
BY PathsAre, PTL

\* A path has no node twice, and begins with the root and one of its networks.
Proper(p) ==
    /\ p = [nodes |-> p.nodes, cost |-> p.cost, link |-> p.link]
    /\ p.nodes \in Seq(Node) /\ p.cost \in Nat /\ p.link \in Nat
    /\ Len(p.nodes) >= 1 /\ p.nodes[1] = Root
    /\ \A a, b \in DOMAIN p.nodes : p.nodes[a] = p.nodes[b] => a = b
    /\ Len(p.nodes) = 1 => p = Source
    /\ Len(p.nodes) >= 2 => p.link # 0 /\ p.nodes[2] \in Network
    /\ Len(p.nodes) >= 3 => AddressTo(p.nodes[3], p.nodes[2]) # 0

\* Path p and link i to w.
Extended(p, i, w) ==
    [nodes |-> Append(p.nodes, w), cost |-> p.cost + body[Last(p.nodes)][i].cost,
     link |-> IF p.link = 0 THEN i ELSE p.link]

LEMMA StepsAre ==
    ASSUME NEW p, NEW w
    PROVE  \A q : q \in Step(p, w) <=> \E i : Edge(Last(p.nodes), i, w) /\ q = Extended(p, i, w)
<1>. DEFINE v == Last(p.nodes)
            x(i) == Extended(p, i, w)
            L == IF Adjacent(body, parsed, v, w) THEN LinksTo(body[v], w) ELSE {}
<1>1. Step(p, w) = {x(i) : i \in L}
  BY DEF Step, Extended
<1>2. \A i : i \in L <=> Edge(v, i, w)
  BY DEF Edge
<1>. HIDE DEF x, L
<1>3. \A q : q \in {x(i) : i \in L} <=> \E i : Edge(v, i, w) /\ q = x(i)
  BY <1>2
<1>. QED
  BY <1>1, <1>3 DEF x

LEMMA SourceIsProper == Root \in Node => Proper(Source) /\ Last(Source.nodes) = Root /\ ToSet(Source.nodes) = {Root}
<1>. SUFFICES ASSUME Root \in Node PROVE Proper(Source) /\ Last(Source.nodes) = Root /\ ToSet(Source.nodes) = {Root}
  OBVIOUS
<1>. DEFINE s == <<Root>>
<1>1. s \in Seq(Node) /\ Len(s) = 1 /\ s[1] = Root /\ DOMAIN s = {1}
  OBVIOUS
<1>2. /\ Source.nodes = s /\ Source.cost = 0 /\ Source.link = 0
      /\ Source = [nodes |-> s, cost |-> 0, link |-> 0]
  BY DEF Source
<1>. HIDE DEF s
<1>3. Last(s) = Root /\ ToSet(s) = {Root}
  BY <1>1 DEF Last, ToSet
<1>4. Source = [nodes |-> Source.nodes, cost |-> Source.cost, link |-> Source.link]
  BY <1>2
<1>5. \A a, b \in DOMAIN s : s[a] = s[b] => a = b
  BY <1>1
<1>. DEFINE z == Source
<1>. HIDE DEF z
<1>6. /\ z = [nodes |-> z.nodes, cost |-> z.cost, link |-> z.link]
      /\ z.nodes = s /\ z.cost = 0 /\ z.link = 0
  BY <1>2, <1>4 DEF z
<1>7. Proper(z)
  <2>1. z.nodes \in Seq(Node) /\ Len(z.nodes) = 1 /\ z.nodes[1] = Root
    BY <1>1, <1>6
  <2>2. Len(z.nodes) = 1 => z = Source
    BY DEF z
  <2>3. \A a, b \in DOMAIN z.nodes : z.nodes[a] = z.nodes[b] => a = b
    BY <1>5, <1>6
  <2>. QED
    BY <1>6, <2>1, <2>2, <2>3 DEF Proper
<1>. QED
  BY <1>2, <1>3, <1>7 DEF z

\* What a node more makes of a path.
LEMMA ExtendedIs ==
    ASSUME Settled, NEW p, Proper(p), NEW w \in Node, w \notin ToSet(p.nodes),
           NEW i, Edge(Last(p.nodes), i, w)
    PROVE  LET q == Extended(p, i, w)
               v == Last(p.nodes)
           IN  /\ Proper(q) /\ Last(q.nodes) = w /\ q # Source /\ v \in Node
               /\ Len(q.nodes) = Len(p.nodes) + 1 /\ ToSet(q.nodes) = ToSet(p.nodes) \cup {w}
               /\ q.cost = p.cost + body[v][i].cost /\ w # Root
               /\ (v = Root) <=> (p = Source)
               /\ FirstHop(q, 0) = IF p = Source THEN Hop(ifmap[i], 0)
                                   ELSE CarryHop(FirstHop(p, 0), v, w)
<1>. DEFINE s == p.nodes
            n == Len(s)
            v == Last(s)
            t == Append(s, w)
            k == IF p.link = 0 THEN i ELSE p.link
            total == p.cost + body[v][i].cost
            q == Extended(p, i, w)
<1>1. /\ p = [nodes |-> s, cost |-> p.cost, link |-> p.link]
      /\ s \in Seq(Node) /\ p.cost \in Nat /\ p.link \in Nat /\ n >= 1 /\ n \in Nat
      /\ s[1] = Root /\ DOMAIN s = 1..n
      /\ \A a, b \in DOMAIN s : s[a] = s[b] => a = b
      /\ n = 1 => p = Source
      /\ n >= 2 => p.link # 0 /\ s[2] \in Network
      /\ n >= 3 => AddressTo(s[3], s[2]) # 0
  BY DEF Proper
<1>2. v = s[n] /\ v \in Node
  BY <1>1 DEF Last
<1>3. \A a \in 1..n : s[a] # w /\ s[a] \in ToSet(s)
  BY <1>1 DEF ToSet
<1>4. q = [nodes |-> t, cost |-> total, link |-> k]
  BY DEF Extended
<1>5. q.nodes = t /\ q.cost = total /\ q.link = k /\ q = [nodes |-> q.nodes, cost |-> q.cost, link |-> q.link]
  BY <1>4
<1>. HIDE DEF q, s
<1>6. /\ t \in Seq(Node) /\ Len(t) = n + 1 /\ DOMAIN t = 1..(n + 1)
      /\ (\A a \in 1..n : t[a] = s[a]) /\ t[n + 1] = w
  BY <1>1
<1>. HIDE DEF t, n
<1>7. Last(t) = w /\ ToSet(t) = ToSet(s) \cup {w}
  <2>1. Last(t) = w
    BY <1>6 DEF Last
  <2>2. 1..(n + 1) = (1..n) \cup {n + 1}
    BY <1>1
  <2>3. ToSet(t) = {t[a] : a \in 1..(n + 1)} /\ ToSet(s) = {s[a] : a \in 1..n}
    BY <1>1, <1>6 DEF ToSet
  <2>4. ToSet(t) = ToSet(s) \cup {w}
    BY <1>6, <2>2, <2>3
  <2>. QED
    BY <2>1, <2>4
<1>8. /\ v # w /\ body[v][i].cost \in Nat /\ i \in Nat \ {0}
      /\ v \in Network => AddressTo(w, v) > 0
  <2>1. Edge(v, i, w)
    BY DEF s
  <2>. HIDE DEF v
  <2>2. body[v][i].cost \in Nat /\ i \in Nat \ {0} /\ v # w
    BY <1>2, <2>1, EdgeIs
  <2>. QED
    BY <2>1, <2>2, GwIs
<1>9. w # Root
  BY <1>1, <1>3
<1>10. (v = Root) <=> (n = 1)
  BY <1>1, <1>2
<1>11. (n = 1) <=> (p = Source)
  <2>1. Source.link = 0
    BY DEF Source
  <2>. QED
    BY <1>1, <2>1
<1>12. k \in Nat \ {0} /\ total \in Nat
  <2>1. total \in Nat
    <3>. DEFINE m == body[v][i].cost
    <3>1. m \in Nat
      BY <1>8
    <3>. HIDE DEF m
    <3>2. p.cost + m \in Nat
      BY <1>1, <3>1
    <3>. QED
      BY <3>2 DEF m
  <2>. QED
    BY <1>1, <1>8, <2>1
<1>13. n = 1 => w \in Network /\ IfcOf(body[Root][i]) = ifmap[i]
  <2>. SUFFICES ASSUME n = 1 PROVE w \in Network /\ IfcOf(body[Root][i]) = ifmap[i]
    OBVIOUS
  <2>1. Edge(Root, i, w)
    BY <1>10 DEF s
  <2>. QED
    BY <2>1, RootEdge
<1>14. t[1] = Root /\ t[2] \in Network /\ (n >= 2 => t[2] = s[2]) /\ (n >= 3 => t[3] = s[3])
       /\ (n = 2 => t[3] = w /\ s[2] = v)
  <2>1. t[1] = Root
    BY <1>1, <1>6
  <2>2. n >= 2 => t[2] = s[2] /\ t[2] \in Network
    BY <1>1, <1>6
  <2>3. n = 1 => t[2] = w
    BY <1>6
  <2>4. n >= 3 => t[3] = s[3]
    BY <1>1, <1>6
  <2>5. n = 2 => t[3] = w /\ s[2] = v
    BY <1>2, <1>6
  <2>. QED
    BY <1>1, <1>13, <2>1, <2>2, <2>3, <2>4, <2>5
<1>. HIDE DEF k, total
<1>15. \A a, b \in DOMAIN t : t[a] = t[b] => a = b
  <2>. SUFFICES ASSUME NEW a \in 1..(n + 1), NEW b \in 1..(n + 1), t[a] = t[b] PROVE a = b
    BY <1>6
  <2>1. CASE a \in 1..n /\ b \in 1..n
    BY <1>1, <1>6, <2>1
  <2>2. CASE a = n + 1 /\ b \in 1..n
    BY <1>3, <1>6, <2>2
  <2>3. CASE a \in 1..n /\ b = n + 1
    BY <1>3, <1>6, <2>3
  <2>4. CASE a = n + 1 /\ b = n + 1
    BY <2>4
  <2>. QED
    BY <1>1, <2>1, <2>2, <2>3, <2>4
<1>16. n >= 2 => AddressTo(t[3], t[2]) # 0
  <2>1. CASE n = 2
    <3>1. t[3] = w /\ t[2] = v /\ v \in Network
      BY <1>14, <2>1
    <3>. QED
      BY <1>8, <3>1
  <2>2. CASE n >= 3
    BY <1>1, <1>14, <2>2
  <2>. QED
    BY <1>1, <2>1, <2>2
<1>17. Len(t) >= 2 /\ (Len(t) >= 3 => n >= 2)
  BY <1>1, <1>6
<1>18. Proper(q)
  BY <1>5, <1>6, <1>12, <1>14, <1>15, <1>16, <1>17 DEF Proper
<1>19. q # Source
  BY <1>5, <1>12 DEF Source
<1>20. FirstHop(q, 0) = Hop(IfcOf(body[Root][k]), Gateway(q))
  BY <1>5, <1>19 DEF FirstHop
<1>21. Gateway(q) = IF n = 1 THEN 0 ELSE AddressTo(t[3], t[2])
  <2>1. t[2] \notin Router
    BY <1>14, GraphAssumption
  <2>2. Len(t) = 2 <=> n = 1
    BY <1>1, <1>6
  <2>. QED
    BY <1>5, <2>1, <2>2 DEF Gateway
<1>22. FirstHop(q, 0) = IF p = Source THEN Hop(ifmap[i], 0) ELSE CarryHop(FirstHop(p, 0), v, w)
  <2>1. CASE n = 1
    <3>1. p.link = 0
      BY <1>11, <2>1 DEF Source
    <3>2. k = i
      BY <3>1 DEF k
    <3>. QED
      BY <1>11, <1>13, <1>20, <1>21, <2>1, <3>2
  <2>2. CASE n # 1
    <3>1. p # Source /\ n >= 2 /\ k = p.link
      BY <1>1, <1>11, <2>2 DEF k
    <3>2. s[2] \notin Router
      BY <1>1, <3>1, GraphAssumption
    <3>3. Gateway(p) = IF n = 2 THEN 0 ELSE AddressTo(s[3], s[2])
      BY <3>2 DEF Gateway, s, n
    <3>. DEFINE ifc == IfcOf(body[Root][p.link])
                g == Gateway(p)
    <3>4. FirstHop(p, 0) = Hop(ifc, g)
      BY <3>1 DEF FirstHop
    <3>5. FirstHop(q, 0) = Hop(ifc, AddressTo(t[3], t[2]))
      BY <1>20, <1>21, <2>2, <3>1
    <3>6. AddressTo(t[3], t[2]) = IF g = 0 THEN AddressTo(w, v) ELSE g
      <4>1. CASE n = 2
        <5>1. t[3] = w /\ t[2] = v
          BY <1>14, <3>1, <4>1
        <5>. QED
          BY <3>3, <4>1, <5>1
      <4>2. CASE n # 2
        <5>1. n >= 3 /\ t[3] = s[3] /\ t[2] = s[2]
          BY <1>1, <1>14, <3>1, <4>2
        <5>. QED
          BY <1>1, <3>3, <4>2, <5>1
      <4>. QED
        BY <4>1, <4>2
    <3>. HIDE DEF ifc, g
    <3>. DEFINE x == Hop(ifc, g)
                new == AddressTo(w, v)
    <3>7. CarryHop(x, v, w) = IF x.gw = 0 THEN [x EXCEPT !.gw = new] ELSE x
      BY DEF CarryHop
    <3>. HIDE DEF new
    <3>8. x.gw = g /\ [x EXCEPT !.gw = new] = Hop(ifc, new)
      BY DEF Hop
    <3>. HIDE DEF x
    <3>9. CarryHop(x, v, w) = Hop(ifc, IF g = 0 THEN new ELSE g)
      BY <3>7, <3>8 DEF x
    <3>. QED
      BY <3>1, <3>4, <3>5, <3>6, <3>9 DEF x, new
  <2>. QED
    BY <2>1, <2>2
<1>. HIDE DEF v
<1>. QED
  BY <1>2, <1>5, <1>6, <1>7, <1>9, <1>10, <1>11, <1>18, <1>19, <1>22 DEF q, s, v, n, total

-----------------------------------------------------------------------------
(* The tree against the paths. *)

\* A run at its end.
Finished(c) == CalcInv(c, LinksOf(OnTree(c))) /\ Waiting(c) = {}

LEMMA FinishedIs ==
    ASSUME Settled, Root \in Node, NEW c, Finished(c)
    PROVE  /\ \A V \in OnTree(c) : V \in Node /\ parsed[V] /\ c.cost[V] \in Nat /\ Root \in OnTree(c)
           /\ parsed[Root] => Root \in OnTree(c)
           /\ c.cost[Root] = 0
           /\ \A V \in OnTree(c), W \in Node : \A i :
                Edge(V, i, W) => W \in OnTree(c) /\ c.cost[W] <= LinkCost(c, V, i)
           /\ \A W \in OnTree(c) \ {Root} :
                /\ HopList(c.epath[W])
                /\ \A h \in ToSet(c.epath[W]) :
                     \E V \in OnTree(c) : \E i : Tight(c, V, i, W) /\ h \in Carry(c, V, i, W)
                /\ ~Full(c.epath[W]) => \A V \in OnTree(c) : \A i : Tight(c, V, i, W) =>
                     Carry(c, V, i, W) \subseteq ToSet(c.epath[W]) /\ (V = Root \/ ~Full(c.epath[V]))
<1>. DEFINE D == LinksOf(OnTree(c))
<1>1. IsCalc(c) /\ NodeInv(c, D) /\ Waiting(c) = {}
  BY DEF Finished, CalcInv, Carried
<1>2. \A V, i : <<V, i>> \in D <=> V \in OnTree(c) /\ i \in {0} \cup DOMAIN body[V]
  BY LinksOfIs
<1>. HIDE DEF D
<1>3. Reached(c) = OnTree(c)
  BY <1>1 DEF Reached, OnTree, Waiting, IsCalc, Fields
<1>4. \A V \in OnTree(c) : V \in Node /\ parsed[V] /\ c.cost[V] \in Nat /\ Root \in OnTree(c)
  BY <1>1, RootTaken DEF OnTree, IsCalc, Fields
<1>5. ASSUME NEW V \in OnTree(c), NEW W \in Node, NEW i, Edge(V, i, W)
      PROVE  <<V, i>> \in D
  <2>1. V \in Node
    BY <1>4
  <2>. QED
    BY <1>2, <1>5, <2>1, EdgeIs
<1>6. \A V \in OnTree(c), W \in Node : \A i :
        Edge(V, i, W) => W \in OnTree(c) /\ c.cost[W] <= LinkCost(c, V, i)
  BY <1>1, <1>3, <1>5 DEF NodeInv
<1>7. ASSUME NEW W \in OnTree(c) \ {Root}
      PROVE  /\ HopList(c.epath[W])
             /\ \A h \in ToSet(c.epath[W]) :
                  \E V \in OnTree(c) : \E i : Tight(c, V, i, W) /\ h \in Carry(c, V, i, W)
             /\ ~Full(c.epath[W]) => \A V \in OnTree(c) : \A i : Tight(c, V, i, W) =>
                  Carry(c, V, i, W) \subseteq ToSet(c.epath[W]) /\ (V = Root \/ ~Full(c.epath[V]))
  <2>1. HopList(c.epath[W]) /\ HopsFrom(c, D, W, c.epath[W])
    BY <1>1, <1>3, <1>7 DEF NodeInv
  <2>2. \A V, i : <<V, i>> \in D /\ Tight(c, V, i, W) <=> V \in OnTree(c) /\ Tight(c, V, i, W)
    BY <1>2, <1>4, <1>5, <1>7 DEF Tight
  <2>3. \A V, i : <<V, i>> \in D => V \in OnTree(c)
    BY <1>2
  <2>. QED
    BY <2>1, <2>2, <2>3 DEF HopsFrom
<1>8. c.cost[Root] = 0 /\ (parsed[Root] => Root \in OnTree(c))
  BY <1>1, <1>3 DEF NodeInv
<1>. QED
  BY <1>4, <1>6, <1>7, <1>8

\* A path of the reference leads to a node on the tree; it is not shorter, and its
\* next hop is one of the node's if it is as long and the node's list is not full.
Matched(c, p) ==
    /\ Proper(p) /\ Last(p.nodes) \in OnTree(c)
    /\ c.cost[Last(p.nodes)] <= p.cost
    /\ p # Source /\ c.cost[Last(p.nodes)] = p.cost /\ ~Full(c.epath[Last(p.nodes)]) =>
         FirstHop(p, 0) \in ToSet(c.epath[Last(p.nodes)])

LEMMA MatchedOn ==
    ASSUME Settled, Root \in Node, NEW c, Finished(c), NEW p, Matched(c, p),
           NEW w \in Node \ ToSet(p.nodes), NEW i, Edge(Last(p.nodes), i, w)
    PROVE  Matched(c, Extended(p, i, w))
<1>. DEFINE q == Extended(p, i, w)
            v == Last(p.nodes)
            m == body[v][i].cost
<1>1. /\ Proper(q) /\ Last(q.nodes) = w /\ q # Source /\ v \in Node
      /\ q.cost = p.cost + m /\ w # Root
      /\ (v = Root) <=> (p = Source)
      /\ FirstHop(q, 0) = IF p = Source THEN Hop(ifmap[i], 0) ELSE CarryHop(FirstHop(p, 0), v, w)
  BY ExtendedIs DEF Matched
<1>2. Edge(v, i, w) /\ v \in OnTree(c) /\ c.cost[v] <= p.cost /\ p.cost \in Nat
      /\ (p # Source /\ c.cost[v] = p.cost /\ ~Full(c.epath[v]) =>
            FirstHop(p, 0) \in ToSet(c.epath[v]))
  BY DEF Matched, Proper
<1>. HIDE DEF q, v
<1>3. w \in OnTree(c) /\ c.cost[w] <= LinkCost(c, v, i) /\ c.cost[w] \in Nat /\ c.cost[v] \in Nat
  BY <1>2, FinishedIs
<1>4. m \in Nat /\ LinkCost(c, v, i) = c.cost[v] + m
  BY <1>1, <1>2, EdgeIs DEF LinkCost
<1>. HIDE DEF m
<1>5. c.cost[w] <= q.cost
  BY <1>1, <1>2, <1>3, <1>4
<1>6. ASSUME c.cost[w] = q.cost, ~Full(c.epath[w]) PROVE FirstHop(q, 0) \in ToSet(c.epath[w])
  <2>1. c.cost[v] = p.cost /\ LinkCost(c, v, i) = c.cost[w]
    BY <1>1, <1>2, <1>3, <1>4, <1>6
  <2>2. Tight(c, v, i, w)
    BY <1>2, <2>1 DEF Tight
  <2>3. w \in OnTree(c) \ {Root}
    BY <1>1, <1>3
  <2>4. Carry(c, v, i, w) \subseteq ToSet(c.epath[w]) /\ (v = Root \/ ~Full(c.epath[v]))
    BY <1>2, <1>6, <2>2, <2>3, FinishedIs
  <2>5. FirstHop(q, 0) \in Carry(c, v, i, w)
    <3>1. CASE p = Source
      BY <1>1, <3>1 DEF Carry
    <3>2. CASE p # Source
      <4>1. FirstHop(p, 0) \in ToSet(c.epath[v]) /\ v # Root
        BY <1>1, <1>2, <2>1, <2>4, <3>2
      <4>. QED
        BY <1>1, <3>2, <4>1 DEF Carry
    <3>. QED
      BY <3>1, <3>2
  <2>. QED
    BY <2>4, <2>5
<1>. QED
  BY <1>1, <1>3, <1>5, <1>6 DEF Matched, q

LEMMA PathsMatched ==
    ASSUME Settled, Root \in Node, NEW c, Finished(c), NEW p \in Paths
    PROVE  Matched(c, p)
<1>. DEFINE n == Cardinality(Node) - 1
<1>1. PICK h : PathsBy(h)
  BY PathsAre DEF SomePaths
<1>2. n \in Nat
  <2>1. IsFiniteSet(Node)
    BY RoutesAssumption
  <2>2. Cardinality(Node) \in Nat /\ Cardinality(Node) # 0
    BY <2>1, FS_CardinalityType, FS_EmptySet
  <2>. QED
    BY <2>2
<1>3. parsed[Root] /\ p \in h[n]
  BY <1>1 DEF PathsBy
<1>4. h[0] = {Source} /\ \A m \in 1..n : h[m] = Longer(h[m - 1])
  BY <1>1 DEF PathsBy
<1>. HIDE DEF n
<1>. DEFINE S == {m \in 0..n : \A q \in h[m] : Matched(c, q)}
<1>5. 0 \in S
  <2>1. Matched(c, Source)
    <3>1. Root \in OnTree(c) /\ c.cost[Root] = 0
      BY <1>3, FinishedIs
    <3>2. Proper(Source) /\ Last(Source.nodes) = Root /\ Source.cost = 0
      BY SourceIsProper DEF Source
    <3>. QED
      BY <3>1, <3>2 DEF Matched
  <2>. QED
    BY <1>2, <1>4, <2>1
<1>6. ASSUME NEW m \in 1..n, m - 1 \in S PROVE m \in S
  <2>. SUFFICES ASSUME NEW q \in h[m] PROVE Matched(c, q)
    BY <1>2
  <2>1. \A r \in h[m - 1] : Matched(c, r)
    BY <1>6
  <2>2. q \in Longer(h[m - 1])
    BY <1>4
  <2>3. CASE q \in h[m - 1]
    BY <2>1, <2>3
  <2>4. CASE q \notin h[m - 1]
    <3>1. PICK r \in h[m - 1] : q \in UNION {Step(r, w) : w \in Node \ ToSet(r.nodes)}
      BY <2>2, <2>4 DEF Longer
    <3>2. PICK w \in Node \ ToSet(r.nodes) : q \in Step(r, w)
      BY <3>1
    <3>3. PICK i : Edge(Last(r.nodes), i, w) /\ q = Extended(r, i, w)
      BY <3>2, StepsAre
    <3>4. Matched(c, r)
      BY <2>1
    <3>. QED
      BY <3>2, <3>3, <3>4, MatchedOn
  <2>. QED
    BY <2>3, <2>4
<1>7. n \in S
  <2>. HIDE DEF S
  <2>1. 0..n \subseteq S
    BY <1>2, <1>5, <1>6, UpTo
  <2>. QED
    BY <1>2, <2>1
<1>. QED
  BY <1>3, <1>7

\* A path along the tree.
TreePath(c, h, p) ==
    /\ Proper(p) /\ Len(p.nodes) <= Cardinality(Node) /\ p \in h[Len(p.nodes) - 1]
    /\ Last(p.nodes) \in OnTree(c) /\ p.cost = c.cost[Last(p.nodes)]
    /\ \A x \in ToSet(p.nodes) : x \in OnTree(c) /\ Rank(c, x) <= Rank(c, Last(p.nodes))

LEMMA TreePathOn ==
    ASSUME Settled, Root \in Node, NEW c, Finished(c), NEW h, PathsBy(h), NEW p, TreePath(c, h, p),
           NEW w \in OnTree(c), NEW i, Tight(c, Last(p.nodes), i, w)
    PROVE  /\ TreePath(c, h, Extended(p, i, w)) /\ w \notin ToSet(p.nodes)
<1>. DEFINE q == Extended(p, i, w)
            v == Last(p.nodes)
            m == body[v][i].cost
<1>1. /\ Proper(p) /\ Len(p.nodes) <= Cardinality(Node) /\ p \in h[Len(p.nodes) - 1]
      /\ v \in OnTree(c) /\ p.cost = c.cost[v]
      /\ \A x \in ToSet(p.nodes) : x \in OnTree(c) /\ Rank(c, x) <= Rank(c, v)
  BY DEF TreePath
<1>2. Edge(v, i, w) /\ LinkCost(c, v, i) = c.cost[w]
  BY DEF Tight
<1>. HIDE DEF q, v
<1>3. v \in Node /\ w \in Node /\ c.cost[v] \in Nat /\ c.cost[w] \in Nat /\ IsCalc(c)
  BY <1>1, FinishedIs DEF Finished, CalcInv, Carried
<1>4. Rank(c, v) < Rank(c, w) /\ Rank(c, v) \in Nat /\ Rank(c, w) \in Nat
  <2>1. /\ w \in Network => Rank(c, v) < 2 * c.cost[w]
        /\ w \notin Network => Rank(c, v) < 2 * c.cost[w] + 1
    BY <1>2, <1>3, RankUp
  <2>2. /\ w \in Network => Rank(c, w) = 2 * c.cost[w]
        /\ w \notin Network => Rank(c, w) = 2 * c.cost[w] + 1
        /\ Rank(c, v) \in Nat /\ Rank(c, w) \in Nat
    BY <1>3, RankIs
  <2>. QED
    BY <2>1, <2>2
<1>5. ASSUME w \in ToSet(p.nodes) PROVE FALSE
  <2>1. Rank(c, w) <= Rank(c, v)
    BY <1>1, <1>5
  <2>. QED
    BY <1>4, <2>1
<1>6. /\ Proper(q) /\ Last(q.nodes) = w
      /\ Len(q.nodes) = Len(p.nodes) + 1 /\ ToSet(q.nodes) = ToSet(p.nodes) \cup {w}
      /\ q.cost = p.cost + m
  BY <1>1, <1>2, <1>3, <1>5, ExtendedIs DEF q, v
<1>7. q.cost = c.cost[w]
  BY <1>1, <1>2, <1>6 DEF LinkCost
<1>8. Len(p.nodes) \in Nat \ {0} /\ p.nodes \in Seq(Node) /\ Len(q.nodes) \in Nat
  BY <1>1, <1>6 DEF Proper
<1>9. Len(q.nodes) <= Cardinality(Node)
  <2>. DEFINE s == q.nodes
              k == Len(q.nodes)
  <2>1. s \in Seq(Node) /\ k = Len(s) /\ \A a, b \in DOMAIN s : s[a] = s[b] => a = b
    BY <1>6 DEF Proper
  <2>. HIDE DEF s, k
  <2>2. k \in Nat /\ s \in [1..k -> Node] /\ DOMAIN s = 1..k
    BY <2>1
  <2>3. s \in Injection(1..k, Node)
    BY <2>1, <2>2 DEF Injection, IsInjective
  <2>4. IsFiniteSet(1..k) /\ Cardinality(1..k) = k
    BY <2>2, FS_Interval
  <2>5. Cardinality(1..k) <= Cardinality(Node)
    <3>1. IsFiniteSet(Node)
      BY RoutesAssumption
    <3>. DEFINE I == 1..k
    <3>2. s \in Injection(I, Node) /\ IsFiniteSet(I)
      BY <2>3, <2>4
    <3>. HIDE DEF I
    <3>3. Cardinality(I) <= Cardinality(Node)
      BY <3>1, <3>2, FS_Injection
    <3>. QED
      BY <3>3 DEF I
  <2>. QED
    BY <2>4, <2>5 DEF k
<1>10. q \in h[Len(q.nodes) - 1]
  <2>. DEFINE a == Len(p.nodes)
  <2>1. a \in Nat \ {0} /\ Cardinality(Node) \in Nat /\ a + 1 <= Cardinality(Node) /\ Len(q.nodes) - 1 = a
    <3>1. Cardinality(Node) \in Nat
      BY RoutesAssumption, FS_CardinalityType
    <3>. QED
      BY <1>6, <1>8, <1>9, <3>1
  <2>2. p \in h[a - 1]
    BY <1>1
  <2>. HIDE DEF a
  <2>3. a \in 1..(Cardinality(Node) - 1)
    BY <2>1
  <2>4. h[a] = Longer(h[a - 1])
    BY <2>3 DEF PathsBy
  <2>5. q \in Step(p, w)
    BY <1>2, StepsAre DEF q, v
  <2>6. q \in Longer(h[a - 1])
    BY <1>3, <1>5, <2>2, <2>5 DEF Longer
  <2>. QED
    BY <2>1, <2>4, <2>6
<1>11. \A x \in ToSet(q.nodes) : x \in OnTree(c) /\ Rank(c, x) <= Rank(c, w)
  <2>. SUFFICES ASSUME NEW x \in ToSet(p.nodes) PROVE x \in OnTree(c) /\ Rank(c, x) <= Rank(c, w)
    BY <1>4, <1>6
  <2>1. x \in OnTree(c) /\ Rank(c, x) <= Rank(c, v)
    BY <1>1
  <2>2. x \in Node
    BY <2>1, FinishedIs
  <2>3. Rank(c, x) \in Nat
    BY <1>3, <2>2, RankIs
  <2>. QED
    BY <1>4, <2>1, <2>3
<1>. QED
  BY <1>5, <1>6, <1>7, <1>9, <1>10, <1>11 DEF TreePath, q

\* Next hop x of v is that of a path along the tree.
Found(c, h, v, x) ==
    \E p : TreePath(c, h, p) /\ Last(p.nodes) = v /\ p # Source /\ FirstHop(p, 0) = x

LEMMA SourceIsTreePath ==
    ASSUME Settled, Root \in Node, NEW c, Finished(c), NEW h, PathsBy(h), Root \in OnTree(c)
    PROVE  TreePath(c, h, Source)
<1>1. Proper(Source) /\ Last(Source.nodes) = Root /\ Source.cost = 0 /\ ToSet(Source.nodes) = {Root}
      /\ Len(Source.nodes) = 1
  BY SourceIsProper DEF Source
<1>2. h[0] = {Source}
  BY DEF PathsBy
<1>3. c.cost[Root] = 0 /\ Rank(c, Root) \in Nat
  BY FinishedIs, RankIs DEF Finished, CalcInv, Carried
<1>4. Cardinality(Node) >= 1
  <2>1. IsFiniteSet(Node)
    BY RoutesAssumption
  <2>2. Cardinality(Node) \in Nat /\ Cardinality(Node) # 0
    BY <2>1, FS_CardinalityType, FS_EmptySet
  <2>. QED
    BY <2>2
<1>. DEFINE z == Source
<1>5. Len(z.nodes) <= Cardinality(Node) /\ Len(z.nodes) - 1 = 0
  <2>1. Cardinality(Node) \in Nat
    BY RoutesAssumption, FS_CardinalityType
  <2>. QED
    BY <1>1, <1>4, <2>1
<1>. HIDE DEF z
<1>6. z \in h[Len(z.nodes) - 1]
  BY <1>2, <1>5 DEF z
<1>. QED
  BY <1>1, <1>3, <1>5, <1>6 DEF TreePath, z

LEMMA FoundFromLower ==
    ASSUME Settled, Root \in Node, NEW c, Finished(c), NEW h, PathsBy(h),
           NEW w \in OnTree(c) \ {Root},
           \A v \in OnTree(c) \ {Root} :
             Rank(c, v) < Rank(c, w) => \A y \in ToSet(c.epath[v]) : Found(c, h, v, y),
           NEW x \in ToSet(c.epath[w])
    PROVE  Found(c, h, w, x)
<1>1. PICK v \in OnTree(c) : \E i : Tight(c, v, i, w) /\ x \in Carry(c, v, i, w)
  BY FinishedIs
<1>2. PICK i : Tight(c, v, i, w) /\ x \in Carry(c, v, i, w)
  BY <1>1
<1>3. v \in Node /\ w \in Node /\ Root \in OnTree(c) /\ IsCalc(c) /\ Edge(v, i, w)
  BY <1>2, FinishedIs DEF Finished, CalcInv, Carried, Tight
<1>4. \E p : /\ TreePath(c, h, p) /\ Last(p.nodes) = v
             /\ IF v = Root THEN p = Source /\ x = Hop(ifmap[i], 0)
                ELSE p # Source /\ x = CarryHop(FirstHop(p, 0), v, w)
  <2>1. CASE v = Root
    <3>1. x = Hop(ifmap[i], 0)
      BY <1>2, <2>1 DEF Carry
    <3>2. TreePath(c, h, Source) /\ Last(Source.nodes) = Root
      BY <1>3, SourceIsTreePath, SourceIsProper
    <3>. QED
      BY <2>1, <3>1, <3>2
  <2>2. CASE v # Root
    <3>1. PICK y \in ToSet(c.epath[v]) : x = CarryHop(y, v, w)
      BY <1>2, <2>2 DEF Carry
    <3>2. Rank(c, v) < Rank(c, w)
      <4>1. /\ w \in Network => Rank(c, v) < 2 * c.cost[w]
            /\ w \notin Network => Rank(c, v) < 2 * c.cost[w] + 1
        BY <1>2, <1>3, RankUp DEF Tight
      <4>. QED
        BY <1>3, <4>1, RankIs
    <3>3. Found(c, h, v, y)
      BY <2>2, <3>1, <3>2
    <3>4. PICK p : TreePath(c, h, p) /\ Last(p.nodes) = v /\ p # Source /\ FirstHop(p, 0) = y
      BY <3>3 DEF Found
    <3>. QED
      BY <2>2, <3>1, <3>4
  <2>. QED
    BY <2>1, <2>2
<1>5. PICK p : /\ TreePath(c, h, p) /\ Last(p.nodes) = v
               /\ IF v = Root THEN p = Source /\ x = Hop(ifmap[i], 0)
                  ELSE p # Source /\ x = CarryHop(FirstHop(p, 0), v, w)
  BY <1>4
<1>. DEFINE q == Extended(p, i, w)
<1>6. TreePath(c, h, q) /\ w \notin ToSet(p.nodes)
  BY <1>2, <1>5, TreePathOn
<1>7. Proper(p)
  BY <1>5 DEF TreePath
<1>8. /\ Last(q.nodes) = w /\ q # Source
      /\ (v = Root) <=> (p = Source)
      /\ FirstHop(q, 0) = IF p = Source THEN Hop(ifmap[i], 0) ELSE CarryHop(FirstHop(p, 0), v, w)
  BY <1>3, <1>5, <1>6, <1>7, ExtendedIs
<1>. HIDE DEF q
<1>9. FirstHop(q, 0) = x
  BY <1>5, <1>8
<1>. QED
  BY <1>6, <1>8, <1>9 DEF Found

LEMMA AllFound ==
    ASSUME Settled, Root \in Node, NEW c, Finished(c), NEW h, PathsBy(h),
           NEW w \in OnTree(c) \ {Root}, NEW x \in ToSet(c.epath[w])
    PROVE  Found(c, h, w, x)
<1>. DEFINE n == Rank(c, w)
            Below(m) == \A v \in OnTree(c) \ {Root} :
                          Rank(c, v) <= m => \A y \in ToSet(c.epath[v]) : Found(c, h, v, y)
            S == {m \in 0..n : Below(m)}
<1>1. IsCalc(c) /\ w \in Node /\ \A v \in OnTree(c) : v \in Node
  BY FinishedIs DEF Finished, CalcInv, Carried
<1>2. n \in Nat /\ \A v \in OnTree(c) : Rank(c, v) \in Nat
  BY <1>1, RankIs
<1>. HIDE DEF n
<1>3. 0 \in S
  <2>. SUFFICES ASSUME NEW v \in OnTree(c) \ {Root}, Rank(c, v) <= 0, NEW y \in ToSet(c.epath[v])
                PROVE  Found(c, h, v, y)
    BY <1>2
  <2>1. \A u \in OnTree(c) \ {Root} : ~(Rank(c, u) < Rank(c, v))
    BY <1>2
  <2>. QED
    BY <2>1, FoundFromLower
<1>4. ASSUME NEW m \in 1..n, m - 1 \in S PROVE m \in S
  <2>. SUFFICES ASSUME NEW v \in OnTree(c) \ {Root}, Rank(c, v) <= m, NEW y \in ToSet(c.epath[v])
                PROVE  Found(c, h, v, y)
    BY <1>2
  <2>1. Below(m - 1)
    BY <1>4
  <2>2. \A u \in OnTree(c) \ {Root} : Rank(c, u) < Rank(c, v) => \A z \in ToSet(c.epath[u]) : Found(c, h, u, z)
    <3>1. \A u \in OnTree(c) \ {Root} : Rank(c, u) < Rank(c, v) => Rank(c, u) <= m - 1
      BY <1>2
    <3>. QED
      BY <2>1, <3>1
  <2>. QED
    BY <2>2, FoundFromLower
<1>5. n \in S
  <2>. HIDE DEF S
  <2>1. 0..n \subseteq S
    BY <1>2, <1>3, <1>4, UpTo
  <2>. QED
    BY <1>2, <2>1
<1>6. Below(n)
  BY <1>5
<1>7. Rank(c, w) <= n
  BY <1>2 DEF n
<1>. QED
  BY <1>6, <1>7

\* All of them are among the paths of the reference.
LEMMA TreePathIsPath ==
    ASSUME Root \in Node, NEW c, NEW h, PathsBy(h), parsed[Root], NEW p, TreePath(c, h, p)
    PROVE  p \in Paths
<1>. DEFINE n == Cardinality(Node) - 1
            k == Len(p.nodes) - 1
<1>1. n \in Nat /\ k \in 0..n /\ p \in h[k]
  <2>1. IsFiniteSet(Node)
    BY RoutesAssumption
  <2>2. Cardinality(Node) \in Nat
    BY <2>1, FS_CardinalityType
  <2>3. Len(p.nodes) \in Nat /\ Len(p.nodes) >= 1 /\ Len(p.nodes) <= Cardinality(Node)
    BY DEF TreePath, Proper
  <2>4. n \in Nat /\ k \in 0..n
    BY <2>2, <2>3
  <2>. QED
    BY <2>4 DEF TreePath
<1>2. \A m \in 1..n : h[m] = Longer(h[m - 1])
  BY DEF PathsBy
<1>3. Paths = h[n]
  BY DEF PathsBy
<1>. HIDE DEF n, k
<1>. DEFINE S == {m \in 0..n : m >= k => p \in h[m]}
<1>4. 0 \in S
  <2>1. 0 >= k => k = 0
    BY <1>1
  <2>. QED
    BY <1>1, <2>1
<1>5. ASSUME NEW m \in 1..n, m - 1 \in S PROVE m \in S
  <2>1. CASE m >= k /\ m - 1 >= k
    <3>1. p \in h[m - 1] /\ h[m] = Longer(h[m - 1])
      BY <1>2, <1>5, <2>1
    <3>. QED
      BY <1>1, <3>1 DEF Longer
  <2>2. CASE m >= k /\ ~(m - 1 >= k)
    <3>1. m = k
      BY <1>1, <2>2
    <3>. QED
      BY <1>1, <3>1
  <2>3. CASE ~(m >= k)
    BY <1>1, <2>3
  <2>. QED
    BY <2>1, <2>2, <2>3
<1>6. n \in S
  <2>. HIDE DEF S
  <2>1. 0..n \subseteq S
    BY <1>1, <1>4, <1>5, UpTo
  <2>. QED
    BY <1>1, <2>1
<1>7. n >= k
  BY <1>1
<1>. QED
  BY <1>3, <1>6, <1>7

-----------------------------------------------------------------------------
(* The entries against what the paths offer. *)

AllOffers == UNION {Offers(p) : p \in Paths}

\* Cost k and list q are what offers here make.
AsOffered(k, q, here) ==
    LET least == {o \in here : \A x \in here : o.cost <= x.cost}
        hops == {o.hop : o \in least}
    IN  /\ q # <<>>
        /\ \A o \in least : k = o.cost
        /\ ToSet(q) \subseteq hops
        /\ Len(q) <= MAXPATH
        /\ Full(q) \/ hops \subseteq ToSet(q)

\* RoutesFresh of entries r and offers all.
FreshIn(all, r) ==
    \A p \in Prefix :
      LET here == {o \in all : o.to = p}
      IN  IF here = {} THEN r[p].type = "NONE"
          ELSE r[p].type = "SPF" /\ AsOffered(r[p].cost, r[p].path, here)

LEMMA FreshIs == RoutesFresh <=> (~full_sched => FreshIn(AllOffers, rte))
BY DEF RoutesFresh, FreshIn, AsOffered, Full, AllOffers

\* What path q offers at prefix t, by link i of its last node.
Offer(q, t, i) ==
    [to |-> t, cost |-> q.cost + (IF i = 0 THEN 0 ELSE body[Last(q.nodes)][i].cost),
     hop |-> FirstHop(q, i)]

LEMMA OffersAre ==
    ASSUME GraphInv, NEW q, Last(q.nodes) \in Node, parsed[Last(q.nodes)], q.cost \in Nat,
           NEW t, NEW o
    PROVE  o \in Offers(q) /\ o.to = t <=>
             \E i : Offered(t, Last(q.nodes), i) /\ o = Offer(q, t, i)
<1>. DEFINE v == Last(q.nodes)
            link(i) == [to |-> body[v][i].id, cost |-> q.cost + body[v][i].cost,
                        hop |-> FirstHop(q, i)]
            own == [to |-> Net(LsId[v]), cost |-> q.cost, hop |-> FirstHop(q, 0)]
            Stubs == {j \in DOMAIN body[v] : body[v][j].type = "STUB"}
<1>1. Offers(q) = {link(i) : i \in Stubs} \cup (IF v \in Network THEN {own} ELSE {})
  BY DEF Offers
<1>2. DOMAIN body[v] = 1..Len(body[v]) /\ Len(body[v]) \in Nat
  BY LinksNumbered
<1>3. 0 \notin DOMAIN body[v]
  BY <1>2
<1>4. ASSUME NEW i \in Stubs, link(i).to = t
      PROVE  Offered(t, v, i) /\ link(i) = Offer(q, t, i)
  <2>1. i # 0 /\ body[v][i].id = t
    BY <1>3, <1>4
  <2>. QED
    BY <1>4, <2>1 DEF Offered, Offer
<1>5. ASSUME v \in Network, own.to = t
      PROVE  Offered(t, v, 0) /\ own = Offer(q, t, 0)
  <2>. DEFINE m == q.cost
  <2>1. m + 0 = m
    OBVIOUS
  <2>. HIDE DEF m
  <2>2. Offer(q, t, 0) = [to |-> t, cost |-> m + 0, hop |-> FirstHop(q, 0)]
    BY DEF Offer, m
  <2>3. own = [to |-> t, cost |-> m, hop |-> FirstHop(q, 0)]
    BY <1>5 DEF m
  <2>4. Offered(t, v, 0)
    BY <1>5 DEF Offered
  <2>. QED
    BY <2>1, <2>2, <2>3, <2>4
<1>6. ASSUME NEW i, Offered(t, v, i)
      PROVE  Offer(q, t, i) \in Offers(q) /\ Offer(q, t, i).to = t
  <2>1. Offer(q, t, i).to = t
    BY DEF Offer
  <2>2. CASE i = 0
    <3>1. v \in Network /\ Net(LsId[v]) = t
      BY <1>6, <2>2 DEF Offered
    <3>2. own.to = t
      BY <3>1
    <3>3. own = Offer(q, t, i)
      BY <1>5, <2>2, <3>1, <3>2
    <3>. HIDE DEF own
    <3>. QED
      BY <1>1, <2>1, <3>1, <3>3
  <2>3. CASE i # 0
    <3>1. i \in Stubs /\ body[v][i].id = t
      BY <1>6, <2>3 DEF Offered
    <3>2. link(i).to = t
      BY <3>1
    <3>3. link(i) = Offer(q, t, i)
      BY <1>4, <3>1, <3>2
    <3>. HIDE DEF link, Stubs
    <3>4. link(i) \in Offers(q)
      BY <1>1, <3>1
    <3>. QED
      BY <2>1, <3>3, <3>4
  <2>. QED
    BY <2>2, <2>3
<1>7. ASSUME o \in Offers(q), o.to = t PROVE \E i : Offered(t, v, i) /\ o = Offer(q, t, i)
  <2>1. CASE \E i \in Stubs : o = link(i)
    <3>1. PICK i \in Stubs : o = link(i)
      BY <2>1
    <3>2. link(i).to = t
      BY <1>7, <3>1
    <3>. HIDE DEF link, Stubs
    <3>. QED
      BY <1>4, <3>1, <3>2
  <2>2. CASE v \in Network /\ o = own
    <3>1. own.to = t
      BY <1>7, <2>2
    <3>. HIDE DEF own
    <3>. QED
      BY <1>5, <2>2, <3>1
  <2>3. (\E i \in Stubs : o = link(i)) \/ (v \in Network /\ o = own)
    <3>. HIDE DEF link, own, Stubs
    <3>. QED
      BY <1>1, <1>7
  <2>. QED
    BY <2>1, <2>2, <2>3
<1>. QED
  BY <1>6, <1>7

\* A path is not better than the node it leads to.
LEMMA PathOffers ==
    ASSUME Settled, Root \in Node, NEW c, Finished(c), NEW q \in Paths, NEW t, NEW i,
           Offered(t, Last(q.nodes), i)
    PROVE  LET v == Last(q.nodes)
               o == Offer(q, t, i)
           IN  /\ <<v, i>> \in LinksOf(OnTree(c))
               /\ OfferCost(c, v, i) \in Nat /\ o.cost \in Nat
               /\ OfferCost(c, v, i) <= o.cost
               /\ o.cost = OfferCost(c, v, i) /\ ~Full(OfferHops(c, v, i)) =>
                    o.hop \in ToSet(OfferHops(c, v, i))
<1>. DEFINE v == Last(q.nodes)
            o == Offer(q, t, i)
            m == IF i = 0 THEN 0 ELSE body[v][i].cost
<1>1. /\ Proper(q) /\ v \in OnTree(c) /\ c.cost[v] <= q.cost
      /\ q # Source /\ c.cost[v] = q.cost /\ ~Full(c.epath[v]) => FirstHop(q, 0) \in ToSet(c.epath[v])
  BY PathsMatched DEF Matched
<1>2. v \in Node /\ parsed[v] /\ c.cost[v] \in Nat /\ q.cost \in Nat /\ GraphInv
  BY <1>1, FinishedIs DEF Proper, Settled
<1>3. i \in {0} \cup DOMAIN body[v] /\ m \in Nat
  <2>1. i = 0 \/ i \in DOMAIN body[v]
    BY DEF Offered
  <2>2. \A j \in DOMAIN body[v] : body[v][j].cost \in Nat
    BY <1>2, LinksNumbered
  <2>. QED
    BY <2>1, <2>2
<1>4. <<v, i>> \in LinksOf(OnTree(c))
  BY <1>1, <1>3, LinksOfIs
<1>5. o.cost = q.cost + m /\ o.hop = FirstHop(q, i) /\ OfferCost(c, v, i) = c.cost[v] + m
  BY DEF Offer, OfferCost
<1>6. (v = Root) <=> (q = Source)
  <2>. DEFINE s == q.nodes
              n == Len(s)
  <2>1. s \in Seq(Node) /\ n \in Nat /\ n >= 1 /\ s[1] = Root /\ DOMAIN s = 1..n /\ v = s[n]
        /\ (\A a, b \in DOMAIN s : s[a] = s[b] => a = b) /\ (n = 1 => q = Source)
    <3>1. s \in Seq(Node) /\ n >= 1 /\ s[1] = Root
          /\ (\A a, b \in DOMAIN s : s[a] = s[b] => a = b) /\ (n = 1 => q = Source)
      BY <1>1 DEF Proper
    <3>2. v = s[n]
      BY DEF Last
    <3>. HIDE DEF v, s
    <3>. QED
      BY <3>1, <3>2
  <2>2. q = Source => v = Root
    BY <1>1, SourceIsProper
  <2>. HIDE DEF s, n, v
  <2>3. v = Root => n = 1
    <3>1. 1 \in DOMAIN s /\ n \in DOMAIN s
      BY <2>1
    <3>2. s[n] = s[1] => n = 1
      BY <2>1, <3>1
    <3>. QED
      BY <2>1, <3>2
  <2>. QED
    BY <2>1, <2>2, <2>3
<1>7. ASSUME o.cost = OfferCost(c, v, i), ~Full(OfferHops(c, v, i))
      PROVE  o.hop \in ToSet(OfferHops(c, v, i))
  <2>1. CASE v = Root
    <3>1. i \in DOMAIN body[Root] /\ parsed[Root]
      <4>1. Root \notin Network
        BY RoutesAssumption, GraphAssumption
      <4>. QED
        BY <1>2, <2>1, <4>1 DEF Offered
    <3>2. PICK k \in DOMAIN Ifaces : ifmap[i] = Ifaces[k] /\ IfcOf(body[Root][i]) = Ifaces[k]
      BY <3>1, RootLinkIs
    <3>. DEFINE h == Hop(Ifaces[k], 0)
    <3>3. FirstHop(q, i) = h
      BY <1>6, <2>1, <3>2 DEF FirstHop
    <3>4. OfferHops(c, v, i) = <<h>>
      BY <2>1, <3>2 DEF OfferHops
    <3>. HIDE DEF h
    <3>5. h \in ToSet(<<h>>)
      BY DEF ToSet
    <3>. HIDE DEF v, o
    <3>. QED
      BY <1>5, <3>3, <3>4, <3>5
  <2>2. CASE v # Root
    <3>1. c.cost[v] = q.cost
      <4>. HIDE DEF m, o, v
      <4>. QED
        BY <1>2, <1>3, <1>5, <1>7
    <3>2. FirstHop(q, 0) \in ToSet(c.epath[v]) /\ q # Source
      <4>1. ~Full(c.epath[v])
        BY <1>7, <2>2 DEF OfferHops
      <4>. QED
        BY <1>1, <1>6, <2>2, <3>1, <4>1
    <3>3. FirstHop(q, i) = FirstHop(q, 0)
      BY <3>2 DEF FirstHop
    <3>. QED
      BY <1>5, <2>2, <3>2, <3>3 DEF OfferHops
  <2>. QED
    BY <2>1, <2>2
<1>8. OfferCost(c, v, i) \in Nat /\ o.cost \in Nat /\ OfferCost(c, v, i) <= o.cost
  <2>. HIDE DEF m, o, v
  <2>. QED
    BY <1>1, <1>2, <1>3, <1>5
<1>. QED
  BY <1>4, <1>7, <1>8

\* And each next hop of a node is that of a path as good.
LEMMA TreeOffers ==
    ASSUME Settled, Root \in Node, NEW c, Finished(c), NEW v \in OnTree(c), NEW t, NEW i,
           Offered(t, v, i), NEW x \in ToSet(OfferHops(c, v, i))
    PROVE  \E q \in Paths : /\ Last(q.nodes) = v
                            /\ Offer(q, t, i).cost = OfferCost(c, v, i) /\ Offer(q, t, i).hop = x
<1>1. v \in Node /\ parsed[v] /\ Root \in OnTree(c) /\ c.cost[Root] = 0
  BY FinishedIs
<1>2. parsed[Root]
  BY <1>1, FinishedIs
<1>3. PICK h : PathsBy(h)
  BY PathsAre DEF SomePaths
<1>4. ASSUME NEW q, TreePath(c, h, q), Last(q.nodes) = v, FirstHop(q, i) = x
      PROVE  \E r \in Paths : /\ Last(r.nodes) = v
                              /\ Offer(r, t, i).cost = OfferCost(c, v, i) /\ Offer(r, t, i).hop = x
  <2>1. q \in Paths
    BY <1>2, <1>3, <1>4, TreePathIsPath
  <2>2. q.cost = c.cost[v]
    BY <1>4 DEF TreePath
  <2>3. Offer(q, t, i).cost = OfferCost(c, v, i) /\ Offer(q, t, i).hop = x
    BY <1>4, <2>2 DEF Offer, OfferCost
  <2>. QED
    BY <1>4, <2>1, <2>3
<1>5. CASE v = Root
  <2>1. i \in DOMAIN body[Root]
    <3>1. Root \notin Network
      BY RoutesAssumption, GraphAssumption
    <3>. QED
      BY <1>5, <3>1 DEF Offered
  <2>2. PICK k \in DOMAIN Ifaces : ifmap[i] = Ifaces[k] /\ IfcOf(body[Root][i]) = Ifaces[k]
    BY <1>2, <2>1, RootLinkIs
  <2>. DEFINE y == Hop(Ifaces[k], 0)
  <2>3. OfferHops(c, v, i) = <<y>> /\ FirstHop(Source, i) = y
    BY <1>5, <2>2 DEF OfferHops, FirstHop
  <2>. HIDE DEF y
  <2>4. ToSet(<<y>>) = {y}
    BY DEF ToSet
  <2>5. FirstHop(Source, i) = x
    BY <2>3, <2>4
  <2>6. TreePath(c, h, Source) /\ Last(Source.nodes) = v
    BY <1>1, <1>3, <1>5, SourceIsTreePath, SourceIsProper
  <2>. QED
    BY <1>4, <2>5, <2>6
<1>6. CASE v # Root
  <2>1. x \in ToSet(c.epath[v])
    BY <1>6 DEF OfferHops
  <2>2. Found(c, h, v, x)
    BY <1>3, <1>6, <2>1, AllFound
  <2>3. PICK q : TreePath(c, h, q) /\ Last(q.nodes) = v /\ q # Source /\ FirstHop(q, 0) = x
    BY <2>2 DEF Found
  <2>4. FirstHop(q, i) = x
    BY <2>3 DEF FirstHop
  <2>. QED
    BY <1>4, <2>3, <2>4
<1>. QED
  BY <1>5, <1>6

\* The offers at prefix t decide what its entry is.
LEMMA EntryDecided ==
    ASSUME Settled, Root \in Node, NEW c, Finished(c), NEW t \in Prefix
    PROVE  LET here == {o \in AllOffers : o.to = t}
               e == c.rte[t]
           IN  /\ here = {} <=> ~OfferedBy(t, LinksOf(OnTree(c)))
               /\ here # {} => AsOffered(e.cost, e.path, here)
<1>. DEFINE here == {o \in AllOffers : o.to = t}
            least == {o \in here : \A x \in here : o.cost <= x.cost}
            e == c.rte[t]
            D == LinksOf(OnTree(c))
            By(v, i) == <<v, i>> \in D /\ Offered(t, v, i)
            Cost(v, i) == OfferCost(c, v, i)
            Hops(v, i) == ToSet(OfferHops(c, v, i))
            Cut(v, i) == Full(OfferHops(c, v, i))
<1>1. EntryIs(c, D, t, e) /\ NodeInv(c, D)
  BY DEF Finished, CalcInv, EntryInv
<1>2. \A v, i : <<v, i>> \in D => v \in OnTree(c) /\ v \in Node /\ parsed[v]
  <2>1. \A v \in OnTree(c) : v \in Node /\ parsed[v]
    BY FinishedIs
  <2>. QED
    BY <2>1, LinksOfIs
<1>3. \A q \in Paths : Last(q.nodes) \in Node /\ parsed[Last(q.nodes)] /\ q.cost \in Nat
  <2>1. ASSUME NEW q \in Paths PROVE Last(q.nodes) \in Node /\ parsed[Last(q.nodes)] /\ q.cost \in Nat
    <3>1. q.cost \in Nat /\ Last(q.nodes) \in OnTree(c)
      BY PathsMatched DEF Matched, Proper
    <3>. QED
      BY <3>1, FinishedIs
  <2>. QED
    BY <2>1
<1>4. ASSUME NEW o
      PROVE  o \in here <=> \E q \in Paths : \E i : Offered(t, Last(q.nodes), i) /\ o = Offer(q, t, i)
  <2>1. o \in here <=> \E q \in Paths : o \in Offers(q) /\ o.to = t
    BY DEF AllOffers
  <2>2. \A q \in Paths : o \in Offers(q) /\ o.to = t <=>
                           \E i : Offered(t, Last(q.nodes), i) /\ o = Offer(q, t, i)
    BY <1>3, OffersAre DEF Settled
  <2>. QED
    BY <2>1, <2>2
<1>5. ASSUME NEW o \in here
      PROVE  \E v, i : /\ By(v, i) /\ Cost(v, i) \in Nat /\ o.cost \in Nat /\ Cost(v, i) <= o.cost
                       /\ o.cost = Cost(v, i) /\ ~Cut(v, i) => o.hop \in Hops(v, i)
  <2>1. PICK q \in Paths : \E i : Offered(t, Last(q.nodes), i) /\ o = Offer(q, t, i)
    BY <1>4
  <2>2. PICK i : Offered(t, Last(q.nodes), i) /\ o = Offer(q, t, i)
    BY <2>1
  <2>. DEFINE v == Last(q.nodes)
  <2>3. /\ By(v, i) /\ Cost(v, i) \in Nat /\ o.cost \in Nat /\ Cost(v, i) <= o.cost
        /\ o.cost = Cost(v, i) /\ ~Cut(v, i) => o.hop \in Hops(v, i)
    BY <2>2, PathOffers
  <2>. HIDE DEF v, By, Cost, Hops, Cut, here
  <2>. QED
    BY <2>3
<1>6. ASSUME NEW v, NEW i, By(v, i), NEW x \in Hops(v, i)
      PROVE  \E o \in here : o.cost = Cost(v, i) /\ o.hop = x
  <2>1. v \in OnTree(c) /\ Offered(t, v, i)
    BY <1>2, <1>6
  <2>2. PICK q \in Paths : /\ Last(q.nodes) = v
                           /\ Offer(q, t, i).cost = Cost(v, i) /\ Offer(q, t, i).hop = x
    BY <1>6, <2>1, TreeOffers
  <2>. DEFINE o == Offer(q, t, i)
  <2>3. o \in here
    <3>1. Offered(t, Last(q.nodes), i)
      BY <2>1, <2>2
    <3>. HIDE DEF here, o
    <3>. QED
      BY <1>4, <3>1 DEF o
  <2>4. o.cost = Cost(v, i) /\ o.hop = x
    BY <2>2
  <2>. HIDE DEF o, here, Cost
  <2>. QED
    BY <2>3, <2>4
<1>7. ASSUME NEW v, NEW i, By(v, i) PROVE Hops(v, i) # {}
  <2>1. HopList(OfferHops(c, v, i))
    BY <1>1, <1>2, <1>7, OfferHopsAre
  <2>. QED
    BY <2>1, EmptyOrNot DEF HopList
<1>8. OfferedBy(t, D) <=> \E v, i : By(v, i)
  BY DEF OfferedBy
<1>9. OfferedBy(t, D) =>
        /\ HopList(e.path) /\ e.cost \in Nat
        /\ \A v, i : By(v, i) => e.cost <= Cost(v, i)
        /\ \A h \in ToSet(e.path) : \E v, i : By(v, i) /\ Cost(v, i) = e.cost /\ h \in Hops(v, i)
        /\ ~Full(e.path) => \A v, i : By(v, i) /\ Cost(v, i) = e.cost =>
                              Hops(v, i) \subseteq ToSet(e.path) /\ ~Cut(v, i)
  BY <1>1 DEF EntryIs, OffersFrom
<1>10. here = {} <=> ~OfferedBy(t, D)
  <2>1. here # {} => \E v, i : By(v, i)
    <3>. HIDE DEF here, By, Cost, Hops
    <3>. QED
      BY <1>5
  <2>2. ASSUME NEW v, NEW i, By(v, i) PROVE here # {}
    <3>1. PICK x : x \in Hops(v, i)
      BY <1>7, <2>2
    <3>. HIDE DEF here, By, Cost, Hops
    <3>. QED
      BY <1>6, <2>2, <3>1
  <2>. HIDE DEF here, By, D
  <2>. QED
    BY <1>8, <2>1, <2>2
<1>11. ASSUME OfferedBy(t, D) PROVE AsOffered(e.cost, e.path, here)
  <2>. DEFINE q == e.path
              P == ToSet(q)
              k == e.cost
              hops == {o.hop : o \in least}
  <2>1. P # {} /\ q # <<>> /\ Len(q) <= MAXPATH
    BY <1>9, <1>11, EmptyOrNot DEF HopList
  <2>2. /\ k \in Nat /\ \A v, i : By(v, i) => k <= Cost(v, i)
        /\ \A h \in P : \E v, i : By(v, i) /\ Cost(v, i) = k /\ h \in Hops(v, i)
        /\ ~Full(q) => \A v, i : By(v, i) /\ Cost(v, i) = k => Hops(v, i) \subseteq P /\ ~Cut(v, i)
    BY <1>9, <1>11
  <2>. HIDE DEF P, k, q, By, Cost, Hops, Cut, here
  <2>3. ASSUME NEW h \in P PROVE \E o \in here : o.cost = k /\ o.hop = h
    <3>1. PICK v, i : By(v, i) /\ Cost(v, i) = k /\ h \in Hops(v, i)
      BY <2>2, <2>3
    <3>. QED
      BY <1>6, <3>1
  <2>4. ASSUME NEW o \in here
        PROVE  o.cost \in Nat /\ k <= o.cost /\ (o.cost = k /\ ~Full(q) => o.hop \in P)
    <3>1. PICK v, i : /\ By(v, i) /\ Cost(v, i) \in Nat /\ o.cost \in Nat /\ Cost(v, i) <= o.cost
                      /\ o.cost = Cost(v, i) /\ ~Cut(v, i) => o.hop \in Hops(v, i)
      BY <1>5, <2>4
    <3>2. k <= Cost(v, i)
      BY <2>2, <3>1
    <3>3. k <= o.cost /\ (o.cost = k => Cost(v, i) = k)
      BY <2>2, <3>1, <3>2
    <3>4. o.cost = k /\ ~Full(q) => o.hop \in P
      <4>1. SUFFICES ASSUME o.cost = k, ~Full(q) PROVE o.hop \in P
        OBVIOUS
      <4>2. Cost(v, i) = k /\ ~Cut(v, i) /\ Hops(v, i) \subseteq P
        BY <2>2, <3>1, <3>3, <4>1
      <4>. QED
        BY <3>1, <4>1, <4>2
    <3>. QED
      BY <3>1, <3>3, <3>4
  <2>5. PICK z \in here : z.cost = k
    BY <2>1, <2>3
  <2>6. \A o \in here : o \in least <=> o.cost = k
    <3>1. ASSUME NEW o \in here, o.cost = k PROVE \A x \in here : o.cost <= x.cost
      BY <2>4, <3>1
    <3>2. ASSUME NEW o \in here, o.cost <= z.cost PROVE o.cost = k
      BY <2>2, <2>4, <2>5, <3>2
    <3>3. ASSUME NEW o \in here PROVE o \in least <=> o.cost = k
      <4>1. o.cost = k => o \in least
        BY <3>1
      <4>2. o \in least => o.cost <= z.cost
        OBVIOUS
      <4>. QED
        BY <3>2, <4>1, <4>2
    <3>. HIDE DEF least
    <3>. QED
      BY <3>3
  <2>7. \A o : o \in least <=> o \in here /\ o.cost = k
    <3>1. \A o \in least : o \in here
      OBVIOUS
    <3>. HIDE DEF least
    <3>. QED
      BY <2>6, <3>1
  <2>8. AsOffered(k, q, here) <=>
          /\ q # <<>> /\ (\A o \in least : k = o.cost) /\ P \subseteq hops
          /\ Len(q) <= MAXPATH /\ (Full(q) \/ hops \subseteq P)
    BY DEF AsOffered, P
  <2>. HIDE DEF least
  <2>9. ASSUME NEW h \in P PROVE h \in hops
    <3>1. PICK o \in here : o.cost = k /\ o.hop = h
      BY <2>3
    <3>2. o \in least
      BY <2>7, <3>1
    <3>. QED
      BY <3>1, <3>2
  <2>10. ASSUME ~Full(q), NEW o \in least PROVE o.hop \in P
    <3>1. o \in here /\ o.cost = k
      BY <2>7
    <3>. QED
      BY <2>4, <2>10, <3>1
  <2>11. \A o \in least : k = o.cost
    BY <2>7
  <2>12. AsOffered(k, q, here)
    BY <2>1, <2>8, <2>9, <2>10, <2>11
  <2>. QED
    BY <2>12 DEF k, q
<1>12. here # {} => AsOffered(e.cost, e.path, here)
  <2>. HIDE DEF here, D
  <2>. QED
    BY <1>10, <1>11
<1>. QED
  BY <1>10, <1>12

\* So what a calculation leaves is fresh.
LEMMA TickFresh ==
    ASSUME Applies, Settled, RteTyped, full_calculation
    PROVE  FreshIn(AllOffers, rte')
<1>. DEFINE c == dijkstra(dijk_init)
            D == LinksOf(OnTree(c))
            after == [p \in Prefix |-> Scanned(c.rte[p], c.run)]
<1>1. Finished(c)
  BY RunEnds DEF Finished
<1>2. rte' = [p \in Prefix |-> [k \in DOMAIN NoRoute |-> after[p][k]]]
  BY DEF full_calculation, rt_scan
<1>3. Carried(c) /\ EntryInv(c, D) /\ Root \in Node
  BY <1>1, RoutesAssumption DEF Finished, CalcInv, Node
<1>. HIDE DEF c
<1>4. c.run = 1 - run /\ run \in {0, 1}
  BY <1>3 DEF Carried, RteTyped
<1>. SUFFICES ASSUME NEW p \in Prefix
              PROVE  LET here == {o \in AllOffers : o.to = p}
                     IN  IF here = {} THEN rte'[p].type = "NONE"
                         ELSE rte'[p].type = "SPF" /\ AsOffered(rte'[p].cost, rte'[p].path, here)
  BY DEF FreshIn
<1>. DEFINE here == {o \in AllOffers : o.to = p}
            e == c.rte[p]
            x == after[p]
<1>5. /\ here = {} <=> ~OfferedBy(p, D)
      /\ here # {} => AsOffered(e.cost, e.path, here)
  BY <1>1, <1>3, EntryDecided
<1>6. /\ rte'[p].type = x.type /\ rte'[p].cost = x.cost /\ rte'[p].path = x.path
  <2>1. rte'[p] = [k \in DOMAIN NoRoute |-> x[k]]
    BY <1>2
  <2>2. DOMAIN NoRoute = {"type", "run", "cost", "path"}
    BY DEF NoRoute
  <2>. HIDE DEF x
  <2>. QED
    BY <2>1, <2>2
<1>7. x = Scanned(e, c.run) /\ EntryIs(c, D, p, e)
  BY <1>3 DEF EntryInv
<1>. HIDE DEF here, e, x, D, after
<1>8. CASE OfferedBy(p, D)
  <2>1. e.type = "SPF" /\ e.run = c.run
    BY <1>7, <1>8 DEF EntryIs
  <2>2. x = e
    BY <1>7, <2>1 DEF Scanned
  <2>3. here # {}
    BY <1>5, <1>8
  <2>4. rte'[p].type = "SPF" /\ AsOffered(rte'[p].cost, rte'[p].path, here)
    BY <1>5, <1>6, <2>1, <2>2, <2>3
  <2>. QED
    BY <2>3, <2>4 DEF here
<1>9. CASE ~OfferedBy(p, D)
  <2>1. e = Unmarked(rte[p])
    BY <1>7, <1>9 DEF EntryIs
  <2>2. /\ rte[p].type \in {"NONE", "SPF"}
        /\ rte[p].type = "SPF" => rte[p].run = run
    BY DEF RteTyped
  <2>3. e.type = rte[p].type /\ e.run = rte[p].run
    BY <2>1 DEF Unmarked
  <2>4. x.type = "NONE"
    <3>1. CASE rte[p].type = "SPF"
      <4>1. e.type = "SPF" /\ e.run # c.run
        BY <1>4, <2>2, <2>3, <3>1
      <4>2. x = [Unmarked(NoRoute) EXCEPT !.changed = TRUE]
        BY <1>7, <4>1 DEF Scanned
      <4>. QED
        BY <4>2 DEF Unmarked, NoRoute
    <3>2. CASE rte[p].type = "NONE"
      <4>1. x = e
        BY <1>7, <2>3, <3>2 DEF Scanned
      <4>. QED
        BY <2>3, <3>2, <4>1
    <3>. QED
      BY <2>2, <3>1, <3>2
  <2>5. here = {} /\ rte'[p].type = "NONE"
    BY <1>5, <1>6, <1>9, <2>4
  <2>. QED
    BY <2>5 DEF here
<1>. QED
  BY <1>8, <1>9

-----------------------------------------------------------------------------
(* What the paths offer changes only with the LSAs that are parsed. *)

ParsedKept ==
    /\ parsed' = parsed
    /\ \A v \in Node : parsed[v] => body'[v] = body[v]

\* The nodes of a path are parsed.
Walk(p) ==
    /\ p.nodes \in Seq(Node) /\ Len(p.nodes) >= 1 /\ parsed[Root]
    /\ \A k \in DOMAIN p.nodes : parsed[p.nodes[k]]
    /\ Len(p.nodes) = 1 => p = Source

LEMMA LastOfWalk ==
    ASSUME NEW p, Walk(p)
    PROVE  Last(p.nodes) \in Node /\ parsed[Last(p.nodes)]
<1>. DEFINE s == p.nodes
            n == Len(s)
<1>1. s \in Seq(Node) /\ n >= 1 /\ \A k \in DOMAIN s : parsed[s[k]]
  BY DEF Walk
<1>2. Last(p.nodes) = s[n]
  BY DEF Last
<1>. HIDE DEF s
<1>3. n \in DOMAIN s /\ s[n] \in Node
  BY <1>1
<1>. QED
  BY <1>1, <1>2, <1>3

LEMMA StepKept ==
    ASSUME ParsedKept, NEW p, Walk(p), NEW w \in Node
    PROVE  Step(p, w)' = Step(p, w)
<1>. DEFINE v == Last(p.nodes)
            link(b, i) == [nodes |-> Append(p.nodes, w), cost |-> p.cost + b[i].cost,
                           link |-> IF p.link = 0 THEN i ELSE p.link]
            to == IF Adjacent(body, parsed, v, w) THEN LinksTo(body[v], w) ELSE {}
            after == IF Adjacent(body', parsed', v, w) THEN LinksTo(body'[v], w) ELSE {}
<1>1. v \in Node /\ parsed[v]
  BY LastOfWalk
<1>2. body'[v] = body[v] /\ parsed' = parsed /\ (parsed[w] => body'[w] = body[w])
  BY <1>1 DEF ParsedKept
<1>3. to = after
  BY <1>2 DEF Adjacent
<1>4. Step(p, w) = {link(body[v], i) : i \in to}
  BY DEF Step
<1>5. Step(p, w)' = {link(body'[v], i) : i \in after}
  BY DEF Step
<1>. HIDE DEF to, after, v, link
<1>. QED
  BY <1>2, <1>3, <1>4, <1>5

LEMMA StepWalks ==
    ASSUME Root \in Node, NEW p, Walk(p), NEW w \in Node, NEW q \in Step(p, w)
    PROVE  Walk(q)
<1>. DEFINE s == p.nodes
            t == Append(s, w)
            n == Len(s)
<1>1. q.nodes = t /\ parsed[w]
  BY DEF Step, Adjacent
<1>2. s \in Seq(Node) /\ n \in Nat /\ n >= 1 /\ parsed[Root] /\ \A k \in 1..n : parsed[s[k]]
  BY DEF Walk
<1>. HIDE DEF s
<1>3. t \in Seq(Node) /\ Len(t) = n + 1 /\ DOMAIN t = 1..(n + 1)
      /\ (\A k \in 1..n : t[k] = s[k]) /\ t[n + 1] = w
  BY <1>2
<1>. HIDE DEF t, n
<1>4. ASSUME NEW k \in 1..(n + 1) PROVE parsed[t[k]]
  <2>1. CASE k = n + 1
    BY <1>1, <1>3, <2>1
  <2>2. CASE k # n + 1
    <3>1. k \in 1..n
      BY <1>2, <2>2
    <3>. QED
      BY <1>2, <1>3, <3>1
  <2>. QED
    BY <2>1, <2>2
<1>5. Len(t) >= 1 /\ Len(t) # 1
  BY <1>2, <1>3
<1>. QED
  BY <1>1, <1>2, <1>3, <1>4, <1>5 DEF Walk

LEMMA OffersKept ==
    ASSUME ParsedKept, Root \in Node, NEW p, Walk(p)
    PROVE  Offers(p)' = Offers(p)
<1>. DEFINE s == p.nodes
            n == Len(s)
            v == Last(s)
<1>1. v \in Node /\ parsed[v]
  BY LastOfWalk
<1>2. s \in Seq(Node) /\ n \in Nat /\ n >= 1 /\ parsed[Root] /\ (\A k \in 1..n : parsed[s[k]])
      /\ (n = 1 => p = Source)
  BY DEF Walk
<1>3. body'[v] = body[v] /\ body'[Root] = body[Root]
  BY <1>1, <1>2 DEF ParsedKept
<1>4. \A k \in 1..n : s[k] \in Node /\ body'[s[k]] = body[s[k]]
  <2>. HIDE DEF s
  <2>1. \A k \in 1..n : s[k] \in Node
    BY <1>2
  <2>. QED
    BY <1>2, <2>1 DEF ParsedKept
<1>5. p # Source => Gateway(p)' = Gateway(p)
  <2>. SUFFICES ASSUME p # Source PROVE Gateway(p)' = Gateway(p)
    OBVIOUS
  <2>1. n >= 2
    <3>. HIDE DEF s, n
    <3>. QED
      BY <1>2
  <2>2. body'[s[2]] = body[s[2]]
    <3>1. 2 \in 1..n
      <4>. HIDE DEF n
      <4>. QED
        BY <1>2, <2>1
    <3>. QED
      BY <1>4, <3>1
  <2>3. n # 2 => body'[s[3]] = body[s[3]]
    <3>1. n # 2 => 3 \in 1..n
      <4>. HIDE DEF n
      <4>. QED
        BY <1>2, <2>1
    <3>. QED
      BY <1>4, <3>1
  <2>. DEFINE At(b, x) == b[Min(LinksTo(b, x))].data
  <2>4. /\ Gateway(p) = IF s[2] \in Router THEN At(body[s[2]], Root)
                        ELSE IF n = 2 THEN 0 ELSE At(body[s[3]], s[2])
        /\ Gateway(p)' = IF s[2] \in Router THEN At(body'[s[2]], Root)
                         ELSE IF n = 2 THEN 0 ELSE At(body'[s[3]], s[2])
    BY DEF Gateway, AddressTo
  <2>. HIDE DEF At, s, n
  <2>. QED
    BY <2>2, <2>3, <2>4
<1>6. ASSUME NEW i PROVE FirstHop(p, i)' = FirstHop(p, i)
  <2>1. CASE p = Source
    BY <1>3, <2>1 DEF FirstHop
  <2>2. CASE p # Source
    <3>1. /\ FirstHop(p, i) = Hop(IfcOf(body[Root][p.link]), Gateway(p))
          /\ FirstHop(p, i)' = Hop(IfcOf(body'[Root][p.link]), Gateway(p)')
      BY <2>2 DEF FirstHop
    <3>. QED
      BY <1>3, <1>5, <2>2, <3>1
  <2>. QED
    BY <2>1, <2>2
<1>. DEFINE hop(i) == FirstHop(p, i)
            newhop(i) == FirstHop(p, i)'
            stubs(b) == {j \in DOMAIN b : b[j].type = "STUB"}
            link(b, i) == [to |-> b[i].id, cost |-> p.cost + b[i].cost, hop |-> hop(i)]
            newlink(b, i) == [to |-> b[i].id, cost |-> p.cost + b[i].cost, hop |-> newhop(i)]
            own == [to |-> Net(LsId[v]), cost |-> p.cost, hop |-> hop(0)]
            newown == [to |-> Net(LsId[v]), cost |-> p.cost, hop |-> newhop(0)]
<1>7. Offers(p) = {link(body[v], i) : i \in stubs(body[v])}
                  \cup (IF v \in Network THEN {own} ELSE {})
  BY DEF Offers
<1>8. Offers(p)' = {newlink(body'[v], i) : i \in stubs(body'[v])}
                   \cup (IF v \in Network THEN {newown} ELSE {})
  BY DEF Offers
<1>9. \A i : hop(i) = newhop(i)
  BY <1>6
<1>. HIDE DEF hop, newhop
<1>10. \A i : newlink(body[v], i) = link(body[v], i)
  BY <1>9
<1>11. newown = own
  BY <1>9
<1>. HIDE DEF v, stubs, link, newlink, own, newown
<1>. QED
  BY <1>3, <1>7, <1>8, <1>10, <1>11

LEMMA LongerKept ==
    ASSUME ParsedKept, Root \in Node, NEW ps, \A p \in ps : Walk(p)
    PROVE  Longer(ps)' = Longer(ps) /\ \A q \in Longer(ps) : Walk(q)
<1>. DEFINE more(p) == UNION {Step(p, w) : w \in Node \ ToSet(p.nodes)}
            newmore(p) == UNION {Step(p, w)' : w \in Node \ ToSet(p.nodes)}
<1>1. Longer(ps) = ps \cup UNION {more(p) : p \in ps}
  BY DEF Longer
<1>2. Longer(ps)' = ps \cup UNION {newmore(p) : p \in ps}
  BY DEF Longer
<1>3. ASSUME NEW p \in ps PROVE newmore(p) = more(p)
  <2>. DEFINE W == Node \ ToSet(p.nodes)
              s(w) == Step(p, w)
              t(w) == Step(p, w)'
  <2>1. \A w \in W : s(w) = t(w)
    BY StepKept
  <2>2. more(p) = UNION {s(w) : w \in W} /\ newmore(p) = UNION {t(w) : w \in W}
    OBVIOUS
  <2>. HIDE DEF s, t, W, more, newmore
  <2>3. {s(w) : w \in W} = {t(w) : w \in W}
    BY <2>1
  <2>. QED
    BY <2>2, <2>3
<1>4. ASSUME NEW p \in ps, NEW q \in more(p) PROVE Walk(q)
  <2>1. PICK w \in Node \ ToSet(p.nodes) : q \in Step(p, w)
    OBVIOUS
  <2>. QED
    BY <2>1, StepWalks
<1>. HIDE DEF more, newmore
<1>5. {more(p) : p \in ps} = {newmore(p) : p \in ps}
  BY <1>3
<1>6. ASSUME NEW q \in Longer(ps) PROVE Walk(q)
  BY <1>1, <1>4
<1>. QED
  BY <1>1, <1>2, <1>5, <1>6

LEMMA PathsKept ==
    ASSUME ParsedKept, Root \in Node
    PROVE  Paths' = Paths /\ \A p \in Paths : Walk(p)
<1>. DEFINE n == Cardinality(Node) - 1
<1>1. PICK h : PathsBy(h)
  BY PathsAre DEF SomePaths
<1>2. PICK g : PathsBy(g)'
  BY PathsAreNext DEF SomePaths
<1>3. n \in Nat
  <2>1. IsFiniteSet(Node)
    BY RoutesAssumption
  <2>2. Cardinality(Node) \in Nat /\ Cardinality(Node) # 0
    BY <2>1, FS_CardinalityType, FS_EmptySet
  <2>. QED
    BY <2>2
<1>4. /\ h[0] = {Source} /\ \A m \in 1..n : h[m] = Longer(h[m - 1])
      /\ Paths = IF parsed[Root] THEN h[n] ELSE {}
  BY <1>1 DEF PathsBy
<1>5. /\ g[0] = {Source} /\ \A m \in 1..n : g[m] = Longer(g[m - 1])'
      /\ Paths' = IF parsed'[Root] THEN g[n] ELSE {}
  BY <1>2 DEF PathsBy, Source
<1>. HIDE DEF n
<1>6. CASE parsed[Root]
  <2>. DEFINE S == {m \in 0..n : g[m] = h[m] /\ \A p \in h[m] : Walk(p)}
  <2>1. 0 \in S
    <3>1. Walk(Source)
      <4>. DEFINE s == <<Root>>
      <4>1. s \in Seq(Node) /\ Len(s) = 1 /\ s[1] = Root /\ DOMAIN s = {1}
        OBVIOUS
      <4>2. Source.nodes = s
        BY DEF Source
      <4>. HIDE DEF s
      <4>. QED
        BY <1>6, <4>1, <4>2 DEF Walk
    <3>. QED
      BY <1>3, <1>4, <1>5, <3>1
  <2>2. ASSUME NEW m \in 1..n, m - 1 \in S PROVE m \in S
    <3>. DEFINE ps == h[m - 1]
    <3>1. g[m - 1] = ps /\ \A p \in ps : Walk(p)
      BY <2>2
    <3>2. h[m] = Longer(ps) /\ g[m] = Longer(g[m - 1])'
      BY <1>4, <1>5
    <3>. HIDE DEF ps
    <3>3. Longer(ps)' = Longer(ps) /\ \A q \in Longer(ps) : Walk(q)
      BY <3>1, LongerKept
    <3>4. Longer(g[m - 1])' = Longer(ps)'
      BY <3>1 DEF Longer
    <3>5. g[m] = h[m] /\ \A q \in h[m] : Walk(q)
      BY <3>2, <3>3, <3>4
    <3>. QED
      BY <1>3, <3>5
  <2>3. n \in S
    <3>. HIDE DEF S
    <3>1. 0..n \subseteq S
      BY <1>3, <2>1, <2>2, UpTo
    <3>. QED
      BY <1>3, <3>1
  <2>. QED
    BY <1>4, <1>5, <1>6, <2>3 DEF ParsedKept
<1>7. CASE ~parsed[Root]
  BY <1>4, <1>5, <1>7 DEF ParsedKept
<1>. QED
  BY <1>6, <1>7

LEMMA AllOffersKept ==
    ASSUME ParsedKept, Root \in Node
    PROVE  AllOffers' = AllOffers
<1>1. Paths' = Paths /\ \A p \in Paths : Offers(p)' = Offers(p)
  BY PathsKept, OffersKept
<1>. DEFINE old(p) == Offers(p)
            new(p) == Offers(p)'
            P == Paths
<1>2. AllOffers = UNION {old(p) : p \in P} /\ AllOffers' = UNION {new(p) : p \in Paths'}
  BY DEF AllOffers
<1>3. Paths' = P /\ \A p \in P : old(p) = new(p)
  BY <1>1
<1>. HIDE DEF old, new, P
<1>4. {old(p) : p \in P} = {new(p) : p \in P}
  BY <1>3
<1>. QED
  BY <1>2, <1>3, <1>4

-----------------------------------------------------------------------------
(* Fresh routes. *)

FreshInv == RoutesInv /\ RootSays /\ RoutesFresh

LEMMA InitFresh == InitRoutes => FreshInv
<1>. SUFFICES ASSUME InitRoutes PROVE FreshInv
  OBVIOUS
<1>1. RoutesInv
  BY InitRoutesInv
<1>2. Root \in Node
  BY RoutesAssumption DEF Node
<1>3. body[Root] = None /\ ~parsed[Root] /\ ifmap = <<>>
  BY <1>2 DEF InitRoutes, InitGraph
<1>4. RootSays
  <2>1. DOMAIN ifmap = 1..0
    BY <1>3
  <2>. QED
    BY <1>3, <2>1 DEF RootSays
<1>5. RoutesFresh
  <2>1. Paths = {}
    BY <1>3 DEF Paths
  <2>2. AllOffers = {}
    BY <2>1 DEF AllOffers
  <2>3. \A p \in Prefix : rte[p].type = "NONE"
    BY DEF InitRoutes, NoRoute
  <2>4. FreshIn(AllOffers, rte)
    BY <2>2, <2>3 DEF FreshIn
  <2>. QED
    BY <2>4, FreshIs
<1>. QED
  BY <1>1, <1>4, <1>5 DEF FreshInv

\* A step of the database asks for a calculation, or keeps what is parsed.
LEMMA ChangeSeen ==
    ASSUME GraphTypeOK, NEW v \in Node,
           Change(v) \/ (parsed[v] /\ Expire(v, body[v]))
    PROVE  full_sched' \/ (ParsedKept /\ full_sched' = full_sched)
<1>1. body = [u \in Node |-> body[u]] /\ parsed \in [Node -> BOOLEAN]
  BY DEF GraphTypeOK
<1>2. CASE \E b : Install(v, b) \/ Expire(v, b)
  BY <1>2 DEF Install, Expire
<1>3. CASE Refresh(v)
  <2>1. body' = [body EXCEPT ![v] = body[v]] /\ parsed' = [parsed EXCEPT ![v] = TRUE]
        /\ parsed[v] /\ full_sched' = full_sched
    BY <1>3 DEF Refresh, Add
  <2>2. body' = body /\ parsed' = parsed
    BY <1>1, <2>1
  <2>. QED
    BY <2>1, <2>2 DEF ParsedKept
<1>4. CASE Delete(v)
  <2>1. /\ ~parsed[v] /\ body' = [body EXCEPT ![v] = None]
        /\ parsed' = parsed /\ full_sched' = full_sched
    BY <1>4 DEF Delete
  <2>2. \A u \in Node : parsed[u] => body'[u] = body[u]
    BY <1>1, <2>1
  <2>. QED
    BY <2>1, <2>2 DEF ParsedKept
<1>. QED
  BY <1>2, <1>3, <1>4 DEF Change

LEMMA FreshKept ==
    ASSUME RoutesFresh, UNCHANGED rte, full_sched' \/ (ParsedKept /\ full_sched' = full_sched)
    PROVE  RoutesFresh'
<1>1. CASE full_sched'
  BY <1>1 DEF RoutesFresh
<1>2. CASE ParsedKept /\ full_sched' = full_sched
  <2>1. Root \in Node
    BY RoutesAssumption DEF Node
  <2>2. AllOffers' = AllOffers
    BY <1>2, <2>1, AllOffersKept
  <2>3. ~full_sched => FreshIn(AllOffers, rte)
    BY FreshIs
  <2>4. ~full_sched' => FreshIn(AllOffers', rte')
    <3>1. FreshIn(AllOffers', rte') <=> FreshIn(AllOffers, rte)
      BY <2>2
    <3>. QED
      BY <1>2, <2>3, <3>1
  <2>. QED
    BY <2>4 DEF RoutesFresh, FreshIn, AsOffered, Full, AllOffers
<1>. QED
  BY <1>1, <1>2

LEMMA OriginateFresh ==
    ASSUME RoutesInv, RootSays, NEW s \in IfcStates, NEW late \in BOOLEAN, rl_orig(s, late)
    PROVE  RootSays' /\ (full_sched' \/ (ParsedKept /\ full_sched' = full_sched))
<1>. DEFINE b == OwnLsa(s)
<1>1. GraphTypeOK /\ Root \in Node /\ body = [v \in Node |-> body[v]]
  BY RoutesAssumption DEF Node, RoutesInv, GraphInv, GraphTypeOK
<1>2. \E n \in Nat : DOMAIN ifmap' = 1..n
  <2>1. ifmap' = [k \in DOMAIN Up(s) |-> Ifaces[Up(s)[k]]]
    BY DEF rl_orig
  <2>2. Up(s) \in Seq(DOMAIN Ifaces)
    BY UpIs
  <2>. DEFINE u == Up(s)
              A == DOMAIN Ifaces
  <2>. HIDE DEF u, A
  <2>3. u \in Seq(A)
    BY <2>2 DEF u, A
  <2>4. Len(u) \in Nat /\ DOMAIN u = 1..Len(u)
    BY <2>3
  <2>5. DOMAIN ifmap' = DOMAIN u
    BY <2>1 DEF u
  <2>. QED
    BY <2>4, <2>5
<1>3. CASE UNCHANGED graph
  <2>1. ParsedKept /\ full_sched' = full_sched /\ body' = body
    BY <1>3 DEF graph, ParsedKept
  <2>2. RootSays'
    BY <1>2, <2>1 DEF RootSays
  <2>. QED
    BY <2>1, <2>2
<1>4. CASE parsed[Root] /\ Expire(Root, body[Root])
  <2>1. body'[Root] = body[Root] /\ full_sched'
    BY <1>1, <1>4 DEF Expire
  <2>2. RootSays'
    BY <1>2, <2>1 DEF RootSays
  <2>. QED
    BY <2>1, <2>2
<1>5. CASE Install(Root, b)
  <2>1. body'[Root] = b /\ full_sched'
    BY <1>1, <1>5 DEF Install, Add
  <2>2. RootSays'
    BY <1>2, <2>1 DEF RootSays
  <2>. QED
    BY <2>1, <2>2
<1>6. UNCHANGED graph \/ (parsed[Root] /\ Expire(Root, body[Root])) \/ Install(Root, b)
  BY DEF rl_orig
<1>. QED
  BY <1>3, <1>4, <1>5, <1>6

LEMMA FreshStep == Applies /\ FreshInv /\ [NextRoutes]_routes => FreshInv'
<1>. SUFFICES ASSUME Applies, FreshInv, [NextRoutes]_routes PROVE FreshInv'
  OBVIOUS
<1>1. RoutesInv'
  BY RoutesStep DEF FreshInv, Applies
<1>2. /\ RoutesInv /\ RootSays /\ RoutesFresh /\ GraphTypeOK /\ Root \in Node
      /\ body = [v \in Node |-> body[v]]
  BY RoutesAssumption DEF Node, FreshInv, RoutesInv, GraphInv, GraphTypeOK
<1>3. ASSUME UNCHANGED ifmap, body'[Root] # None => body'[Root] = body[Root] PROVE RootSays'
  <2>1. body'[Root] # None => \E s \in IfcStates : body'[Root] = OwnLsa(s)
    BY <1>2, <1>3 DEF RootSays
  <2>2. \E n \in Nat : DOMAIN ifmap' = 1..n
    BY <1>2, <1>3 DEF RootSays
  <2>. QED
    BY <2>1, <2>2 DEF RootSays
<1>4. CASE Originate
  <2>1. PICK s \in IfcStates, late \in BOOLEAN : rl_orig(s, late)
    BY <1>4 DEF Originate
  <2>2. RootSays' /\ (full_sched' \/ (ParsedKept /\ full_sched' = full_sched))
    BY <1>2, <2>1, OriginateFresh
  <2>3. RoutesFresh'
    BY <1>2, <2>1, <2>2, FreshKept DEF rl_orig
  <2>. QED
    BY <1>1, <2>2, <2>3 DEF FreshInv
<1>5. CASE \E v \in Node \ {Root} : Others(v)
  <2>1. PICK v \in Node \ {Root} : Others(v)
    BY <1>5
  <2>2. body'[Root] = body[Root]
    BY <1>2, <2>1 DEF Others, Change, Install, Add, Expire, Refresh, Delete
  <2>3. RootSays'
    BY <1>3, <2>1, <2>2 DEF Others
  <2>4. RoutesFresh'
    BY <1>2, <2>1, ChangeSeen, FreshKept DEF Others
  <2>. QED
    BY <1>1, <2>3, <2>4 DEF FreshInv
<1>6. CASE Own
  <2>1. Change(Root) \/ (parsed[Root] /\ Expire(Root, body[Root]))
    BY <1>6 DEF Own, Change
  <2>2. body'[Root] # None => body'[Root] = body[Root]
    <3>1. CASE Refresh(Root)
      BY <1>2, <3>1 DEF Refresh, Add
    <3>2. CASE Expire(Root, body[Root])
      BY <1>2, <3>2 DEF Expire
    <3>3. CASE Delete(Root)
      BY <1>2, <3>3 DEF Delete
    <3>. QED
      BY <1>6, <3>1, <3>2, <3>3 DEF Own
  <2>3. RootSays'
    BY <1>3, <1>6, <2>2 DEF Own
  <2>4. RoutesFresh'
    BY <1>2, <1>6, <2>1, ChangeSeen, FreshKept DEF Own
  <2>. QED
    BY <1>1, <2>3, <2>4 DEF FreshInv
<1>7. CASE Tick
  <2>1. full_calculation /\ UNCHANGED <<body, parsed, ifmap>>
    BY <1>7 DEF Tick, full_calculation, Calculated
  <2>2. RootSays'
    BY <1>3, <2>1
  <2>3. Settled /\ RteTyped
    BY <1>2 DEF Settled, RoutesInv
  <2>4. FreshIn(AllOffers, rte')
    BY <2>1, <2>3, TickFresh
  <2>5. AllOffers' = AllOffers
    BY <1>2, <2>1, AllOffersKept DEF ParsedKept
  <2>6. FreshIn(AllOffers', rte')
    BY <2>4, <2>5
  <2>7. RoutesFresh'
    BY <2>6 DEF RoutesFresh, FreshIn, AsOffered, Full, AllOffers
  <2>. QED
    BY <1>1, <2>2, <2>7 DEF FreshInv
<1>8. CASE UNCHANGED routes
  <2>1. UNCHANGED <<body, parsed, full_sched, ifmap, rte>>
    BY <1>8 DEF routes, graph
  <2>2. RootSays'
    BY <1>3, <2>1
  <2>3. RoutesFresh'
    BY <1>2, <2>1, FreshKept DEF ParsedKept
  <2>. QED
    BY <1>1, <2>2, <2>3 DEF FreshInv
<1>. QED
  BY <1>4, <1>5, <1>6, <1>7, <1>8 DEF NextRoutes

\* Whenever no calculation is due, each entry has the least cost of all paths that the
\* contents of the database offer (or there is none and no path), next hops only of paths of
\* that cost and, unless MAXPATH fill its list, the next hops of all of them.
THEOREM RoutesFreshHolds == ASSUME UniqueIds PROVE SpecRoutes => []RoutesFresh
<1>1. Applies
  BY DEF Applies
<1>2. FreshInv => RoutesFresh
  BY DEF FreshInv
<1>3. FreshInv /\ [NextRoutes]_routes => FreshInv'
  BY <1>1, FreshStep
<1>. QED
  BY <1>2, <1>3, InitFresh, PTL DEF SpecRoutes
=============================================================================
