------------------------------- MODULE LsaLife -------------------------------
(***************************************************************************)
(* The life of link state advertisements in the database of one router:     *)
(* origination and the interval between two of them (ospfOrig.cpp, the ends  *)
(* of rtrLSA.cpp and netLSA.cpp), reception, ageing, refreshing, flushing,    *)
(* removal, and the wrap-around of the sequence number (LSA.cpp).            *)
(*                                                                         *)
(* The OSPF object is a record d, and each function that changes it an       *)
(* operator from the old record to the new one.  Ages are integers here: that *)
(* the circular array of age bins implements them is shown in AgeBins.       *)
(***************************************************************************)
EXTENDS Integers, Sequences, FiniteSets, FiniteSetsExt

CONSTANTS
    Rtr, Net,       \* the router's own router-LSAs (one) and network-LSAs
    Foreign,        \* LSAs of other routers
    Nbr,            \* neighbours
    RcvAges,        \* ages of the LSAs that neighbours send
    Bodies,         \* contents of an LSA
    Nothing,        \* there is no such LSA, or nothing to say in it
    InitLSSeq, MaxLSSeq,
    MinLSInterval, LSRefreshTime, MaxAgeDiff, MaxAge, MinArrival

Own == Rtr \cup Net
Lsa == Own \cup Foreign

InvalidLSSeq == InitLSSeq - 1

ASSUME LifeAssumption ==
    /\ Rtr \cap Net = {} /\ Own \cap Foreign = {}
    /\ IsFiniteSet(Lsa) /\ IsFiniteSet(Nbr)
    /\ Nothing \notin Bodies
    /\ RcvAges \subseteq 0..MaxAge
    /\ {InitLSSeq, MaxLSSeq, MinLSInterval, LSRefreshTime,
        MaxAgeDiff, MaxAge, MinArrival} \subseteq Nat \ {0}
    /\ InitLSSeq < MaxLSSeq
    /\ MinArrival <= MinLSInterval /\ MinLSInterval < LSRefreshTime
    /\ LSRefreshTime + MaxAgeDiff < MaxAge

VARIABLES
    ospf,   \* the OSPF object: database, lists, refresh bins
    want,   \* want[k]: what the state of the interfaces makes own LSA k say
    nbrs,   \* neighbours in Exchange or above: what is flooded, they must ack
    dbx,    \* a neighbour is in Exchange or Loading: n_dbx_nbrs # 0
    calm    \* from now on interfaces and neighbours do not change

vars == <<ospf, want, nbrs, dbx, calm>>

Slots == 0..(MaxAgeDiff - 1)
Seqs == InvalidLSSeq..MaxLSSeq

Instances ==
    [seq : Seqs,                    \* lsa_seqno
     rcv : 0..MaxAge,               \* lsa_rcvage
     since : 0..MaxAge,             \* seconds since then
     body : Bodies,
     deferring : BOOLEAN, rollover : BOOLEAN, min_failed : BOOLEAN,
     rxmt : SUBSET Nbr]             \* on their retransmission lists: lsa_rxmt

ASSUME NothingAssumption == Nothing \notin Instances

Databases ==
    [db : [Lsa -> Instances \cup {Nothing}],
     maxage : SUBSET Lsa,                       \* MaxAge_list
     pending : Seq([lsa : Own, valid : BOOLEAN]),   \* pending_refresh
     bins : [Slots -> Nat],                     \* RefreshBins
     bin0 : Slots,                              \* RefreshBin0
     echoed : SUBSET Own]       \* auxiliary: see accept

\* Besides the types: the bins of the refresh schedule count the entries of
\* pending_refresh.
TypeOK ==
    /\ ospf \in Databases
    /\ MapThenSumSet(LAMBDA i : ospf.bins[i], Slots) = Len(ospf.pending)
    /\ want \in [Own -> Bodies \cup {Nothing}]
    /\ nbrs \subseteq Nbr
    /\ dbx \in BOOLEAN /\ calm \in BOOLEAN

Age(x) == IF x.rcv = MaxAge THEN MaxAge ELSE x.rcv + x.since

Init ==
    /\ ospf = [db |-> [k \in Lsa |-> Nothing], maxage |-> {}, pending |-> <<>>,
               bins |-> [i \in Slots |-> 0], bin0 |-> 0, echoed |-> {}]
    /\ want = [k \in Own |-> Nothing]
    /\ nbrs = {}
    /\ dbx = FALSE
    /\ calm = FALSE

-----------------------------------------------------------------------------
(* Adding an instance. *)

\* What becomes of the entries of pending_refresh when k's object is replaced
\* or leaves the database: they stay in the list, as entries of an invalid LSA.
Orphan(pending, k) ==
    [i \in DOMAIN pending |->
        IF pending[i].lsa = k THEN [pending[i] EXCEPT !.valid = FALSE]
        ELSE pending[i]]

\* Mutant: an instance that arrives at MaxAge is not put on MaxAge_list.
AddLSAUnlisted(d, k, seq, rcv, body) ==
    LET old == d.db[k]
    IN  [d EXCEPT
          !.db[k] = [seq |-> seq, rcv |-> rcv, since |-> 0, body |-> body,
                     deferring |-> FALSE,
                     rollover |-> old # Nothing /\ old.rollover,
                     min_failed |-> old # Nothing /\ old.since < MinArrival,
                     rxmt |-> {}],
          !.maxage = @ \ {k},
          !.pending = Orphan(@, k)]

\* An object on no list is reused, another is replaced by a new one: either
\* way the new instance is on no list but, at MaxAge, MaxAge_list.
AddLSA(d, k, seq, rcv, body) ==
    LET old == d.db[k]
    IN  [d EXCEPT
          !.db[k] = [seq |-> seq, rcv |-> rcv, since |-> 0, body |-> body,
                     deferring |-> FALSE,
                     rollover |-> old # Nothing /\ old.rollover,
                     min_failed |-> old # Nothing /\ old.since < MinArrival,
                     rxmt |-> {}],
          !.maxage = IF rcv = MaxAge THEN @ \cup {k} ELSE @ \ {k},
          !.pending = Orphan(@, k)]

\* LSA::flood (its effect on open requests is in DDExchange).
flood(d, k, from) == [d EXCEPT !.db[k].rxmt = nbrs \ from]

age_prematurely(d, k) ==
    flood(AddLSA(d, k, d.db[k].seq, MaxAge, d.db[k].body), k, {})

lsa_flush(d, k) ==
    IF d.db[k] = Nothing \/ Age(d.db[k]) = MaxAge THEN d ELSE age_prematurely(d, k)

-----------------------------------------------------------------------------
(* Originating. *)

\* ospf_get_seqno puts the origination off.
TooSoon(x, forced) ==
    ~forced /\ x # Nothing /\ x.rcv # MaxAge /\ Age(x) < MinLSInterval

\* cmp_contents of the database copy x with a new instance of age 0.
Differs(x, body) == x = Nothing \/ x.body # body \/ Age(x) = MaxAge

\* ospf_get_seqno and lsa_reorig.  After the last sequence number the LSA is
\* flushed first; free_maxage_lsas then starts again with the first number.
reorig(d, k, body, forced) ==
    LET x == d.db[k]
    IN  IF TooSoon(x, forced) THEN [d EXCEPT !.db[k].deferring = TRUE]
        ELSE IF x # Nothing /\ x.seq = MaxLSSeq
             THEN age_prematurely([d EXCEPT !.db[k].rollover = TRUE,
                                            !.echoed = @ \ {k}], k)
        ELSE IF ~forced /\ ~Differs(x, body) THEN d
        ELSE IF body = Nothing THEN lsa_flush(d, k)
        ELSE flood(AddLSA([d EXCEPT !.echoed = @ \ {k}], k,
                          IF x = Nothing THEN InitLSSeq ELSE x.seq + 1, 0, body),
                   k, {})

\* rl_orig takes the sequence number before it looks whether there is anything
\* to say, nl_orig the other way round.
orig(d, k, w, forced) ==
    IF k \in Net /\ w[k] = Nothing THEN lsa_flush(d, k)
    ELSE reorig(d, k, w[k], forced)

\* A neighbour sends an own LSA that is newer than the database copy, or the
\* network-LSA of another router for an address that is one of the own now.
originated(d, k, n, seq, rcv, body) ==
    LET old == d.db[k]
        added == AddLSA(d, k, seq, rcv, body)
    IN  IF k \notin Own \/ old = Nothing \/ Age(old) = MaxAge THEN lsa_flush(added, k)
        ELSE IF seq = MaxLSSeq THEN lsa_flush([added EXCEPT !.db[k].rollover = TRUE], k)
        ELSE orig(flood(added, k, {n}), k, want, TRUE)

-----------------------------------------------------------------------------
(* The parts of OSPF::dbage, which runs once a second. *)

Present(d) == {k \in Lsa : d.db[k] # Nothing}

\* The LSAs in the bin of age a.
Aging(d, a) == {k \in Present(d) : d.db[k].rcv # MaxAge /\ Age(d.db[k]) = a}

OneSecond(d) ==
    [d EXCEPT !.db = [k \in Lsa |->
        IF d.db[k] = Nothing THEN Nothing
        ELSE [d.db[k] EXCEPT !.since = (@ + 1) % (MaxAge + 1)]]]

\* Mutant: the origination is repeated one second too early.
deferred_lsasEarly(d) ==
    LET Again(k, e) == orig([e EXCEPT !.db[k].deferring = FALSE], k, want, FALSE)
    IN  FoldSet(Again, d,
                {k \in Aging(d, MinLSInterval - 1) \cap Own : d.db[k].deferring})

\* What the loop does with LSA k.
Reoriginate(k, e) == orig([e EXCEPT !.db[k].deferring = FALSE], k, want, FALSE)

deferred_lsas(d) ==
    FoldSet(Reoriginate, d, {k \in Aging(d, MinLSInterval) \cap Own : d.db[k].deferring})

\* i is the random second of the next MaxAgeDiff.
schedule_refresh(k, i, e) ==
    [e EXCEPT !.bins[i] = @ + 1, !.pending = Append(@, [lsa |-> k, valid |-> TRUE])]

refresh_lsas(d, slot) ==
    FoldSet(LAMBDA k, e : schedule_refresh(k, slot[k], e), d, Aging(d, LSRefreshTime) \cap Own)

maxage_lsas(d) ==
    FoldSet(LAMBDA k, e : age_prematurely(e, k), d, Aging(d, MaxAge))

\* The first entry is refreshed if it is worth it.
RefreshFirst(i, e) ==
    IF e.pending = <<>> THEN e
    ELSE LET first == Head(e.pending)
             rest == [e EXCEPT !.pending = Tail(@)]
         IN  IF ~first.valid \/ Age(e.db[first.lsa]) = MaxAge THEN rest
             ELSE orig(rest, first.lsa, want, TRUE)

\* Mutant: the bin that was served keeps its count.
do_refreshesUncounted(d) ==
    FoldSet(RefreshFirst, [d EXCEPT !.bin0 = (@ + 1) % MaxAgeDiff], 1..d.bins[d.bin0])

\* Mutant: a refresh only if something changed.
do_refreshesUnforced(d) ==
    LET Refresh(i, e) ==
            IF e.pending = <<>> THEN e
            ELSE LET first == Head(e.pending)
                     rest == [e EXCEPT !.pending = Tail(@)]
                 IN  IF ~first.valid \/ Age(e.db[first.lsa]) = MaxAge THEN rest
                     ELSE orig(rest, first.lsa, want, FALSE)
    IN  FoldSet(Refresh, [d EXCEPT !.bins[d.bin0] = 0,
                                   !.bin0 = (@ + 1) % MaxAgeDiff], 1..d.bins[d.bin0])

do_refreshes(d) ==
    FoldSet(RefreshFirst,
            [d EXCEPT !.bins[d.bin0] = 0, !.bin0 = (@ + 1) % MaxAgeDiff], 1..d.bins[d.bin0])

\* What becomes of LSA k when nobody has to acknowledge it any more: an own one
\* whose number rolls over gets the invalid one and starts afresh.
Free(k, e) ==
    IF e.db[k].rollover
    THEN orig([e EXCEPT !.maxage = @ \ {k}, !.db[k].rollover = FALSE,
                        !.db[k].seq = InvalidLSSeq], k, want, TRUE)
    ELSE [e EXCEPT !.maxage = @ \ {k}, !.db[k] = Nothing, !.pending = Orphan(@, k)]

\* Mutant: not waiting for the acknowledgements.
free_maxage_lsasUnacked(d) ==
    IF dbx THEN d ELSE FoldSet(Free, d, d.maxage)

free_maxage_lsas(d) ==
    IF dbx THEN d ELSE FoldSet(Free, d, {k \in d.maxage : d.db[k].rxmt = {}})

-----------------------------------------------------------------------------
(* The steps. *)

\* A change of the interfaces and neighbours, all of which call rl_orig(false)
\* or nl_orig(false), or such a call without a change.
Change(k) ==
    \E body \in Bodies \cup {Nothing} :
        /\ ~calm
        /\ want' = [want EXCEPT ![k] = body]
        /\ ospf' = orig(ospf, k, want', FALSE)
        /\ UNCHANGED <<nbrs, dbx, calm>>

\* cmp_instance(hdr) > 0, for checksums that differ only with the number.
Newer(x, seq, rcv) ==
    IF x = Nothing THEN TRUE
    ELSE \/ seq > x.seq
         \/ /\ seq = x.seq /\ Age(x) # MaxAge
            /\ rcv = MaxAge \/ rcv + MaxAgeDiff < Age(x)

\* The newer instance is accepted as it is; the auxiliary set echoed remembers
\* that an own LSA was, until it is originated again.
accept(d, k, n, seq, rcv, body) ==
    LET e == flood(AddLSA(d, k, seq, rcv, body), k, {n})
    IN  IF k \in Own THEN [e EXCEPT !.echoed = @ \cup {k}] ELSE e

\* recv_update of an instance that is newer than the database copy: an own one
\* is only looked at if it says something else than the copy.  Whether an LSA of
\* another router bears an own address changes with the interfaces: left open.
RecvUpdate(k, n) ==
    \E seq \in InitLSSeq..MaxLSSeq, rcv \in RcvAges, body \in Bodies,
       bearsOwn \in BOOLEAN :
        LET x == ospf.db[k]
            changes == x = Nothing \/ x.body # body \/ (rcv = MaxAge <=> Age(x) # MaxAge)
        IN  /\ n \in nbrs
            /\ Newer(x, seq, rcv)
            /\ IF x = Nothing THEN rcv # MaxAge \/ dbx
               ELSE ~(x.since < MinArrival /\ x.min_failed)
            /\ ospf' = IF changes /\ (k \in Own \/ bearsOwn)
                       THEN originated(ospf, k, n, seq, rcv, body)
                       ELSE accept(ospf, k, n, seq, rcv, body)
            /\ UNCHANGED <<want, nbrs, dbx, calm>>

\* remove_from_retranslist, on an acknowledgement or the same instance.
RecvAck(k, n) ==
    /\ ospf.db[k] # Nothing
    /\ n \in ospf.db[k].rxmt
    /\ ospf' = [ospf EXCEPT !.db[k].rxmt = @ \ {n}]
    /\ UNCHANGED <<want, nbrs, dbx, calm>>

\* send_dd puts an LSA of the snapshot that is at MaxAge on the retransmission
\* list of a neighbour instead of describing it.
SendDD(k, n) ==
    /\ dbx /\ n \in nbrs
    /\ ospf.db[k] # Nothing /\ Age(ospf.db[k]) = MaxAge
    /\ n \notin ospf.db[k].rxmt
    /\ ospf' = [ospf EXCEPT !.db[k].rxmt = @ \cup {n}]
    /\ UNCHANGED <<want, nbrs, dbx, calm>>

\* DBageTimer::action.
Tick ==
    /\ \E slot \in [Own -> Slots] :
          ospf' = free_maxage_lsas(do_refreshes(maxage_lsas(
                      refresh_lsas(deferred_lsas(OneSecond(ospf)), slot))))
    /\ UNCHANGED <<want, nbrs, dbx, calm>>

\* Neighbours begin and give up exchanges: clear_retrans_list.
NbrUp(n) ==
    /\ ~calm /\ n \notin nbrs
    /\ nbrs' = nbrs \cup {n}
    /\ dbx' = TRUE
    /\ UNCHANGED <<ospf, want, calm>>

NbrDown(n) ==
    /\ ~calm /\ n \in nbrs
    /\ nbrs' = nbrs \ {n}
    /\ dbx' \in IF nbrs' = {} THEN {FALSE} ELSE {FALSE, dbx}
    /\ ospf' = [ospf EXCEPT !.db = [k \in Lsa |->
                    IF ospf.db[k] = Nothing THEN Nothing
                    ELSE [ospf.db[k] EXCEPT !.rxmt = @ \ {n}]]]
    /\ UNCHANGED <<want, calm>>

ExchangeOver == dbx /\ dbx' = FALSE /\ UNCHANGED <<ospf, want, nbrs, calm>>

Next ==
    \/ \E k \in Own : Change(k)
    \/ \E k \in Lsa, n \in Nbr :
        RecvUpdate(k, n) \/ RecvAck(k, n) \/ SendDD(k, n)
    \/ Tick
    \/ \E n \in Nbr : NbrUp(n) \/ NbrDown(n)
    \/ ExchangeOver

Spec == Init /\ [][Next]_vars

\* The environment may settle.  The tick is an interval timer that is never
\* stopped (it moves RefreshBin0), what neighbours do not acknowledge they are
\* sent again until they do, and exchanges end.
Settle == ~calm /\ calm' = TRUE /\ UNCHANGED <<ospf, want, nbrs, dbx>>

FairSpec ==
    /\ Init /\ [][Next \/ Settle]_vars
    /\ []<><<ospf'.bin0 # ospf.bin0>>_vars
    /\ \A k \in Lsa, n \in Nbr : WF_vars(RecvAck(k, n))
    /\ WF_vars(ExchangeOver)

-----------------------------------------------------------------------------
(* Properties. *)

Has(k) == ospf.db[k] # Nothing

\* What the database says of an own LSA is what the interfaces want it to say,
\* or the origination is put off for less than MinLSInterval, or the LSA is on
\* its way out, to come back if its sequence number rolled over.
Current(k) ==
    IF ~Has(k) THEN want[k] = Nothing
    ELSE LET x == ospf.db[k]
         IN  \/ x.body = want[k] /\ Age(x) # MaxAge
             \/ x.deferring /\ x.rcv # MaxAge /\ Age(x) < MinLSInterval
             \/ Age(x) = MaxAge /\ (want[k] = Nothing \/ x.rollover)

\* No change is lost, except when a neighbour returns an own LSA with a larger
\* number and the contents of the database copy.
NoChangeLost == \A k \in Own : Current(k) \/ k \in ospf.echoed

\* When nothing changes any more, every flushed LSA leaves the database, or
\* starts afresh.
Expired(k) ==
    Has(k) /\ Age(ospf.db[k]) = MaxAge /\ ospf.db[k].seq # InvalidLSSeq

FlushedLeaves ==
    \A k \in Lsa : calm /\ Expired(k) ~> ~Expired(k)

\* With the same exception, an own LSA is refreshed within MaxAgeDiff seconds of
\* LSRefreshTime, whatever else is scheduled with it.
RefreshedInTime ==
    \A k \in Own \ ospf.echoed : Has(k) /\ ospf.db[k].rcv # MaxAge =>
        Age(ospf.db[k]) < LSRefreshTime + MaxAgeDiff

\* An instance is only replaced by a newer one, unless the sequence number starts
\* again, and then only after every neighbour has acknowledged that the instance
\* with the last number is flushed.
ReplacedByNewer(k) ==
    Has(k) /\ Has(k)' =>
        LET x == ospf.db[k]
            y == ospf'.db[k]
        IN  \/ y.seq > x.seq
            \/ y.seq = x.seq /\ (Age(x) = MaxAge => Age(y) = MaxAge)
            \/ /\ x.seq = MaxLSSeq /\ ~dbx
               /\ nbrs = {} \/ (Age(x) = MaxAge /\ x.rxmt = {})

\* No step replaces an instance by an older one, unless its number rolls over.
NeverOlder == [][\A k \in Lsa : ReplacedByNewer(k)]_vars

=============================================================================
