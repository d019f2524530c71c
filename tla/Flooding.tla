------------------------------ MODULE Flooding ------------------------------
(***************************************************************************)
(* Flooding and retransmission in one router (ospfAck.cpp, ospfUpdate.cpp):   *)
(* LSA::flood puts a new instance on the retransmission list of every         *)
(* neighbour, which holds it until the neighbour acknowledges it.  A list is   *)
(* in three parts: retrans, not yet sent again; pend_retrans, sent again and    *)
(* waiting for the acknowledgement; failed_retrans, which waited in vain.       *)
(* How many packets are sent at once grows with the acknowledgements.          *)
(***************************************************************************)
EXTENDS Integers, Sequences, FiniteSets, FiniteSetsExt, SequencesExt

CONSTANTS
    Nbr,
    None,           \* no neighbour
    Key,            \* what identifies an LSA
    MaxInstances,   \* bound of the instances of all the LSAs together
    PktLsas,        \* LSAs that fit into a packet
    max_retrans_window

ASSUME FloodingAssumption ==
    /\ None \notin Nbr /\ IsFiniteSet(Nbr)
    /\ {MaxInstances, PktLsas, max_retrans_window} \subseteq Nat \ {0}

VARIABLES
    last,       \* last[k]: how many instances of k there have been
    db,         \* the LSA objects in the database, which are those that are valid
    young,      \* those received less than RxmtInterval ago
    lsa_rxmt,   \* lsa_rxmt[k]: that field of the LSA object in the database
    nbr,        \* nbr[n]: the retransmission lists of neighbour n
    ddlist,     \* ddlist[n]: those on that list of n that are at MaxAge
    calm        \* from now on nothing changes

vars == <<last, db, young, lsa_rxmt, nbr, ddlist, calm>>

\* An LSA object: the i-th instance of k.
Objects == Key \X (Nat \ {0})
valid(o) == o \in db
Current(k) == <<k, last[k]>>

Neighbours ==
    [up : BOOLEAN,                  \* in Exchange, Loading or Full
     retrans : Seq(Objects), pend : Seq(Objects), failed : Seq(Objects),
     cnt : Nat,                     \* retrans_cnt
     window : 1..max_retrans_window,
     lsat : BOOLEAN]                \* the retransmission timer runs

Quiet == [up |-> FALSE, retrans |-> <<>>, pend |-> <<>>, failed |-> <<>>,
          cnt |-> 0, window |-> 1, lsat |-> FALSE]

Entries(r) == r.retrans \o r.pend \o r.failed

TypeOK ==
    /\ last \in [Key -> Nat]
    /\ db \subseteq {Current(k) : k \in Key}
    /\ young \subseteq Key
    /\ lsa_rxmt \in [Key -> 0..Cardinality(Nbr)]
    /\ nbr \in [Nbr -> Neighbours]
    /\ ddlist \in [Nbr -> SUBSET Objects]
    /\ calm \in BOOLEAN

Init ==
    /\ last = [k \in Key |-> 0]
    /\ db = {}
    /\ young = {}
    /\ lsa_rxmt = [k \in Key |-> 0]
    /\ nbr = [n \in Nbr |-> Quiet]
    /\ ddlist = [n \in Nbr |-> {}]
    /\ calm = FALSE

-----------------------------------------------------------------------------
(* What is sent again. *)

IsYoung(o) == valid(o) /\ o[1] \in young

\* The LSAs of list s that are in S.
Among(s, S) ==
    LET kept[i \in 0..Len(s)] ==
            IF i = 0 THEN <<>>
            ELSE IF s[i] \in S THEN Append(kept[i - 1], s[i])
            ELSE kept[i - 1]
    IN  kept[Len(s)]

ValidIn(s) == Among(s, db)

\* The longest beginning of list s without a young LSA and with at most m
\* valid ones: the calls of get_next_retrans that take m LSAs from it, drop
\* the invalid ones among them.
Beginning(s, m) ==
    Max({i \in 0..Len(s) : /\ \A j \in 1..i : ~IsYoung(s[j])
                           /\ Len(ValidIn(SubSeq(s, 1, i))) <= m})

From(s, i) == SubSeq(s, i + 1, Len(s))

\* The loop of retrans_updates, up to m LSAs: those of failed_retrans only
\* when retrans is at its end or at a young LSA, whose age is not looked at in
\* failed_retrans.
Resend(r, m) ==
    LET i == Beginning(r.retrans, m)
        blocked == i < Len(r.retrans) /\ ~IsYoung(r.retrans[i + 1])
        sent1 == ValidIn(SubSeq(r.retrans, 1, i))
        j == IF blocked THEN 0
             ELSE Max({e \in 0..Len(r.failed) :
                         Len(ValidIn(SubSeq(r.failed, 1, e))) <= m - Len(sent1)})
        sent == sent1 \o ValidIn(SubSeq(r.failed, 1, j))
    IN  [r EXCEPT !.retrans = From(@, i), !.failed = From(@, j),
                  !.pend = @ \o sent, !.cnt = @ - (i + j - Len(sent))]

Waits(r) == r.retrans # <<>> /\ IsYoung(r.retrans[1])

\* Mutant: the timer is not started for what has been sent.
retrans_updatesOnce(r) ==
    LET s == Resend(r, r.window * PktLsas)
    IN  [s EXCEPT !.lsat = @ \/ Waits(s)]

retrans_updates(r) ==
    LET s == Resend(r, r.window * PktLsas)
    IN  [s EXCEPT !.lsat = @ \/ Len(s.pend) > Len(r.pend) \/ Waits(s)]

-----------------------------------------------------------------------------
(* Putting on the lists and removing from them. *)

add_to_retranslist(r, o) ==
    [r EXCEPT !.retrans = Append(@, o), !.cnt = @ + 1,
              !.lsat = @ \/ r.cnt = 0]

Acked(s, o) == Among(s, Range(s) \ {o})

Widen(r) == [r EXCEPT !.window = Min({2 * @, max_retrans_window}), !.lsat = FALSE]

\* When all that was sent again has been acknowledged, more is sent at once.
remove_from_pending_retrans(r, o) ==
    LET rest == [r EXCEPT !.pend = Acked(@, o)]
    IN  IF rest.pend # <<>> THEN rest ELSE retrans_updates(Widen(rest))

remove_from_retranslist(r, o) ==
    LET after ==
            CASE Contains(r.retrans, o) -> [r EXCEPT !.retrans = Acked(@, o)]
              [] Contains(r.pend, o) -> remove_from_pending_retrans(r, o)
              [] OTHER -> [r EXCEPT !.failed = Acked(@, o)]
    IN  [after EXCEPT !.cnt = @ - 1]

\* Mutant: what is collected is not counted.
garbage_collectUncounted(r) ==
    [r EXCEPT !.retrans = ValidIn(@), !.failed = ValidIn(@)]

garbage_collect(r) ==
    LET retrans == ValidIn(r.retrans)
        failed == ValidIn(r.failed)
    IN  [r EXCEPT !.retrans = retrans, !.failed = failed,
                  !.cnt = @ - (Len(r.retrans) - Len(retrans))
                            - (Len(r.failed) - Len(failed))]

\* LSATimer::action.  The call of get_next_retrans drops only what
\* retrans_updates would drop too.
Expire(r) ==
    LET moved == [r EXCEPT !.lsat = FALSE, !.pend = <<>>, !.failed = @ \o r.pend]
    IN  garbage_collect(retrans_updates([moved EXCEPT
            !.window = IF Resend(moved, 1).pend # <<>> THEN 1 ELSE @]))

-----------------------------------------------------------------------------
(* The steps. *)

\* AddLSA and flood of a new instance, from neighbour n or originated (n =
\* None).  Neighbours of whom it has been requested (asked) and the one it came
\* from are left out.
Install(k, n, asked) ==
    /\ ~calm /\ FoldFunction(+, 0, last) < MaxInstances
    /\ n # None => nbr[n].up
    /\ LET o == <<k, last[k] + 1>>
           to == {x \in Nbr : nbr[x].up /\ x # n} \ asked
       IN  /\ last' = [last EXCEPT ![k] = @ + 1]
           /\ db' = (db \ {Current(k)}) \cup {o}
           /\ young' = young \cup {k}
           /\ lsa_rxmt' = [lsa_rxmt EXCEPT ![k] = Cardinality(to)]
           /\ nbr' = [x \in Nbr |-> IF x \in to THEN add_to_retranslist(nbr[x], o)
                                    ELSE nbr[x]]
    /\ UNCHANGED <<ddlist, calm>>

\* RxmtInterval has passed since the instance was received.
GrowOld(k) ==
    /\ k \in young
    /\ young' = young \ {k}
    /\ UNCHANGED <<last, db, lsa_rxmt, nbr, ddlist, calm>>

\* recv_ack, or recv_update of the same instance.
RecvAck(n, k) ==
    LET o == Current(k)
    IN  /\ valid(o) /\ Contains(Entries(nbr[n]), o)
        /\ nbr' = [nbr EXCEPT ![n] = remove_from_retranslist(@, o)]
        /\ lsa_rxmt' = [lsa_rxmt EXCEPT ![k] = @ - 1]
        /\ UNCHANGED <<last, db, young, ddlist, calm>>

LSATimer(n) ==
    /\ nbr[n].lsat
    /\ nbr' = [nbr EXCEPT ![n] = Expire(@)]
    /\ UNCHANGED <<last, db, young, lsa_rxmt, ddlist, calm>>

\* free_maxage_lsas and DeleteLSA: nobody has to acknowledge it any more.
DeleteLSA(k) ==
    /\ ~calm /\ Current(k) \in db /\ lsa_rxmt[k] = 0
    /\ db' = db \ {Current(k)}
    /\ UNCHANGED <<last, young, lsa_rxmt, nbr, ddlist, calm>>

\* The list of what is to be described to the neighbour has all LSAs of the
\* database on it.  Which of them are at MaxAge is left open; one that gets
\* there later is replaced by a new object, as it is on a list.
NbrUp(n) ==
    /\ ~calm /\ ~nbr[n].up
    /\ nbr' = [nbr EXCEPT ![n].up = TRUE]
    /\ \E old \in SUBSET db : ddlist' = [ddlist EXCEPT ![n] = old]
    /\ UNCHANGED <<last, db, young, lsa_rxmt, calm>>

\* The loop of send_dd, for an LSA at MaxAge: it is not described but sent, and
\* has to be acknowledged.
SendDD(n, o) ==
    /\ o \in ddlist[n]
    /\ ddlist' = [ddlist EXCEPT ![n] = @ \ {o}]
    /\ IF valid(o)
       THEN /\ nbr' = [nbr EXCEPT ![n] = add_to_retranslist(@, o)]
            /\ lsa_rxmt' = [lsa_rxmt EXCEPT ![o[1]] = @ + 1]
       ELSE UNCHANGED <<nbr, lsa_rxmt>>
    /\ UNCHANGED <<last, db, young, calm>>

\* Mutant: the LSAs are not told that the neighbour has gone.
NbrDownUntold(n) ==
    /\ ~calm /\ nbr[n].up
    /\ nbr' = [nbr EXCEPT ![n] = Quiet]
    /\ ddlist' = [ddlist EXCEPT ![n] = {}]
    /\ UNCHANGED <<last, db, young, lsa_rxmt, calm>>

\* clear_retrans_list, called by nba_clr_lists.
NbrDown(n) ==
    /\ ~calm /\ nbr[n].up
    /\ nbr' = [nbr EXCEPT ![n] = Quiet]
    /\ ddlist' = [ddlist EXCEPT ![n] = {}]
    /\ lsa_rxmt' = [k \in Key |->
          IF Contains(Entries(nbr[n]), Current(k)) THEN lsa_rxmt[k] - 1
          ELSE lsa_rxmt[k]]
    /\ UNCHANGED <<last, db, young, calm>>

Next ==
    \/ \E k \in Key, n \in Nbr \cup {None}, asked \in SUBSET Nbr :
          Install(k, n, asked)
    \/ \E k \in Key, n \in Nbr : RecvAck(n, k)
    \/ \E k \in Key : GrowOld(k) \/ DeleteLSA(k)
    \/ \E n \in Nbr : LSATimer(n) \/ NbrUp(n) \/ NbrDown(n)
    \/ \E n \in Nbr : \E o \in ddlist[n] : SendDD(n, o)

Spec == Init /\ [][Next]_vars

\* The other routers and the interfaces may come to rest.
Settle ==
    /\ ~calm /\ calm' = TRUE
    /\ UNCHANGED <<last, db, young, lsa_rxmt, nbr, ddlist>>

\* The steps LSATimer(n) and RecvAck(n, k) that change anything, and a
\* condition under which the timer's does, in terms that are cheap to evaluate
\* on a pair of states.
ListsChange(n) ==
    nbr'[n] # nbr[n] /\ nbr'[n].up = nbr[n].up /\ last' = last
Expires(n) == ListsChange(n) /\ lsa_rxmt' = lsa_rxmt
Acks(n, k) == ListsChange(n) /\ lsa_rxmt'[k] < lsa_rxmt[k]

Due(n) ==
    LET r == nbr[n]
    IN  /\ r.lsat
        /\ \/ r.failed # <<>>
           \/ r.retrans # <<>> /\ ~Waits(r)
           \/ \E i \in DOMAIN r.pend : ~valid(r.pend[i])

\* Timers expire, LSAs grow old, and what is sent to a neighbour again and
\* again is acknowledged in the end.
FairSpec ==
    /\ Init /\ [][Next \/ Settle]_vars
    /\ \A n \in Nbr : []<>~Due(n) \/ []<><<Expires(n)>>_vars
    /\ \A k \in Key : []<>(k \notin young) \/ []<><<k \notin young'>>_vars
    /\ \A n \in Nbr, k \in Key :
          <>[]~Contains(nbr[n].pend, Current(k)) \/ []<><<Acks(n, k)>>_vars

-----------------------------------------------------------------------------
(* Properties. *)

\* retrans_cnt counts the entries of the three lists, on which no LSA is twice;
\* while it is not 0, the timer runs.
CountIsRight ==
    \A n \in Nbr : /\ nbr[n].cnt = Len(Entries(nbr[n]))
                   /\ IsInjective(Entries(nbr[n]))
                   /\ nbr[n].cnt > 0 => nbr[n].lsat

\* lsa_rxmt, which keeps an LSA at MaxAge in the database, counts the
\* neighbours that have to acknowledge it.
RxmtIsRight ==
    \A k \in Key : Current(k) \in db =>
        lsa_rxmt[k] = Cardinality({n \in Nbr : Contains(Entries(nbr[n]), Current(k))})

\* When nothing changes any more, every neighbour acknowledges everything.
AllAcknowledged ==
    calm ~> \A n \in Nbr : Entries(nbr[n]) = <<>>

=============================================================================
