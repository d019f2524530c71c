------------------------------- MODULE AgeBins -------------------------------
(***************************************************************************)
(* How LSAs age (LSA.h, LSA.cpp): a circular array of bins, each a doubly     *)
(* linked list of the LSAs of one age.  Bin0 is the bin of age 0; to let every *)
(* LSA grow older by a second, OSPF::dbage only advances it.  Before Bin0      *)
(* comes round, maxage_lsas has to empty the bin of MaxAge, walking a list     *)
(* from which it removes what it visits.  What readers of an LSA see of this   *)
(* is module Ages, which AgeBins implements.                                   *)
(***************************************************************************)
EXTENDS Integers

CONSTANTS
    Lsa,        \* the LSA objects
    MaxAge,
    DoNotAge,   \* lsa_rcvage of an LSA that does not age
    NoLsa       \* the null pointer

ASSUME AgeAssumption ==
    /\ MaxAge \in Nat \ {0}
    /\ DoNotAge \in Nat /\ DoNotAge > MaxAge
    /\ NoLsa \notin Lsa

VARIABLES
    Bin0,
    lists,      \* the bins and the fields of the LSAs that link them
    db,         \* the LSAs of the database
    pc,         \* where dbage is: "done", "dbage", or "maxage" in maxage_lsas
    lsap        \* the next LSA that the loop of maxage_lsas visits

vars == <<Bin0, lists, db, pc, lsap>>

Bins == 0..MaxAge
RcvAges == (0..MaxAge) \cup {DoNotAge}
Pointers == Lsa \cup {NoLsa}

Lists ==
    [bins : [Bins -> Pointers],         \* LSA::AgeBins: the first of each bin
     rcvage : [Lsa -> RcvAges],         \* lsa_rcvage
     agebin : [Lsa -> Bins],            \* lsa_agebin
     in_agebin : SUBSET Lsa,           \* those with the flag set
     fwd : [Lsa -> Pointers],           \* lsa_agefwd
     rv : [Lsa -> Pointers],            \* lsa_agerv
     rest : [Lsa -> SUBSET Lsa]]        \* auxiliary: those behind x in its bin

TypeOK ==
    /\ Bin0 \in Bins
    /\ lists \in Lists
    /\ db \subseteq Lsa
    /\ pc \in {"done", "dbage", "maxage"}
    /\ lsap \in Pointers

\* Both from age to bin (Age2Bin) and from bin to age (Bin2Age).
Age2Bin(x) == IF x <= Bin0 THEN Bin0 - x ELSE MaxAge + 1 + Bin0 - x
Bin2Age(b) == Age2Bin(b)

is_aging(x) == x \in db /\ lists.rcvage[x] \notin {DoNotAge, MaxAge}

lsa_age(x) ==
    IF is_aging(x) THEN Bin2Age(lists.agebin[x]) ELSE lists.rcvage[x]

since_received(x) ==
    IF is_aging(x) THEN lsa_age(x) - lists.rcvage[x]
    ELSE Bin2Age(lists.agebin[x])

Init ==
    /\ Bin0 = 0
    /\ lists = [bins |-> [b \in Bins |-> NoLsa],
                rcvage |-> [x \in Lsa |-> 0], agebin |-> [x \in Lsa |-> 0],
                in_agebin |-> {},
                fwd |-> [x \in Lsa |-> NoLsa], rv |-> [x \in Lsa |-> NoLsa],
                rest |-> [x \in Lsa |-> {}]]
    /\ db = {}
    /\ pc = "done"
    /\ lsap = NoLsa

-----------------------------------------------------------------------------
(* The lists. *)

InBin(L, b) == {x \in L.in_agebin : L.agebin[x] = b}

\* Mutant: the LSA behind x keeps pointing back at it.
stop_agingForwardOnly(L, x) ==
    IF x \notin L.in_agebin THEN L
    ELSE [L EXCEPT
            !.bins = IF L.rv[x] = NoLsa THEN [@ EXCEPT ![L.agebin[x]] = L.fwd[x]] ELSE @,
            !.in_agebin = @ \ {x},
            !.fwd = [y \in Lsa |-> IF y = x THEN NoLsa
                                   ELSE IF y = L.rv[x] THEN L.fwd[x] ELSE @[y]],
            !.rv = [@ EXCEPT ![x] = NoLsa],
            !.rest = [y \in Lsa |-> IF y = x THEN {} ELSE @[y] \ {x}]]

stop_aging(L, x) ==
    IF x \notin L.in_agebin THEN L
    ELSE [L EXCEPT
            !.bins = IF L.rv[x] = NoLsa THEN [@ EXCEPT ![L.agebin[x]] = L.fwd[x]] ELSE @,
            !.in_agebin = @ \ {x},
            !.fwd = [y \in Lsa |-> IF y = x THEN NoLsa
                                   ELSE IF y = L.rv[x] THEN L.fwd[x] ELSE @[y]],
            !.rv = [y \in Lsa |-> IF y = x THEN NoLsa
                                  ELSE IF y = L.fwd[x] THEN L.rv[x] ELSE @[y]],
            !.rest = [y \in Lsa |-> IF y = x THEN {} ELSE @[y] \ {x}]]

\* Put x, which is in no bin, in front of bin b.
PushFront(L, x, b) ==
    [L EXCEPT
        !.agebin[x] = b,
        !.in_agebin = @ \cup {x},
        !.fwd[x] = L.bins[b],
        !.rv = [y \in Lsa |-> IF y = x THEN NoLsa
                              ELSE IF y = L.bins[b] THEN x ELSE @[y]],
        !.bins[b] = x,
        !.rest[x] = InBin(L, b)]

\* At MaxAge it goes to MaxAge_list instead, but remembers the bin of age 0.
start_aging(L, x) ==
    LET off == stop_aging(L, x)
    IN  IF L.rcvage[x] = MaxAge THEN [off EXCEPT !.agebin[x] = Age2Bin(0)]
        ELSE PushFront(off, x, Age2Bin(IF L.rcvage[x] = DoNotAge THEN 0 ELSE L.rcvage[x]))

-----------------------------------------------------------------------------
(* The steps. *)

\* AddLSA: the LSA in x, or none, is replaced by one of age rcv in the same
\* object, or in another if x is on some list.
AddLSA(x, y, rcv) ==
    /\ y = x \/ y \notin db
    /\ db' = (db \ {x}) \cup {y}
    /\ lists' = start_aging([(IF x = NoLsa THEN lists ELSE stop_aging(lists, x))
                             EXCEPT !.rcvage[y] = rcv], y)

\* Called by handlers, by deferred_lsas and do_refreshes in dbage, or in the
\* middle of maxage_lsas, when the flooding of an LSA at MaxAge ends the last
\* exchange and the own router-LSA is originated: it is refreshed long before it
\* gets to the bin that is walked (RefreshedInTime of LsaLife).
Add(x, y, rcv) ==
    /\ pc = "maxage" => x \notin InBin(lists, Age2Bin(MaxAge))
    /\ x \in db \cup {NoLsa}
    /\ AddLSA(x, y, rcv)
    /\ UNCHANGED <<Bin0, pc, lsap>>

DeleteLSA(x) ==
    /\ pc = "done" /\ x \in db
    /\ db' = db \ {x}
    /\ lists' = stop_aging(lists, x)
    /\ UNCHANGED <<Bin0, pc, lsap>>

\* Mutant: the array is taken to have MaxAge bins.
dbageShort ==
    /\ pc = "done"
    /\ Bin0' = IF Bin0 + 1 >= MaxAge THEN 0 ELSE Bin0 + 1
    /\ pc' = "dbage"
    /\ UNCHANGED <<lists, db, lsap>>

dbage ==
    /\ pc = "done"
    /\ Bin0' = IF Bin0 + 1 > MaxAge THEN 0 ELSE Bin0 + 1
    /\ pc' = "dbage"
    /\ UNCHANGED <<lists, db, lsap>>

\* maxage_lsas, one turn of its loop at a time.
maxage_lsas ==
    /\ pc = "dbage"
    /\ pc' = "maxage"
    /\ lsap' = lists.bins[Age2Bin(MaxAge)]
    /\ UNCHANGED <<Bin0, lists, db>>

\* Mutant: the next LSA is taken after the visit.
VisitNextAfter ==
    /\ pc = "maxage" /\ lsap # NoLsa
    /\ \/ lists.rcvage[lsap] = DoNotAge /\ UNCHANGED <<lists, db>>
       \/ \E y \in Lsa : AddLSA(lsap, y, MaxAge)
    /\ lsap' = lists'.fwd[lsap]
    /\ UNCHANGED <<Bin0, pc>>

\* An LSA that does not age stays if it is an own one (lsa_hour is counted) or
\* its originator is reachable.
Visit ==
    /\ pc = "maxage" /\ lsap # NoLsa
    /\ lsap' = lists.fwd[lsap]
    /\ \/ lists.rcvage[lsap] = DoNotAge /\ UNCHANGED <<lists, db>>
       \/ \E y \in Lsa : AddLSA(lsap, y, MaxAge)
    /\ UNCHANGED <<Bin0, pc>>

LoopEnds ==
    /\ pc = "maxage" /\ lsap = NoLsa
    /\ pc' = "done"
    /\ UNCHANGED <<Bin0, lists, db, lsap>>

Next ==
    \/ \E x \in Pointers, y \in Lsa, rcv \in RcvAges : Add(x, y, rcv)
    \/ \E x \in Lsa : DeleteLSA(x)
    \/ dbage
    \/ maxage_lsas
    \/ Visit
    \/ LoopEnds

Spec == Init /\ [][Next]_vars

-----------------------------------------------------------------------------
(* Properties. *)

\* The list of each bin is well linked: the LSAs that say they are in the bin
\* are the first of the list and those behind it, which agefwd and agerv link
\* in both directions.
FirstSound(L, b) ==
    LET h == L.bins[b]
    IN  /\ InBin(L, b) = IF h = NoLsa THEN {} ELSE {h} \cup L.rest[h]
        /\ h # NoLsa => L.rv[h] = NoLsa

ForwardSound(L, x) ==
    LET f == L.fwd[x]
    IN  /\ x \notin L.rest[x]
        /\ L.rest[x] = IF f = NoLsa THEN {} ELSE {f} \cup L.rest[f]
        /\ L.rest[x] \subseteq InBin(L, L.agebin[x])
        /\ f # NoLsa => L.rv[f] = x

BackwardSound(L, x) ==
    LET r == L.rv[x]
    IN  IF r = NoLsa THEN L.bins[L.agebin[x]] = x
        ELSE r \in InBin(L, L.agebin[x]) /\ L.fwd[r] = x

BehindSound(L, x) == \A y \in L.rest[x] : L.rest[y] \subseteq L.rest[x]

WellLinked(L) ==
    /\ \A b \in Bins : FirstSound(L, b)
    /\ \A x \in L.in_agebin :
          ForwardSound(L, x) /\ BackwardSound(L, x) /\ BehindSound(L, x)

LinksSound == WellLinked(lists)

\* No LSA that ages is left in the bin of MaxAge when Bin0 goes on.
NoneMissed ==
    pc = "done" =>
        \A x \in InBin(lists, Age2Bin(MaxAge)) : lists.rcvage[x] = DoNotAge

\* While maxage_lsas walks the bin of MaxAge, those it has still to expire are
\* before it, although it unlinks the ones it visits.
AllAhead ==
    pc = "maxage" =>
        LET old == InBin(lists, Age2Bin(MaxAge))
        IN  /\ lsap = NoLsa \/ lsap \in old
            /\ \A x \in old : lists.rcvage[x] # DoNotAge =>
                  lsap # NoLsa /\ (x = lsap \/ x \in lists.rest[lsap])

\* No LSA becomes younger than it was received.
NotYounger ==
    \A x \in Lsa : is_aging(x) => lists.rcvage[x] <= Bin2Age(lists.agebin[x])

\* The bins implement the ages that the other modules see.
rcvd == [x \in Lsa |-> IF x \in db THEN lists.rcvage[x] ELSE 0]
since == [x \in Lsa |-> IF x \in db THEN since_received(x) ELSE 0]

Abstract == INSTANCE Ages WITH present <- db, rcvd <- rcvd, since <- since

ImplementsAges == Abstract!AgesSpec

=============================================================================
