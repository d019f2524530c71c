---------------------------- MODULE AgeBinsProofs ----------------------------
(***************************************************************************)
(* Proofs about AgeBins, for every MaxAge and every set of LSAs: its lists    *)
(* stay well linked, no LSA is missed at MaxAge, and the bins implement Ages. *)
(***************************************************************************)
EXTENDS AgeBins, TLAPS

-----------------------------------------------------------------------------
(* stop_aging and PushFront keep the lists well linked. *)

\* stop_aging keeps the types of the fields.
LEMMA StopType ==
    ASSUME NEW L \in Lists, NEW x \in Lsa
    PROVE  stop_aging(L, x) \in Lists
  <1> USE AgeAssumption DEF AgeAssumption
  <1>1. CASE x \notin L.in_agebin
    BY <1>1 DEF stop_aging
  <1>2. CASE x \in L.in_agebin
    BY <1>2 DEF stop_aging, Lists, Pointers
  <1> QED BY <1>1, <1>2 DEF Lists

\* M is L without x, field by field.
Stopped(L, M, x) ==
    /\ M.rcvage = L.rcvage /\ M.agebin = L.agebin
    /\ M.in_agebin = L.in_agebin \ {x}
    /\ \A b \in Bins : M.bins[b] = IF L.rv[x] = NoLsa /\ b = L.agebin[x] THEN L.fwd[x]
                                  ELSE L.bins[b]
    /\ \A y \in Lsa :
          /\ M.fwd[y] = IF y = x THEN NoLsa
                        ELSE IF y = L.rv[x] THEN L.fwd[x] ELSE L.fwd[y]
          /\ M.rv[y] = IF y = x THEN NoLsa
                       ELSE IF y = L.fwd[x] THEN L.rv[x] ELSE L.rv[y]
          /\ M.rest[y] = IF y = x THEN {} ELSE L.rest[y] \ {x}

\* That is what stop_aging does to an LSA that is in a bin.
LEMMA StopFields ==
    ASSUME NEW L \in Lists, NEW x \in Lsa, x \in L.in_agebin
    PROVE  Stopped(L, stop_aging(L, x), x)
  BY DEF stop_aging, Lists, Stopped

\* Taking an LSA out of its bin leaves the lists well linked.
LEMMA StopLinked ==
    ASSUME NEW L \in Lists, WellLinked(L), NEW x \in Lsa, x \in L.in_agebin
    PROVE  WellLinked(stop_aging(L, x))
  <1> DEFINE M == stop_aging(L, x)
             b0 == L.agebin[x]
             f0 == L.fwd[x]
             r0 == L.rv[x]
  <1> USE AgeAssumption DEF AgeAssumption
  <1>s. Stopped(L, M, x)
    BY StopFields
  <1> HIDE DEF M
  <1>f. /\ M.rcvage = L.rcvage /\ M.agebin = L.agebin
        /\ M.in_agebin = L.in_agebin \ {x}
        /\ \A b \in Bins : M.bins[b] = IF r0 = NoLsa /\ b = b0 THEN f0 ELSE L.bins[b]
        /\ \A y \in Lsa :
             /\ M.fwd[y] = IF y = x THEN NoLsa ELSE IF y = r0 THEN f0 ELSE L.fwd[y]
             /\ M.rv[y] = IF y = x THEN NoLsa ELSE IF y = f0 THEN r0 ELSE L.rv[y]
             /\ M.rest[y] = IF y = x THEN {} ELSE L.rest[y] \ {x}
    BY <1>s DEF Stopped
  <1>t. /\ L.in_agebin \subseteq Lsa
        /\ \A y \in Lsa : L.agebin[y] \in Bins /\ L.fwd[y] \in Pointers
                          /\ L.rv[y] \in Pointers /\ L.rest[y] \subseteq Lsa
        /\ \A b \in Bins : L.bins[b] \in Pointers
    BY DEF Lists
  <1>i. \A b \in Bins : InBin(M, b) = InBin(L, b) \ {x}
    BY <1>f DEF InBin
  <1>x. ForwardSound(L, x) /\ BackwardSound(L, x) /\ BehindSound(L, x)
    BY DEF WellLinked
  <1>n. f0 # NoLsa => f0 \in Lsa /\ f0 # x /\ x \notin L.rest[f0]
    BY <1>x, <1>t DEF ForwardSound, Pointers
  <1>0. \A y \in L.in_agebin :
            ForwardSound(L, y) /\ BackwardSound(L, y) /\ BehindSound(L, y)
    BY DEF WellLinked
  <1>1. ASSUME NEW b \in Bins PROVE FirstSound(M, b)
    <2>1. FirstSound(L, b)
      BY DEF WellLinked
    <2>2. CASE r0 = NoLsa /\ b = b0
      <3>1. L.bins[b] = x
        BY <2>2, <1>x DEF BackwardSound
      <3>2. InBin(M, b) = L.rest[x]
        BY <3>1, <2>1, <1>i, <1>x DEF FirstSound, ForwardSound
      <3>3. M.bins[b] = f0
        BY <2>2, <1>f
      <3>4. f0 # NoLsa => M.rest[f0] = L.rest[f0] /\ M.rv[f0] = r0
        <4>1. f0 # NoLsa => M.rest[f0] = L.rest[f0] \ {x} /\ M.rv[f0] = r0
          BY <1>n, <1>f
        <4> QED BY <4>1, <1>n
      <3> QED BY <3>2, <3>3, <3>4, <2>2, <1>x DEF FirstSound, ForwardSound
    <2>3. CASE ~(r0 = NoLsa /\ b = b0)
      <3>1. M.bins[b] = L.bins[b]
        BY <2>3, <1>f
      <3>2. L.bins[b] # x
        BY <2>3, <2>1, <1>x DEF FirstSound, BackwardSound, InBin
      <3>3. CASE L.bins[b] = NoLsa
        BY <3>1, <3>3, <2>1, <1>i DEF FirstSound
      <3>4. CASE L.bins[b] # NoLsa
        <4>1. L.bins[b] \in Lsa
          BY <3>4, <1>t DEF Pointers
        <4>2. InBin(M, b) = {M.bins[b]} \cup M.rest[M.bins[b]]
          <5>1. M.rest[L.bins[b]] = L.rest[L.bins[b]] \ {x}
            BY <4>1, <3>2, <1>f
          <5>2. InBin(M, b) = ({L.bins[b]} \cup L.rest[L.bins[b]]) \ {x}
            BY <3>4, <2>1, <1>i DEF FirstSound
          <5> QED BY <5>1, <5>2, <3>1, <3>2
        <4>3. L.bins[b] # f0
          BY <4>1, <2>1, <3>4, <1>x DEF FirstSound, ForwardSound
        <4>4. M.rv[L.bins[b]] = NoLsa
          BY <4>1, <4>3, <3>2, <3>4, <2>1, <1>f DEF FirstSound
        <4> QED BY <4>2, <4>4, <3>1, <3>4 DEF FirstSound
      <3> QED BY <3>3, <3>4
    <2> QED BY <2>2, <2>3
  <1>2. ASSUME NEW y \in M.in_agebin
        PROVE  ForwardSound(M, y) /\ BackwardSound(M, y) /\ BehindSound(M, y)
    <2>1. y \in L.in_agebin /\ y \in Lsa /\ y # x
      BY <1>2, <1>f, <1>t
    <2>2. ForwardSound(L, y) /\ BackwardSound(L, y) /\ BehindSound(L, y)
      BY <2>1, <1>0
    <2>3. ForwardSound(M, y)
      <3>1. y \notin M.rest[y] /\ M.rest[y] \subseteq InBin(M, M.agebin[y])
        <4>1. y \notin L.rest[y] /\ L.rest[y] \subseteq InBin(L, L.agebin[y])
          BY <2>2 DEF ForwardSound
        <4>2. M.rest[y] = L.rest[y] \ {x} /\ M.agebin[y] = L.agebin[y]
          BY <2>1, <1>f
        <4>3. InBin(M, L.agebin[y]) = InBin(L, L.agebin[y]) \ {x}
          BY <2>1, <1>i, <1>t
        <4> QED BY <4>1, <4>2, <4>3
      <3>2. CASE y = r0
        <4>1. L.fwd[y] = x
          BY <3>2, <2>1, <1>x, <1>t DEF BackwardSound
        <4>2. M.fwd[y] = f0 /\ M.rest[y] = L.rest[x]
          <5>1. M.fwd[y] = f0 /\ M.rest[y] = L.rest[y] \ {x}
            BY <3>2, <2>1, <1>f
          <5>2. x # NoLsa /\ L.rest[y] = {x} \cup L.rest[x]
            BY <4>1, <2>2 DEF ForwardSound
          <5>3. x \notin L.rest[x]
            BY <1>x DEF ForwardSound
          <5> QED BY <5>1, <5>2, <5>3
        <4> QED BY <4>2, <3>1, <3>2, <2>1, <1>n, <1>f, <1>x DEF ForwardSound
      <3>3. CASE y # r0
        <4>1. M.fwd[y] = L.fwd[y]
          BY <3>3, <2>1, <1>f
        <4>2. L.fwd[y] # x
          BY <3>3, <2>2 DEF ForwardSound
        <4>3. CASE L.fwd[y] = NoLsa
          BY <4>1, <4>3, <3>1, <2>1, <2>2, <1>f DEF ForwardSound
        <4>4. CASE L.fwd[y] # NoLsa
          <5>1. L.fwd[y] \in Lsa
            BY <4>4, <2>1, <1>t DEF Pointers
          <5>2. L.fwd[y] # f0
            BY <5>1, <4>4, <2>1, <2>2, <1>x DEF ForwardSound
          <5>3. M.rest[y] = L.rest[y] \ {x} /\ M.rest[L.fwd[y]] = L.rest[L.fwd[y]] \ {x}
            BY <5>1, <4>2, <2>1, <1>f
          <5>4. M.rest[y] = {M.fwd[y]} \cup M.rest[M.fwd[y]]
            BY <5>3, <4>1, <4>2, <4>4, <2>2 DEF ForwardSound
          <5>5. M.rv[M.fwd[y]] = y
            <6>1. M.rv[L.fwd[y]] = L.rv[L.fwd[y]]
              BY <5>1, <5>2, <4>2, <1>f
            <6> QED BY <6>1, <4>1, <4>4, <2>2 DEF ForwardSound
          <5> QED BY <5>4, <5>5, <4>1, <4>4, <3>1 DEF ForwardSound
        <4> QED BY <4>3, <4>4
      <3> QED BY <3>2, <3>3
    <2>4. BackwardSound(M, y)
      <3>1. CASE y = f0
        <4>1. L.rv[y] = x /\ M.rv[y] = r0
          BY <3>1, <2>1, <1>f, <1>x, <1>t DEF ForwardSound
        <4>2. L.agebin[y] = b0
          BY <4>1, <2>2 DEF BackwardSound, InBin
        <4>3. CASE r0 = NoLsa
          BY <4>1, <4>2, <4>3, <3>1, <1>f, <1>t DEF BackwardSound
        <4>4. CASE r0 # NoLsa
          <5>1. r0 \in Lsa /\ r0 # x
            BY <4>4, <1>t, <1>x DEF BackwardSound, ForwardSound, Pointers
          <5>2. r0 \in InBin(M, b0) /\ M.fwd[r0] = f0
            <6>1. r0 \in InBin(L, b0) /\ b0 \in Bins
              BY <4>4, <1>t, <1>x DEF BackwardSound
            <6>2. r0 \in InBin(M, b0)
              BY <6>1, <5>1, <1>i
            <6>3. M.fwd[r0] = f0
              BY <5>1, <1>f
            <6> QED BY <6>2, <6>3
          <5> QED BY <5>2, <4>1, <4>2, <4>4, <3>1, <1>f DEF BackwardSound
        <4> QED BY <4>3, <4>4
      <3>2. CASE y # f0
        <4>1. M.rv[y] = L.rv[y]
          BY <3>2, <2>1, <1>f
        <4>2. L.rv[y] # x
          BY <3>2, <2>2 DEF BackwardSound
        <4>3. CASE L.rv[y] = NoLsa
          BY <4>1, <4>3, <2>1, <2>2, <1>f, <1>t, <1>x DEF BackwardSound
        <4>4. CASE L.rv[y] # NoLsa
          <5>1. L.rv[y] \in Lsa /\ L.rv[y] # r0
            BY <4>4, <2>1, <2>2, <1>t, <1>x DEF BackwardSound, Pointers
          <5>2. L.agebin[y] \in Bins /\ L.rv[y] \in InBin(L, L.agebin[y])
            BY <4>4, <2>1, <2>2, <1>t DEF BackwardSound
          <5>3. L.rv[y] \in InBin(M, M.agebin[y])
            BY <5>2, <4>2, <1>f, <1>i
          <5>4. M.fwd[L.rv[y]] = y
            BY <5>1, <4>2, <4>4, <2>2, <1>f DEF BackwardSound
          <5> QED BY <5>3, <5>4, <4>1, <4>4 DEF BackwardSound
        <4> QED BY <4>3, <4>4
      <3> QED BY <3>1, <3>2
    <2>5. BehindSound(M, y)
      <3>1. M.rest[y] = L.rest[y] \ {x}
        BY <2>1, <1>f
      <3>2. ASSUME NEW z \in M.rest[y] PROVE M.rest[z] \subseteq M.rest[y]
        <4>1. z \in Lsa /\ z # x /\ L.rest[z] \subseteq L.rest[y]
          BY <3>1, <3>2, <2>1, <2>2, <1>t DEF BehindSound
        <4>2. M.rest[z] = L.rest[z] \ {x}
          BY <4>1, <1>f
        <4> QED BY <4>1, <4>2, <3>1
      <3> QED BY <3>2 DEF BehindSound
    <2> QED BY <2>3, <2>4, <2>5
  <1> QED BY <1>1, <1>2 DEF WellLinked, M

\* PushFront, field by field.
Pushed(L, M, x, b) ==
    /\ M \in Lists
    /\ M.rcvage = L.rcvage
    /\ M.in_agebin = L.in_agebin \cup {x}
    /\ \A c \in Bins : M.bins[c] = IF c = b THEN x ELSE L.bins[c]
    /\ \A y \in Lsa :
          /\ M.agebin[y] = IF y = x THEN b ELSE L.agebin[y]
          /\ M.fwd[y] = IF y = x THEN L.bins[b] ELSE L.fwd[y]
          /\ M.rv[y] = IF y = x THEN NoLsa ELSE IF y = L.bins[b] THEN x ELSE L.rv[y]
          /\ M.rest[y] = IF y = x THEN InBin(L, b) ELSE L.rest[y]

LEMMA PushFields ==
    ASSUME NEW L \in Lists, NEW x \in Lsa, NEW b \in Bins
    PROVE  Pushed(L, PushFront(L, x, b), x, b)
  <1>1. InBin(L, b) \subseteq Lsa
    BY DEF InBin, Lists
  <1>2. PushFront(L, x, b) \in Lists
    <2> DEFINE rv == [y \in Lsa |-> IF y = x THEN NoLsa
                                    ELSE IF y = L.bins[b] THEN x ELSE L.rv[y]]
    <2>1. rv \in [Lsa -> Pointers]
      BY DEF Lists, Pointers
    <2>2. /\ [L.agebin EXCEPT ![x] = b] \in [Lsa -> Bins]
          /\ L.in_agebin \cup {x} \in SUBSET Lsa
      BY DEF Lists
    <2>3. /\ [L.fwd EXCEPT ![x] = L.bins[b]] \in [Lsa -> Pointers]
          /\ [L.bins EXCEPT ![b] = x] \in [Bins -> Pointers]
      BY DEF Lists, Pointers
    <2>4. [L.rest EXCEPT ![x] = InBin(L, b)] \in [Lsa -> SUBSET Lsa]
      BY <1>1 DEF Lists
    <2>5. PushFront(L, x, b) =
            [bins |-> [L.bins EXCEPT ![b] = x], rcvage |-> L.rcvage,
             agebin |-> [L.agebin EXCEPT ![x] = b], in_agebin |-> L.in_agebin \cup {x},
             fwd |-> [L.fwd EXCEPT ![x] = L.bins[b]], rv |-> rv,
             rest |-> [L.rest EXCEPT ![x] = InBin(L, b)]]
      <3>1. L = [bins |-> L.bins, rcvage |-> L.rcvage, agebin |-> L.agebin,
                 in_agebin |-> L.in_agebin, fwd |-> L.fwd, rv |-> L.rv, rest |-> L.rest]
        BY DEF Lists
      <3> HIDE DEF rv
      <3>2. PushFront(L, x, b) = [L EXCEPT !.agebin[x] = b,
                                           !.in_agebin = L.in_agebin \cup {x},
                                           !.fwd[x] = L.bins[b],
                                           !.rv = rv,
                                           !.bins[b] = x,
                                           !.rest[x] = InBin(L, b)]
        BY DEF PushFront, rv
      <3> QED BY <3>1, <3>2
    <2> HIDE DEF rv
    <2>6. L.rcvage \in [Lsa -> RcvAges]
      BY DEF Lists
    <2> QED BY <2>1, <2>2, <2>3, <2>4, <2>5, <2>6 DEF Lists
  <1> DEFINE M == PushFront(L, x, b)
  <1>3. M.rcvage = L.rcvage /\ M.in_agebin = L.in_agebin \cup {x}
    BY DEF PushFront, Lists
  <1>4. \A c \in Bins : M.bins[c] = IF c = b THEN x ELSE L.bins[c]
    BY DEF PushFront, Lists
  <1>5. \A y \in Lsa : /\ M.agebin[y] = IF y = x THEN b ELSE L.agebin[y]
                       /\ M.fwd[y] = IF y = x THEN L.bins[b] ELSE L.fwd[y]
    BY DEF PushFront, Lists
  <1>6. \A y \in Lsa : M.rv[y] = IF y = x THEN NoLsa
                                 ELSE IF y = L.bins[b] THEN x ELSE L.rv[y]
    BY DEF PushFront, Lists
  <1>7. \A y \in Lsa : M.rest[y] = IF y = x THEN InBin(L, b) ELSE L.rest[y]
    BY DEF PushFront, Lists
  <1> QED BY <1>2, <1>3, <1>4, <1>5, <1>6, <1>7 DEF Pushed

\* Putting an LSA in front of a bin leaves the lists well linked.
LEMMA PushLinked ==
    ASSUME NEW L \in Lists, WellLinked(L), NEW x \in Lsa, NEW b \in Bins,
           x \notin L.in_agebin
    PROVE  WellLinked(PushFront(L, x, b))
  <1> DEFINE M == PushFront(L, x, b)
             h == L.bins[b]
  <1> USE AgeAssumption DEF AgeAssumption
  <1>s. Pushed(L, M, x, b)
    BY PushFields
  <1> HIDE DEF M
  <1>f. /\ M.in_agebin = L.in_agebin \cup {x}
        /\ \A c \in Bins : M.bins[c] = IF c = b THEN x ELSE L.bins[c]
        /\ \A y \in Lsa :
             /\ M.agebin[y] = IF y = x THEN b ELSE L.agebin[y]
             /\ M.fwd[y] = IF y = x THEN h ELSE L.fwd[y]
             /\ M.rv[y] = IF y = x THEN NoLsa ELSE IF y = h THEN x ELSE L.rv[y]
             /\ M.rest[y] = IF y = x THEN InBin(L, b) ELSE L.rest[y]
    BY <1>s DEF Pushed
  <1>t. /\ L.in_agebin \subseteq Lsa
        /\ \A y \in Lsa : L.agebin[y] \in Bins /\ L.fwd[y] \in Pointers
                          /\ L.rv[y] \in Pointers /\ L.rest[y] \subseteq Lsa
        /\ \A c \in Bins : L.bins[c] \in Pointers
    BY DEF Lists
  <1>i. /\ InBin(M, b) = InBin(L, b) \cup {x}
        /\ \A c \in Bins : c # b => InBin(M, c) = InBin(L, c)
        /\ x \notin InBin(L, b)
    <2>1. x \notin InBin(L, b)
      BY DEF InBin
    <2>2. \A z \in L.in_agebin : z \in Lsa /\ z # x /\ M.agebin[z] = L.agebin[z]
      BY <1>f, <1>t
    <2>3. M.agebin[x] = b /\ M.in_agebin = L.in_agebin \cup {x}
      BY <1>f
    <2>4. InBin(M, b) = InBin(L, b) \cup {x}
      BY <2>2, <2>3 DEF InBin
    <2>5. \A c \in Bins : c # b => InBin(M, c) = InBin(L, c)
      BY <2>2, <2>3 DEF InBin
    <2> QED BY <2>1, <2>4, <2>5
  <1>0. \A y \in L.in_agebin :
            ForwardSound(L, y) /\ BackwardSound(L, y) /\ BehindSound(L, y)
    BY DEF WellLinked
  <1>h. /\ InBin(L, b) = IF h = NoLsa THEN {} ELSE {h} \cup L.rest[h]
        /\ h # NoLsa => L.rv[h] = NoLsa /\ h \in Lsa /\ h # x
    BY <1>i, <1>t DEF WellLinked, FirstSound, Pointers
  <1>1. ASSUME NEW c \in Bins PROVE FirstSound(M, c)
    <2>1. CASE c = b
      BY <2>1, <1>f, <1>i DEF FirstSound
    <2>2. CASE c # b
      <3>1. M.bins[c] = L.bins[c] /\ FirstSound(L, c) /\ InBin(M, c) = InBin(L, c)
        BY <2>2, <1>f, <1>i DEF WellLinked
      <3>2. CASE L.bins[c] = NoLsa
        BY <3>1, <3>2 DEF FirstSound
      <3>3. CASE L.bins[c] # NoLsa
        <4>1. L.bins[c] \in InBin(L, c) /\ L.bins[c] \in Lsa
          BY <3>1, <3>3, <1>t DEF FirstSound, Pointers
        <4>2. L.bins[c] # x /\ L.bins[c] # h
          BY <4>1, <2>2, <1>h DEF InBin
        <4>3. M.rest[L.bins[c]] = L.rest[L.bins[c]] /\ M.rv[L.bins[c]] = L.rv[L.bins[c]]
          BY <4>1, <4>2, <1>f
        <4> QED BY <4>3, <3>1, <3>3 DEF FirstSound
      <3> QED BY <3>2, <3>3
    <2> QED BY <2>1, <2>2
  <1>2. ASSUME NEW y \in M.in_agebin
        PROVE  ForwardSound(M, y) /\ BackwardSound(M, y) /\ BehindSound(M, y)
    <2>1. CASE y = x
      <3>1. M.rest[x] = InBin(L, b) /\ M.fwd[x] = h /\ M.rv[x] = NoLsa /\ M.agebin[x] = b
        BY <1>f
      <3>2. h # NoLsa => M.rest[h] = L.rest[h] /\ M.rv[h] = x
        BY <1>h, <1>f
      <3>3. ForwardSound(M, x)
        BY <3>1, <3>2, <1>h, <1>i DEF ForwardSound
      <3>4. BackwardSound(M, x)
        BY <3>1, <1>f DEF BackwardSound
      <3>5. BehindSound(M, x)
        <4>1. ASSUME NEW z \in M.rest[x] PROVE M.rest[z] \subseteq M.rest[x]
          <5>1. z \in L.in_agebin /\ L.agebin[z] = b /\ z \in Lsa /\ z # x
            BY <4>1, <3>1, <1>t DEF InBin
          <5>2. M.rest[z] = L.rest[z]
            BY <5>1, <1>f
          <5>3. L.rest[z] \subseteq InBin(L, b)
            BY <5>1, <1>0 DEF ForwardSound
          <5> QED BY <5>2, <5>3, <3>1
        <4> QED BY <4>1 DEF BehindSound
      <3> QED BY <3>3, <3>4, <3>5, <2>1
    <2>2. CASE y # x
      <3>1. y \in L.in_agebin /\ y \in Lsa
        BY <2>2, <1>f, <1>t
      <3>2. ForwardSound(L, y) /\ BackwardSound(L, y) /\ BehindSound(L, y)
        BY <3>1, <1>0
      <3>3. /\ M.rest[y] = L.rest[y] /\ M.fwd[y] = L.fwd[y] /\ M.agebin[y] = L.agebin[y]
            /\ M.rv[y] = IF y = h THEN x ELSE L.rv[y]
        BY <3>1, <2>2, <1>f
      <3>4. InBin(L, L.agebin[y]) \subseteq InBin(M, M.agebin[y])
        BY <3>1, <3>3, <1>i, <1>t
      <3>5. L.rest[y] \subseteq L.in_agebin
        BY <3>2 DEF ForwardSound, InBin
      <3>6. ForwardSound(M, y)
        <4>1. CASE L.fwd[y] = NoLsa
          BY <4>1, <3>2, <3>3, <3>4 DEF ForwardSound
        <4>2. CASE L.fwd[y] # NoLsa
          <5>1. L.fwd[y] \in L.in_agebin /\ L.fwd[y] \in Lsa
            BY <4>2, <3>1, <3>2, <3>5, <1>t DEF ForwardSound, Pointers
          <5>2. L.fwd[y] # x /\ L.fwd[y] # h
            BY <5>1, <4>2, <3>1, <3>2, <1>h DEF ForwardSound
          <5>3. M.rest[L.fwd[y]] = L.rest[L.fwd[y]] /\ M.rv[L.fwd[y]] = L.rv[L.fwd[y]]
            BY <5>1, <5>2, <1>f
          <5> QED BY <5>3, <4>2, <3>2, <3>3, <3>4 DEF ForwardSound
        <4> QED BY <4>1, <4>2
      <3>7. BackwardSound(M, y)
        <4>1. CASE y = h
          <5>1. L.agebin[y] = b
            BY <4>1, <3>1, <1>h DEF InBin
          <5>2. M.fwd[x] = h
            BY <1>f
          <5> QED BY <5>1, <5>2, <4>1, <3>3, <1>i DEF BackwardSound
        <4>2. CASE y # h /\ L.rv[y] = NoLsa
          <5>1. L.bins[L.agebin[y]] = y /\ L.agebin[y] \in Bins
            BY <4>2, <3>1, <3>2, <1>t DEF BackwardSound
          <5>2. M.bins[L.agebin[y]] = y
            BY <5>1, <4>2, <1>f
          <5> QED BY <5>2, <4>2, <3>3 DEF BackwardSound
        <4>3. CASE y # h /\ L.rv[y] # NoLsa
          <5>1. L.rv[y] \in InBin(L, L.agebin[y]) /\ L.fwd[L.rv[y]] = y
            BY <4>3, <3>2 DEF BackwardSound
          <5>2. L.rv[y] \in Lsa /\ L.rv[y] # x
            BY <5>1, <1>t DEF InBin
          <5>3. M.fwd[L.rv[y]] = y
            BY <5>1, <5>2, <1>f
          <5> QED BY <5>1, <5>3, <4>3, <3>3, <3>4 DEF BackwardSound
        <4> QED BY <4>1, <4>2, <4>3
      <3>8. BehindSound(M, y)
        <4>1. ASSUME NEW z \in M.rest[y] PROVE M.rest[z] \subseteq M.rest[y]
          <5>1. z \in Lsa /\ z # x /\ z \in L.rest[y]
            BY <4>1, <3>3, <3>5, <1>t
          <5>2. M.rest[z] = L.rest[z]
            BY <5>1, <1>f
          <5> QED BY <5>1, <5>2, <3>2, <3>3 DEF BehindSound
        <4> QED BY <4>1 DEF BehindSound
      <3> QED BY <3>6, <3>7, <3>8
    <2> QED BY <2>1, <2>2
  <1> QED BY <1>1, <1>2 DEF WellLinked, M

-----------------------------------------------------------------------------
(* The arithmetic of the circular array. *)

\* Age2Bin gives a bin for every age, is its own inverse, and gives different
\* bins to different ages.
LEMMA BinOfAge ==
    ASSUME Bin0 \in Bins, NEW a \in Bins
    PROVE  /\ Age2Bin(a) \in Bins
           /\ Bin2Age(Age2Bin(a)) = a
           /\ \A c \in Bins : Age2Bin(c) = Age2Bin(a) => c = a
  BY AgeAssumption DEF AgeAssumption, Age2Bin, Bin2Age, Bins

\* When Bin0 advances, everything grows a second older, except that what was in
\* the bin of MaxAge would be of age 0.
LEMMA SecondPasses ==
    ASSUME Bin0 \in Bins, dbage, NEW b \in Bins
    PROVE  /\ Bin0' \in Bins
           /\ Bin2Age(b)' = IF Bin2Age(b) = MaxAge THEN 0 ELSE Bin2Age(b) + 1
           /\ Bin2Age(b) \in Bins
  BY AgeAssumption DEF AgeAssumption, Age2Bin, Bin2Age, Bins, dbage

-----------------------------------------------------------------------------
(* The invariant. *)

\* What the timer and the readers of ages find: an LSA of the database is in
\* a bin unless it is at MaxAge, and nothing else is.
AllWatched == lists.in_agebin = {x \in db : lists.rcvage[x] # MaxAge}

IInv ==
    /\ TypeOK
    /\ LinksSound
    /\ AllWatched
    /\ NoneMissed
    /\ AllAhead
    /\ NotYounger

\* What stop_aging does, whether or not the LSA is in a bin.
LEMMA StopSound ==
    ASSUME NEW L \in Lists, WellLinked(L), NEW x \in Lsa
    PROVE  LET M == stop_aging(L, x)
           IN  /\ M \in Lists /\ WellLinked(M)
               /\ M.rcvage = L.rcvage /\ M.agebin = L.agebin
               /\ M.in_agebin = L.in_agebin \ {x}
               /\ \A y \in Lsa \ {x} : y \in L.in_agebin => M.rest[y] = L.rest[y] \ {x}
  <1>1. CASE x \in L.in_agebin
    <2> DEFINE M == stop_aging(L, x)
    <2>1. M \in Lists /\ WellLinked(M) /\ Stopped(L, M, x)
      BY <1>1, StopType, StopLinked, StopFields
    <2> HIDE DEF M
    <2>2. /\ M.rcvage = L.rcvage /\ M.agebin = L.agebin
          /\ M.in_agebin = L.in_agebin \ {x}
      BY <2>1 DEF Stopped
    <2>3. \A y \in Lsa \ {x} : M.rest[y] = L.rest[y] \ {x}
      BY <2>1 DEF Stopped
    <2> QED BY <2>1, <2>2, <2>3 DEF M
  <1>2. CASE x \notin L.in_agebin
    <2>1. stop_aging(L, x) = L
      BY <1>2 DEF stop_aging
    <2>2. \A y \in L.in_agebin : x \notin L.rest[y]
      BY <1>2 DEF WellLinked, ForwardSound, InBin
    <2> QED BY <1>2, <2>1, <2>2
  <1> QED BY <1>1, <1>2

\* Changing the age of an LSA that is in no bin.
LEMMA ReceiveSound ==
    ASSUME NEW L \in Lists, WellLinked(L), NEW x \in Lsa, NEW a \in RcvAges
    PROVE  LET M == [L EXCEPT !.rcvage[x] = a]
           IN  /\ M \in Lists /\ WellLinked(M)
               /\ M.rcvage[x] = a
               /\ \A y \in Lsa \ {x} : M.rcvage[y] = L.rcvage[y]
               /\ M.agebin = L.agebin /\ M.in_agebin = L.in_agebin /\ M.rest = L.rest
  <1> DEFINE M == [L EXCEPT !.rcvage[x] = a]
  <1>1. M \in Lists
    BY DEF Lists
  <1>2. /\ M.bins = L.bins /\ M.fwd = L.fwd /\ M.rv = L.rv
        /\ M.agebin = L.agebin /\ M.in_agebin = L.in_agebin /\ M.rest = L.rest
    BY DEF Lists
  <1>3. M.rcvage[x] = a /\ \A y \in Lsa \ {x} : M.rcvage[y] = L.rcvage[y]
    BY DEF Lists
  <1>4. \A b \in Bins : InBin(M, b) = InBin(L, b)
    BY <1>2 DEF InBin
  <1>5. \A y \in L.in_agebin : L.agebin[y] \in Bins
    BY DEF Lists
  <1>6. WellLinked(M)
    <2> HIDE DEF M
    <2>1. \A b \in Bins : FirstSound(M, b)
      BY <1>2, <1>4 DEF WellLinked, FirstSound
    <2>2. \A y \in M.in_agebin : ForwardSound(M, y)
      BY <1>2, <1>4, <1>5 DEF WellLinked, ForwardSound
    <2>3. \A y \in M.in_agebin : BackwardSound(M, y)
      BY <1>2, <1>4, <1>5 DEF WellLinked, BackwardSound
    <2>4. \A y \in M.in_agebin : BehindSound(M, y)
      BY <1>2 DEF WellLinked, BehindSound
    <2> QED BY <2>1, <2>2, <2>3, <2>4 DEF WellLinked
  <1> QED BY <1>1, <1>2, <1>3, <1>6

\* What start_aging does to an LSA in no bin.
LEMMA StartSound ==
    ASSUME NEW L \in Lists, WellLinked(L), NEW x \in Lsa, x \notin L.in_agebin,
           Bin0 \in Bins
    PROVE  LET M == start_aging(L, x)
               a == IF L.rcvage[x] \in {MaxAge, DoNotAge} THEN 0 ELSE L.rcvage[x]
           IN  /\ M \in Lists /\ WellLinked(M)
               /\ M.rcvage = L.rcvage
               /\ a \in Bins /\ M.agebin[x] = Age2Bin(a)
               /\ M.in_agebin = IF L.rcvage[x] = MaxAge THEN L.in_agebin
                                ELSE L.in_agebin \cup {x}
               /\ \A y \in Lsa \ {x} : M.agebin[y] = L.agebin[y] /\ M.rest[y] = L.rest[y]
  <1> DEFINE a == IF L.rcvage[x] \in {MaxAge, DoNotAge} THEN 0 ELSE L.rcvage[x]
  <1>0. stop_aging(L, x) = L
    BY DEF stop_aging
  <1>1. L.rcvage[x] \in RcvAges
    BY DEF Lists
  <1>2. a \in Bins /\ 0 \in Bins
    BY <1>1, AgeAssumption DEF AgeAssumption, RcvAges, Bins
  <1>3. Age2Bin(a) \in Bins /\ Age2Bin(0) \in Bins
    BY <1>2, BinOfAge
  <1>4. CASE L.rcvage[x] = MaxAge
    <2> DEFINE M == [L EXCEPT !.agebin[x] = Age2Bin(0)]
    <2>0. start_aging(L, x) = M
      BY <1>4, <1>0 DEF start_aging
    <2>1. M \in Lists
      BY <1>3 DEF Lists
    <2>2. /\ M.bins = L.bins /\ M.fwd = L.fwd /\ M.rv = L.rv /\ M.rest = L.rest
          /\ M.rcvage = L.rcvage /\ M.in_agebin = L.in_agebin
      BY DEF Lists
    <2>3. M.agebin[x] = Age2Bin(0) /\ \A y \in Lsa \ {x} : M.agebin[y] = L.agebin[y]
      BY DEF Lists
    <2>4. \A y \in L.in_agebin : L.agebin[y] \in Bins /\ y \in Lsa /\ M.agebin[y] = L.agebin[y]
      BY <2>3 DEF Lists
    <2>5. \A b \in Bins : InBin(M, b) = InBin(L, b)
      BY <2>2, <2>4 DEF InBin
    <2>6. WellLinked(M)
      <3> HIDE DEF M
      <3>1. \A b \in Bins : FirstSound(M, b)
        BY <2>2, <2>5 DEF WellLinked, FirstSound
      <3>2. \A y \in M.in_agebin : ForwardSound(M, y)
        <4>1. ASSUME NEW y \in L.in_agebin PROVE ForwardSound(M, y)
          <5>1. InBin(M, M.agebin[y]) = InBin(L, L.agebin[y])
            BY <2>4, <2>5
          <5>2. ForwardSound(L, y)
            BY DEF WellLinked
          <5> QED BY <5>1, <5>2, <2>2 DEF ForwardSound
        <4> QED BY <4>1, <2>2
      <3>3. \A y \in M.in_agebin : BackwardSound(M, y)
        BY <2>2, <2>4, <2>5 DEF WellLinked, BackwardSound
      <3>4. \A y \in M.in_agebin : BehindSound(M, y)
        BY <2>2 DEF WellLinked, BehindSound
      <3> QED BY <3>1, <3>2, <3>3, <3>4 DEF WellLinked
    <2>7. a = 0
      BY <1>4
    <2> HIDE DEF M
    <2> QED BY <2>0, <2>1, <2>2, <2>3, <2>6, <2>7, <1>2, <1>4
  <1>5. CASE L.rcvage[x] # MaxAge
    <2>0. start_aging(L, x) = PushFront(L, x, Age2Bin(a))
      BY <1>5, <1>0 DEF start_aging
    <2>1. Pushed(L, PushFront(L, x, Age2Bin(a)), x, Age2Bin(a))
      BY <1>3, PushFields
    <2>2. WellLinked(PushFront(L, x, Age2Bin(a)))
      BY <1>3, PushLinked
    <2> HIDE DEF a
    <2>3. LET M == PushFront(L, x, Age2Bin(a))
          IN  /\ M \in Lists /\ M.rcvage = L.rcvage /\ M.agebin[x] = Age2Bin(a)
              /\ M.in_agebin = L.in_agebin \cup {x}
              /\ \A y \in Lsa \ {x} : M.agebin[y] = L.agebin[y] /\ M.rest[y] = L.rest[y]
      BY <2>1 DEF Pushed
    <2> QED BY <2>0, <2>2, <2>3, <1>2, <1>5 DEF a
  <1> QED BY <1>4, <1>5

\* What AddLSA does to the lists.
LEMMA AddSound ==
    ASSUME TypeOK, LinksSound, AllWatched,
           NEW x \in db \cup {NoLsa}, NEW y \in Lsa, NEW rcv \in RcvAges,
           AddLSA(x, y, rcv)
    PROVE  LET a == IF rcv \in {MaxAge, DoNotAge} THEN 0 ELSE rcv
           IN  /\ lists' \in Lists /\ WellLinked(lists')
               /\ lists'.rcvage[y] = rcv
               /\ a \in Bins /\ lists'.agebin[y] = Age2Bin(a)
               /\ lists'.in_agebin = (lists.in_agebin \ {x, y})
                                        \cup (IF rcv = MaxAge THEN {} ELSE {y})
               /\ \A z \in Lsa \ {y} : /\ lists'.rcvage[z] = lists.rcvage[z]
                                       /\ lists'.agebin[z] = lists.agebin[z]
               /\ \A z \in Lsa \ {x, y} : z \in lists.in_agebin =>
                      lists'.rest[z] = lists.rest[z] \ {x}
  <1> DEFINE L1 == IF x = NoLsa THEN lists ELSE stop_aging(lists, x)
             L2 == [L1 EXCEPT !.rcvage[y] = rcv]
  <1>1. lists \in Lists /\ WellLinked(lists) /\ Bin0 \in Bins /\ db \subseteq Lsa
    BY DEF TypeOK, LinksSound
  <1>2. /\ y = x \/ y \notin db
        /\ lists' = start_aging(L2, y)
    BY DEF AddLSA
  <1>3. /\ L1 \in Lists /\ WellLinked(L1)
        /\ L1.rcvage = lists.rcvage /\ L1.agebin = lists.agebin
        /\ L1.in_agebin = lists.in_agebin \ {x}
        /\ \A z \in Lsa \ {x} : z \in lists.in_agebin => L1.rest[z] = lists.rest[z] \ {x}
    <2>1. CASE x = NoLsa
      <3>1. lists.in_agebin \subseteq Lsa /\ NoLsa \notin Lsa
        BY <1>1, AgeAssumption DEF Lists, AgeAssumption
      <3>2. \A z \in Lsa : lists.rest[z] \subseteq Lsa
        BY <1>1 DEF Lists
      <3> QED BY <2>1, <3>1, <3>2, <1>1
    <2>2. CASE x # NoLsa
      <3>1. x \in Lsa
        BY <2>2, <1>1
      <3> QED BY <2>2, <3>1, <1>1, StopSound
    <2> QED BY <2>1, <2>2
  <1> HIDE DEF L1
  <1>4. /\ L2 \in Lists /\ WellLinked(L2) /\ L2.rcvage[y] = rcv
        /\ \A z \in Lsa \ {y} : L2.rcvage[z] = L1.rcvage[z]
        /\ L2.agebin = L1.agebin /\ L2.in_agebin = L1.in_agebin /\ L2.rest = L1.rest
    BY <1>3, ReceiveSound
  <1> HIDE DEF L2
  <1>5. y \notin L2.in_agebin
    BY <1>2, <1>3, <1>4 DEF AllWatched
  <1> DEFINE a == IF rcv \in {MaxAge, DoNotAge} THEN 0 ELSE rcv
  <1>6. /\ lists' \in Lists /\ WellLinked(lists')
        /\ lists'.rcvage = L2.rcvage
        /\ a \in Bins /\ lists'.agebin[y] = Age2Bin(a)
        /\ lists'.in_agebin = IF rcv = MaxAge THEN L2.in_agebin ELSE L2.in_agebin \cup {y}
        /\ \A z \in Lsa \ {y} : lists'.agebin[z] = L2.agebin[z] /\ lists'.rest[z] = L2.rest[z]
    <2>1. LET M == start_aging(L2, y)
              c == IF L2.rcvage[y] \in {MaxAge, DoNotAge} THEN 0 ELSE L2.rcvage[y]
          IN  /\ M \in Lists /\ WellLinked(M)
              /\ M.rcvage = L2.rcvage
              /\ c \in Bins /\ M.agebin[y] = Age2Bin(c)
              /\ M.in_agebin = IF L2.rcvage[y] = MaxAge THEN L2.in_agebin
                               ELSE L2.in_agebin \cup {y}
              /\ \A z \in Lsa \ {y} : M.agebin[z] = L2.agebin[z] /\ M.rest[z] = L2.rest[z]
      BY <1>1, <1>4, <1>5, StartSound
    <2> QED BY <2>1, <1>2, <1>4
  <1> HIDE DEF a
  <1>7. lists'.in_agebin = (lists.in_agebin \ {x, y}) \cup (IF rcv = MaxAge THEN {} ELSE {y})
    BY <1>3, <1>4, <1>5, <1>6
  <1>8. \A z \in Lsa \ {x, y} : z \in lists.in_agebin => lists'.rest[z] = lists.rest[z] \ {x}
    BY <1>3, <1>4, <1>6
  <1>9. \A z \in Lsa \ {y} : lists'.rcvage[z] = lists.rcvage[z] /\ lists'.agebin[z] = lists.agebin[z]
    BY <1>3, <1>4, <1>6
  <1>10. lists'.rcvage[y] = rcv
    BY <1>4, <1>6
  <1> QED BY <1>6, <1>7, <1>8, <1>9, <1>10 DEF a

\* AddLSA keeps the parts of the invariant that are not about dbage.
LEMMA AddKeeps ==
    ASSUME IInv, Bin0' = Bin0,
           NEW x \in db \cup {NoLsa}, NEW y \in Lsa, NEW rcv \in RcvAges,
           AddLSA(x, y, rcv)
    PROVE  /\ lists' \in Lists /\ db' \subseteq Lsa
           /\ LinksSound' /\ AllWatched' /\ NotYounger'
           /\ NoneMissed /\ pc = "done" => NoneMissed'
  <1> DEFINE a == IF rcv \in {MaxAge, DoNotAge} THEN 0 ELSE rcv
  <1>1. /\ lists' \in Lists /\ WellLinked(lists')
        /\ lists'.rcvage[y] = rcv
        /\ a \in Bins /\ lists'.agebin[y] = Age2Bin(a)
        /\ lists'.in_agebin = (lists.in_agebin \ {x, y})
                                 \cup (IF rcv = MaxAge THEN {} ELSE {y})
        /\ \A z \in Lsa \ {y} : /\ lists'.rcvage[z] = lists.rcvage[z]
                                /\ lists'.agebin[z] = lists.agebin[z]
    BY AddSound DEF IInv
  <1> HIDE DEF a
  <1>2. db' = (db \ {x}) \cup {y} /\ db \subseteq Lsa /\ Bin0 \in Bins /\ lists \in Lists
    BY DEF AddLSA, IInv, TypeOK
  <1>3. AllWatched'
    <2>1. lists.in_agebin = {z \in db : lists.rcvage[z] # MaxAge}
      BY DEF IInv, AllWatched
    <2>2. ASSUME NEW z PROVE z \in lists'.in_agebin <=> z \in db' /\ lists'.rcvage[z] # MaxAge
      <3>1. CASE z = y
        BY <3>1, <1>1, <1>2
      <3>2. CASE z # y
        BY <3>2, <2>1, <1>1, <1>2
      <3> QED BY <3>1, <3>2
    <2> QED BY <2>2 DEF AllWatched
  <1>4. \A b : Age2Bin(b)' = Age2Bin(b) /\ Bin2Age(b)' = Bin2Age(b)
    BY DEF Age2Bin, Bin2Age
  <1>5. NotYounger'
    <2>1. ASSUME NEW z \in Lsa, z \in db', lists'.rcvage[z] \notin {DoNotAge, MaxAge}
          PROVE  lists'.rcvage[z] <= Bin2Age(lists'.agebin[z])
      <3>1. CASE z = y
        <4>1. Bin2Age(lists'.agebin[z]) = a /\ a = rcv /\ a \in Bins
          BY <3>1, <2>1, <1>1, <1>2, BinOfAge DEF a
        <4> QED BY <4>1, <3>1, <1>1 DEF Bins
      <3>2. CASE z # y
        <4>1. z \in db /\ lists.rcvage[z] \notin {DoNotAge, MaxAge}
          BY <3>2, <2>1, <1>1, <1>2
        <4>2. lists.rcvage[z] <= Bin2Age(lists.agebin[z])
          BY <4>1 DEF IInv, NotYounger, is_aging
        <4> QED BY <4>2, <3>2, <1>1
      <3> QED BY <3>1, <3>2
    <2> QED BY <2>1, <1>4 DEF NotYounger, is_aging
  <1>6. ASSUME NoneMissed, pc = "done" PROVE NoneMissed'
    <2>1. ASSUME NEW z \in lists'.in_agebin, lists'.agebin[z] = Age2Bin(MaxAge)
          PROVE  lists'.rcvage[z] = DoNotAge
      <3>1. CASE z = y
        <4>1. rcv # MaxAge /\ MaxAge \in Bins
          BY <3>1, <1>1, AgeAssumption DEF Bins, AgeAssumption
        <4>2. a = MaxAge
          BY <4>1, <3>1, <2>1, <1>1, <1>2, BinOfAge
        <4> QED BY <4>1, <4>2, <3>1, <1>1, AgeAssumption DEF a, AgeAssumption
      <3>2. CASE z # y
        <4>1. z \in lists.in_agebin /\ z \in Lsa /\ lists.agebin[z] = Age2Bin(MaxAge)
          BY <3>2, <2>1, <1>1, <1>2 DEF Lists
        <4>2. lists.rcvage[z] = DoNotAge
          BY <4>1, <1>6 DEF NoneMissed, InBin
        <4> QED BY <4>1, <4>2, <3>2, <1>1
      <3> QED BY <3>1, <3>2
    <2> QED BY <2>1, <1>4 DEF NoneMissed, InBin
  <1>7. LinksSound' /\ db' \subseteq Lsa
    BY <1>1, <1>2 DEF LinksSound
  <1> QED BY <1>1, <1>3, <1>5, <1>6, <1>7

\* An LSA added in the middle of maxage_lsas in place of none of the bin of
\* MaxAge leaves this bin alone: what is ahead of the loop stays ahead.
LEMMA AddElsewhere ==
    ASSUME IInv, pc = "maxage", UNCHANGED <<Bin0, pc, lsap>>,
           NEW x \in db \cup {NoLsa}, NEW y \in Lsa, NEW rcv \in RcvAges,
           AddLSA(x, y, rcv), x \notin InBin(lists, Age2Bin(MaxAge))
    PROVE  AllAhead'
  <1> DEFINE a == IF rcv \in {MaxAge, DoNotAge} THEN 0 ELSE rcv
             old == InBin(lists, Age2Bin(MaxAge))
  <1>1. /\ lists'.rcvage[y] = rcv
        /\ a \in Bins /\ lists'.agebin[y] = Age2Bin(a)
        /\ lists'.in_agebin = (lists.in_agebin \ {x, y})
                                 \cup (IF rcv = MaxAge THEN {} ELSE {y})
        /\ \A z \in Lsa \ {y} : /\ lists'.rcvage[z] = lists.rcvage[z]
                                /\ lists'.agebin[z] = lists.agebin[z]
        /\ \A z \in Lsa \ {x, y} : z \in lists.in_agebin =>
               lists'.rest[z] = lists.rest[z] \ {x}
    BY AddSound DEF IInv
  <1>2. lists \in Lists /\ Bin0 \in Bins /\ MaxAge \in Bins /\ MaxAge # 0
    BY AgeAssumption DEF IInv, TypeOK, Bins, AgeAssumption
  <1>3. Age2Bin(MaxAge) \in Bins /\ Age2Bin(MaxAge)' = Age2Bin(MaxAge)
    BY <1>2, BinOfAge DEF Age2Bin
  <1>4. old \subseteq lists.in_agebin /\ lists.in_agebin \subseteq Lsa
        /\ old \subseteq db
    BY <1>2 DEF InBin, Lists, IInv, AllWatched
  <1>5. x \notin old /\ y \notin old
    BY <1>4 DEF AddLSA
  <1>6. rcv # MaxAge => Age2Bin(a) # Age2Bin(MaxAge)
    <2>1. rcv # MaxAge => a # MaxAge
      BY <1>2
    <2> HIDE DEF a
    <2> QED BY <2>1, <1>1, <1>2, BinOfAge
  <1> HIDE DEF a
  <1>7. InBin(lists, Age2Bin(MaxAge))' = old
    <2>1. ASSUME NEW z PROVE z \in InBin(lists', Age2Bin(MaxAge)) <=> z \in old
      <3>1. CASE z = y
        BY <3>1, <1>1, <1>5, <1>6 DEF InBin
      <3>2. CASE z # y
        BY <3>2, <1>1, <1>4, <1>5 DEF InBin
      <3> QED BY <3>1, <3>2
    <2> QED BY <2>1, <1>3 DEF InBin
  <1>8. \A z \in old : /\ lists'.rcvage[z] = lists.rcvage[z]
                       /\ lists'.rest[z] = lists.rest[z]
    <2>1. ASSUME NEW z \in old PROVE x \notin lists.rest[z]
      <3>1. ForwardSound(lists, z) /\ InBin(lists, lists.agebin[z]) = old
        BY <1>4 DEF IInv, LinksSound, WellLinked, InBin
      <3>2. lists.rest[z] \subseteq old
        BY <3>1 DEF ForwardSound
      <3> QED BY <3>2, <1>5
    <2>2. \A z \in old : z \in Lsa \ {x, y} /\ z \in lists.in_agebin
      BY <1>4, <1>5
    <2>3. \A z \in old : lists'.rest[z] = lists.rest[z] \ {x}
      BY <2>2, <1>1
    <2>4. \A z \in old : lists'.rest[z] = lists.rest[z]
      BY <2>1, <2>3
    <2>5. \A z \in old : lists'.rcvage[z] = lists.rcvage[z]
      BY <2>2, <1>1
    <2> QED BY <2>4, <2>5
  <1>9. /\ lsap = NoLsa \/ lsap \in old
        /\ \A z \in old : lists.rcvage[z] # DoNotAge =>
              lsap # NoLsa /\ (z = lsap \/ z \in lists.rest[lsap])
    BY DEF IInv, AllAhead
  <1> HIDE DEF old
  <1>10. \A z \in old : lists'.rcvage[z] # DoNotAge =>
            lsap # NoLsa /\ (z = lsap \/ z \in lists'.rest[lsap])
    BY <1>8, <1>9
  <1> QED BY <1>7, <1>9, <1>10 DEF AllAhead

\* The LSA that maxage_lsas visits is in the bin of MaxAge, and what is behind
\* it is the next one and what is behind that.
LEMMA VisitAhead ==
    ASSUME IInv, pc = "maxage", lsap # NoLsa
    PROVE  LET old == InBin(lists, Age2Bin(MaxAge))
               f == lists.fwd[lsap]
           IN  /\ lsap \in db /\ lsap \in old /\ old \subseteq db
               /\ f = NoLsa \/ (f \in old /\ f \in Lsa /\ f # lsap)
               /\ \A z \in old : lists.rcvage[z] # DoNotAge /\ z # lsap =>
                     f # NoLsa /\ (z = f \/ z \in lists.rest[f])
  <1> DEFINE old == InBin(lists, Age2Bin(MaxAge))
             f == lists.fwd[lsap]
  <1>1. lsap \in old /\ \A z \in old : lists.rcvage[z] # DoNotAge =>
                              z = lsap \/ z \in lists.rest[lsap]
    BY DEF IInv, AllAhead
  <1>2. old \subseteq db /\ db \subseteq Lsa
    BY DEF IInv, AllWatched, InBin, TypeOK
  <1>3. ForwardSound(lists, lsap) /\ InBin(lists, lists.agebin[lsap]) = old
    BY <1>1 DEF IInv, LinksSound, WellLinked, InBin
  <1>4. f = NoLsa \/ (f \in old /\ f \in Lsa /\ f # lsap)
    BY <1>2, <1>3 DEF ForwardSound
  <1>5. lists.rest[lsap] = IF f = NoLsa THEN {} ELSE {f} \cup lists.rest[f]
    BY <1>3 DEF ForwardSound
  <1> HIDE DEF old, f
  <1>6. \A z \in old : lists.rcvage[z] # DoNotAge /\ z # lsap =>
            f # NoLsa /\ (z = f \/ z \in lists.rest[f])
    BY <1>1, <1>5
  <1> QED BY <1>1, <1>2, <1>4, <1>6 DEF old, f

\* Between two seconds, every LSA that ages is below MaxAge.
LEMMA AgingBelowMax ==
    ASSUME IInv, pc = "done", NEW x \in Lsa, is_aging(x)
    PROVE  Bin2Age(lists.agebin[x]) # MaxAge
  <1> SUFFICES ASSUME Bin2Age(lists.agebin[x]) = MaxAge PROVE FALSE
    OBVIOUS
  <1>1. lists.agebin[x] \in Bins /\ Bin0 \in Bins
    BY DEF IInv, TypeOK, Lists
  <1>2. Age2Bin(MaxAge) = lists.agebin[x]
    <2>1. Bin2Age(Age2Bin(lists.agebin[x])) = lists.agebin[x]
      BY <1>1, BinOfAge
    <2> QED BY <2>1 DEF Bin2Age
  <1>3. x \in lists.in_agebin
    BY DEF IInv, AllWatched, is_aging
  <1> QED BY <1>2, <1>3 DEF IInv, NoneMissed, InBin, is_aging

LEMMA InitIInv == Init => IInv
  <1> SUFFICES ASSUME Init PROVE IInv
    OBVIOUS
  <1> USE AgeAssumption DEF AgeAssumption
  <1>1. lists \in Lists
    BY DEF Init, Lists, Bins, RcvAges, Pointers
  <1>2. TypeOK
    BY <1>1 DEF Init, TypeOK, Bins, Pointers
  <1>3. lists.in_agebin = {} /\ \A b \in Bins : lists.bins[b] = NoLsa
    BY DEF Init
  <1>4. \A b : InBin(lists, b) = {}
    BY <1>3 DEF InBin
  <1>5. LinksSound
    BY <1>3, <1>4 DEF LinksSound, WellLinked, FirstSound
  <1>6. AllWatched /\ NoneMissed /\ AllAhead /\ NotYounger
    BY <1>3, <1>4 DEF Init, AllWatched, NoneMissed, AllAhead, NotYounger, is_aging
  <1> QED BY <1>2, <1>5, <1>6 DEF IInv

LEMMA NextIInv == IInv /\ [Next]_vars => IInv'
  <1> SUFFICES ASSUME IInv, [Next]_vars PROVE IInv'
    OBVIOUS
  <1>t. Bin0 \in Bins /\ lists \in Lists /\ db \subseteq Lsa /\ lsap \in Pointers
    BY DEF IInv, TypeOK
  <1>1. CASE \E x \in Pointers, y \in Lsa, rcv \in RcvAges : Add(x, y, rcv)
    <2> PICK x \in Pointers, y \in Lsa, rcv \in RcvAges : Add(x, y, rcv)
      BY <1>1
    <2>1. /\ x \in db \cup {NoLsa} /\ AddLSA(x, y, rcv)
          /\ pc = "maxage" => x \notin InBin(lists, Age2Bin(MaxAge))
          /\ UNCHANGED <<Bin0, pc, lsap>>
      BY DEF Add
    <2>2. /\ lists' \in Lists /\ db' \subseteq Lsa
          /\ LinksSound' /\ AllWatched' /\ NotYounger'
          /\ NoneMissed /\ pc = "done" => NoneMissed'
      BY <2>1, AddKeeps
    <2>3. TypeOK'
      BY <2>1, <2>2 DEF IInv, TypeOK
    <2>4. NoneMissed'
      BY <2>1, <2>2 DEF IInv, NoneMissed
    <2>5. CASE pc = "maxage"
      <3>1. AllAhead'
        BY <2>1, <2>5, AddElsewhere
      <3> QED BY <3>1, <2>2, <2>3, <2>4 DEF IInv
    <2>6. CASE pc # "maxage"
      <3>1. AllAhead'
        BY <2>1, <2>6 DEF AllAhead
      <3> QED BY <3>1, <2>2, <2>3, <2>4 DEF IInv
    <2> QED BY <2>5, <2>6
  <1>2. CASE \E x \in Lsa : DeleteLSA(x)
    <2> PICK x \in Lsa : DeleteLSA(x)
      BY <1>2
    <2>1. pc = "done" /\ x \in db /\ db' = db \ {x} /\ lists' = stop_aging(lists, x)
          /\ UNCHANGED <<Bin0, pc, lsap>>
      BY DEF DeleteLSA
    <2>2. WellLinked(lists)
      BY DEF IInv, LinksSound
    <2>3. /\ lists' \in Lists /\ WellLinked(lists')
          /\ lists'.rcvage = lists.rcvage /\ lists'.agebin = lists.agebin
          /\ lists'.in_agebin = lists.in_agebin \ {x}
      BY <2>1, <2>2, <1>t, StopSound
    <2>4. TypeOK' /\ LinksSound'
      BY <2>1, <2>3, <1>t DEF IInv, TypeOK, LinksSound
    <2>5. AllWatched'
      BY <2>1, <2>3 DEF IInv, AllWatched
    <2>6. \A b : Age2Bin(b)' = Age2Bin(b) /\ Bin2Age(b)' = Bin2Age(b)
      BY <2>1 DEF Age2Bin, Bin2Age
    <2>7. NoneMissed'
      <3>1. InBin(lists, Age2Bin(MaxAge))' \subseteq InBin(lists, Age2Bin(MaxAge))
        BY <2>3, <2>6 DEF InBin
      <3> QED BY <3>1, <2>1, <2>3 DEF IInv, NoneMissed
    <2>8. AllAhead'
      BY <2>1 DEF AllAhead
    <2>9. NotYounger'
      BY <2>1, <2>3, <2>6 DEF IInv, NotYounger, is_aging
    <2> QED BY <2>4, <2>5, <2>7, <2>8, <2>9 DEF IInv
  <1>3. CASE dbage
    <2>1. pc = "done" /\ pc' = "dbage" /\ UNCHANGED <<lists, db, lsap>>
      BY <1>3 DEF dbage
    <2>2. TypeOK'
      BY <1>3, <1>t, <2>1, SecondPasses, AgeAssumption
      DEF IInv, TypeOK, Bins, AgeAssumption, dbage
    <2>3. LinksSound' /\ AllWatched' /\ NoneMissed' /\ AllAhead'
      BY <2>1 DEF IInv, LinksSound, AllWatched, NoneMissed, AllAhead
    <2>4. ASSUME NEW x \in Lsa, is_aging(x) PROVE lists.rcvage[x] <= Bin2Age(lists.agebin[x])'
      <3> DEFINE b == lists.agebin[x]
      <3>1. b \in Bins /\ lists.rcvage[x] \in RcvAges
        BY <1>t DEF Lists
      <3>2. Bin2Age(b)' = IF Bin2Age(b) = MaxAge THEN 0 ELSE Bin2Age(b) + 1
        BY <3>1, <1>3, <1>t, <2>1, SecondPasses
      <3>3. Bin2Age(b) # MaxAge
        BY <3>1, <2>4, <1>t, <2>1, AgingBelowMax
      <3>4. lists.rcvage[x] <= Bin2Age(b)
        BY <2>4 DEF IInv, NotYounger
      <3>5. Bin2Age(b) \in Bins /\ lists.rcvage[x] \in Int
        BY <3>1, <1>3, <1>t, SecondPasses, AgeAssumption DEF RcvAges, AgeAssumption
      <3> QED BY <3>2, <3>3, <3>4, <3>5 DEF Bins
    <2>5. NotYounger'
      BY <2>1, <2>4 DEF NotYounger, is_aging
    <2> QED BY <2>2, <2>3, <2>5 DEF IInv
  <1>4. CASE maxage_lsas
    <2>1. /\ pc = "dbage" /\ pc' = "maxage" /\ UNCHANGED <<Bin0, lists, db>>
          /\ lsap' = lists.bins[Age2Bin(MaxAge)]
      BY <1>4 DEF maxage_lsas
    <2>2. MaxAge \in Bins /\ Age2Bin(MaxAge) \in Bins
      BY <1>t, BinOfAge, AgeAssumption DEF AgeAssumption, Bins
    <2>3. TypeOK'
      BY <1>t, <2>1, <2>2 DEF IInv, TypeOK, Lists
    <2>4. LinksSound' /\ AllWatched' /\ NotYounger' /\ NoneMissed'
      BY <2>1 DEF IInv, LinksSound, AllWatched, NotYounger, NoneMissed, is_aging, Bin2Age, Age2Bin
    <2>5. FirstSound(lists, Age2Bin(MaxAge))
      BY <2>2 DEF IInv, LinksSound, WellLinked
    <2>6. Age2Bin(MaxAge)' = Age2Bin(MaxAge)
      BY <2>1 DEF Age2Bin
    <2>7. AllAhead'
      BY <2>1, <2>5, <2>6 DEF FirstSound, AllAhead
    <2> QED BY <2>3, <2>4, <2>7 DEF IInv
  <1>5. CASE Visit
    <2>1. pc = "maxage" /\ pc' = "maxage" /\ lsap # NoLsa /\ Bin0' = Bin0
          /\ lsap' = lists.fwd[lsap]
      BY <1>5 DEF Visit
    <2> DEFINE old == InBin(lists, Age2Bin(MaxAge))
               f == lists.fwd[lsap]
    <2>2. /\ lsap \in db /\ lsap \in old /\ old \subseteq db
          /\ f = NoLsa \/ (f \in old /\ f \in Lsa /\ f # lsap)
          /\ \A z \in old : lists.rcvage[z] # DoNotAge /\ z # lsap =>
                f # NoLsa /\ (z = f \/ z \in lists.rest[f])
      BY <2>1, VisitAhead
    <2>3. Age2Bin(MaxAge)' = Age2Bin(MaxAge)
      BY <2>1 DEF Age2Bin
    <2>4. lsap' \in Pointers /\ NoneMissed'
      BY <2>1, <2>2 DEF Pointers, NoneMissed
    <2>5. CASE lists.rcvage[lsap] = DoNotAge /\ UNCHANGED <<lists, db>>
      <3>1. UNCHANGED <<lists, db>>
        BY <2>5
      <3>2. TypeOK' /\ LinksSound' /\ AllWatched' /\ NotYounger'
        BY <3>1, <2>1, <2>4 DEF IInv, TypeOK, LinksSound, AllWatched, NotYounger, is_aging, Bin2Age, Age2Bin
      <3>3. AllAhead'
        BY <3>1, <2>1, <2>2, <2>3, <2>5 DEF AllAhead
      <3> QED BY <3>2, <3>3, <2>4 DEF IInv
    <2>6. CASE \E y \in Lsa : AddLSA(lsap, y, MaxAge)
      <3> PICK y \in Lsa : AddLSA(lsap, y, MaxAge)
        BY <2>6
      <3>0. MaxAge \in RcvAges /\ lsap \in db \cup {NoLsa} /\ lsap \in Lsa
        BY <2>2, <1>t, AgeAssumption DEF AgeAssumption, RcvAges
      <3>1. /\ lists' \in Lists /\ db' \subseteq Lsa
            /\ LinksSound' /\ AllWatched' /\ NotYounger'
        BY <3>0, <2>1, AddKeeps
      <3>2. TypeOK'
        BY <3>1, <2>1, <2>4 DEF IInv, TypeOK
      <3>3. /\ lists'.in_agebin = lists.in_agebin \ {lsap, y}
            /\ \A z \in Lsa \ {y} : /\ lists'.rcvage[z] = lists.rcvage[z]
                                    /\ lists'.agebin[z] = lists.agebin[z]
            /\ \A z \in Lsa \ {lsap, y} : z \in lists.in_agebin =>
                  lists'.rest[z] = lists.rest[z] \ {lsap}
        <4>1. TypeOK /\ LinksSound /\ AllWatched
          BY DEF IInv
        <4> QED BY <4>1, <3>0, AddSound
      <3>4. y = lsap \/ y \notin old
        BY <2>2 DEF AddLSA
      <3>5. InBin(lists, Age2Bin(MaxAge))' = old \ {lsap}
        <4>1. \A z \in lists'.in_agebin : z \in Lsa \ {y} /\ z \in lists.in_agebin
          BY <3>3, <1>t DEF Lists
        <4>2. \A z \in lists'.in_agebin : lists'.agebin[z] = lists.agebin[z]
          BY <4>1, <3>3
        <4>3. \A z \in old \ {lsap} : z \in lists'.in_agebin
          BY <3>3, <3>4 DEF InBin
        <4> QED BY <4>1, <4>2, <4>3, <3>3, <2>3 DEF InBin
      <3>6. f # NoLsa => lists'.rest[f] = lists.rest[f] \ {lsap} /\ f \in old \ {lsap}
        <4>1. f # NoLsa => f \in Lsa \ {lsap, y} /\ f \in lists.in_agebin
          BY <2>2, <3>4 DEF InBin
        <4> QED BY <4>1, <3>3, <2>2
      <3>7. \A z \in old \ {lsap} : lists'.rcvage[z] = lists.rcvage[z]
        BY <3>3, <3>4, <2>2, <1>t
      <3>8. AllAhead'
        <4> HIDE DEF old, f
        <4>1. lsap' = NoLsa \/ lsap' \in old \ {lsap}
          BY <3>6, <2>1 DEF f
        <4>2. ASSUME NEW z \in old \ {lsap}, lists'.rcvage[z] # DoNotAge
              PROVE  lsap' # NoLsa /\ (z = lsap' \/ z \in lists'.rest[lsap'])
          <5>1. f # NoLsa /\ (z = f \/ z \in lists.rest[f])
            BY <4>2, <3>7, <2>2
          <5>2. lsap' = f
            BY <2>1 DEF f
          <5> QED BY <5>1, <5>2, <3>6
        <4> QED BY <4>1, <4>2, <3>5 DEF AllAhead
      <3> QED BY <3>1, <3>2, <3>8, <2>4 DEF IInv
    <2> QED BY <2>5, <2>6, <1>5 DEF Visit
  <1>6. CASE LoopEnds
    <2>1. pc = "maxage" /\ lsap = NoLsa /\ pc' = "done" /\ UNCHANGED <<Bin0, lists, db, lsap>>
      BY <1>6 DEF LoopEnds
    <2>2. TypeOK' /\ LinksSound' /\ AllWatched' /\ NotYounger' /\ AllAhead'
      BY <2>1 DEF IInv, TypeOK, LinksSound, AllWatched, NotYounger, AllAhead, is_aging, Bin2Age, Age2Bin
    <2>3. NoneMissed'
      BY <2>1 DEF IInv, AllAhead, NoneMissed, Age2Bin
    <2> QED BY <2>2, <2>3 DEF IInv
  <1>7. CASE UNCHANGED vars
    BY <1>7 DEF vars, IInv, TypeOK, LinksSound, AllWatched, NoneMissed, AllAhead, NotYounger,
                is_aging, Bin2Age, Age2Bin
  <1> QED BY <1>1, <1>2, <1>3, <1>4, <1>5, <1>6, <1>7 DEF Next

LEMMA IInvHolds == Spec => []IInv
  <1> QED BY InitIInv, NextIInv, PTL DEF Spec

\* The lists of all bins stay well linked, however LSAs enter and leave them.
THEOREM LinksHold == Spec => []LinksSound
  <1>1. IInv => LinksSound
    BY DEF IInv
  <1> QED BY <1>1, IInvHolds, PTL

\* When a second is over, no LSA that ages is left in the bin of MaxAge,
\* although maxage_lsas unlinks the LSAs of the list it is walking.
THEOREM NoneMissedHolds == Spec => []NoneMissed
  <1>1. IInv => NoneMissed
    BY DEF IInv
  <1> QED BY <1>1, IInvHolds, PTL

-----------------------------------------------------------------------------
(* The refinement. *)

\* The age of an LSA that has just been added is the one it was received with.
LEMMA FreshSince ==
    ASSUME Bin0 \in Bins, NEW a \in Bins
    PROVE  Bin2Age(Age2Bin(a)) - a = 0
  BY BinOfAge DEF Bins

\* AddLSA is the step Install of Ages.
LEMMA AddRefines ==
    ASSUME IInv, Bin0' = Bin0,
           NEW x \in db \cup {NoLsa}, NEW y \in Lsa, NEW rcv \in RcvAges,
           AddLSA(x, y, rcv)
    PROVE  Abstract!Install(x, y, rcv)
  <1> DEFINE a == IF rcv \in {MaxAge, DoNotAge} THEN 0 ELSE rcv
  <1>1. /\ lists'.rcvage[y] = rcv
        /\ a \in Bins /\ lists'.agebin[y] = Age2Bin(a)
        /\ \A z \in Lsa \ {y} : /\ lists'.rcvage[z] = lists.rcvage[z]
                                /\ lists'.agebin[z] = lists.agebin[z]
    BY AddSound DEF IInv
  <1>2. /\ y = x \/ y \notin db
        /\ db' = (db \ {x}) \cup {y}
        /\ Bin0 \in Bins
    BY DEF AddLSA, IInv, TypeOK
  <1>3. \A b : Age2Bin(b)' = Age2Bin(b) /\ Bin2Age(b)' = Bin2Age(b)
    BY DEF Age2Bin, Bin2Age
  <1>4. since_received(y)' = 0
    <2>1. Bin2Age(Age2Bin(a)) = a /\ Bin2Age(Age2Bin(a)) - a = 0
      BY <1>1, <1>2, BinOfAge, FreshSince
    <2>2. is_aging(y)' <=> rcv \notin {DoNotAge, MaxAge}
      BY <1>1, <1>2 DEF is_aging
    <2>3. Bin2Age(lists.agebin[y])' = Bin2Age(Age2Bin(a))
      BY <1>1, <1>3
    <2>4. CASE rcv \in {DoNotAge, MaxAge}
      <3>1. a = 0
        BY <2>4
      <3> QED BY <3>1, <2>1, <2>2, <2>3, <2>4 DEF since_received
    <2>5. CASE rcv \notin {DoNotAge, MaxAge}
      <3>1. a = rcv
        BY <2>5
      <3> HIDE DEF a
      <3> QED BY <3>1, <2>1, <2>2, <2>3, <2>5, <1>1 DEF since_received, lsa_age
    <2> QED BY <2>4, <2>5
  <1>5. ASSUME NEW z \in Lsa, z # y, z # x
        PROVE  /\ z \in db' <=> z \in db
               /\ lists'.rcvage[z] = lists.rcvage[z]
               /\ since_received(z)' = since_received(z)
    <2>1. z \in db' <=> z \in db
      BY <1>2, <1>5
    <2>2. lists'.rcvage[z] = lists.rcvage[z] /\ lists'.agebin[z] = lists.agebin[z]
      BY <1>1, <1>5
    <2>3. is_aging(z)' <=> is_aging(z)
      BY <2>1, <2>2 DEF is_aging
    <2>4. Bin2Age(lists.agebin[z])' = Bin2Age(lists.agebin[z])
      BY <2>2, <1>3
    <2> QED BY <2>1, <2>2, <2>3, <2>4 DEF since_received, lsa_age
  <1>6. x # y => x \notin db'
    BY <1>2
  <1>7. rcvd' = [z \in Lsa |-> IF z = y THEN rcv ELSE IF z = x THEN 0 ELSE rcvd[z]]
    <2>1. ASSUME NEW z \in Lsa
          PROVE  (IF z \in db' THEN lists'.rcvage[z] ELSE 0)
                    = IF z = y THEN rcv ELSE IF z = x THEN 0 ELSE rcvd[z]
      BY <1>1, <1>2, <1>5, <1>6 DEF rcvd
    <2> QED BY <2>1 DEF rcvd
  <1>8. since' = [z \in Lsa |-> IF z \in {x, y} THEN 0 ELSE since[z]]
    <2>1. ASSUME NEW z \in Lsa
          PROVE  (IF z \in db' THEN since_received(z)' ELSE 0)
                    = IF z \in {x, y} THEN 0 ELSE since[z]
      <3>1. CASE z = y
        BY <3>1, <1>2, <1>4
      <3>2. CASE z = x /\ z # y
        BY <3>2, <1>6
      <3>3. CASE z # x /\ z # y
        BY <3>3, <1>5 DEF since
      <3> QED BY <3>1, <3>2, <3>3
    <2> QED BY <2>1 DEF since
  <1> QED BY <1>2, <1>7, <1>8 DEF Abstract!Install

\* Bin0 moving on is the step Second of Ages.
LEMMA dbageRefines ==
    ASSUME IInv, dbage
    PROVE  Abstract!Second
  <1>1. /\ pc = "done" /\ UNCHANGED <<lists, db>>
        /\ Bin0 \in Bins /\ lists \in Lists
    BY DEF dbage, IInv, TypeOK
  <1> USE AgeAssumption DEF AgeAssumption
  <1>2. ASSUME NEW x \in Lsa
        PROVE  /\ lists.agebin[x] \in Bins /\ lists.rcvage[x] \in Nat
               /\ Bin2Age(lists.agebin[x]) \in Bins
               /\ Bin2Age(lists.agebin[x])' = IF Bin2Age(lists.agebin[x]) = MaxAge THEN 0
                                              ELSE Bin2Age(lists.agebin[x]) + 1
    <2>1. lists.agebin[x] \in Bins /\ lists.rcvage[x] \in RcvAges
      BY <1>1 DEF Lists
    <2>2. lists.rcvage[x] \in Nat
      BY <2>1 DEF RcvAges
    <2>3. /\ Bin2Age(lists.agebin[x]) \in Bins
          /\ LET b == lists.agebin[x]
             IN  Bin2Age(b)' = IF Bin2Age(b) = MaxAge THEN 0 ELSE Bin2Age(b) + 1
      BY <2>1, <1>1, SecondPasses
    <2> QED BY <2>1, <2>2, <2>3
  <1>3. \A x \in Lsa : is_aging(x)' <=> is_aging(x)
    BY <1>1 DEF is_aging
  <1>4. ASSUME NEW x \in Lsa, is_aging(x)
        PROVE  /\ rcvd[x] + since[x] < MaxAge
               /\ since_received(x) < MaxAge
               /\ since_received(x)' = since_received(x) + 1
    <2> DEFINE g == Bin2Age(lists.agebin[x])
               r == lists.rcvage[x]
    <2>1. x \in db /\ rcvd[x] = r /\ since[x] = g - r /\ since_received(x) = g - r
      BY <1>4 DEF is_aging, rcvd, since, since_received, lsa_age
    <2>2. g # MaxAge /\ g \in Bins /\ r \in Nat /\ r <= g
      BY <1>1, <1>2, <1>4, AgingBelowMax DEF IInv, NotYounger
    <2>3. since_received(x)' = g' - r
      BY <1>1, <1>3, <1>4 DEF since_received, lsa_age
    <2>4. g' = g + 1
      BY <1>2, <2>2
    <2> HIDE DEF g, r
    <2> QED BY <2>1, <2>2, <2>3, <2>4 DEF Bins
  <1>5. ASSUME NEW x \in Lsa, ~is_aging(x)
        PROVE  since_received(x)' = IF since_received(x) = MaxAge THEN 0
                                    ELSE since_received(x) + 1
    BY <1>2, <1>3, <1>5, <1>1 DEF since_received
  <1>6. since' = [x \in Lsa |-> IF x \notin db THEN 0
                                ELSE IF since[x] = MaxAge THEN 0 ELSE since[x] + 1]
    <2>1. ASSUME NEW x \in Lsa
          PROVE  (IF x \in db' THEN since_received(x)' ELSE 0)
                    = IF x \notin db THEN 0
                      ELSE IF since[x] = MaxAge THEN 0 ELSE since[x] + 1
      <3>1. CASE x \notin db
        BY <3>1, <1>1
      <3>2. CASE x \in db
        <4>1. since[x] = since_received(x)
          BY <3>2 DEF since
        <4>2. CASE is_aging(x)
          <5>1. since_received(x) # MaxAge
            <6>1. since_received(x) < MaxAge
              BY <4>2, <1>4
            <6> QED BY <6>1
          <5> QED BY <5>1, <4>1, <4>2, <3>2, <1>1, <1>4
        <4>3. CASE ~is_aging(x)
          BY <4>1, <4>3, <3>2, <1>1, <1>5
        <4> QED BY <4>2, <4>3
      <3> QED BY <3>1, <3>2
    <2> QED BY <2>1 DEF since
  <1>7. rcvd' = rcvd /\ db' = db
    BY <1>1 DEF rcvd
  <1>8. \A x \in Lsa : Abstract!Ageing(x) => is_aging(x)
    BY DEF Abstract!Ageing, is_aging, rcvd
  <1> QED BY <1>4, <1>6, <1>7, <1>8 DEF Abstract!Second

\* Steps that leave the LSAs and Bin0 alone are no steps of Ages.
LEMMA Stutters ==
    ASSUME UNCHANGED <<Bin0, lists, db>>
    PROVE  UNCHANGED <<db, rcvd, since>>
  <1>1. \A x : since_received(x)' = since_received(x)
    BY DEF since_received, lsa_age, is_aging, Bin2Age, Age2Bin
  <1> QED BY <1>1 DEF rcvd, since

LEMMA DeleteRefines ==
    ASSUME IInv, NEW x \in Lsa, DeleteLSA(x)
    PROVE  Abstract!Remove(x)
  <1>1. /\ x \in db /\ db' = db \ {x} /\ Bin0' = Bin0
        /\ lists' = stop_aging(lists, x) /\ lists \in Lists /\ WellLinked(lists)
    BY DEF DeleteLSA, IInv, TypeOK, LinksSound
  <1>2. lists'.rcvage = lists.rcvage /\ lists'.agebin = lists.agebin
    BY <1>1, StopSound
  <1>3. \A z \in Lsa \ {x} : since_received(z)' = since_received(z)
    BY <1>1, <1>2 DEF since_received, lsa_age, is_aging, Bin2Age, Age2Bin
  <1>4. rcvd' = [rcvd EXCEPT ![x] = 0]
    BY <1>1, <1>2 DEF rcvd
  <1>5. since' = [since EXCEPT ![x] = 0]
    BY <1>1, <1>3 DEF since
  <1> QED BY <1>1, <1>4, <1>5 DEF Abstract!Remove

\* The age bins implement Ages: every second every LSA that ages grows older by
\* one, none before those at MaxAge have been installed again, and no other
\* step changes the age of an LSA it does not add or remove.
THEOREM Implementation == Spec => ImplementsAges
  <1>1. Init => Abstract!AgesInit
    BY DEF Init, Abstract!AgesInit, rcvd, since
  <1>2. IInv /\ [Next]_vars => [Abstract!AgesNext]_(Abstract!ageVars)
    <2> SUFFICES ASSUME IInv, [Next]_vars
                 PROVE  [Abstract!AgesNext]_(Abstract!ageVars)
      OBVIOUS
    <2>1. CASE \E x \in Pointers, y \in Lsa, rcv \in RcvAges : Add(x, y, rcv)
      <3> PICK x \in Pointers, y \in Lsa, rcv \in RcvAges : Add(x, y, rcv)
        BY <2>1
      <3>1. Abstract!Install(x, y, rcv)
        BY AddRefines DEF Add
      <3> QED BY <3>1 DEF Abstract!AgesNext, Pointers, RcvAges
    <2>2. CASE \E x \in Lsa : DeleteLSA(x)
      BY <2>2, DeleteRefines DEF Abstract!AgesNext
    <2>3. CASE dbage
      BY <2>3, dbageRefines DEF Abstract!AgesNext
    <2>4. CASE maxage_lsas \/ LoopEnds \/ UNCHANGED vars
      BY <2>4, Stutters DEF maxage_lsas, LoopEnds, vars, Abstract!ageVars
    <2>5. CASE Visit
      <3>1. CASE UNCHANGED <<lists, db>>
        BY <2>5, <3>1, Stutters DEF Visit, Abstract!ageVars
      <3>2. CASE \E y \in Lsa : AddLSA(lsap, y, MaxAge)
        <4> PICK y \in Lsa : AddLSA(lsap, y, MaxAge)
          BY <3>2
        <4>1. lsap \in db /\ db \subseteq Lsa /\ MaxAge \in RcvAges /\ Bin0' = Bin0
          BY <2>5, VisitAhead, AgeAssumption DEF Visit, IInv, TypeOK, AgeAssumption, RcvAges
        <4>2. Abstract!Install(lsap, y, MaxAge)
          BY <4>1, AddRefines
        <4> QED BY <4>1, <4>2 DEF Abstract!AgesNext, RcvAges
      <3> QED BY <3>1, <3>2, <2>5 DEF Visit
    <2> QED BY <2>1, <2>2, <2>3, <2>4, <2>5 DEF Next
  <1> QED BY <1>1, <1>2, IInvHolds, PTL DEF Spec, ImplementsAges, Abstract!AgesSpec

=============================================================================
