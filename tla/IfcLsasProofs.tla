--------------------------- MODULE IfcLsasProofs ---------------------------
(***************************************************************************)
(* Theorems about the elections of an interface and about what follows them:      *)
(* the election is that of RFC 2328 in whatever order the neighbours are, and      *)
(* adjacencies and LSAs are as the last election left them.                       *)
(***************************************************************************)
EXTENDS IfcLsas, FiniteSetTheorems, WellFoundedInduction, TLAPS

-----------------------------------------------------------------------------
(* Finite sets, and recursion over their subsets. *)

\* Among sets of parts of a finite set there is a minimal one.
LEMMA MinimalSubset ==
    ASSUME NEW S, IsFiniteSet(S), NEW Bad \in SUBSET (SUBSET S), Bad # {}
    PROVE  \E T \in Bad : \A U \in Bad : U \subseteq T => U = T
<1>1. IsWellFoundedOn(StrictSubsetOrdering(S), SUBSET S)
  BY FS_StrictSubsetOrderingWellFounded, FS_FiniteSubsetsOfFinite
<1>2. \E T \in Bad : \A U \in Bad : ~(<<U, T>> \in StrictSubsetOrdering(S))
  BY <1>1, WFMin
<1>. QED
  BY <1>2 DEF StrictSubsetOrdering

\* A set of numbers that is bounded has a greatest one.
LEMMA GreatestNat ==
    ASSUME NEW n \in Nat, NEW U \in SUBSET (0..n), U # {}
    PROVE  \E k \in U : \A j \in U : j <= k
<1>. DEFINE All == 0..n
            Above == {(k + 1)..n : k \in U}
<1>1. IsFiniteSet(All)
  BY FS_Interval
<1>2. Above \in SUBSET (SUBSET All) /\ Above # {}
  <2>1. \A k \in U : (k + 1)..n \subseteq All
    OBVIOUS
  <2>2. PICK k \in U : TRUE
    OBVIOUS
  <2>3. (k + 1)..n \in Above
    OBVIOUS
  <2>. QED
    BY <2>1, <2>3
<1>3. PICK T \in Above : \A W \in Above : W \subseteq T => W = T
  <2>. HIDE DEF Above, All
  <2>. QED
    BY <1>1, <1>2, MinimalSubset
<1>4. PICK k \in U : T = (k + 1)..n
  OBVIOUS
<1>5. ASSUME NEW j \in U PROVE j <= k
  <2>. SUFFICES ASSUME k < j PROVE FALSE
    OBVIOUS
  <2>1. (j + 1)..n \in Above /\ (j + 1)..n \subseteq T
    BY <1>4
  <2>2. j \in T /\ j \notin (j + 1)..n
    BY <1>4
  <2>. QED
    BY <1>3, <2>1, <2>2
<1>. QED
  BY <1>5

\* g takes one element after the other out of each subset of S: pick[U] is the one it
\* takes out of U, and step[x, v] what it makes of it and the value v of the rest.
Iterates(g, S, base, pick, step) ==
    \A U \in SUBSET S :
        g[U] = IF U = {} THEN base ELSE step[<<pick[U], g[U \ {pick[U]}]>>]

\* There is one such function at most,
LEMMA IterUnique ==
    ASSUME NEW S, IsFiniteSet(S), NEW pick, \A U \in SUBSET S : U # {} => pick[U] \in U,
           NEW base, NEW step, NEW g, NEW h,
           Iterates(g, S, base, pick, step), Iterates(h, S, base, pick, step)
    PROVE  \A U \in SUBSET S : g[U] = h[U]
<1>. DEFINE Bad == {U \in SUBSET S : g[U] # h[U]}
<1>. SUFFICES ASSUME Bad # {} PROVE FALSE
  OBVIOUS
<1>1. PICK T \in Bad : \A U \in Bad : U \subseteq T => U = T
  <2>1. Bad \in SUBSET (SUBSET S)
    OBVIOUS
  <2>. HIDE DEF Bad
  <2>. QED
    BY <2>1, MinimalSubset
<1>2. T # {}
  BY DEF Iterates
<1>. DEFINE W == T \ {pick[T]}
<1>3. W \in SUBSET S /\ W \subseteq T /\ W # T
  BY <1>2
<1>4. g[W] = h[W]
  BY <1>1, <1>3
<1>. QED
  BY <1>2, <1>4 DEF Iterates

\* and there is one.
LEMMA IterExists ==
    ASSUME NEW S, IsFiniteSet(S), NEW pick, \A U \in SUBSET S : U # {} => pick[U] \in U,
           NEW V, NEW base \in V, NEW step \in [S \X V -> V]
    PROVE  \E g \in [SUBSET S -> V] : Iterates(g, S, base, pick, step)
<1>. DEFINE Iter(g, T) == g \in [SUBSET T -> V] /\ Iterates(g, T, base, pick, step)
            Bad == {T \in SUBSET S : ~ \E g : Iter(g, T)}
<1>. SUFFICES ASSUME Bad # {} PROVE FALSE
  OBVIOUS
<1>1. PICK T \in Bad : \A U \in Bad : U \subseteq T => U = T
  <2>1. Bad \in SUBSET (SUBSET S)
    OBVIOUS
  <2>. HIDE DEF Bad
  <2>. QED
    BY <2>1, MinimalSubset
<1>. DEFINE h(U) == CHOOSE g : Iter(g, U)
            last(U) == IF U = {} THEN base ELSE step[<<pick[U], h(U \ {pick[U]})[U \ {pick[U]}]>>]
            f == [U \in SUBSET T |-> last(U)]
<1>2. ASSUME NEW U \in SUBSET T, U # T
      PROVE  Iter(h(U), U)
  BY <1>1, <1>2
<1>3. ASSUME NEW U \in SUBSET T, U # {}
      PROVE  /\ pick[U] \in U /\ U \ {pick[U]} \in SUBSET T /\ U \ {pick[U]} # T
             /\ Iter(h(U \ {pick[U]}), U \ {pick[U]})
  <2>1. pick[U] \in U
    BY <1>3
  <2>2. U \ {pick[U]} \in SUBSET T /\ U \ {pick[U]} # T
    BY <2>1
  <2>. QED
    BY <1>2, <2>1, <2>2
<1>4. ASSUME NEW U \in SUBSET T, U # T
      PROVE  h(U)[U] = last(U)
  <2>. HIDE DEF h
  <2>1. Iterates(h(U), U, base, pick, step)
    BY <1>2, <1>4
  <2>2. CASE U = {}
    BY <2>1, <2>2 DEF Iterates
  <2>3. CASE U # {}
    <3>. DEFINE W == U \ {pick[U]}
    <3>1. W \subseteq U /\ Iterates(h(W), W, base, pick, step)
      BY <1>3, <2>3
    <3>2. Iterates(h(U), W, base, pick, step)
      BY <2>1, <3>1 DEF Iterates
    <3>3. IsFiniteSet(W) /\ W \subseteq S
      BY <3>1, <1>1, FS_Subset
    <3>4. h(U)[W] = h(W)[W]
      <4>. HIDE DEF W
      <4>1. \A X \in SUBSET W : h(U)[X] = h(W)[X]
        BY <3>1, <3>2, <3>3, IterUnique
      <4>. QED
        BY <4>1
    <3>5. h(U)[U] = step[<<pick[U], h(U)[W]>>]
      BY <2>1, <2>3 DEF Iterates
    <3>. QED
      BY <2>3, <3>4, <3>5
  <2>. QED
    BY <2>2, <2>3
<1>. HIDE DEF h
<1>5. ASSUME NEW U \in SUBSET T
      PROVE  last(U) \in V
  <2>1. CASE U = {}
    BY <2>1
  <2>2. CASE U # {}
    <3>. DEFINE W == U \ {pick[U]}
    <3>0. h(W) \in [SUBSET W -> V]
      BY <1>3, <2>2
    <3>1. h(W)[W] \in V
      <4>. HIDE DEF W
      <4>. QED
        BY <3>0
    <3>2. pick[U] \in S
      BY <1>3, <2>2
    <3>. QED
      BY <2>2, <3>1, <3>2
  <2>. QED
    BY <2>1, <2>2
<1>6. Iterates(f, T, base, pick, step)
  <2>. SUFFICES ASSUME NEW U \in SUBSET T, U # {}
                PROVE  f[U] = step[<<pick[U], f[U \ {pick[U]}]>>]
    BY DEF Iterates
  <2>1. f[U \ {pick[U]}] = h(U \ {pick[U]})[U \ {pick[U]}]
    BY <1>3, <1>4
  <2>. QED
    BY <2>1
<1>7. Iter(f, T)
  BY <1>5, <1>6
<1>. QED
  BY <1>7

-----------------------------------------------------------------------------
(* The two loops. *)

\* A set of positions has a greatest one, which Max chooses.
LEMMA MaxOfPositions ==
    ASSUME NEW n \in Nat, NEW U \in SUBSET (1..n), U # {}
    PROVE  Max(U) \in U
<1>1. U \in SUBSET (0..n)
  OBVIOUS
<1>2. PICK k \in U : \A j \in U : j <= k
  BY <1>1, GreatestNat
<1>3. \A j \in U : k >= j
  BY <1>2
<1>. QED
  BY <1>3 DEF Max

\* The loop for the Backup as a recursion: with each neighbour it keeps the best so
\* far or takes the neighbour.
BdrRecursion(i, n, list, g) ==
    /\ g[{}] = FirstBdr(i)
    /\ \A U \in SUBSET (1..n) : U # {} =>
          \E k \in U : g[U] = IF TakesBdr(i, g[U \ {k}], list[k]) THEN list[k]
                             ELSE g[U \ {k}]
    /\ ElectBdr(i, list) = g[1..n]

LEMMA BdrLoop ==
    ASSUME NEW i, NEW n \in Nat, NEW list, DOMAIN list = 1..n
    PROVE  \E g : BdrRecursion(i, n, list, g)
<1>. DEFINE D == 1..n
            pick == [U \in SUBSET D |-> Max(U)]
            V == {FirstBdr(i)} \cup {list[k] : k \in D}
            step == [p \in D \X V |-> IF TakesBdr(i, p[2], list[p[1]]) THEN list[p[1]] ELSE p[2]]
            Loop(g) == g = [U \in SUBSET (DOMAIN list) |->
                              IF U = {} THEN FirstBdr(i)
                              ELSE IF TakesBdr(i, g[U \ {Max(U)}], list[Max(U)]) THEN list[Max(U)]
                              ELSE g[U \ {Max(U)}]]
<1>1. ElectBdr(i, list) = (CHOOSE g : Loop(g))[D]
  BY DEF ElectBdr, FoldLeft, MapThenFoldSet
<1>2. \A U \in SUBSET D : U # {} => Max(U) \in U
  BY MaxOfPositions
<1>3. \A U \in SUBSET D : U # {} => pick[U] \in U
  BY <1>2
<1>4. step \in [D \X V -> V]
  OBVIOUS
<1>5. PICK g \in [SUBSET D -> V] : Iterates(g, D, FirstBdr(i), pick, step)
  <2>1. IsFiniteSet(D) /\ FirstBdr(i) \in V
    BY FS_Interval
  <2>. HIDE DEF D, V, pick, step
  <2>. QED
    BY <1>3, <1>4, <2>1, IterExists
<1>6. ASSUME NEW U \in SUBSET D, U # {}
      PROVE  g[U] = IF TakesBdr(i, g[U \ {Max(U)}], list[Max(U)]) THEN list[Max(U)]
                    ELSE g[U \ {Max(U)}]
  <2>1. g[U] = step[<<Max(U), g[U \ {Max(U)}]>>]
    BY <1>5, <1>6 DEF Iterates
  <2>2. Max(U) \in D /\ g[U \ {Max(U)}] \in V
    BY <1>2, <1>6
  <2>. QED
    BY <2>1, <2>2
<1>7. g[{}] = FirstBdr(i)
  BY <1>5 DEF Iterates
<1>8. Loop(g)
  BY <1>6, <1>7
<1>. DEFINE h == CHOOSE f : Loop(f)
<1>9. Loop(h)
  <2>. HIDE DEF Loop
  <2>. QED
    BY <1>8
<1>. HIDE DEF h
<1>10. h[{}] = FirstBdr(i)
  BY <1>9
<1>11. ASSUME NEW U \in SUBSET (1..n), U # {}
       PROVE  \E k \in U :
                 h[U] = IF TakesBdr(i, h[U \ {k}], list[k]) THEN list[k] ELSE h[U \ {k}]
  <2>1. h[U] = IF TakesBdr(i, h[U \ {Max(U)}], list[Max(U)]) THEN list[Max(U)]
               ELSE h[U \ {Max(U)}]
    BY <1>9, <1>11
  <2>. QED
    BY <1>2, <1>11, <2>1
<1>. QED
  BY <1>1, <1>10, <1>11 DEF h, BdrRecursion

\* The same for the Designated Router.
DrRecursion(i, n, list, g) ==
    /\ g[{}] = FirstDr(i)
    /\ \A U \in SUBSET (1..n) : U # {} =>
          \E k \in U : g[U] = IF TakesDr(i, g[U \ {k}], list[k]) THEN list[k]
                             ELSE g[U \ {k}]
    /\ DeclaredDr(i, list) = g[1..n]

LEMMA DrLoop ==
    ASSUME NEW i, NEW n \in Nat, NEW list, DOMAIN list = 1..n
    PROVE  \E g : DrRecursion(i, n, list, g)
<1>. DEFINE D == 1..n
            pick == [U \in SUBSET D |-> Max(U)]
            V == {FirstDr(i)} \cup {list[k] : k \in D}
            step == [p \in D \X V |-> IF TakesDr(i, p[2], list[p[1]]) THEN list[p[1]] ELSE p[2]]
            Loop(g) == g = [U \in SUBSET (DOMAIN list) |->
                              IF U = {} THEN FirstDr(i)
                              ELSE IF TakesDr(i, g[U \ {Max(U)}], list[Max(U)]) THEN list[Max(U)]
                              ELSE g[U \ {Max(U)}]]
<1>1. DeclaredDr(i, list) = (CHOOSE g : Loop(g))[D]
  BY DEF DeclaredDr, FoldLeft, MapThenFoldSet
<1>2. \A U \in SUBSET D : U # {} => Max(U) \in U
  BY MaxOfPositions
<1>3. \A U \in SUBSET D : U # {} => pick[U] \in U
  BY <1>2
<1>4. step \in [D \X V -> V]
  OBVIOUS
<1>5. PICK g \in [SUBSET D -> V] : Iterates(g, D, FirstDr(i), pick, step)
  <2>1. IsFiniteSet(D) /\ FirstDr(i) \in V
    BY FS_Interval
  <2>. HIDE DEF D, V, pick, step
  <2>. QED
    BY <1>3, <1>4, <2>1, IterExists
<1>6. ASSUME NEW U \in SUBSET D, U # {}
      PROVE  g[U] = IF TakesDr(i, g[U \ {Max(U)}], list[Max(U)]) THEN list[Max(U)]
                    ELSE g[U \ {Max(U)}]
  <2>1. g[U] = step[<<Max(U), g[U \ {Max(U)}]>>]
    BY <1>5, <1>6 DEF Iterates
  <2>2. Max(U) \in D /\ g[U \ {Max(U)}] \in V
    BY <1>2, <1>6
  <2>. QED
    BY <2>1, <2>2
<1>7. g[{}] = FirstDr(i)
  BY <1>5 DEF Iterates
<1>8. Loop(g)
  BY <1>6, <1>7
<1>. DEFINE h == CHOOSE f : Loop(f)
<1>9. Loop(h)
  <2>. HIDE DEF Loop
  <2>. QED
    BY <1>8
<1>. HIDE DEF h
<1>10. h[{}] = FirstDr(i)
  BY <1>9
<1>11. ASSUME NEW U \in SUBSET (1..n), U # {}
       PROVE  \E k \in U :
                 h[U] = IF TakesDr(i, h[U \ {k}], list[k]) THEN list[k] ELSE h[U \ {k}]
  <2>1. h[U] = IF TakesDr(i, h[U \ {Max(U)}], list[Max(U)]) THEN list[Max(U)]
               ELSE h[U \ {Max(U)}]
    BY <1>9, <1>11
  <2>. QED
    BY <1>2, <1>11, <2>1
<1>. QED
  BY <1>1, <1>10, <1>11 DEF h, DrRecursion

-----------------------------------------------------------------------------
(* The order of the candidates. *)

\* Priorities, and addresses between equals, order the candidates in a row.
LEMMA LowerOrders ==
    ASSUME NEW i \in Ifcs, NEW a \in Addr, NEW b \in Addr, NEW c \in Addr
    PROVE  /\ ~Lower(i, a, a)
           /\ a # b => Lower(i, a, b) \/ Lower(i, b, a)
           /\ ~(Lower(i, a, b) /\ Lower(i, b, a))
           /\ Lower(i, a, b) /\ Lower(i, b, c) => Lower(i, a, c)
           /\ ~Lower(i, a, b) /\ ~Lower(i, b, c) => ~Lower(i, a, c)
<1>1. priority(i, a) \in Nat /\ priority(i, b) \in Nat /\ priority(i, c) \in Nat
  BY ElectionAssumption DEF priority, Ifcs, Nbrs, Addr, UnknownAddr
<1>2. a \in Nat /\ b \in Nat /\ c \in Nat
  BY ElectionAssumption DEF Addr, UnknownAddr
<1>. QED
  BY <1>1, <1>2 DEF Lower

\* Nobody is below a candidate.
LEMMA NobodyIsLowest ==
    ASSUME NEW i \in Ifcs, NEW a \in Candidates(i)
    PROVE  a \in Rtr /\ a # UnknownAddr /\ Lower(i, UnknownAddr, a)
<1>1. a \in Rtr /\ a # UnknownAddr
  BY ElectionAssumption DEF Candidates, Ifcs, UnknownAddr
<1>2. priority(i, UnknownAddr) = 0
  BY ElectionAssumption DEF priority, Ifcs, UnknownAddr
<1>3. priority(i, a) \in Nat /\ priority(i, a) # 0
  BY <1>1, ElectionAssumption DEF priority, Ifcs, Nbrs, Candidates, Eligible
<1>. QED
  BY <1>1, <1>2, <1>3 DEF Lower

\* The candidate to whom none of S is preferred is the one Highest names.
LEMMA HighestIs ==
    ASSUME NEW i \in Ifcs, NEW S \in SUBSET Addr, NEW a \in S,
           \A b \in S : ~Lower(i, a, b)
    PROVE  Highest(i, S) = a
<1>1. \A c \in S : (\A b \in S : ~Lower(i, c, b)) => c = a
  BY LowerOrders
<1>. QED
  BY <1>1 DEF Highest

-----------------------------------------------------------------------------
(* The Backup. *)

\* Whom the loop for the Backup prefers: who declares itself Backup before who does
\* not, then by priority.
Preferred(i, a, b) ==
    \/ DeclaredBdr(i, a) /\ ~DeclaredBdr(i, b)
    \/ (DeclaredBdr(i, a) <=> DeclaredBdr(i, b)) /\ Lower(i, b, a)

BdrCandidates(i) == Candidates(i) \ CallDr(i)

LEMMA PreferredOrders ==
    ASSUME NEW i \in Ifcs, NEW a \in Addr, NEW b \in Addr, NEW c \in Addr
    PROVE  /\ ~Preferred(i, a, a)
           /\ ~(Preferred(i, a, b) /\ Preferred(i, b, a))
           /\ ~Preferred(i, a, b) /\ ~Preferred(i, b, c) => ~Preferred(i, a, c)
BY LowerOrders DEF Preferred

\* What TakesBdr says in these terms.
LEMMA TakesBdrIs ==
    ASSUME NEW i \in Ifcs, NEW c \in Addr, NEW q \in Rtr \ {i.addr}
    PROVE  TakesBdr(i, c, q) <=> q \in BdrCandidates(i) /\ ~Preferred(i, c, q)
<1>1. q # i.addr /\ q # UnknownAddr
  BY ElectionAssumption DEF UnknownAddr
<1>2. q \in BdrCandidates(i) <=> Eligible(i, q) /\ ~i.nbr[q].dr
  BY <1>1 DEF BdrCandidates, Candidates, CallDr, SaysDr
<1>3. DeclaredBdr(i, q) <=> i.nbr[q].bdr
  BY <1>1 DEF DeclaredBdr
<1>. QED
  BY <1>2, <1>3 DEF TakesBdr, Preferred

\* The neighbours, each of them once, in some order.
Lists(i, n, list) == DOMAIN list = 1..n /\ {list[k] : k \in 1..n} = Rtr \ {i.addr}

\* The loop elects a candidate to whom it prefers no other.
LEMMA BdrIsPreferred ==
    ASSUME NEW i \in Ifcs, NEW n \in Nat, NEW list, Lists(i, n, list)
    PROVE  /\ ElectBdr(i, list) \in BdrCandidates(i) \cup {UnknownAddr}
           /\ \A q \in BdrCandidates(i) : ~Preferred(i, q, ElectBdr(i, list))
<1>. DEFINE C == BdrCandidates(i)
<1>1. PICK g : BdrRecursion(i, n, list, g)
  BY BdrLoop DEF Lists
<1>. DEFINE Best(U, c) ==
              /\ c \in C \cup {UnknownAddr}
              /\ i.addr \in C => ~Preferred(i, i.addr, c)
              /\ \A k \in U : list[k] \in C => ~Preferred(i, list[k], c)
            Bad == {U \in SUBSET (1..n) : ~Best(U, g[U])}
<1>2. C \subseteq Rtr /\ C \cup {UnknownAddr} \subseteq Addr /\ i.addr \in Addr
  BY DEF BdrCandidates, Candidates, Ifcs, Addr
<1>3. \A k \in 1..n : list[k] \in Rtr \ {i.addr} /\ list[k] \in Addr
  BY DEF Lists, Addr
<1>4. Best({}, g[{}])
  <2>1. i.addr \in C <=> i.dr # i.addr /\ i.pri # 0
    BY DEF BdrCandidates, Candidates, CallDr, SaysDr, Eligible
  <2>2. i.addr \in C => ~Preferred(i, i.addr, i.addr)
    BY <1>2, PreferredOrders
  <2>. QED
    BY <1>1, <2>1, <2>2 DEF FirstBdr, BdrRecursion
<1>5. Bad = {}
  <2>. SUFFICES ASSUME Bad # {} PROVE FALSE
    OBVIOUS
  <2>1. PICK T \in Bad : \A U \in Bad : U \subseteq T => U = T
    <3>. DEFINE D == 1..n
    <3>1. Bad \in SUBSET (SUBSET D) /\ IsFiniteSet(D)
      BY FS_Interval
    <3>. HIDE DEF Bad, D
    <3>. QED
      BY <3>1, MinimalSubset
  <2>2. T # {}
    BY <1>4
  <2>3. PICK k \in T : g[T] = IF TakesBdr(i, g[T \ {k}], list[k]) THEN list[k]
                              ELSE g[T \ {k}]
    BY <1>1, <2>2 DEF BdrRecursion
  <2>4. Best(T \ {k}, g[T \ {k}])
    <3>1. T \ {k} \in SUBSET (1..n) /\ T \ {k} \subseteq T /\ T \ {k} # T
      OBVIOUS
    <3>. QED
      BY <2>1, <3>1
  <2>. DEFINE c == g[T \ {k}]
  <2>. HIDE DEF C
  <2>5. c \in Addr /\ k \in 1..n /\ list[k] \in Addr
    BY <1>2, <1>3, <2>4
  <2>6. TakesBdr(i, c, list[k]) <=> list[k] \in C /\ ~Preferred(i, c, list[k])
    BY <1>3, <2>5, TakesBdrIs DEF C
  <2>. HIDE DEF c
  <2>7. CASE TakesBdr(i, c, list[k])
    <3>1. \A q \in Addr : ~Preferred(i, q, c) => ~Preferred(i, q, list[k])
      BY <2>5, <2>6, <2>7, PreferredOrders
    <3>2. ~Preferred(i, list[k], list[k])
      BY <2>5, PreferredOrders
    <3>3. g[T] = list[k]
      BY <2>3, <2>7 DEF c
    <3>4. \A j \in T : list[j] \in C => ~Preferred(i, list[j], list[k])
      BY <1>3, <2>4, <3>1, <3>2 DEF c
    <3>. QED
      BY <1>2, <2>4, <2>6, <2>7, <3>1, <3>3, <3>4 DEF c
  <2>8. CASE ~TakesBdr(i, c, list[k])
    <3>1. list[k] \in C => ~Preferred(i, list[k], c)
      BY <2>5, <2>6, <2>8, PreferredOrders
    <3>2. g[T] = c
      BY <2>3, <2>8 DEF c
    <3>. QED
      BY <2>4, <3>1, <3>2 DEF c
  <2>. QED
    BY <2>7, <2>8
<1>6. Best(1..n, g[1..n])
  BY <1>5
<1>7. \A q \in C : q = i.addr \/ \E k \in 1..n : q = list[k]
  BY <1>2 DEF Lists
<1>. QED
  BY <1>1, <1>6, <1>7 DEF BdrRecursion

\* It elects whom the RFC names.
LEMMA BdrIsRfc ==
    ASSUME NEW i \in Ifcs, NEW n \in Nat, NEW list, Lists(i, n, list)
    PROVE  ElectBdr(i, list) = RfcBdr(i)
<1>. DEFINE C == BdrCandidates(i)
            c == ElectBdr(i, list)
<1>1. c \in C \cup {UnknownAddr} /\ \A q \in C : ~Preferred(i, q, c)
  BY BdrIsPreferred
<1>2. C \subseteq Addr /\ CallBdr(i) = {a \in C : DeclaredBdr(i, a)}
  BY DEF BdrCandidates, Candidates, Ifcs, Addr, CallBdr
<1>3. \A q \in C : Lower(i, UnknownAddr, q)
  BY NobodyIsLowest DEF BdrCandidates
<1>4. ~DeclaredBdr(i, UnknownAddr)
  BY ElectionAssumption DEF DeclaredBdr, Ifcs, UnknownAddr
<1>. HIDE DEF C, c
<1>5. CASE C = {}
  <2>1. c = UnknownAddr /\ CallBdr(i) = {}
    BY <1>1, <1>2, <1>5
  <2>. QED
    BY <2>1, <1>5 DEF RfcBdr, Highest, C, c, BdrCandidates
<1>6. CASE C # {}
  <2>1. c \in C
    BY <1>1, <1>3, <1>4, <1>6 DEF Preferred
  <2>2. CASE CallBdr(i) = {}
    <3>1. \A q \in C : ~Lower(i, c, q)
      BY <1>1, <1>2, <2>1, <2>2 DEF Preferred
    <3>2. Highest(i, C) = c
      BY <1>2, <2>1, <3>1, HighestIs
    <3>. QED
      BY <2>2, <3>2 DEF RfcBdr, C, c, BdrCandidates
  <2>3. CASE CallBdr(i) # {}
    <3>1. c \in CallBdr(i)
      BY <1>1, <1>2, <2>1, <2>3 DEF Preferred
    <3>2. \A q \in CallBdr(i) : ~Lower(i, c, q)
      BY <1>1, <1>2, <3>1 DEF Preferred
    <3>3. CallBdr(i) \in SUBSET Addr
      BY <1>2
    <3>4. Highest(i, CallBdr(i)) = c
      BY <3>1, <3>2, <3>3, HighestIs
    <3>. QED
      BY <2>3, <3>4 DEF RfcBdr, c
  <2>. QED
    BY <2>2, <2>3
<1>. QED
  BY <1>5, <1>6

-----------------------------------------------------------------------------
(* The Designated Router. *)

\* The loop elects the highest of those who declare themselves Designated Router.
LEMMA DrIsHighest ==
    ASSUME NEW i \in Ifcs, NEW n \in Nat, NEW list, Lists(i, n, list)
    PROVE  /\ DeclaredDr(i, list) \in CallDr(i) \cup {UnknownAddr}
           /\ \A q \in CallDr(i) : ~Lower(i, DeclaredDr(i, list), q)
<1>. DEFINE C == CallDr(i)
<1>1. PICK g : DrRecursion(i, n, list, g)
  BY DrLoop DEF Lists
<1>. DEFINE Best(U, c) ==
              /\ c \in C \cup {UnknownAddr}
              /\ i.addr \in C => ~Lower(i, c, i.addr)
              /\ \A k \in U : list[k] \in C => ~Lower(i, c, list[k])
            Bad == {U \in SUBSET (1..n) : ~Best(U, g[U])}
<1>2. C \subseteq Rtr /\ C \cup {UnknownAddr} \subseteq Addr /\ i.addr \in Addr
  BY DEF CallDr, Candidates, Ifcs, Addr
<1>3. \A k \in 1..n : list[k] \in Rtr \ {i.addr} /\ list[k] \in Addr
  BY DEF Lists, Addr
<1>4. Best({}, g[{}])
  <2>1. i.addr \in C <=> i.dr = i.addr /\ i.pri # 0
    BY DEF Candidates, CallDr, SaysDr, Eligible
  <2>2. i.addr \in C => ~Lower(i, i.addr, i.addr)
    BY <1>2, LowerOrders
  <2>. QED
    BY <1>1, <2>1, <2>2 DEF FirstDr, DrRecursion
<1>5. Bad = {}
  <2>. SUFFICES ASSUME Bad # {} PROVE FALSE
    OBVIOUS
  <2>1. PICK T \in Bad : \A U \in Bad : U \subseteq T => U = T
    <3>. DEFINE D == 1..n
    <3>1. Bad \in SUBSET (SUBSET D) /\ IsFiniteSet(D)
      BY FS_Interval
    <3>. HIDE DEF Bad, D
    <3>. QED
      BY <3>1, MinimalSubset
  <2>2. T # {}
    BY <1>4
  <2>3. PICK k \in T : g[T] = IF TakesDr(i, g[T \ {k}], list[k]) THEN list[k]
                              ELSE g[T \ {k}]
    BY <1>1, <2>2 DEF DrRecursion
  <2>4. Best(T \ {k}, g[T \ {k}])
    <3>1. T \ {k} \in SUBSET (1..n) /\ T \ {k} \subseteq T /\ T \ {k} # T
      OBVIOUS
    <3>. QED
      BY <2>1, <3>1
  <2>. DEFINE c == g[T \ {k}]
  <2>5. list[k] \in C <=> Eligible(i, list[k]) /\ i.nbr[list[k]].dr
    BY <1>3 DEF CallDr, Candidates, SaysDr
  <2>. HIDE DEF C
  <2>6. c \in Addr /\ k \in 1..n /\ list[k] \in Addr
    BY <1>2, <1>3, <2>4
  <2>7. TakesDr(i, c, list[k]) <=> list[k] \in C /\ ~Lower(i, list[k], c)
    BY <2>5 DEF TakesDr
  <2>. HIDE DEF c
  <2>8. CASE TakesDr(i, c, list[k])
    <3>1. \A q \in Addr : ~Lower(i, c, q) => ~Lower(i, list[k], q)
      BY <2>6, <2>7, <2>8, LowerOrders
    <3>2. ~Lower(i, list[k], list[k])
      BY <2>6, LowerOrders
    <3>3. g[T] = list[k]
      BY <2>3, <2>8 DEF c
    <3>4. \A j \in T : list[j] \in C => ~Lower(i, list[k], list[j])
      BY <1>3, <2>4, <3>1, <3>2 DEF c
    <3>. QED
      BY <1>2, <2>4, <2>7, <2>8, <3>1, <3>3, <3>4 DEF c
  <2>9. CASE ~TakesDr(i, c, list[k])
    <3>1. list[k] \in C => ~Lower(i, c, list[k])
      BY <2>6, <2>7, <2>9, LowerOrders
    <3>2. g[T] = c
      BY <2>3, <2>9 DEF c
    <3>. QED
      BY <2>4, <3>1, <3>2 DEF c
  <2>. QED
    BY <2>8, <2>9
<1>6. Best(1..n, g[1..n])
  BY <1>5
<1>7. \A q \in C : q = i.addr \/ \E k \in 1..n : q = list[k]
  BY <1>2 DEF Lists
<1>. QED
  BY <1>1, <1>6, <1>7 DEF DrRecursion

\* One pass over the neighbours, in any order, elects whom the RFC names; what is said
\* of them here is all that the proofs below need.
Named(i) ==
    /\ RfcBdr(i) \in BdrCandidates(i) \cup {UnknownAddr}
    /\ \A q \in BdrCandidates(i) : ~Preferred(i, q, RfcBdr(i))
    /\ CallDr(i) = {} => RfcDr(i) = RfcBdr(i)
    /\ CallDr(i) # {} => /\ RfcDr(i) \in CallDr(i)
                         /\ \A q \in CallDr(i) : ~Lower(i, RfcDr(i), q)

LEMMA PassIsRfc ==
    ASSUME NEW i \in Ifcs, NEW n \in Nat, NEW list, Lists(i, n, list)
    PROVE  /\ Pass(i, list) = [i EXCEPT !.bdr = RfcBdr(i), !.dr = RfcDr(i)]
           /\ Named(i)
<1>. DEFINE c == DeclaredDr(i, list)
<1>1. ElectBdr(i, list) = RfcBdr(i)
  BY BdrIsRfc
<1>2. c \in CallDr(i) \cup {UnknownAddr} /\ \A q \in CallDr(i) : ~Lower(i, c, q)
  BY DrIsHighest
<1>3. CallDr(i) \subseteq Addr /\ UnknownAddr \notin CallDr(i)
      /\ \A q \in CallDr(i) : Lower(i, UnknownAddr, q)
  BY NobodyIsLowest DEF CallDr, Addr
<1>. HIDE DEF c
<1>4. CallDr(i) = {} => c = UnknownAddr
  BY <1>2
<1>5. CallDr(i) # {} => c \in CallDr(i) /\ Highest(i, CallDr(i)) = c
  <2>. SUFFICES ASSUME CallDr(i) # {}
                PROVE  c \in CallDr(i) /\ Highest(i, CallDr(i)) = c
    OBVIOUS
  <2>1. c \in CallDr(i)
    BY <1>2, <1>3
  <2>. QED
    BY <1>2, <1>3, <2>1, HighestIs
<1>6. ElectDr(i, list, RfcBdr(i)) = RfcDr(i)
  BY <1>3, <1>4, <1>5 DEF ElectDr, RfcDr, c
<1>7. Pass(i, list) = [i EXCEPT !.bdr = RfcBdr(i), !.dr = RfcDr(i)]
  BY <1>1, <1>6 DEF Pass
<1>8. RfcBdr(i) \in BdrCandidates(i) \cup {UnknownAddr}
      /\ \A q \in BdrCandidates(i) : ~Preferred(i, q, RfcBdr(i))
  BY <1>1, BdrIsPreferred
<1>. QED
  BY <1>2, <1>5, <1>7, <1>8 DEF Named, RfcDr

-----------------------------------------------------------------------------
(* One election is enough: another one, with nothing new, changes nothing. *)

\* Two interfaces that differ in the routers elected, and perhaps in the state, only.
SameLink(i, j) == i.addr = j.addr /\ i.pri = j.pri /\ i.nbr = j.nbr

IsDr(i) == i.dr = i.addr
IsBdr(i) == i.bdr = i.addr

LEMMA SameOrder ==
    ASSUME NEW i \in Ifcs, NEW j \in Ifcs, SameLink(i, j)
    PROVE  /\ \A a, b : Lower(i, a, b) <=> Lower(j, a, b)
           /\ \A S : Highest(i, S) = Highest(j, S)
           /\ Candidates(i) = Candidates(j)
<1>1. \A a : priority(i, a) = priority(j, a)
  BY DEF priority, SameLink
<1>2. \A a, b : Lower(i, a, b) <=> Lower(j, a, b)
  BY <1>1 DEF Lower
<1>3. ASSUME NEW S PROVE Highest(i, S) = Highest(j, S)
  <2>1. \A a : (a \in S /\ \A b \in S : ~Lower(i, a, b))
               <=> (a \in S /\ \A b \in S : ~Lower(j, a, b))
    BY <1>2
  <2>2. (CHOOSE a : a \in S /\ \A b \in S : ~Lower(i, a, b))
        = (CHOOSE a : a \in S /\ \A b \in S : ~Lower(j, a, b))
    BY <2>1, Zenon
  <2>3. (CHOOSE a \in S : \A b \in S : ~Lower(i, a, b))
        = (CHOOSE a \in S : \A b \in S : ~Lower(j, a, b))
    BY <2>2
  <2>4. CASE S = {}
    BY <2>4 DEF Highest
  <2>5. CASE S # {}
    <3>1. Highest(i, S) = CHOOSE a \in S : \A b \in S : ~Lower(i, a, b)
      BY <2>5, Zenon DEF Highest
    <3>2. Highest(j, S) = CHOOSE a \in S : \A b \in S : ~Lower(j, a, b)
      BY <2>5, Zenon DEF Highest
    <3>. QED
      BY <2>3, <3>1, <3>2, Zenon
  <2>. QED
    BY <2>4, <2>5
<1>4. Candidates(i) = Candidates(j)
  BY DEF Candidates, Eligible, SameLink
<1>. QED
  BY <1>2, <1>3, <1>4

\* Of what has been elected before, an election looks at the router's own roles only,
\* and at the Backup only if it is not Designated Router.
LEMMA RolesDecide ==
    ASSUME NEW i \in Ifcs, NEW j \in Ifcs, SameLink(i, j),
           IsDr(i) <=> IsDr(j), IsDr(i) \/ (IsBdr(i) <=> IsBdr(j))
    PROVE  /\ CallDr(i) = CallDr(j) /\ BdrCandidates(i) = BdrCandidates(j)
           /\ RfcBdr(i) = RfcBdr(j) /\ RfcDr(i) = RfcDr(j)
<1>1. Candidates(i) = Candidates(j)
  BY SameOrder
<1>2. \A a : SaysDr(i, a) <=> SaysDr(j, a)
  BY DEF SaysDr, SameLink, IsDr
<1>3. CallDr(i) = CallDr(j) /\ BdrCandidates(i) = BdrCandidates(j)
  BY <1>1, <1>2 DEF CallDr, BdrCandidates
<1>4. \A a \in BdrCandidates(i) : DeclaredBdr(i, a) <=> DeclaredBdr(j, a)
  <2>. SUFFICES ASSUME NEW a \in BdrCandidates(i)
                PROVE  DeclaredBdr(i, a) <=> DeclaredBdr(j, a)
    OBVIOUS
  <2>1. CASE a = i.addr
    <3>1. ~IsDr(i)
      BY <2>1 DEF BdrCandidates, CallDr, SaysDr, IsDr
    <3>. QED
      BY <2>1, <3>1 DEF DeclaredBdr, SameLink, IsBdr
  <2>2. CASE a # i.addr
    BY <2>2 DEF DeclaredBdr, SameLink
  <2>. QED
    BY <2>1, <2>2
<1>5. CallBdr(i) = CallBdr(j)
  BY <1>3, <1>4 DEF CallBdr, BdrCandidates
<1>6. RfcBdr(i) = RfcBdr(j)
  BY <1>3, <1>5, SameOrder DEF RfcBdr, BdrCandidates
<1>7. RfcDr(i) = RfcDr(j)
  BY <1>3, <1>6, SameOrder DEF RfcDr
<1>. QED
  BY <1>3, <1>6, <1>7

\* i with the routers elected.
After(i) == [i EXCEPT !.bdr = RfcBdr(i), !.dr = RfcDr(i)]

LEMMA AfterIsIfc ==
    ASSUME NEW i \in Ifcs, Named(i)
    PROVE  /\ After(i) \in Ifcs /\ SameLink(i, After(i))
           /\ After(i).bdr = RfcBdr(i) /\ After(i).dr = RfcDr(i)
           /\ After(i).state = i.state
<1>1. RfcBdr(i) \in Addr /\ RfcDr(i) \in Addr
  BY DEF Named, BdrCandidates, CallDr, Candidates, Ifcs, Addr
<1>. QED
  BY <1>1 DEF After, Ifcs, SameLink

\* The Designated Router an election makes stays it in the next one, and a router that is
\* not it does not become it then.
LEMMA DrStays ==
    ASSUME NEW i \in Ifcs, Named(i), Named(After(i))
    PROVE  IsDr(After(i)) <=> RfcDr(After(i)) = i.addr
<1>. DEFINE j == After(i)
            others == {q \in Candidates(i) : q # i.addr /\ i.nbr[q].dr}
<1>1. j \in Ifcs /\ SameLink(i, j) /\ j.bdr = RfcBdr(i) /\ j.dr = RfcDr(i)
  BY AfterIsIfc
<1>2. Candidates(j) = Candidates(i) /\ \A a, b : Lower(i, a, b) <=> Lower(j, a, b)
  BY <1>1, SameOrder
<1>. HIDE DEF j
<1>3. /\ CallDr(i) = others \cup {a \in {i.addr} : i.addr \in Candidates(i) /\ IsDr(i)}
      /\ CallDr(j) = others \cup {a \in {i.addr} : i.addr \in Candidates(i) /\ IsDr(j)}
  BY <1>1, <1>2 DEF CallDr, SaysDr, SameLink, IsDr
<1>4. /\ i.addr \in Rtr /\ i.addr # UnknownAddr /\ j.addr = i.addr
      /\ Candidates(i) \subseteq Addr
  BY <1>1, ElectionAssumption DEF Ifcs, UnknownAddr, SameLink, Candidates, Addr
<1>5. BdrCandidates(i) \subseteq Candidates(i)
  BY DEF BdrCandidates
<1>6. CASE IsDr(j)
  <2>1. RfcDr(i) = i.addr
    BY <1>1, <1>4, <1>6 DEF IsDr
  <2>2. i.addr \in Candidates(i)
    BY <1>3, <1>4, <1>5, <2>1 DEF Named
  <2>3. i.addr \in CallDr(j)
    BY <1>3, <1>6, <2>2
  <2>4. \A q \in others : ~Lower(i, i.addr, q)
    BY <1>3, <2>1 DEF Named
  <2>5. RfcDr(j) \in CallDr(j) /\ ~Lower(i, RfcDr(j), i.addr)
    BY <1>2, <2>3 DEF Named, j
  <2>6. RfcDr(j) = i.addr \/ RfcDr(j) \in others
    BY <1>3, <2>5
  <2>7. RfcDr(j) \in Addr /\ i.addr \in Addr
    BY <1>4, <2>6 DEF Addr
  <2>8. RfcDr(j) = i.addr
    BY <2>4, <2>5, <2>6, <2>7, LowerOrders
  <2>. QED
    BY <1>6, <2>8 DEF j
<1>7. CASE ~IsDr(j)
  <2>1. RfcDr(i) # i.addr
    BY <1>1, <1>4, <1>7 DEF IsDr
  <2>2. CallDr(j) = others /\ i.addr \notin others
    BY <1>3, <1>7
  <2>. SUFFICES ASSUME RfcDr(j) = i.addr PROVE FALSE
    BY <1>7 DEF j
  <2>3. others = {} /\ RfcBdr(j) = i.addr
    BY <2>2 DEF Named, j
  <2>4. i.addr \in BdrCandidates(j)
    BY <1>4, <2>3 DEF Named, j
  <2>5. i.addr \in Candidates(i)
    BY <1>2, <2>4 DEF BdrCandidates
  <2>6. ~IsDr(i)
    BY <1>3, <2>1, <2>3, <2>5 DEF Named
  <2>7. RfcBdr(i) # i.addr
    BY <1>3, <2>1, <2>3, <2>6 DEF Named
  <2>8. BdrCandidates(i) = BdrCandidates(j)
    BY <1>2, <1>3, <1>7, <2>6 DEF BdrCandidates
  <2>9. ~IsBdr(j)
    BY <1>1, <1>4, <2>7 DEF IsBdr
  <2>10. RfcBdr(i) \in BdrCandidates(i) /\ RfcBdr(i) # UnknownAddr
    <3>1. \A q \in Candidates(i) : Lower(i, UnknownAddr, q) /\ q # UnknownAddr
      BY NobodyIsLowest
    <3>2. RfcBdr(i) # UnknownAddr
      BY <1>5, <2>4, <2>8, <3>1 DEF Named, Preferred, DeclaredBdr
    <3>. QED
      BY <3>2 DEF Named
  <2>11. ~Preferred(j, RfcBdr(i), i.addr)
    BY <2>3, <2>8, <2>10 DEF Named, j
  <2>12. ~Preferred(i, i.addr, RfcBdr(i))
    BY <2>4, <2>8 DEF Named
  <2>13. ~DeclaredBdr(j, i.addr) /\ (DeclaredBdr(i, RfcBdr(i)) <=> DeclaredBdr(j, RfcBdr(i)))
    BY <1>1, <1>4, <2>7, <2>9 DEF DeclaredBdr, IsBdr, SameLink
  <2>14. ~DeclaredBdr(j, RfcBdr(i)) /\ ~Lower(i, i.addr, RfcBdr(i))
    BY <1>2, <2>11, <2>13 DEF Preferred
  <2>15. ~DeclaredBdr(i, i.addr) /\ ~Lower(i, RfcBdr(i), i.addr)
    BY <2>12, <2>13, <2>14 DEF Preferred
  <2>16. RfcBdr(i) \in Addr /\ i.addr \in Addr
    BY <1>4, <1>5, <2>10 DEF Addr
  <2>. QED
    BY <2>7, <2>14, <2>15, <2>16, LowerOrders
<1>. QED
  BY <1>6, <1>7

\* Nor does the Backup change in the next election, of a router that is not Designated
\* Router before or after.
LEMMA BdrStays ==
    ASSUME NEW i \in Ifcs, Named(i), Named(After(i)), ~IsDr(i), ~IsDr(After(i))
    PROVE  RfcBdr(After(i)) = RfcBdr(i) /\ RfcDr(After(i)) = RfcDr(i)
<1>. DEFINE j == After(i)
            C == BdrCandidates(i)
            b == RfcBdr(i)
            c == RfcBdr(j)
<1>1. j \in Ifcs /\ SameLink(i, j) /\ j.bdr = b
  BY AfterIsIfc
<1>2. Candidates(j) = Candidates(i) /\ \A a, d : Lower(i, a, d) <=> Lower(j, a, d)
  BY <1>1, SameOrder
<1>3. CallDr(j) = CallDr(i)
  <2>1. \A a : SaysDr(i, a) <=> SaysDr(j, a)
    BY <1>1 DEF SaysDr, SameLink, IsDr
  <2>. QED
    BY <1>2, <2>1 DEF CallDr
<1>4. BdrCandidates(j) = C
  BY <1>2, <1>3 DEF BdrCandidates
<1>5. C \subseteq Addr /\ CallDr(i) \subseteq Addr /\ i.addr \in Addr
  BY DEF BdrCandidates, CallDr, Candidates, Ifcs, Addr
<1>6. \A q \in C : Lower(i, UnknownAddr, q) /\ q # UnknownAddr
  BY NobodyIsLowest DEF BdrCandidates
<1>7. \A a : a # i.addr => (DeclaredBdr(i, a) <=> DeclaredBdr(j, a))
  BY <1>1 DEF DeclaredBdr, SameLink
<1>8. /\ i.addr # UnknownAddr /\ ~DeclaredBdr(i, UnknownAddr)
      /\ DeclaredBdr(i, i.addr) <=> IsBdr(i)
      /\ DeclaredBdr(j, i.addr) <=> b = i.addr
  BY <1>1, ElectionAssumption DEF DeclaredBdr, Ifcs, UnknownAddr, SameLink, IsBdr
<1>9. b \in C \cup {UnknownAddr} /\ \A q \in C : ~Preferred(i, q, b)
  BY DEF Named
<1>10. c \in C \cup {UnknownAddr} /\ \A q \in C : ~Preferred(j, q, c)
  BY <1>4 DEF Named, j
<1>. HIDE DEF j, C, b, c
<1>11. b = c
  <2>1. CASE IsBdr(i) <=> b = i.addr
    <3>1. \A a : DeclaredBdr(i, a) <=> DeclaredBdr(j, a)
      BY <1>7, <1>8, <2>1
    <3>2. \A a, d : Preferred(i, a, d) <=> Preferred(j, a, d)
      BY <1>2, <3>1 DEF Preferred
    <3>3. CASE C = {}
      BY <1>9, <1>10, <3>3
    <3>4. CASE C # {}
      <4>1. b \in C
        BY <1>6, <1>8, <1>9, <3>4 DEF Preferred
      <4>2. c \in C
        BY <1>6, <1>8, <1>10, <3>2, <3>4 DEF Preferred
      <4>3. ~Preferred(i, b, c) /\ ~Preferred(i, c, b)
        BY <1>9, <1>10, <3>2, <4>1, <4>2
      <4>. QED
        BY <1>5, <4>1, <4>2, <4>3, LowerOrders DEF Preferred
    <3>. QED
      BY <3>3, <3>4
  <2>2. CASE ~IsBdr(i) /\ b = i.addr
    <3>1. \A q \in C : ~DeclaredBdr(i, q)
      BY <1>8, <1>9, <2>2 DEF Preferred
    <3>2. c # i.addr => ~DeclaredBdr(j, c)
      BY <1>7, <1>8, <1>10, <3>1
    <3>3. b \in C
      BY <1>8, <1>9, <2>2
    <3>. QED
      BY <1>8, <1>10, <2>2, <3>2, <3>3 DEF Preferred
  <2>3. CASE IsBdr(i) /\ b # i.addr /\ i.addr \in C
    <3>1. DeclaredBdr(i, b) /\ b \in C
      BY <1>8, <1>9, <2>3 DEF Preferred
    <3>2. DeclaredBdr(j, c) /\ ~Lower(i, c, b)
      BY <1>2, <1>7, <1>10, <2>3, <3>1 DEF Preferred
    <3>3. c # i.addr /\ c # UnknownAddr
      BY <1>7, <1>8, <2>3, <3>2
    <3>4. c \in C /\ ~Lower(i, b, c)
      BY <1>7, <1>9, <1>10, <3>1, <3>2, <3>3 DEF Preferred
    <3>. QED
      BY <1>5, <3>1, <3>2, <3>4, LowerOrders
  <2>4. CASE i.addr \notin C /\ b # i.addr
    <3>1. \A a \in C \cup {UnknownAddr} : DeclaredBdr(i, a) <=> DeclaredBdr(j, a)
      BY <1>7, <1>8, <2>4
    <3>2. \A a, d \in C \cup {UnknownAddr} : Preferred(i, a, d) <=> Preferred(j, a, d)
      BY <1>2, <3>1 DEF Preferred
    <3>3. CASE C = {}
      BY <1>9, <1>10, <3>3
    <3>4. CASE C # {}
      <4>1. b \in C
        BY <1>6, <1>8, <1>9, <3>4 DEF Preferred
      <4>2. c \in C
        BY <1>6, <1>8, <1>10, <3>2, <3>4 DEF Preferred
      <4>3. ~Preferred(i, b, c) /\ ~Preferred(i, c, b)
        BY <1>9, <1>10, <3>2, <4>1, <4>2
      <4>. QED
        BY <1>5, <4>1, <4>2, <4>3, LowerOrders DEF Preferred
    <3>. QED
      BY <3>3, <3>4
  <2>. QED
    BY <2>1, <2>2, <2>3, <2>4
<1>12. RfcDr(j) = RfcDr(i)
  <2>1. CASE CallDr(i) = {}
    BY <1>3, <1>11, <2>1 DEF Named, j, b, c
  <2>2. CASE CallDr(i) # {}
    <3>1. RfcDr(i) \in CallDr(i) /\ \A q \in CallDr(i) : ~Lower(i, RfcDr(i), q)
      BY <2>2 DEF Named
    <3>2. RfcDr(j) \in CallDr(i) /\ \A q \in CallDr(i) : ~Lower(i, RfcDr(j), q)
      BY <1>2, <1>3, <2>2 DEF Named, j
    <3>. QED
      BY <1>5, <3>1, <3>2, LowerOrders
  <2>. QED
    BY <2>1, <2>2
<1>. QED
  BY <1>11, <1>12 DEF b, c, j

\* What ifa_elect makes of i: it repeats the election if the router itself has become or
\* ceased to be one of the two.
Elected(i) == IF Again(i, After(i)) THEN After(After(i)) ELSE After(i)

\* One more election would name the same.
LEMMA Settles ==
    ASSUME NEW i \in Ifcs, Named(i), Named(After(i)), Named(After(After(i)))
    PROVE  RfcBdr(Elected(i)) = Elected(i).bdr /\ RfcDr(Elected(i)) = Elected(i).dr
<1>. DEFINE j == After(i)
            k == After(j)
<1>1. j \in Ifcs /\ SameLink(i, j) /\ j.bdr = RfcBdr(i) /\ j.dr = RfcDr(i)
  BY AfterIsIfc
<1>2. k \in Ifcs /\ SameLink(j, k) /\ k.bdr = RfcBdr(j) /\ k.dr = RfcDr(j)
  BY <1>1, AfterIsIfc
<1>3. CASE Again(i, j)
  <2>1. IsDr(j) <=> IsDr(k)
    BY <1>1, <1>2, DrStays DEF IsDr, SameLink
  <2>2. CASE IsDr(j)
    <3>1. RfcBdr(j) = RfcBdr(k) /\ RfcDr(j) = RfcDr(k)
      <4>. HIDE DEF j, k
      <4>. QED
        BY <1>1, <1>2, <2>1, <2>2, RolesDecide
    <3>. QED
      BY <1>2, <1>3, <3>1 DEF Elected
  <2>3. CASE ~IsDr(j)
    <3>1. Named(j) /\ Named(k) /\ j \in Ifcs /\ ~IsDr(k)
      BY <1>1, <2>1, <2>3
    <3>2. RfcBdr(k) = RfcBdr(j) /\ RfcDr(k) = RfcDr(j)
      <4>. HIDE DEF j
      <4>. QED
        BY <2>3, <3>1, BdrStays DEF k
    <3>. QED
      BY <1>2, <1>3, <3>2 DEF Elected
  <2>. QED
    BY <2>2, <2>3
<1>4. CASE ~Again(i, j)
  <2>1. (IsDr(i) <=> IsDr(j)) /\ (IsBdr(i) <=> IsBdr(j))
    BY <1>1, <1>4 DEF Again, IsDr, IsBdr, SameLink
  <2>2. RfcBdr(i) = RfcBdr(j) /\ RfcDr(i) = RfcDr(j)
    <3>. HIDE DEF j
    <3>. QED
      BY <1>1, <2>1, RolesDecide
  <2>. QED
    BY <1>1, <1>4, <2>2 DEF Elected
<1>. QED
  BY <1>3, <1>4

\* With the neighbours in any order ifa_elect makes Elected(i) of i, and its state the role
\* the router has got.
LEMMA ElectIs ==
    ASSUME NEW i \in Ifcs, NEW n \in Nat, NEW list, Lists(i, n, list)
    PROVE  /\ ifa_elect(i, list) = [Elected(i) EXCEPT !.state = Role(Elected(i))]
           /\ Named(i) /\ Named(After(i)) /\ Named(After(After(i)))
           /\ Elected(i) \in Ifcs /\ SameLink(i, Elected(i))
<1>. DEFINE j == After(i)
            k == After(j)
<1>1. Pass(i, list) = j /\ Named(i)
  BY PassIsRfc DEF After
<1>2. j \in Ifcs /\ SameLink(i, j)
  BY <1>1, AfterIsIfc
<1>3. Lists(j, n, list)
  BY <1>2 DEF Lists, SameLink
<1>4. Pass(j, list) = k /\ Named(j)
  <2>. HIDE DEF j
  <2>. QED
    BY <1>2, <1>3, PassIsRfc DEF After
<1>5. k \in Ifcs /\ SameLink(j, k)
  <2>. HIDE DEF j
  <2>. QED
    BY <1>2, <1>4, AfterIsIfc
<1>6. Lists(k, n, list)
  BY <1>3, <1>5 DEF Lists, SameLink
<1>7. Named(k)
  <2>. HIDE DEF k
  <2>. QED
    BY <1>5, <1>6, PassIsRfc
<1>8. Elected(i) \in Ifcs /\ SameLink(i, Elected(i))
  BY <1>2, <1>5 DEF Elected, SameLink
<1>9. ifa_elect(i, list) = [Elected(i) EXCEPT !.state = Role(Elected(i))]
  <2>1. Elected(i) = IF Again(i, j) THEN k ELSE j
    BY DEF Elected
  <2>. HIDE DEF j, k
  <2>. QED
    BY <1>1, <1>4, <2>1 DEF ifa_elect, Of
<1>. QED
  BY <1>1, <1>4, <1>7, <1>8, <1>9

\* Electing again, with nothing new, changes nothing.
LEMMA ElectAgain ==
    ASSUME NEW i \in Ifcs, NEW n \in Nat, NEW list, Lists(i, n, list)
    PROVE  /\ ifa_elect(i, list) \in Ifcs
           /\ ifa_elect(i, list).state = Role(ifa_elect(i, list))
           /\ SameLink(i, ifa_elect(i, list))
           /\ Named(ifa_elect(i, list)) /\ After(ifa_elect(i, list)) = ifa_elect(i, list)
           /\ ifa_elect(ifa_elect(i, list), list) = ifa_elect(i, list)
<1>. DEFINE e == Elected(i)
            once == ifa_elect(i, list)
<1>1. once = [e EXCEPT !.state = Role(e)] /\ e \in Ifcs /\ SameLink(i, e)
  BY ElectIs
<1>2. RfcBdr(e) = e.bdr /\ RfcDr(e) = e.dr
  BY ElectIs, Settles
<1>. HIDE DEF e, once
<1>3. Role(e) \in MULTI
  BY DEF Role, MULTI
<1>4. once \in Ifcs /\ SameLink(e, once) /\ once.dr = e.dr /\ once.bdr = e.bdr
      /\ once.state = Role(e)
  BY <1>1, <1>3 DEF Ifcs, SameLink
<1>5. Role(once) = Role(e) /\ SameLink(i, once)
  BY <1>1, <1>4 DEF Role, SameLink
<1>6. RfcBdr(once) = once.bdr /\ RfcDr(once) = once.dr
  <2>1. (IsDr(e) <=> IsDr(once)) /\ (IsBdr(e) <=> IsBdr(once))
    BY <1>4 DEF IsDr, IsBdr, SameLink
  <2>2. RfcBdr(e) = RfcBdr(once) /\ RfcDr(e) = RfcDr(once)
    BY <1>1, <1>4, <2>1, RolesDecide
  <2>. QED
    BY <1>2, <1>4, <2>2
<1>7. After(once) = once
  BY <1>4, <1>6 DEF After, Ifcs
<1>8. Elected(once) = once
  BY <1>7 DEF Elected
<1>9. Lists(once, n, list)
  BY <1>5 DEF Lists, SameLink
<1>10. ifa_elect(once, list) = [Elected(once) EXCEPT !.state = Role(Elected(once))]
       /\ Named(once)
  BY <1>4, <1>9, ElectIs
<1>11. [once EXCEPT !.state = Role(once)] = once
  BY <1>4, <1>5 DEF Ifcs
<1>. QED
  BY <1>4, <1>5, <1>7, <1>8, <1>10, <1>11 DEF once

-----------------------------------------------------------------------------
(* The orders of the neighbours. *)

\* A list without repetitions that is as long as there are neighbours has all of them.
LEMMA OrdersAreLists ==
    ASSUME NEW i \in Ifcs, i.addr = Me, NEW list \in [1..Cardinality(Peers) -> Peers],
           \A a, b \in 1..Cardinality(Peers) : list[a] = list[b] => a = b
    PROVE  Cardinality(Peers) \in Nat /\ Lists(i, Cardinality(Peers), list)
<1>. DEFINE D == 1..Cardinality(Peers)
<1>1. IsFiniteSet(Peers)
  BY IfcLsasAssumption, FS_Subset DEF Peers
<1>2. Cardinality(Peers) \in Nat
  BY <1>1, FS_CardinalityType
<1>3. IsFiniteSet(D) /\ Cardinality(D) = Cardinality(Peers)
  BY <1>2, FS_Interval
<1>4. list \in Injection(D, Peers)
  BY DEF Injection, IsInjective
<1>5. list \in Surjection(D, Peers)
  <2>. HIDE DEF D
  <2>. QED
    BY <1>1, <1>3, <1>4, FS_Injection
<1>6. DOMAIN list = D /\ {list[k] : k \in D} = Peers
  BY <1>5 DEF Surjection
<1>7. Peers = Rtr \ {i.addr}
  BY DEF Peers
<1>. QED
  BY <1>2, <1>6, <1>7 DEF Lists

\* Orders is the set of all of them, and List is one.
LEMMA ListsExist ==
    ASSUME NEW i \in Ifcs, i.addr = Me
    PROVE  /\ Cardinality(Peers) \in Nat
           /\ \A list \in Orders : Lists(i, Cardinality(Peers), list)
           /\ Lists(i, Cardinality(Peers), List)
<1>. DEFINE D == 1..Cardinality(Peers)
<1>1. IsFiniteSet(Peers)
  BY IfcLsasAssumption, FS_Subset DEF Peers
<1>2. Cardinality(Peers) \in Nat /\ ExistsBijection(D, Peers)
  BY <1>1, FS_CardinalityType
<1>3. ASSUME NEW list \in Orders PROVE Lists(i, Cardinality(Peers), list)
  <2>1. list \in [D -> Peers] /\ \A a, b \in D : a # b => list[a] # list[b]
    BY DEF Orders, SetToSeqs
  <2>. QED
    BY <2>1, OrdersAreLists
<1>4. \E f \in [D -> Peers] : IsInjective(f)
  BY <1>2 DEF ExistsBijection, Bijection, Injection
<1>5. List \in [D -> Peers] /\ IsInjective(List)
  BY <1>4 DEF List, SetToSeq
<1>6. \A a, b \in D : List[a] = List[b] => a = b
  BY <1>5 DEF IsInjective
<1>7. Lists(i, Cardinality(Peers), List)
  BY <1>5, <1>6, OrdersAreLists
<1>. QED
  BY <1>2, <1>3, <1>7

-----------------------------------------------------------------------------
(* The interface after every event. *)

Interfaces ==
    [ifc : Ifcs, full : SUBSET Peers, dr_n : Peers \cup {NoNbr}, fullcnt : Int, fulls : Nat,
     rlsa : Links \cup {None}, nlsa : NetLsas \cup {None}]

TwoWay(i) == {q \in Peers : i.ifc.nbr[q].state = "2Way"}

DrN(ifc) == IF ifc.dr \in Peers THEN ifc.dr ELSE NoNbr

\* Before the first election there is no Designated Router and no adjacency.
Quiet(i) ==
    /\ i.ifc.state \notin MULTI => /\ i.ifc.dr = UnknownAddr /\ i.ifc.bdr = UnknownAddr
                                   /\ i.full = {}
    /\ i.ifc.state = "Down" => \A q \in Peers : i.ifc.nbr[q].state = "Down"

\* What holds between two handlers of one event too.
Sound(i) ==
    /\ i \in Interfaces /\ i.ifc.addr = Me
    /\ i.full \subseteq TwoWay(i)
    /\ i.dr_n = DrN(i.ifc)
    /\ Quiet(i)

RlFresh(i) == i.ifc.state # "Down" => i.rlsa = rl_insert(i)
NlFresh(i) == i.nlsa = nl_raw_orig(i)

Ready(i) == Sound(i) /\ RlFresh(i) /\ NlFresh(i)

\* And what holds when the event is over.
Settled(i) ==
    /\ Ready(i)
    /\ \A q \in i.full : adjacency_wanted(i, q)
    /\ i.dr_n # NoNbr => i.dr_n \in TwoWay(i)

\* The inductive invariant.
Inv == Settled(s)

\* What the small operators do to the record.
LEMMA LsasTyped ==
    ASSUME NEW i \in Interfaces
    PROVE  rl_insert(i) \in Links \cup {None} /\ nl_raw_orig(i) \in NetLsas \cup {None}
<1>1. i.ifc.dr \in Addr
  BY DEF Interfaces, Ifcs
<1>2. {Me} \cup i.full \in SUBSET Rtr /\ i.fullcnt + 1 \in Int
  BY IfcLsasAssumption DEF Interfaces, Peers
<1>3. rl_insert(i) \in Links
  BY <1>1 DEF rl_insert, Links
<1>4. nl_raw_orig(i) \in NetLsas \cup {None}
  BY <1>2 DEF nl_raw_orig, NetLsas
<1>. QED
  BY <1>3, <1>4

LEMMA LeaveFullIs ==
    ASSUME NEW i \in Interfaces, NEW Q \in SUBSET i.full
    PROVE  /\ LeaveFull(i, Q) \in Interfaces
           /\ LeaveFull(i, Q).ifc = i.ifc /\ LeaveFull(i, Q).full = i.full \ Q
           /\ LeaveFull(i, Q).dr_n = i.dr_n /\ LeaveFull(i, Q).nlsa = i.nlsa
           /\ Q = {} => LeaveFull(i, Q) = i
           /\ Q # {} => LeaveFull(i, Q).rlsa = rl_insert(LeaveFull(i, Q))
<1>1. CASE Q = {}
  BY <1>1 DEF LeaveFull
<1>2. CASE Q # {}
  <2>. DEFINE j == [i EXCEPT !.full = @ \ Q, !.fullcnt = @ - Cardinality(Q)]
              k == LeaveFull(i, Q)
  <2>1. Q \in SUBSET Peers /\ IsFiniteSet(Peers)
    BY IfcLsasAssumption, FS_Subset DEF Interfaces, Peers
  <2>2. Cardinality(Q) \in Nat
    BY <2>1, FS_Subset, FS_CardinalityType
  <2>3. j \in Interfaces
    <3>1. i.full \ Q \in SUBSET Peers /\ i.fullcnt \in Int
      BY DEF Interfaces
    <3>2. i.fullcnt - Cardinality(Q) \in Int
      BY <2>2, <3>1
    <3>. QED
      BY <3>1, <3>2 DEF Interfaces
  <2>4. k = [j EXCEPT !.rlsa = rl_insert(j)]
    BY <1>2 DEF LeaveFull, rl_orig
  <2>5. j.ifc = i.ifc /\ j.full = i.full \ Q /\ j.dr_n = i.dr_n /\ j.nlsa = i.nlsa
    BY DEF Interfaces
  <2>. HIDE DEF j, k
  <2>6. rl_insert(j) \in Links \cup {None}
    BY <2>3, LsasTyped
  <2>7. /\ k \in Interfaces
        /\ k.ifc = j.ifc /\ k.full = j.full /\ k.dr_n = j.dr_n /\ k.nlsa = j.nlsa
        /\ k.fullcnt = j.fullcnt /\ k.rlsa = rl_insert(j)
    BY <2>3, <2>4, <2>6 DEF Interfaces
  <2>8. rl_insert(k) = rl_insert(j)
    BY <2>7 DEF rl_insert
  <2>. QED
    BY <1>2, <2>5, <2>7, <2>8 DEF k
<1>. QED
  BY <1>1, <1>2

\* After NbrChanged the network-LSA is as it should be, if there is none but a Designated
\* Router's.
LEMMA NbrChangedIs ==
    ASSUME NEW i \in Interfaces
    PROVE  /\ NbrChanged(i) \in Interfaces
           /\ NbrChanged(i).ifc = i.ifc /\ NbrChanged(i).full = i.full
           /\ NbrChanged(i).dr_n = i.dr_n
           /\ RlFresh(i) => RlFresh(NbrChanged(i))
           /\ (i.ifc.state # "DR" => i.nlsa = None) => NlFresh(NbrChanged(i))
<1>. DEFINE k == NbrChanged(i)
<1>1. CASE i.ifc.state = "DR"
  <2>1. k = [i EXCEPT !.nlsa = nl_raw_orig(i)]
    BY <1>1 DEF NbrChanged, nl_orig
  <2>. HIDE DEF k
  <2>2. nl_raw_orig(i) \in NetLsas \cup {None}
    BY LsasTyped
  <2>3. /\ k \in Interfaces
        /\ k.ifc = i.ifc /\ k.full = i.full /\ k.dr_n = i.dr_n /\ k.rlsa = i.rlsa
        /\ k.fullcnt = i.fullcnt /\ k.nlsa = nl_raw_orig(i)
    BY <2>1, <2>2 DEF Interfaces
  <2>4. rl_insert(k) = rl_insert(i) /\ nl_raw_orig(k) = nl_raw_orig(i)
    BY <2>3 DEF rl_insert, nl_raw_orig
  <2>. QED
    BY <2>3, <2>4 DEF k, RlFresh, NlFresh
<1>2. CASE i.ifc.state # "DR"
  BY <1>2 DEF NbrChanged, NlFresh, nl_raw_orig
<1>. QED
  BY <1>1, <1>2

-----------------------------------------------------------------------------
(* An election settles the interface. *)

\* Whoever is elected and is not the router itself is a neighbour that is 2-Way.
LEMMA ElectedIsTwoWay ==
    ASSUME NEW i \in Ifcs, i.addr = Me, Named(i), After(i) = i, i.dr \in Peers
    PROVE  i.nbr[i.dr].state = "2Way"
<1>1. i.dr = RfcDr(i)
  BY AfterIsIfc
<1>2. RfcDr(i) \in Candidates(i) \cup {UnknownAddr}
  BY DEF Named, CallDr, BdrCandidates
<1>3. i.dr \in Rtr \ {Me} /\ i.dr # UnknownAddr
  BY ElectionAssumption DEF Peers, UnknownAddr
<1>. QED
  BY <1>1, <1>2, <1>3 DEF Candidates, Eligible

LEMMA ElectSettles ==
    ASSUME NEW i, Ready(i), i.ifc.state # "Down"
    PROVE  Settled(Elect(i)) /\ Elect(i).ifc.state \in MULTI
<1>. DEFINE e == ifa_elect(i.ifc, List)
            j == [i EXCEPT !.ifc = e, !.dr_n = DrN(e)]
            Q == {q \in j.full : ~adjacency_wanted(j, q)}
            t == LeaveFull(j, Q)
            other == e.state # i.ifc.state
            rl == IF other \/ e.dr # i.ifc.dr THEN rl_insert(t) ELSE t.rlsa
            nl == IF other /\ "DR" \in {e.state, i.ifc.state} THEN nl_raw_orig(t) ELSE t.nlsa
            k == Elect(i)
<1>1. i \in Interfaces /\ i.ifc \in Ifcs /\ i.ifc.addr = Me
  BY DEF Ready, Sound, Interfaces
<1>2. Cardinality(Peers) \in Nat /\ Lists(i.ifc, Cardinality(Peers), List)
  BY <1>1, ListsExist
<1>3. e \in Ifcs /\ e.state = Role(e) /\ SameLink(i.ifc, e) /\ Named(e) /\ After(e) = e
  BY <1>1, <1>2, ElectAgain
<1>4. e.state \in MULTI /\ e.addr = Me
  BY <1>1, <1>3 DEF Role, MULTI, SameLink
<1>5. k = [t EXCEPT !.rlsa = rl, !.nlsa = nl]
  <2>1. t.ifc = e
    <3>. HIDE DEF e
    <3>1. j \in Interfaces /\ j.ifc = e
      BY <1>1, <1>3 DEF Interfaces, DrN
    <3>. HIDE DEF j
    <3>. QED
      BY <3>1, LeaveFullIs
  <2>. HIDE DEF e
  <2>. DEFINE Telling(ifc) == Eval([i EXCEPT !.ifc = ifc, !.dr_n = DrN(ifc)])
              Saying(l) ==
                  [l EXCEPT
                      !.rlsa = IF l.ifc.state # i.ifc.state \/ l.ifc.dr # i.ifc.dr
                               THEN rl_insert(l) ELSE @,
                      !.nlsa = IF l.ifc.state # i.ifc.state
                                  /\ "DR" \in {l.ifc.state, i.ifc.state}
                               THEN nl_raw_orig(l) ELSE @]
              told == CHOOSE y \in {Telling(z) : z \in {e}} : TRUE
  <2>2. Telling(e) = t
    BY DEF Eval
  <2>3. k = CHOOSE y \in {Saying(z) : z \in {told}} : TRUE
    BY DEF Elect, Of, e, DrN
  <2>. HIDE DEF t, Telling
  <2>4. told = t
    BY <2>2
  <2>. HIDE DEF Saying, told
  <2>5. k = Saying(t)
    BY <2>3, <2>4
  <2>. QED
    BY <2>1, <2>5 DEF Saying
<1>. HIDE DEF e
<1>6. /\ j \in Interfaces /\ j.ifc = e /\ j.dr_n = DrN(e) /\ j.full = i.full
      /\ j.fullcnt = i.fullcnt /\ j.nlsa = i.nlsa /\ j.rlsa = i.rlsa
  BY <1>1, <1>3 DEF Interfaces, DrN
<1>. HIDE DEF j
<1>7. Q \in SUBSET j.full
  OBVIOUS
<1>. HIDE DEF Q
<1>8. /\ t \in Interfaces /\ t.ifc = e /\ t.full = i.full \ Q /\ t.dr_n = DrN(e)
      /\ t.nlsa = i.nlsa
      /\ Q = {} => t = j
      /\ Q # {} => t.rlsa = rl_insert(t)
  BY <1>6, <1>7, LeaveFullIs
<1>. HIDE DEF t
<1>9. rl \in Links \cup {None} /\ nl \in NetLsas \cup {None}
  BY <1>8, LsasTyped DEF Interfaces
<1>. HIDE DEF rl, nl
<1>10. /\ k \in Interfaces /\ k.ifc = e /\ k.full = i.full \ Q /\ k.dr_n = DrN(e)
       /\ k.fullcnt = t.fullcnt /\ k.rlsa = rl /\ k.nlsa = nl
  BY <1>5, <1>8, <1>9 DEF Interfaces
<1>. HIDE DEF k
<1>11. rl_insert(k) = rl_insert(t) /\ nl_raw_orig(k) = nl_raw_orig(t)
  BY <1>8, <1>10 DEF rl_insert, nl_raw_orig
<1>12. \A q \in k.full : adjacency_wanted(k, q)
  BY <1>6, <1>10 DEF Q, adjacency_wanted
<1>13. k.full \subseteq TwoWay(k)
  BY <1>3, <1>10 DEF Ready, Sound, TwoWay, SameLink
<1>14. k.dr_n # NoNbr => k.dr_n \in TwoWay(k)
  BY <1>3, <1>4, <1>10, ElectedIsTwoWay DEF DrN, TwoWay
<1>15. Quiet(k)
  BY <1>4, <1>10 DEF Quiet, MULTI
<1>16. RlFresh(k)
  <2>1. CASE other \/ e.dr # i.ifc.dr \/ Q # {}
    BY <1>8, <1>10, <1>11, <2>1 DEF rl, RlFresh
  <2>2. CASE ~other /\ e.dr = i.ifc.dr /\ Q = {}
    <3>1. k.rlsa = i.rlsa /\ t = j /\ i.dr_n = DrN(e)
      BY <1>6, <1>8, <1>10, <2>2 DEF rl, Ready, Sound, DrN
    <3>2. rl_insert(t) = rl_insert(i)
      BY <1>6, <2>2, <3>1 DEF rl_insert
    <3>. QED
      BY <1>11, <3>1, <3>2 DEF RlFresh, Ready
  <2>. QED
    BY <2>1, <2>2
<1>17. NlFresh(k)
  <2>1. CASE other /\ "DR" \in {e.state, i.ifc.state}
    BY <1>10, <1>11, <2>1 DEF nl, NlFresh
  <2>2. CASE e.state # "DR" /\ i.ifc.state # "DR"
    BY <1>8, <1>10, <1>11, <2>2 DEF nl, NlFresh, Ready, nl_raw_orig
  <2>3. CASE e.state = "DR" /\ i.ifc.state = "DR"
    <3>1. Q = {}
      BY <1>6, <2>3 DEF Q, adjacency_wanted
    <3>2. k.nlsa = i.nlsa /\ t = j
      BY <1>8, <1>10, <2>3, <3>1 DEF nl
    <3>3. nl_raw_orig(t) = nl_raw_orig(i)
      BY <1>6, <2>3, <3>2 DEF nl_raw_orig
    <3>. QED
      BY <1>11, <3>2, <3>3 DEF NlFresh, Ready
  <2>. QED
    BY <2>1, <2>2, <2>3
<1>. QED
  BY <1>4, <1>10, <1>12, <1>13, <1>14, <1>15, <1>16, <1>17 DEF Settled, Ready, Sound, k

-----------------------------------------------------------------------------
(* The handlers settle the interface. *)

\* Event NeighborChange, which does nothing before the first election.
LEMMA NChgSettles ==
    ASSUME NEW i, Ready(i)
    PROVE  Settled(NChg(i))
<1>1. CASE i.ifc.state \in MULTI
  BY <1>1, ElectSettles DEF NChg, MULTI
<1>2. CASE i.ifc.state \notin MULTI
  <2>1. i.full = {} /\ i.dr_n = DrN(i.ifc) /\ i.ifc.dr = UnknownAddr
    BY <1>2 DEF Ready, Sound, Quiet
  <2>2. UnknownAddr \notin Peers
    BY ElectionAssumption DEF Peers, UnknownAddr
  <2>3. i.dr_n = NoNbr
    BY <2>1, <2>2 DEF DrN
  <2>. QED
    BY <1>2, <2>1, <2>3 DEF NChg, Settled
<1>. QED
  BY <1>1, <1>2

\* The end of nbr_fsm leaves both LSAs up to date.
LEMMA NbrChangedReady ==
    ASSUME NEW i, Sound(i), RlFresh(i), i.ifc.state # "DR" => i.nlsa = None
    PROVE  Ready(NbrChanged(i))
<1>. DEFINE k == NbrChanged(i)
<1>1. /\ k \in Interfaces /\ k.ifc = i.ifc /\ k.full = i.full /\ k.dr_n = i.dr_n
      /\ RlFresh(k) /\ NlFresh(k)
  BY NbrChangedIs DEF Sound
<1>. HIDE DEF k
<1>2. Sound(k)
  BY <1>1 DEF Sound, Quiet, TwoWay
<1>. QED
  BY <1>1, <1>2 DEF Ready, k

\* i with neighbour q as n.  Nothing an LSA says is about that.
WithNbr(i, q, n) == [i EXCEPT !.ifc.nbr[q] = n]

LEMMA WithNbrIs ==
    ASSUME NEW i \in Interfaces, NEW q \in Peers, NEW n \in Nbrs
    PROVE  LET j == WithNbr(i, q, n)
           IN  /\ j \in Interfaces
               /\ j.ifc.addr = i.ifc.addr /\ j.ifc.state = i.ifc.state
               /\ j.ifc.dr = i.ifc.dr /\ j.ifc.bdr = i.ifc.bdr
               /\ j.ifc.nbr[q] = n /\ \A p \in Peers \ {q} : j.ifc.nbr[p] = i.ifc.nbr[p]
               /\ j.full = i.full /\ j.dr_n = i.dr_n /\ j.nlsa = i.nlsa /\ j.rlsa = i.rlsa
               /\ rl_insert(j) = rl_insert(i) /\ nl_raw_orig(j) = nl_raw_orig(i)
<1>. DEFINE j == WithNbr(i, q, n)
            f == [i.ifc EXCEPT !.nbr[q] = n]
<1>1. i.ifc \in Ifcs /\ q \in Rtr
  BY DEF Interfaces, Peers
<1>2. /\ f \in Ifcs
      /\ f.addr = i.ifc.addr /\ f.state = i.ifc.state /\ f.dr = i.ifc.dr
      /\ f.bdr = i.ifc.bdr /\ f.nbr[q] = n
      /\ \A p \in Peers \ {q} : f.nbr[p] = i.ifc.nbr[p]
  BY <1>1 DEF Ifcs, Peers
<1>3. j = [i EXCEPT !.ifc = f]
  BY DEF WithNbr
<1>. HIDE DEF f, j
<1>4. /\ j \in Interfaces /\ j.ifc = f
      /\ j.full = i.full /\ j.dr_n = i.dr_n /\ j.nlsa = i.nlsa /\ j.rlsa = i.rlsa
      /\ j.fullcnt = i.fullcnt
  BY <1>2, <1>3 DEF Interfaces
<1>5. rl_insert(j) = rl_insert(i) /\ nl_raw_orig(j) = nl_raw_orig(i)
  BY <1>2, <1>4 DEF rl_insert, nl_raw_orig
<1>. QED
  BY <1>2, <1>4, <1>5 DEF j

\* A neighbour that is not Full may become anything, and one that is must stay 2-Way.
LEMMA WithNbrReady ==
    ASSUME NEW i, Ready(i), i.ifc.state # "Down", NEW q \in Peers, NEW n \in Nbrs,
           q \in i.full => n.state = "2Way"
    PROVE  Ready(WithNbr(i, q, n))
<1>. DEFINE j == WithNbr(i, q, n)
<1>0. i \in Interfaces
  BY DEF Ready, Sound
<1>1. /\ j \in Interfaces
      /\ j.ifc.addr = i.ifc.addr /\ j.ifc.state = i.ifc.state
      /\ j.ifc.dr = i.ifc.dr /\ j.ifc.bdr = i.ifc.bdr
      /\ j.ifc.nbr[q] = n /\ \A p \in Peers \ {q} : j.ifc.nbr[p] = i.ifc.nbr[p]
      /\ j.full = i.full /\ j.dr_n = i.dr_n /\ j.nlsa = i.nlsa /\ j.rlsa = i.rlsa
      /\ rl_insert(j) = rl_insert(i) /\ nl_raw_orig(j) = nl_raw_orig(i)
  BY <1>0, WithNbrIs
<1>. HIDE DEF j
<1>2. j.full \subseteq TwoWay(j)
  BY <1>1 DEF Ready, Sound, TwoWay
<1>3. Sound(j)
  BY <1>1, <1>2 DEF Ready, Sound, Quiet, DrN
<1>. QED
  BY <1>1, <1>3 DEF Ready, RlFresh, NlFresh, j

\* Neighbour q falls from 2-Way or above.
LEMMA BelowSettles ==
    ASSUME NEW i, Ready(i), i.ifc.state # "Down", NEW q \in Peers, NEW n \in Nbrs
    PROVE  Settled(Below(i, q, n))
<1>. DEFINE j == WithNbr(i, q, n)
            Q == i.full \cap {q}
            k == LeaveFull(j, Q)
<1>0. i \in Interfaces
  BY DEF Ready, Sound
<1>1. /\ j \in Interfaces
      /\ j.ifc.addr = i.ifc.addr /\ j.ifc.state = i.ifc.state
      /\ j.ifc.dr = i.ifc.dr /\ j.ifc.bdr = i.ifc.bdr
      /\ j.ifc.nbr[q] = n /\ \A p \in Peers \ {q} : j.ifc.nbr[p] = i.ifc.nbr[p]
      /\ j.full = i.full /\ j.dr_n = i.dr_n /\ j.nlsa = i.nlsa /\ j.rlsa = i.rlsa
      /\ rl_insert(j) = rl_insert(i) /\ nl_raw_orig(j) = nl_raw_orig(i)
  BY <1>0, WithNbrIs
<1>2. Below(i, q, n) = NChg(NbrChanged(k))
  BY DEF Below, WithNbr
<1>. HIDE DEF j
<1>3. Q \in SUBSET j.full
  BY <1>1
<1>4. /\ k \in Interfaces /\ k.ifc = j.ifc /\ k.full = i.full \ {q}
      /\ k.dr_n = i.dr_n /\ k.nlsa = i.nlsa
      /\ Q = {} => k = j
      /\ Q # {} => k.rlsa = rl_insert(k)
  <2>. HIDE DEF Q
  <2>1. /\ k \in Interfaces /\ k.ifc = j.ifc /\ k.full = j.full \ Q
        /\ k.dr_n = j.dr_n /\ k.nlsa = j.nlsa
        /\ Q = {} => k = j
        /\ Q # {} => k.rlsa = rl_insert(k)
    BY <1>1, <1>3, LeaveFullIs
  <2>. QED
    BY <1>1, <2>1 DEF Q
<1>. HIDE DEF k
<1>5. k.full \subseteq TwoWay(k)
  BY <1>1, <1>4 DEF Ready, Sound, TwoWay
<1>6. Sound(k)
  BY <1>1, <1>4, <1>5 DEF Ready, Sound, Quiet, DrN
<1>7. RlFresh(k)
  BY <1>1, <1>4 DEF Ready, RlFresh
<1>8. k.ifc.state # "DR" => k.nlsa = None
  BY <1>1, <1>4 DEF Ready, NlFresh, nl_raw_orig
<1>9. Ready(NbrChanged(k))
  BY <1>6, <1>7, <1>8, NbrChangedReady
<1>. QED
  BY <1>2, <1>9, NChgSettles

\* Neighbour q becomes 2-Way.
LEMMA BidirectionalSettles ==
    ASSUME NEW i, Ready(i), i.ifc.state # "Down", NEW q \in Peers
    PROVE  Settled(Bidirectional(i, q))
<1>. DEFINE n == [i.ifc.nbr[q] EXCEPT !.state = "2Way"]
            j == WithNbr(i, q, n)
<1>1. i.ifc.nbr[q] \in Nbrs
  BY DEF Ready, Sound, Interfaces, Ifcs, Peers
<1>2. n \in Nbrs /\ n.state = "2Way"
  BY <1>1 DEF Nbrs
<1>3. Bidirectional(i, q) = NChg(NbrChanged(j))
  BY DEF Bidirectional, WithNbr
<1>. HIDE DEF n
<1>4. Ready(j)
  BY <1>2, WithNbrReady
<1>. HIDE DEF j
<1>5. j.ifc.state # "DR" => j.nlsa = None
  BY <1>4 DEF Ready, NlFresh, nl_raw_orig
<1>6. Ready(NbrChanged(j))
  BY <1>4, <1>5, NbrChangedReady DEF Ready
<1>. QED
  BY <1>3, <1>6, NChgSettles

\* What a neighbour says, and its end when it is not 2-Way, unsettles nothing.
LEMMA WithNbrSettled ==
    ASSUME NEW i, Settled(i), i.ifc.state # "Down", NEW q \in Peers, NEW n \in Nbrs,
           n.state = "2Way" <=> i.ifc.nbr[q].state = "2Way"
    PROVE  Settled(WithNbr(i, q, n)) /\ WithNbr(i, q, n).ifc.state = i.ifc.state
<1>. DEFINE j == WithNbr(i, q, n)
<1>0. i \in Interfaces /\ Ready(i)
  BY DEF Settled, Ready, Sound
<1>1. /\ j.ifc.state = i.ifc.state /\ j.ifc.dr = i.ifc.dr /\ j.ifc.bdr = i.ifc.bdr
      /\ j.ifc.nbr[q] = n /\ \A p \in Peers \ {q} : j.ifc.nbr[p] = i.ifc.nbr[p]
      /\ j.full = i.full /\ j.dr_n = i.dr_n
  BY <1>0, WithNbrIs
<1>2. q \in i.full => n.state = "2Way"
  BY DEF Settled, Ready, Sound, TwoWay
<1>3. Ready(j)
  BY <1>0, <1>2, WithNbrReady
<1>. HIDE DEF j
<1>4. TwoWay(j) = TwoWay(i)
  BY <1>1 DEF TwoWay
<1>5. \A p \in j.full : adjacency_wanted(j, p)
  BY <1>1 DEF Settled, adjacency_wanted
<1>. QED
  BY <1>1, <1>3, <1>4, <1>5 DEF Settled, j

LEMMA NbrChangedSettled ==
    ASSUME NEW i, Settled(i)
    PROVE  Settled(NbrChanged(i))
<1>. DEFINE k == NbrChanged(i)
<1>1. Ready(i) /\ Sound(i) /\ RlFresh(i)
  BY DEF Settled, Ready
<1>2. i.ifc.state # "DR" => i.nlsa = None
  BY <1>1 DEF Ready, NlFresh, nl_raw_orig
<1>3. Ready(k)
  BY <1>1, <1>2, NbrChangedReady
<1>4. k.ifc = i.ifc /\ k.full = i.full /\ k.dr_n = i.dr_n
  BY <1>1, NbrChangedIs DEF Sound
<1>. HIDE DEF k
<1>. QED
  BY <1>3, <1>4 DEF Settled, TwoWay, adjacency_wanted, k

-----------------------------------------------------------------------------
(* The steps. *)

LEMMA InitSettled == Init => Inv
<1>. SUFFICES ASSUME Init PROVE Inv
  OBVIOUS
<1>1. /\ s \in Interfaces /\ s.ifc.addr = Me /\ s.ifc.state = "Down"
      /\ s.ifc.dr = UnknownAddr /\ s.ifc.bdr = UnknownAddr /\ s.full = {}
      /\ s.dr_n = NoNbr /\ s.nlsa = None
      /\ \A q \in Peers : s.ifc.nbr[q].state = "Down"
  <2>1. Me \in Rtr /\ UnknownAddr \in Addr /\ 0 \in 0..MaxPri
    BY ElectionAssumption, IfcLsasAssumption DEF Addr
  <2>2. Unheard \in Nbrs
    BY <2>1 DEF Unheard, Nbrs
  <2>. QED
    BY <2>1, <2>2 DEF Init, Interfaces, Ifcs, Unheard, Peers
<1>2. UnknownAddr \notin Peers
  BY ElectionAssumption DEF Peers, UnknownAddr
<1>. QED
  BY <1>1, <1>2 DEF Inv, Settled, Ready, Sound, Quiet, RlFresh, NlFresh, nl_raw_orig, DrN,
                    MULTI

LEMMA UpSettles == Inv /\ Up => Inv'
<1>. SUFFICES ASSUME Inv, Up PROVE Inv'
  OBVIOUS
<1>. DEFINE st == IF s.ifc.pri = 0 THEN "Other" ELSE "Wait"
            f == [s.ifc EXCEPT !.state = st]
            j == [s EXCEPT !.ifc.state = st]
<1>1. /\ s \in Interfaces /\ s.ifc \in Ifcs /\ s.full = {} /\ s.ifc.dr = UnknownAddr
      /\ s.ifc.bdr = UnknownAddr /\ s.nlsa = None /\ s.dr_n = DrN(s.ifc) /\ s.ifc.addr = Me
  BY DEF Inv, Settled, Ready, Sound, Quiet, NlFresh, nl_raw_orig, Interfaces, Up, MULTI
<1>2. st \in {"Other", "Wait"}
  OBVIOUS
<1>3. s' = [j EXCEPT !.rlsa = rl_insert(j)] /\ j = [s EXCEPT !.ifc = f]
  BY DEF Up, rl_orig
<1>. HIDE DEF st
<1>4. f \in Ifcs /\ f.state = st /\ f.dr = UnknownAddr /\ f.bdr = UnknownAddr /\ f.addr = Me
  BY <1>1, <1>2 DEF Ifcs, MULTI
<1>. HIDE DEF f, j
<1>5. /\ j \in Interfaces /\ j.ifc = f /\ j.full = {} /\ j.nlsa = None
      /\ j.dr_n = s.dr_n
  BY <1>1, <1>3, <1>4 DEF Interfaces
<1>6. rl_insert(j) \in Links \cup {None}
  BY <1>5, LsasTyped
<1>7. /\ s' \in Interfaces /\ s'.ifc = f /\ s'.full = {} /\ s'.nlsa = None
      /\ s'.dr_n = s.dr_n /\ s'.rlsa = rl_insert(j) /\ s'.fullcnt = j.fullcnt
  BY <1>3, <1>5, <1>6 DEF Interfaces
<1>8. rl_insert(s') = rl_insert(j)
  BY <1>5, <1>7 DEF rl_insert
<1>9. s'.dr_n = NoNbr /\ DrN(f) = NoNbr
  <2>1. UnknownAddr \notin Peers
    BY ElectionAssumption DEF Peers, UnknownAddr
  <2>. QED
    BY <1>1, <1>4, <1>7, <2>1 DEF DrN
<1>10. Settled(s')
  BY <1>2, <1>4, <1>7, <1>8, <1>9
     DEF Settled, Ready, Sound, Quiet, RlFresh, NlFresh, nl_raw_orig, MULTI
<1>. QED
  BY <1>10 DEF Inv

LEMMA HelloSettles == ASSUME NEW q \in Peers PROVE Inv /\ RecvHello(q) => Inv'
<1>. SUFFICES ASSUME Inv, RecvHello(q) PROVE Settled(s')
  BY DEF Inv
<1>. DEFINE old == s.ifc.nbr[q]
            Heard(n) == [n EXCEPT !.state = IF old.state = "Down" THEN "Init" ELSE @]
            Seen(n) == WithNbr(s, q, Heard(n))
            OneWay(n) == [Seen(n).ifc.nbr[q] EXCEPT !.state = "Init"]
            TwoWays(n) == {IF old.state = "2Way" THEN Seen(n) ELSE Bidirectional(Seen(n), q)}
<1>1. PICK n \in Nbrs, mine \in BOOLEAN, alone \in BOOLEAN :
        /\ s.ifc.state # "Down"
        /\ n.state = old.state /\ (alone => n.dr /\ ~n.bdr)
        /\ \/ /\ ~mine
              /\ s' = IF old.state = "2Way" THEN Below(Seen(n), q, OneWay(n)) ELSE Seen(n)
           \/ /\ mine
              /\ \E twoway \in TwoWays(n) :
                 s' = IF twoway.ifc.state = "Wait" /\ (n.bdr \/ (n.dr /\ alone))
                      THEN Elect(twoway)
                      ELSE IF n # old THEN NChg(twoway)
                      ELSE twoway
  BY DEF RecvHello, WithNbr
<1>. DEFINE m == Heard(n)
            seen == WithNbr(s, q, m)
            oneway == [seen.ifc.nbr[q] EXCEPT !.state = "Init"]
            twoway == IF old.state = "2Way" THEN seen ELSE Bidirectional(seen, q)
<1>2. m \in Nbrs /\ (m.state = "2Way" <=> old.state = "2Way")
  BY <1>1 DEF Nbrs
<1>3. s.ifc.state # "Down" /\ Settled(s)
  BY <1>1 DEF Inv
<1>. HIDE DEF m
<1>4. Settled(seen) /\ seen.ifc.state = s.ifc.state
  BY <1>2, <1>3, WithNbrSettled
<1>5. \/ s' = IF old.state = "2Way" THEN Below(seen, q, oneway) ELSE seen
      \/ s' = Elect(twoway) /\ twoway.ifc.state = "Wait"
      \/ s' = NChg(twoway)
      \/ s' = twoway
  BY <1>1 DEF m
<1>. HIDE DEF seen
<1>6. oneway \in Nbrs
  <2>1. seen.ifc.nbr[q] \in Nbrs
    BY <1>4 DEF Settled, Ready, Sound, Interfaces, Ifcs, Peers
  <2>. QED
    BY <2>1 DEF Nbrs
<1>. HIDE DEF oneway
<1>7. Ready(seen) /\ seen.ifc.state # "Down"
  BY <1>3, <1>4 DEF Settled
<1>8. Settled(Below(seen, q, oneway))
  BY <1>6, <1>7, BelowSettles
<1>9. Settled(twoway)
  BY <1>4, <1>7, BidirectionalSettles
<1>. HIDE DEF twoway
<1>10. Ready(twoway)
  BY <1>9 DEF Settled
<1>11. Settled(NChg(twoway))
  BY <1>10, NChgSettles
<1>12. twoway.ifc.state = "Wait" => Settled(Elect(twoway))
  BY <1>10, ElectSettles
<1>. QED
  BY <1>4, <1>5, <1>8, <1>9, <1>11, <1>12

LEMMA FullSettles == ASSUME NEW q \in Peers PROVE Inv /\ BecomeFull(q) => Inv'
<1>. SUFFICES ASSUME Inv, BecomeFull(q) PROVE Settled(s')
  BY DEF Inv
<1>. DEFINE j == [s EXCEPT !.full = @ \cup {q}, !.fulls = @ + 1]
            k == [j EXCEPT !.rlsa = rl_insert(j)]
<1>1. s \in Interfaces /\ Settled(s) /\ Ready(s) /\ Sound(s)
  BY DEF Inv, Settled, Ready, Sound
<1>2. s' = NbrChanged(k)
  BY DEF BecomeFull, rl_orig
<1>3. /\ j \in Interfaces /\ j.ifc = s.ifc /\ j.full = s.full \cup {q}
      /\ j.dr_n = s.dr_n /\ j.nlsa = s.nlsa
  <2>1. s.full \cup {q} \in SUBSET Peers /\ s.fulls + 1 \in Nat
    BY <1>1 DEF Interfaces
  <2>. QED
    BY <1>1, <2>1 DEF Interfaces
<1>. HIDE DEF j
<1>4. rl_insert(j) \in Links \cup {None}
  BY <1>3, LsasTyped
<1>5. /\ k \in Interfaces /\ k.ifc = s.ifc /\ k.full = s.full \cup {q}
      /\ k.dr_n = s.dr_n /\ k.nlsa = s.nlsa /\ k.rlsa = rl_insert(j)
      /\ k.fullcnt = j.fullcnt
  BY <1>3, <1>4 DEF Interfaces
<1>. HIDE DEF k
<1>6. rl_insert(k) = rl_insert(j)
  BY <1>3, <1>5 DEF rl_insert
<1>7. s.ifc.nbr[q].state = "2Way" /\ adjacency_wanted(s, q)
  BY DEF BecomeFull
<1>8. s.ifc.state \in MULTI
  <2>1. q # UnknownAddr
    BY ElectionAssumption DEF Peers, UnknownAddr
  <2>. QED
    BY <1>1, <1>7, <2>1 DEF Sound, Quiet, adjacency_wanted, MULTI
<1>9. Sound(k)
  <2>1. k.full \subseteq TwoWay(k)
    BY <1>1, <1>5, <1>7 DEF Sound, TwoWay
  <2>. QED
    BY <1>1, <1>5, <1>8, <2>1 DEF Sound, Quiet, MULTI
<1>10. k.ifc.state # "DR" => k.nlsa = None
  BY <1>1, <1>5 DEF Ready, NlFresh, nl_raw_orig
<1>11. Ready(NbrChanged(k))
  BY <1>5, <1>6, <1>9, <1>10, NbrChangedReady DEF RlFresh
<1>12. /\ NbrChanged(k).ifc = s.ifc /\ NbrChanged(k).full = s.full \cup {q}
       /\ NbrChanged(k).dr_n = s.dr_n
  BY <1>5, NbrChangedIs
<1>. QED
  BY <1>1, <1>2, <1>7, <1>11, <1>12 DEF Settled, TwoWay, adjacency_wanted

LEMMA RestartSettles == ASSUME NEW q \in Peers PROVE Inv /\ RestartDD(q) => Inv'
<1>. SUFFICES ASSUME Inv, RestartDD(q) PROVE Settled(s')
  BY DEF Inv
<1>. DEFINE k == LeaveFull(s, {q})
<1>1. s \in Interfaces /\ Settled(s) /\ Ready(s) /\ Sound(s)
  BY DEF Inv, Settled, Ready, Sound
<1>2. s' = NbrChanged(k) /\ {q} \in SUBSET s.full
  BY DEF RestartDD
<1>3. /\ k \in Interfaces /\ k.ifc = s.ifc /\ k.full = s.full \ {q}
      /\ k.dr_n = s.dr_n /\ k.nlsa = s.nlsa /\ k.rlsa = rl_insert(k)
  BY <1>1, <1>2, LeaveFullIs
<1>. HIDE DEF k
<1>4. Sound(k)
  BY <1>1, <1>3 DEF Sound, Quiet, TwoWay
<1>5. NlFresh(s) /\ (k.ifc.state # "DR" => k.nlsa = None)
  BY <1>1, <1>3 DEF Ready, NlFresh, nl_raw_orig
<1>6. Ready(NbrChanged(k))
  BY <1>3, <1>4, <1>5, NbrChangedReady DEF RlFresh
<1>7. /\ NbrChanged(k).ifc = s.ifc /\ NbrChanged(k).full = s.full \ {q}
      /\ NbrChanged(k).dr_n = s.dr_n
  BY <1>3, NbrChangedIs
<1>. QED
  BY <1>1, <1>2, <1>6, <1>7 DEF Settled, TwoWay, adjacency_wanted

LEMMA InactSettles == ASSUME NEW q \in Peers PROVE Inv /\ InactTimer(q) => Inv'
<1>. SUFFICES ASSUME Inv, InactTimer(q) PROVE Settled(s')
  BY DEF Inv
<1>1. Settled(s) /\ Ready(s) /\ s.ifc.state # "Down"
  BY DEF Inv, Settled, Ready, Sound, Quiet, InactTimer
<1>2. Unheard \in Nbrs /\ Unheard.state = "Down"
  BY ElectionAssumption DEF Unheard, Nbrs
<1>3. CASE s.ifc.nbr[q].state = "2Way"
  BY <1>1, <1>2, <1>3, BelowSettles DEF InactTimer
<1>4. CASE s.ifc.nbr[q].state # "2Way"
  <2>1. s' = NbrChanged(WithNbr(s, q, Unheard))
    BY <1>4 DEF InactTimer, WithNbr
  <2>2. Settled(WithNbr(s, q, Unheard))
    BY <1>1, <1>2, <1>4, WithNbrSettled
  <2>. QED
    BY <2>1, <2>2, NbrChangedSettled
<1>. QED
  BY <1>3, <1>4

\* The invariant is inductive.
LEMMA StepSettles == Inv /\ [Next]_vars => Inv'
<1>. SUFFICES ASSUME Inv, [Next]_vars PROVE Inv'
  OBVIOUS
<1>1. CASE Up
  BY <1>1, UpSettles
<1>2. CASE WaitTimer
  <2>1. Ready(s) /\ s.ifc.state = "Wait" /\ s' = Elect(s)
    BY <1>2 DEF WaitTimer, Inv, Settled
  <2>. QED
    BY <2>1, ElectSettles DEF Inv
<1>3. ASSUME NEW q \in Peers, RecvHello(q) PROVE Inv'
  BY <1>3, HelloSettles
<1>4. ASSUME NEW q \in Peers, RecvDD(q) PROVE Inv'
  <2>1. Ready(s) /\ s.ifc.state # "Down" /\ s' = Bidirectional(s, q)
    BY <1>4 DEF RecvDD, Inv, Settled, Ready, Sound, Quiet
  <2>. QED
    BY <2>1, BidirectionalSettles DEF Inv
<1>5. ASSUME NEW q \in Peers, BecomeFull(q) PROVE Inv'
  BY <1>5, FullSettles
<1>6. ASSUME NEW q \in Peers, RestartDD(q) PROVE Inv'
  BY <1>6, RestartSettles
<1>7. ASSUME NEW q \in Peers, InactTimer(q) PROVE Inv'
  BY <1>7, InactSettles
<1>8. CASE UNCHANGED vars
  BY <1>8 DEF Inv, vars
<1>. QED
  BY <1>1, <1>2, <1>3, <1>4, <1>5, <1>6, <1>7, <1>8 DEF Next

LEMMA Invariant == Spec => []Inv
<1>. QED
  BY InitSettled, StepSettles, PTL DEF Spec

\* The record of an interface has the types the code gives it, and who is Full is 2-Way.
THEOREM TypeCorrect == Spec => []TypeOK
<1>1. Inv => TypeOK
  BY DEF Inv, Settled, Ready, Sound, Interfaces, TypeOK, TwoWay
<1>. QED
  BY <1>1, Invariant, PTL

\* After every event both LSAs say what the interface and its neighbours are like then,
\* however the state machines have called each other in it.
THEOREM AlwaysLsasFresh == Spec => []LsasFresh
<1>1. Inv => LsasFresh
  BY DEF Inv, Settled, Ready, RlFresh, NlFresh, LsasFresh
<1>. QED
  BY <1>1, Invariant, PTL

\* Who is not wanted any more after an election does not stay adjacent.
THEOREM AlwaysOnlyWantedFull == Spec => []OnlyWantedFull
<1>1. Inv => OnlyWantedFull
  BY DEF Inv, Settled, OnlyWantedFull
<1>. QED
  BY <1>1, Invariant, PTL

\* if_dr_n points to a neighbour that is 2-Way, or to none.
THEOREM AlwaysDrNeighbourAlive == Spec => []DrNeighbourAlive
<1>1. Inv => DrNeighbourAlive
  BY DEF Inv, Settled, TwoWay, DrNeighbourAlive
<1>. QED
  BY <1>1, Invariant, PTL

\* In whatever order the neighbours are on the list, an election elects whom RFC 2328
\* names, and a second one changes nothing.
THEOREM AlwaysElectionIsRfc == Spec => []ElectionIsRfc
<1>1. Inv => ElectionIsRfc
  <2>. SUFFICES ASSUME Inv, NEW list \in Orders
                PROVE  /\ Pass(s.ifc, list).bdr = RfcBdr(s.ifc)
                       /\ Pass(s.ifc, list).dr = RfcDr(s.ifc)
                       /\ ifa_elect(ifa_elect(s.ifc, list), list) = ifa_elect(s.ifc, list)
    BY DEF ElectionIsRfc
  <2>1. s.ifc \in Ifcs /\ s.ifc.addr = Me
    BY DEF Inv, Settled, Ready, Sound, Interfaces
  <2>2. Cardinality(Peers) \in Nat /\ Lists(s.ifc, Cardinality(Peers), list)
    BY <2>1, ListsExist
  <2>3. Pass(s.ifc, list) = After(s.ifc) /\ Named(s.ifc)
    BY <2>1, <2>2, PassIsRfc DEF After
  <2>4. After(s.ifc).bdr = RfcBdr(s.ifc) /\ After(s.ifc).dr = RfcDr(s.ifc)
    BY <2>1, <2>3, AfterIsIfc
  <2>5. ifa_elect(ifa_elect(s.ifc, list), list) = ifa_elect(s.ifc, list)
    BY <2>1, <2>2, ElectAgain
  <2>. QED
    BY <2>3, <2>4, <2>5
<1>. QED
  BY <1>1, Invariant, PTL

=============================================================================
