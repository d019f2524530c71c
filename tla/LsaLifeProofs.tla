---------------------------- MODULE LsaLifeProofs ----------------------------
(***************************************************************************)
(* Theorems about LsaLife, for any LSAs, neighbours, ages and intervals: the *)
(* types, NoChangeLost, RefreshedInTime and NeverOlder.  The parts of a second *)
(* are loops over sets of LSAs; each is shown to do to an LSA what its body   *)
(* does, and the invariant is followed through them.                        *)
(***************************************************************************)
EXTENDS LsaLife, FiniteSetTheorems, SequenceTheorems, WellFoundedInduction, TLAPS

-----------------------------------------------------------------------------
(* Finite sets, and recursion over their subsets. *)

\* Among sets of parts of a finite set there is a minimal one.
LEMMA MinimalSubset ==
    ASSUME NEW S, IsFiniteSet(S), NEW Bad \in SUBSET (SUBSET S), Bad # {}
    PROVE  \E T \in Bad : \A U \in Bad : U \subseteq T => U = T
<1>1. IsWellFoundedOn(StrictSubsetOrdering(S), SUBSET S)
  BY FS_StrictSubsetOrderingWellFounded, FS_FiniteSubsetsOfFinite
<1>2. \E T \in Bad : \A U \in Bad : ~(<<U, T>> \in StrictSubsetOrdering(S))
  BY <1>1, WFMin
<1>. QED
  BY <1>2 DEF StrictSubsetOrdering

\* g takes one element after the other out of each subset of S: pick[U] is the one it
\* takes out of U, and step[x, v] what it makes of it and the value v of the rest.
Iterates(g, S, base, pick, step) ==
    \A U \in SUBSET S :
        g[U] = IF U = {} THEN base ELSE step[<<pick[U], g[U \ {pick[U]}]>>]

\* There is one such function at most,
LEMMA IterUnique ==
    ASSUME NEW S, IsFiniteSet(S), NEW pick, \A U \in SUBSET S : U # {} => pick[U] \in U,
           NEW base, NEW step, NEW g, NEW h,
           Iterates(g, S, base, pick, step), Iterates(h, S, base, pick, step)
    PROVE  \A U \in SUBSET S : g[U] = h[U]
<1>. DEFINE Bad == {U \in SUBSET S : g[U] # h[U]}
<1>. SUFFICES ASSUME Bad # {} PROVE FALSE
  OBVIOUS
<1>1. PICK T \in Bad : \A U \in Bad : U \subseteq T => U = T
  <2>1. Bad \in SUBSET (SUBSET S)
    OBVIOUS
  <2>. HIDE DEF Bad
  <2>. QED
    BY <2>1, MinimalSubset
<1>2. T # {}
  BY DEF Iterates
<1>. DEFINE W == T \ {pick[T]}
<1>3. W \in SUBSET S /\ W \subseteq T /\ W # T
  BY <1>2
<1>4. g[W] = h[W]
  BY <1>1, <1>3
<1>. QED
  BY <1>2, <1>4 DEF Iterates

\* and there is one.
LEMMA IterExists ==
    ASSUME NEW S, IsFiniteSet(S), NEW pick, \A U \in SUBSET S : U # {} => pick[U] \in U,
           NEW V, NEW base \in V, NEW step \in [S \X V -> V]
    PROVE  \E g \in [SUBSET S -> V] : Iterates(g, S, base, pick, step)
<1>. DEFINE Iter(g, T) == g \in [SUBSET T -> V] /\ Iterates(g, T, base, pick, step)
            Bad == {T \in SUBSET S : ~ \E g : Iter(g, T)}
<1>. SUFFICES ASSUME Bad # {} PROVE FALSE
  OBVIOUS
<1>1. PICK T \in Bad : \A U \in Bad : U \subseteq T => U = T
  <2>1. Bad \in SUBSET (SUBSET S)
    OBVIOUS
  <2>. HIDE DEF Bad
  <2>. QED
    BY <2>1, MinimalSubset
<1>. DEFINE h(U) == CHOOSE g : Iter(g, U)
            last(U) == IF U = {} THEN base ELSE step[<<pick[U], h(U \ {pick[U]})[U \ {pick[U]}]>>]
            f == [U \in SUBSET T |-> last(U)]
<1>2. ASSUME NEW U \in SUBSET T, U # T
      PROVE  Iter(h(U), U)
  BY <1>1, <1>2
<1>3. ASSUME NEW U \in SUBSET T, U # {}
      PROVE  /\ pick[U] \in U /\ U \ {pick[U]} \in SUBSET T /\ U \ {pick[U]} # T
             /\ Iter(h(U \ {pick[U]}), U \ {pick[U]})
  <2>1. pick[U] \in U
    BY <1>3
  <2>2. U \ {pick[U]} \in SUBSET T /\ U \ {pick[U]} # T
    BY <2>1
  <2>. QED
    BY <1>2, <2>1, <2>2
<1>4. ASSUME NEW U \in SUBSET T, U # T
      PROVE  h(U)[U] = last(U)
  <2>. HIDE DEF h
  <2>1. Iterates(h(U), U, base, pick, step)
    BY <1>2, <1>4
  <2>2. CASE U = {}
    BY <2>1, <2>2 DEF Iterates
  <2>3. CASE U # {}
    <3>. DEFINE W == U \ {pick[U]}
    <3>1. W \subseteq U /\ Iterates(h(W), W, base, pick, step)
      BY <1>3, <2>3
    <3>2. Iterates(h(U), W, base, pick, step)
      BY <2>1, <3>1 DEF Iterates
    <3>3. IsFiniteSet(W) /\ W \subseteq S
      BY <3>1, <1>1, FS_Subset
    <3>4. h(U)[W] = h(W)[W]
      <4>. HIDE DEF W
      <4>1. \A X \in SUBSET W : h(U)[X] = h(W)[X]
        BY <3>1, <3>2, <3>3, IterUnique
      <4>. QED
        BY <4>1
    <3>5. h(U)[U] = step[<<pick[U], h(U)[W]>>]
      BY <2>1, <2>3 DEF Iterates
    <3>. QED
      BY <2>3, <3>4, <3>5
  <2>. QED
    BY <2>2, <2>3
<1>. HIDE DEF h
<1>5. ASSUME NEW U \in SUBSET T
      PROVE  last(U) \in V
  <2>1. CASE U = {}
    BY <2>1
  <2>2. CASE U # {}
    <3>. DEFINE W == U \ {pick[U]}
    <3>0. h(W) \in [SUBSET W -> V]
      BY <1>3, <2>2
    <3>1. h(W)[W] \in V
      <4>. HIDE DEF W
      <4>. QED
        BY <3>0
    <3>2. pick[U] \in S
      BY <1>3, <2>2
    <3>. QED
      BY <2>2, <3>1, <3>2
  <2>. QED
    BY <2>1, <2>2
<1>6. Iterates(f, T, base, pick, step)
  <2>. SUFFICES ASSUME NEW U \in SUBSET T, U # {}
                PROVE  f[U] = step[<<pick[U], f[U \ {pick[U]}]>>]
    BY DEF Iterates
  <2>1. f[U \ {pick[U]}] = h(U \ {pick[U]})[U \ {pick[U]}]
    BY <1>3, <1>4
  <2>. QED
    BY <2>1
<1>7. Iter(f, T)
  BY <1>5, <1>6
<1>. QED
  BY <1>7

-----------------------------------------------------------------------------
(* Sums over the seconds of the refresh schedule. *)

Total(f, S) == MapThenSumSet(LAMBDA i : f[i], S)

\* The sum over a set is that over the set without any one of its members, plus that one.
LEMMA TotalIs ==
    ASSUME NEW S, IsFiniteSet(S), NEW f \in [S -> Nat]
    PROVE  /\ Total(f, {}) = 0
           /\ \A U \in SUBSET S : Total(f, U) \in Nat
           /\ \A U \in SUBSET S : \A x \in U : Total(f, U) = Total(f, U \ {x}) + f[x]
<1>. DEFINE any(U) == CHOOSE x \in U : TRUE
            pick == [U \in SUBSET S |-> any(U)]
            step == [p \in S \X Nat |-> f[p[1]] + p[2]]
            Loop(h, T) == h = [U \in SUBSET T |-> IF U = {} THEN 0
                                                  ELSE f[any(U)] + h[U \ {any(U)}]]
<1>1. \A T : Total(f, T) = (CHOOSE h : Loop(h, T))[T]
  BY DEF Total, MapThenSumSet, MapThenFoldSet
<1>2. \A U \in SUBSET S : U # {} => any(U) \in U
  OBVIOUS
<1>. HIDE DEF any
<1>3. \A U \in SUBSET S : U # {} => pick[U] \in U
  BY <1>2
<1>4. step \in [S \X Nat -> Nat]
  OBVIOUS
<1>5. PICK g \in [SUBSET S -> Nat] : Iterates(g, S, 0, pick, step)
  <2>. HIDE DEF pick, step
  <2>. QED
    BY <1>3, <1>4, IterExists
<1>6. \A U \in SUBSET S : g[U] = IF U = {} THEN 0 ELSE f[any(U)] + g[U \ {any(U)}]
  <2>. TAKE U \in SUBSET S
  <2>1. CASE U = {}
    BY <1>5, <2>1 DEF Iterates
  <2>2. CASE U # {}
    <3>1. g[U] = step[<<pick[U], g[U \ {pick[U]}]>>]
      BY <1>5, <2>2 DEF Iterates
    <3>2. any(U) \in S /\ g[U \ {any(U)}] \in Nat
      BY <1>2, <2>2
    <3>. QED
      BY <2>2, <3>1, <3>2
  <2>. QED
    BY <2>1, <2>2
<1>7. ASSUME NEW T \in SUBSET S PROVE Total(f, T) = g[T]
  <2>. DEFINE r == [U \in SUBSET T |-> g[U]]
              h == CHOOSE e : Loop(e, T)
  <2>1. Loop(r, T)
    <3>1. \A U \in SUBSET T : U # {} => U \ {any(U)} \in SUBSET T
      OBVIOUS
    <3>2. \A U \in SUBSET T : r[U] = IF U = {} THEN 0 ELSE f[any(U)] + r[U \ {any(U)}]
      BY <1>6, <3>1
    <3>. QED
      BY <3>2
  <2>2. Loop(h, T)
    <3>. HIDE DEF Loop
    <3>. QED
      BY <2>1
  <2>. HIDE DEF h
  <2>3. IsFiniteSet(T)
    BY FS_Subset
  <2>. DEFINE D == {Z \in SUBSET T : h[Z] # g[Z]}
  <2>4. D = {}
    <3>. SUFFICES ASSUME D # {} PROVE FALSE
      OBVIOUS
    <3>1. PICK Z \in D : \A U \in D : U \subseteq Z => U = Z
      <4>1. D \in SUBSET (SUBSET T)
        OBVIOUS
      <4>. HIDE DEF D
      <4>. QED
        BY <2>3, <4>1, MinimalSubset
    <3>2. h[Z] = IF Z = {} THEN 0 ELSE f[any(Z)] + h[Z \ {any(Z)}]
      BY <2>2
    <3>3. g[Z] = IF Z = {} THEN 0 ELSE f[any(Z)] + g[Z \ {any(Z)}]
      BY <1>6
    <3>4. Z # {} => any(Z) \in Z
      BY <1>2
    <3>5. Z # {} => h[Z \ {any(Z)}] = g[Z \ {any(Z)}]
      BY <3>1, <3>4
    <3>. QED
      BY <3>2, <3>3, <3>5
  <2>5. h[T] = g[T]
    BY <2>4
  <2>. QED
    BY <1>1, <2>5 DEF h
<1>8. \A U \in SUBSET S : \A x \in U : g[U] = g[U \ {x}] + f[x]
  <2>. DEFINE Bad == {U \in SUBSET S : \E x \in U : g[U] # g[U \ {x}] + f[x]}
  <2>. SUFFICES ASSUME Bad # {} PROVE FALSE
    OBVIOUS
  <2>1. PICK U \in Bad : \A Z \in Bad : Z \subseteq U => Z = U
    <3>1. Bad \in SUBSET (SUBSET S)
      OBVIOUS
    <3>. HIDE DEF Bad
    <3>. QED
      BY <3>1, MinimalSubset
  <2>2. PICK x \in U : g[U] # g[U \ {x}] + f[x]
    OBVIOUS
  <2>. DEFINE c == any(U)
  <2>3. c \in U /\ g[U] = f[c] + g[U \ {c}]
    BY <1>2, <1>6
  <2>. HIDE DEF c
  <2>4. \A y \in S : f[y] \in Nat
    OBVIOUS
  <2>5. \A W \in SUBSET S : g[W] \in Nat
    OBVIOUS
  <2>6. x # c
    <3>1. f[c] \in Nat /\ g[U \ {c}] \in Nat
      BY <2>3, <2>4, <2>5
    <3>2. g[U] = g[U \ {c}] + f[c]
      BY <2>3, <3>1
    <3>. QED
      BY <2>2, <3>2
  <2>7. g[U \ {c}] = g[(U \ {c}) \ {x}] + f[x]
    <3>1. U \ {c} \notin Bad /\ x \in U \ {c}
      BY <2>1, <2>3, <2>6
    <3>. QED
      BY <3>1
  <2>8. g[U \ {x}] = g[(U \ {x}) \ {c}] + f[c]
    <3>1. U \ {x} \notin Bad /\ c \in U \ {x}
      BY <2>1, <2>3, <2>6
    <3>. QED
      BY <3>1
  <2>. DEFINE W == (U \ {c}) \ {x}
  <2>9. W = (U \ {x}) \ {c} /\ W \in SUBSET S
    OBVIOUS
  <2>10. g[U \ {c}] = g[W] + f[x] /\ g[U \ {x}] = g[W] + f[c]
    BY <2>7, <2>8, <2>9
  <2>11. g[W] \in Nat /\ f[x] \in Nat /\ f[c] \in Nat
    BY <2>3, <2>4, <2>5, <2>9
  <2>. HIDE DEF W
  <2>. QED
    BY <2>2, <2>3, <2>10, <2>11
<1>9. \A U \in SUBSET S : g[U] \in Nat
  OBVIOUS
<1>10. Total(f, {}) = 0
  BY <1>6, <1>7
<1>. HIDE DEF Loop, pick, step
<1>11. \A U \in SUBSET S : Total(f, U) = g[U]
  BY <1>7
<1>12. \A U \in SUBSET S : \A x \in U : U \ {x} \in SUBSET S
  OBVIOUS
<1>. QED
  BY <1>8, <1>9, <1>10, <1>11, <1>12

\* Greater numbers have a greater sum.
LEMMA TotalGrows ==
    ASSUME NEW S, IsFiniteSet(S), NEW f \in [S -> Nat], NEW g \in [S -> Nat],
           NEW U \in SUBSET S, \A x \in U : f[x] <= g[x]
    PROVE  Total(f, U) <= Total(g, U)
<1>. DEFINE Bad == {T \in SUBSET U : ~(Total(f, T) <= Total(g, T))}
<1>. SUFFICES ASSUME Bad # {} PROVE FALSE
  OBVIOUS
<1>1. IsFiniteSet(U)
  BY FS_Subset
<1>2. PICK T \in Bad : \A Z \in Bad : Z \subseteq T => Z = T
  <2>1. Bad \in SUBSET (SUBSET U)
    OBVIOUS
  <2>. HIDE DEF Bad
  <2>. QED
    BY <1>1, <2>1, MinimalSubset
<1>3. T # {}
  <2>1. Total(f, {}) = 0 /\ Total(g, {}) = 0
    BY TotalIs
  <2>. QED
    BY <2>1
<1>4. PICK x \in T : TRUE
  BY <1>3
<1>. DEFINE R == T \ {x}
<1>5. R \notin Bad /\ R \in SUBSET U /\ T \in SUBSET S /\ R \in SUBSET S /\ x \in S
  BY <1>2, <1>4
<1>6. Total(f, R) <= Total(g, R)
  BY <1>5
<1>7. /\ Total(f, T) = Total(f, R) + f[x] /\ Total(g, T) = Total(g, R) + g[x]
      /\ Total(f, R) \in Nat /\ Total(g, R) \in Nat
  BY <1>4, <1>5, TotalIs
<1>8. f[x] \in Nat /\ g[x] \in Nat /\ f[x] <= g[x]
  BY <1>4
<1>. HIDE DEF R
<1>9. Total(f, T) <= Total(g, T)
  BY <1>6, <1>7, <1>8
<1>. QED
  BY <1>9

\* Equal numbers have equal sums.
LEMMA TotalAgrees ==
    ASSUME NEW S, IsFiniteSet(S), NEW f \in [S -> Nat], NEW g \in [S -> Nat],
           NEW U \in SUBSET S, \A x \in U : f[x] = g[x]
    PROVE  Total(f, U) = Total(g, U)
<1>1. \A x \in U : f[x] <= g[x] /\ g[x] <= f[x]
  OBVIOUS
<1>2. Total(f, U) <= Total(g, U) /\ Total(g, U) <= Total(f, U)
  BY <1>1, TotalGrows
<1>3. Total(f, U) \in Nat /\ Total(g, U) \in Nat
  BY TotalIs
<1>. QED
  BY <1>2, <1>3

-----------------------------------------------------------------------------
(* The seconds of the schedule. *)

\* The n seconds that are served next when it is the turn of b.
Coming(b, n) == {(b + j) % MaxAgeDiff : j \in 0..(n - 1)}

\* The seconds of the schedule are finitely many, and the last is followed by the
\* first.
LEMMA SlotsAre ==
    /\ IsFiniteSet(Slots) /\ MaxAgeDiff \in Nat \ {0}
    /\ \A b \in Slots : (b + 1) % MaxAgeDiff \in Slots
<1>1. MaxAgeDiff \in Nat \ {0}
  BY LifeAssumption
<1>2. IsFiniteSet(Slots)
  BY <1>1, FS_Interval DEF Slots
<1>. QED
  BY <1>1, <1>2 DEF Slots

\* Sums and remainders, without division.
LEMMA Turns ==
    ASSUME NEW b \in Slots, NEW j \in 0..MaxAgeDiff
    PROVE  (b + j) % MaxAgeDiff = IF b + j < MaxAgeDiff THEN b + j ELSE b + j - MaxAgeDiff
<1>. DEFINE m == MaxAgeDiff
<1>1. m \in Nat \ {0} /\ b \in 0..(m - 1) /\ j \in 0..m
  BY LifeAssumption DEF Slots
<1>. HIDE DEF m
<1>2. (b + j) % m = IF b + j < m THEN b + j ELSE b + j - m
  BY <1>1
<1>. QED
  BY <1>2 DEF m

\* The n seconds to come are the next one and the n - 1 that follow it.
LEMMA ComingIs ==
    ASSUME NEW b \in Slots, NEW n \in 0..MaxAgeDiff
    PROVE  /\ Coming(b, n) \subseteq Slots
           /\ n = 0 => Coming(b, n) = {}
           /\ n = MaxAgeDiff => Coming(b, n) = Slots
           /\ n > 0 => /\ b \in Coming(b, n)
                       /\ Coming(b, n) \ {b} = Coming((b + 1) % MaxAgeDiff, n - 1)
<1>. DEFINE m == MaxAgeDiff
            s == (b + 1) % m
            turn(c, j) == IF c + j < m THEN c + j ELSE c + j - m
            next(c, l) == {turn(c, j) : j \in 0..(l - 1)}
<1>1. m \in Nat \ {0} /\ Slots = 0..(m - 1) /\ n \in 0..m
  BY LifeAssumption DEF Slots
<1>2. ASSUME NEW c \in Slots, NEW l \in 0..m PROVE Coming(c, l) = next(c, l)
  <2>1. \A j \in 0..(l - 1) : j \in 0..m
    BY <1>1
  <2>2. \A j \in 0..(l - 1) : (c + j) % MaxAgeDiff = turn(c, j)
    BY <2>1, Turns
  <2>. QED
    BY <2>2 DEF Coming
<1>3. s \in Slots /\ s = turn(b, 1)
  BY <1>1, SlotsAre, Turns
<1>. HIDE DEF m, s
<1>4. next(b, n) \subseteq Slots
  BY <1>1
<1>5. ASSUME n = m PROVE next(b, n) = Slots
  <2>1. \A x \in Slots : x = turn(b, IF x >= b THEN x - b ELSE x - b + m)
    BY <1>1
  <2>2. \A x \in Slots : (IF x >= b THEN x - b ELSE x - b + m) \in 0..(n - 1)
    BY <1>1, <1>5
  <2>. QED
    BY <1>4, <2>1, <2>2
<1>6. ASSUME n > 0 PROVE b \in next(b, n) /\ next(b, n) \ {b} = next(s, n - 1)
  <2>1. turn(b, 0) = b
    BY <1>1
  <2>2. \A j \in 1..(n - 1) : turn(b, j) = turn(s, j - 1) /\ turn(b, j) # b
    BY <1>1, <1>3
  <2>3. next(b, n) = {b} \cup {turn(b, j) : j \in 1..(n - 1)}
    <3>. HIDE DEF turn
    <3>. QED
      BY <1>6, <2>1
  <2>4. {turn(b, j) : j \in 1..(n - 1)} = next(s, n - 1)
    <3>1. \A j \in 1..(n - 1) : j - 1 \in 0..(n - 2)
      BY <1>6
    <3>2. \A j \in 0..(n - 2) : j + 1 \in 1..(n - 1) /\ turn(b, j + 1) = turn(s, j)
      <4>. TAKE j \in 0..(n - 2)
      <4>1. j + 1 \in 1..(n - 1) /\ (j + 1) - 1 = j
        BY <1>6
      <4>. HIDE DEF turn
      <4>. QED
        BY <2>2, <4>1
    <3>3. (n - 1) - 1 = n - 2
      BY <1>6
    <3>. HIDE DEF turn
    <3>. QED
      BY <2>2, <3>1, <3>2, <3>3
  <2>5. b \notin next(s, n - 1)
    <3>. HIDE DEF turn
    <3>. QED
      BY <2>2, <2>4
  <2>. HIDE DEF turn, next
  <2>. QED
    BY <2>3, <2>4, <2>5
<1>7. n - 1 \in 0..m \/ n = 0
  BY <1>1 DEF m
<1>8. n = 0 => next(b, n) = {}
  OBVIOUS
<1>. HIDE DEF next
<1>. QED
  BY <1>2, <1>3, <1>4, <1>5, <1>6, <1>7, <1>8 DEF m, s

\* One more in second i.
LEMMA TotalRaised ==
    ASSUME NEW f \in [Slots -> Nat], NEW i \in Slots
    PROVE  LET g == [f EXCEPT ![i] = @ + 1]
           IN  /\ g \in [Slots -> Nat]
               /\ \A U \in SUBSET Slots : Total(f, U) <= Total(g, U)
               /\ Total(g, Slots) = Total(f, Slots) + 1
<1>. DEFINE g == [f EXCEPT ![i] = @ + 1]
            R == Slots \ {i}
<1>1. IsFiniteSet(Slots)
  BY SlotsAre
<1>2. g \in [Slots -> Nat] /\ g[i] = f[i] + 1 /\ f[i] \in Nat
  OBVIOUS
<1>3. \A x \in R : f[x] = g[x]
  OBVIOUS
<1>4. \A x \in Slots : f[x] <= g[x]
  OBVIOUS
<1>. HIDE DEF g
<1>5. \A U \in SUBSET Slots : Total(f, U) <= Total(g, U)
  BY <1>1, <1>2, <1>4, TotalGrows
<1>6. Total(f, R) = Total(g, R)
  BY <1>1, <1>2, <1>3, TotalAgrees
<1>7. /\ Total(f, Slots) = Total(f, R) + f[i] /\ Total(g, Slots) = Total(g, R) + g[i]
      /\ Total(f, R) \in Nat
  BY <1>1, <1>2, TotalIs
<1>. HIDE DEF R
<1>8. Total(g, Slots) = Total(f, Slots) + 1
  BY <1>2, <1>6, <1>7
<1>. QED
  BY <1>2, <1>5, <1>8 DEF g

\* Second b is served.
LEMMA TotalServed ==
    ASSUME NEW f \in [Slots -> Nat], NEW b \in Slots
    PROVE  LET g == [f EXCEPT ![b] = 0]
               s == (b + 1) % MaxAgeDiff
           IN  /\ g \in [Slots -> Nat]
               /\ Total(f, Slots) = Total(g, Slots) + f[b]
               /\ \A n \in 1..MaxAgeDiff : Total(f, Coming(b, n)) = Total(g, Coming(s, n - 1)) + f[b]
<1>. DEFINE g == [f EXCEPT ![b] = 0]
            s == (b + 1) % MaxAgeDiff
<1>1. IsFiniteSet(Slots)
  BY SlotsAre
<1>2. g \in [Slots -> Nat] /\ g[b] = 0 /\ f[b] \in Nat
  OBVIOUS
<1>3. \A x \in Slots \ {b} : f[x] = g[x]
  OBVIOUS
<1>. HIDE DEF g
<1>4. ASSUME NEW U \in SUBSET Slots, b \in U PROVE Total(f, U) = Total(g, U \ {b}) + f[b]
  <2>1. \A x \in U \ {b} : f[x] = g[x]
    BY <1>3
  <2>2. Total(f, U \ {b}) = Total(g, U \ {b})
    BY <1>1, <1>2, <2>1, TotalAgrees
  <2>3. Total(f, U) = Total(f, U \ {b}) + f[b]
    BY <1>1, <1>4, TotalIs
  <2>. QED
    BY <2>2, <2>3
<1>5. Total(f, Slots) = Total(g, Slots) + f[b]
  <2>1. Total(f, Slots) = Total(g, Slots \ {b}) + f[b]
    BY <1>4
  <2>2. Total(g, Slots) = Total(g, Slots \ {b}) + g[b] /\ Total(g, Slots \ {b}) \in Nat
    BY <1>1, <1>2, TotalIs
  <2>3. Total(g, Slots) = Total(g, Slots \ {b})
    BY <1>2, <2>2
  <2>. QED
    BY <2>1, <2>3
<1>6. ASSUME NEW n \in 1..MaxAgeDiff
      PROVE  Total(f, Coming(b, n)) = Total(g, Coming(s, n - 1)) + f[b]
  <2>1. n \in 0..MaxAgeDiff /\ n > 0
    BY SlotsAre
  <2>2. /\ Coming(b, n) \in SUBSET Slots /\ b \in Coming(b, n)
        /\ Coming(b, n) \ {b} = Coming(s, n - 1)
    BY <2>1, ComingIs
  <2>. QED
    BY <1>4, <2>2
<1>. HIDE DEF s
<1>. QED
  BY <1>2, <1>5, <1>6 DEF g, s

-----------------------------------------------------------------------------
(* What one LSA is in the database, and what leaves the others alone. *)

Entries == [lsa : Own, valid : BOOLEAN]

\* The places of k in pending_refresh.
At(d, k) == {p \in 1..Len(d.pending) : d.pending[p].lsa = k /\ d.pending[p].valid}

SameKey(d, e, k) ==
    /\ e.db[k] = d.db[k] /\ At(e, k) = At(d, k)
    /\ k \in e.maxage <=> k \in d.maxage
    /\ k \in e.echoed <=> k \in d.echoed

SameSchedule(d, e) == Len(e.pending) = Len(d.pending) /\ e.bins = d.bins /\ e.bin0 = d.bin0

\* e differs from d in what concerns k, if at all.
Only(d, e, k) ==
    /\ e \in Databases /\ SameSchedule(d, e)
    /\ \A q \in Lsa \ {k} : SameKey(d, e, q)

\* Orphan leaves every entry its LSA, and the others their validity.
LEMMA OrphanIs ==
    ASSUME NEW s \in Seq(Entries), NEW k
    PROVE  /\ Orphan(s, k) \in Seq(Entries) /\ Len(Orphan(s, k)) = Len(s)
           /\ \A p \in 1..Len(s) :
                 /\ Orphan(s, k)[p].lsa = s[p].lsa
                 /\ Orphan(s, k)[p].valid = (s[p].valid /\ s[p].lsa # k)
<1>. DEFINE n == Len(s)
            o == Orphan(s, k)
            new(p) == IF s[p].lsa = k THEN [s[p] EXCEPT !.valid = FALSE] ELSE s[p]
<1>1. n \in Nat /\ DOMAIN s = 1..n /\ \A p \in 1..n : s[p] \in Entries
  OBVIOUS
<1>2. o = [p \in 1..n |-> new(p)]
  BY <1>1 DEF Orphan
<1>3. \A p \in 1..n : new(p) \in Entries /\ new(p).lsa = s[p].lsa
                     /\ new(p).valid = (s[p].valid /\ s[p].lsa # k)
  <2>. TAKE p \in 1..n
  <2>1. s[p] \in Entries
    BY <1>1
  <2>. HIDE DEF n
  <2>2. s[p].valid \in BOOLEAN
    BY <2>1 DEF Entries
  <2>3. CASE s[p].lsa = k
    <3>1. new(p) = [s[p] EXCEPT !.valid = FALSE]
      BY <2>3
    <3>2. new(p) \in Entries /\ new(p).lsa = s[p].lsa /\ new(p).valid = FALSE
      <4>. HIDE DEF new
      <4>. QED
        BY <2>1, <3>1 DEF Entries
    <3>. HIDE DEF new
    <3>3. (s[p].valid /\ s[p].lsa # k) = FALSE
      BY <2>3
    <3>. QED
      BY <3>2, <3>3
  <2>4. CASE s[p].lsa # k
    <3>1. new(p) = s[p]
      BY <2>4
    <3>2. (s[p].valid /\ s[p].lsa # k) = s[p].valid
      BY <2>2, <2>4
    <3>. HIDE DEF new
    <3>. QED
      BY <2>1, <3>1, <3>2
  <2>. HIDE DEF new
  <2>. QED
    BY <2>3, <2>4
<1>. HIDE DEF new, o, n
<1>4. o \in Seq(Entries) /\ Len(o) = n
  <2>1. o \in [1..n -> Entries]
    BY <1>2, <1>3
  <2>. QED
    BY <1>1, <2>1
<1>5. \A p \in 1..n : o[p].lsa = s[p].lsa /\ o[p].valid = (s[p].valid /\ s[p].lsa # k)
  BY <1>2, <1>3
<1>. QED
  BY <1>4, <1>5 DEF o, n

\* The changes of a database that concern one LSA.
Alike(s, t, k) == s \ {k} = t \ {k}

Put(d, k, y, mx, ec, pend) ==
    [d EXCEPT !.db = [d.db EXCEPT ![k] = y], !.maxage = mx, !.echoed = ec, !.pending = pend]

Results(d, e, k, y, mx, ec, pend) ==
    /\ Only(d, e, k)
    /\ e.db[k] = y /\ e.maxage = mx /\ e.echoed = ec /\ e.pending = pend
    /\ pend = d.pending => At(e, k) = At(d, k)
    /\ pend = Orphan(d.pending, k) => At(e, k) = {}

\* A database written with Put differs in k only, as Results says.
LEMMA OnlyIs ==
    ASSUME NEW d \in Databases, NEW k \in Lsa, NEW e, NEW y \in Instances \cup {Nothing},
           NEW mx \in SUBSET Lsa, Alike(mx, d.maxage, k),
           NEW ec \in SUBSET Own, Alike(ec, d.echoed, k),
           NEW pend, pend = d.pending \/ pend = Orphan(d.pending, k),
           e = Put(d, k, y, mx, ec, pend)
    PROVE  Results(d, e, k, y, mx, ec, pend)
<1>. DEFINE s == d.pending
<1>1. /\ d.db \in [Lsa -> Instances \cup {Nothing}] /\ s \in Seq(Entries)
      /\ d.bins \in [Slots -> Nat] /\ d.bin0 \in Slots
  BY DEF Databases, Entries
<1>2. pend \in Seq(Entries) /\ Len(pend) = Len(s) /\ Len(s) \in Nat
  <2>. HIDE DEF s
  <2>1. s \in Seq(Entries)
    BY <1>1
  <2>2. Orphan(s, k) \in Seq(Entries) /\ Len(Orphan(s, k)) = Len(s)
    BY <2>1, OrphanIs
  <2>. QED
    BY <2>1, <2>2 DEF s
<1>3. /\ e.db = [d.db EXCEPT ![k] = y] /\ e.maxage = mx /\ e.echoed = ec /\ e.pending = pend
      /\ e.bins = d.bins /\ e.bin0 = d.bin0
  BY DEF Databases, Put
<1>4. e \in Databases
  <2>. DEFINE db == [d.db EXCEPT ![k] = y]
  <2>1. db \in [Lsa -> Instances \cup {Nothing}]
    BY <1>1
  <2>. HIDE DEF db
  <2>2. e = [d EXCEPT !.db = db, !.maxage = mx, !.echoed = ec, !.pending = pend]
    BY DEF db, Put
  <2>. QED
    BY <1>2, <2>1, <2>2 DEF Databases, Entries
<1>5. \A q \in Lsa : q # k => e.db[q] = d.db[q] /\ (q \in mx <=> q \in d.maxage)
                              /\ (q \in ec <=> q \in d.echoed)
  BY <1>1, <1>3 DEF Alike
<1>6. e.db[k] = y
  BY <1>1, <1>3
<1>. DEFINE Places(t, q) == {p \in 1..Len(s) : t[p].lsa = q /\ t[p].valid}
<1>7. \A q : At(e, q) = Places(pend, q) /\ At(d, q) = Places(s, q)
  BY <1>2, <1>3 DEF At
<1>8. pend = s => \A q : At(e, q) = At(d, q)
  <2>. HIDE DEF Places, s
  <2>. QED
    BY <1>7
<1>9. ASSUME pend = Orphan(s, k) PROVE At(e, k) = {} /\ \A q : q # k => At(e, q) = At(d, q)
  <2>1. \A p \in 1..Len(s) : pend[p].lsa = s[p].lsa /\ pend[p].valid = (s[p].valid /\ s[p].lsa # k)
    <3>. HIDE DEF s
    <3>. QED
      BY <1>1, <1>9, OrphanIs
  <2>. HIDE DEF s
  <2>2. Places(pend, k) = {}
    BY <2>1
  <2>3. \A q : q # k => Places(pend, q) = Places(s, q)
    BY <2>1
  <2>. HIDE DEF Places
  <2>. QED
    BY <1>7, <2>2, <2>3
<1>. HIDE DEF s
<1>10. \A q \in Lsa \ {k} : SameKey(d, e, q)
  BY <1>3, <1>5, <1>8, <1>9 DEF SameKey, s
<1>11. SameSchedule(d, e)
  BY <1>2, <1>3 DEF SameSchedule, s
<1>. QED
  BY <1>3, <1>4, <1>6, <1>8, <1>9, <1>10, <1>11 DEF Only, s, Results

\* One change of k after another.
LEMMA OnlyTrans ==
    ASSUME NEW d, NEW k, NEW m, NEW e, Only(d, m, k), Only(m, e, k)
    PROVE  Only(d, e, k)
  BY DEF Only, SameKey, SameSchedule

\* No change at all.
LEMMA OnlyItself ==
    ASSUME NEW d \in Databases, NEW k
    PROVE  Only(d, d, k)
  BY DEF Only, SameKey, SameSchedule

\* The instance of k in e is a new one.
Added(d, e, k, seq, rcv, body, ro, rxmt) ==
    /\ Only(d, e, k) /\ At(e, k) = {}
    /\ k \in e.maxage <=> rcv = MaxAge
    /\ e.db[k] # Nothing /\ e.db[k] \in Instances
    /\ e.db[k].seq = seq /\ e.db[k].rcv = rcv /\ e.db[k].since = 0 /\ e.db[k].body = body
    /\ e.db[k].deferring = FALSE /\ e.db[k].rollover = ro /\ e.db[k].rxmt = rxmt

\* echoed is the same.
SameEcho(d, e) == e.echoed = d.echoed

RolledOver(x) == x # Nothing /\ x.rollover

\* The types of the parts of a database.
LEMMA LsaIs ==
    ASSUME NEW d \in Databases, NEW k \in Lsa
    PROVE  /\ d.db \in [Lsa -> Instances \cup {Nothing}] /\ d.db[k] \in Instances \cup {Nothing}
           /\ d.maxage \in SUBSET Lsa /\ d.echoed \in SUBSET Own
           /\ d.pending \in Seq(Entries) /\ d.bins \in [Slots -> Nat] /\ d.bin0 \in Slots
           /\ d = [db |-> d.db, maxage |-> d.maxage, pending |-> d.pending,
                   bins |-> d.bins, bin0 |-> d.bin0, echoed |-> d.echoed]
<1>1. d.db \in [Lsa -> Instances \cup {Nothing}]
  BY DEF Databases
<1>. QED
  BY <1>1 DEF Databases, Entries

\* Ages are natural numbers.
LEMMA AgeIs ==
    ASSUME NEW x \in Instances
    PROVE  /\ x.rcv \in Nat /\ x.since \in Nat /\ MaxAge \in Nat /\ Age(x) \in Nat
           /\ x.rcv = MaxAge => Age(x) = MaxAge
           /\ x.rcv # MaxAge => Age(x) = x.rcv + x.since
<1>1. x.rcv \in 0..MaxAge /\ x.since \in 0..MaxAge /\ MaxAge \in Nat
  BY LifeAssumption DEF Instances
<1>. QED
  BY <1>1 DEF Age

\* What AddLSA does.
LEMMA AddIs ==
    ASSUME NEW d \in Databases, NEW k \in Lsa, NEW seq \in Seqs, NEW rcv \in 0..MaxAge,
           NEW body \in Bodies, NEW e, e = AddLSA(d, k, seq, rcv, body)
    PROVE  Added(d, e, k, seq, rcv, body, RolledOver(d.db[k]), {}) /\ SameEcho(d, e)
<1>. DEFINE old == d.db[k]
            ro == old # Nothing /\ old.rollover
            mf == old # Nothing /\ old.since < MinArrival
            y == [seq |-> seq, rcv |-> rcv, since |-> 0, body |-> body, deferring |-> FALSE,
                  rollover |-> ro, min_failed |-> mf, rxmt |-> {}]
            mx == IF rcv = MaxAge THEN d.maxage \cup {k} ELSE d.maxage \ {k}
            pend == Orphan(d.pending, k)
<1>1. old \in Instances \cup {Nothing} /\ 0 \in 0..MaxAge
  BY LsaIs, LifeAssumption
<1>2. ro \in BOOLEAN /\ mf \in BOOLEAN
  OBVIOUS
<1>3. y \in Instances
  <2>. HIDE DEF ro, mf
  <2>. QED
    BY <1>1, <1>2 DEF Instances
<1>4. y # Nothing
  <2>. HIDE DEF y
  <2>. QED
    BY <1>3, NothingAssumption
<1>5. /\ y.seq = seq /\ y.rcv = rcv /\ y.since = 0 /\ y.body = body /\ y.deferring = FALSE
      /\ y.rollover = ro /\ y.rxmt = {}
  <2>. HIDE DEF ro, mf
  <2>. QED
    OBVIOUS
<1>6. mx \in SUBSET Lsa /\ Alike(mx, d.maxage, k) /\ (k \in mx <=> rcv = MaxAge)
  BY LsaIs DEF Alike
<1>7. e = [d EXCEPT !.db = [d.db EXCEPT ![k] = y], !.maxage = mx, !.pending = pend]
  BY DEF AddLSA
<1>8. e = Put(d, k, y, mx, d.echoed, pend)
  <2>. DEFINE db == [d.db EXCEPT ![k] = y]
  <2>. HIDE DEF db, mx, pend
  <2>. QED
    BY <1>7, LsaIs DEF db, Put
<1>9. d.echoed \in SUBSET Own /\ Alike(d.echoed, d.echoed, k)
  BY LsaIs DEF Alike
<1>. HIDE DEF y, mx, pend
<1>10. y \in Instances \cup {Nothing} /\ (pend = d.pending \/ pend = Orphan(d.pending, k))
  BY <1>3 DEF pend
<1>11. /\ Only(d, e, k) /\ e.db[k] = y /\ e.maxage = mx /\ SameEcho(d, e)
       /\ pend = Orphan(d.pending, k) => At(e, k) = {}
  <2>1. Results(d, e, k, y, mx, d.echoed, pend)
    BY <1>6, <1>8, <1>9, <1>10, OnlyIs
  <2>. QED
    BY <2>1 DEF Results, SameEcho
<1>12. At(e, k) = {}
  BY <1>11 DEF pend
<1>. HIDE DEF ro
<1>13. ro = RolledOver(old)
  BY DEF ro, RolledOver
<1>. QED
  BY <1>3, <1>4, <1>5, <1>6, <1>11, <1>12, <1>13 DEF Added

\* An instance with other flags.
LEMMA InstanceIs ==
    ASSUME NEW x \in Instances, NEW y,
           \/ \E R \in SUBSET Nbr : y = [x EXCEPT !.rxmt = R]
           \/ \E b \in BOOLEAN : y = [x EXCEPT !.deferring = b]
           \/ \E b \in BOOLEAN : y = [x EXCEPT !.rollover = b]
           \/ \E n \in Seqs : y = [x EXCEPT !.rollover = FALSE, !.seq = n]
    PROVE  /\ y \in Instances /\ y # Nothing
           /\ y.rcv = x.rcv /\ y.since = x.since /\ y.body = x.body /\ Age(y) = Age(x)
<1>1. y \in Instances /\ y.rcv = x.rcv /\ y.since = x.since /\ y.body = x.body
  BY DEF Instances
<1>. QED
  BY <1>1, NothingAssumption DEF Age

\* What flood does.
LEMMA FloodIs ==
    ASSUME NEW d, NEW m \in Databases, NEW k \in Lsa, NEW seq, NEW rcv, NEW body, NEW ro, NEW rxmt,
           Added(d, m, k, seq, rcv, body, ro, rxmt),
           NEW from, nbrs \subseteq Nbr, NEW e, e = flood(m, k, from)
    PROVE  Added(d, e, k, seq, rcv, body, ro, nbrs \ from) /\ SameEcho(m, e)
<1>. DEFINE x == m.db[k]
            R == nbrs \ from
            y == [x EXCEPT !.rxmt = R]
<1>1. x \in Instances
  BY DEF Added
<1>2. R \in SUBSET Nbr
  OBVIOUS
<1>3. e = Put(m, k, y, m.maxage, m.echoed, m.pending)
  <2>1. e = [m EXCEPT !.db = [m.db EXCEPT ![k] = y]]
    BY DEF flood
  <2>. DEFINE db == [m.db EXCEPT ![k] = y]
  <2>. HIDE DEF db
  <2>. QED
    BY <2>1, LsaIs DEF Put, db
<1>. HIDE DEF R
<1>4. y.rxmt = R /\ y.seq = x.seq /\ y.deferring = x.deferring /\ y.rollover = x.rollover
  BY <1>1 DEF Instances
<1>5. /\ y \in Instances /\ y # Nothing /\ y.rcv = x.rcv /\ y.since = x.since
      /\ y.body = x.body
  <2>. HIDE DEF x
  <2>. QED
    BY <1>1, <1>2, InstanceIs
<1>6. /\ m.maxage \in SUBSET Lsa /\ m.echoed \in SUBSET Own
      /\ Alike(m.maxage, m.maxage, k) /\ Alike(m.echoed, m.echoed, k)
  BY LsaIs DEF Alike
<1>. HIDE DEF y
<1>7. y \in Instances \cup {Nothing}
  BY <1>5
<1>8. /\ Only(m, e, k) /\ e.db[k] = y /\ e.maxage = m.maxage /\ SameEcho(m, e)
      /\ At(e, k) = At(m, k)
  <2>1. Results(m, e, k, y, m.maxage, m.echoed, m.pending)
    BY <1>3, <1>6, <1>7, OnlyIs
  <2>. QED
    BY <2>1 DEF Results, SameEcho
<1>9. Only(d, m, k)
  BY DEF Added
<1>10. Only(d, e, k)
  BY <1>8, <1>9, OnlyTrans
<1>. QED
  BY <1>4, <1>5, <1>8, <1>10 DEF Added, R, x

\* Sequence numbers are integers.
LEMMA SeqsAre ==
    /\ InitLSSeq \in Seqs /\ MaxLSSeq \in Seqs /\ InvalidLSSeq \in Seqs
    /\ InvalidLSSeq + 1 = InitLSSeq /\ InvalidLSSeq < InitLSSeq /\ InitLSSeq < MaxLSSeq
    /\ \A n \in Seqs : n \in Int /\ n <= MaxLSSeq /\ (n # MaxLSSeq => n + 1 \in Seqs)
<1>1. InitLSSeq \in Nat /\ MaxLSSeq \in Nat /\ InitLSSeq < MaxLSSeq
  BY LifeAssumption
<1>. QED
  BY <1>1 DEF Seqs, InvalidLSSeq

\* From here on m is d, or d with a mark on k.
LEMMA AddedAfter ==
    ASSUME NEW d, NEW m, NEW e, NEW k, NEW seq, NEW rcv, NEW body, NEW ro, NEW rxmt,
           Only(d, m, k), Added(m, e, k, seq, rcv, body, ro, rxmt)
    PROVE  Added(d, e, k, seq, rcv, body, ro, rxmt)
<1>1. Only(d, e, k)
  BY OnlyTrans DEF Added
<1>. QED
  BY <1>1 DEF Added

\* AddLSA and then flood.
LEMMA InstallIs ==
    ASSUME NEW d \in Databases, NEW k \in Lsa, NEW seq \in Seqs, NEW rcv \in 0..MaxAge,
           NEW body \in Bodies, NEW from, nbrs \subseteq Nbr,
           NEW e, e = flood(AddLSA(d, k, seq, rcv, body), k, from)
    PROVE  /\ Added(d, e, k, seq, rcv, body, RolledOver(d.db[k]), nbrs \ from)
           /\ SameEcho(d, e)
<1>. DEFINE m == AddLSA(d, k, seq, rcv, body)
<1>. HIDE DEF m
<1>1. Added(d, m, k, seq, rcv, body, RolledOver(d.db[k]), {}) /\ SameEcho(d, m)
  BY AddIs DEF m
<1>2. m \in Databases
  BY <1>1 DEF Added, Only
<1>. QED
  BY <1>1, <1>2, FloodIs DEF m, SameEcho

\* What age_prematurely does.
LEMMA AgedIs ==
    ASSUME NEW d \in Databases, NEW k \in Lsa, d.db[k] # Nothing, nbrs \subseteq Nbr,
           NEW e, e = age_prematurely(d, k)
    PROVE  /\ Added(d, e, k, d.db[k].seq, MaxAge, d.db[k].body, d.db[k].rollover, nbrs)
           /\ SameEcho(d, e)
<1>1. d.db[k] \in Instances
  BY LsaIs
<1>2. d.db[k].seq \in Seqs /\ d.db[k].body \in Bodies /\ d.db[k].rollover \in BOOLEAN
  BY <1>1 DEF Instances
<1>3. MaxAge \in 0..MaxAge /\ nbrs \ {} = nbrs
  BY LifeAssumption
<1>4. RolledOver(d.db[k]) = d.db[k].rollover
  BY <1>2 DEF RolledOver
<1>. DEFINE n == d.db[k].seq
            b == d.db[k].body
            r == MaxAge
            none == {}
<1>5. e = flood(AddLSA(d, k, n, r, b), k, none)
  BY DEF age_prematurely
<1>6. n \in Seqs /\ b \in Bodies /\ r \in 0..MaxAge
  BY <1>2, <1>3
<1>. HIDE DEF n, b, r, none
<1>7. Added(d, e, k, n, r, b, RolledOver(d.db[k]), nbrs \ none)
  BY <1>5, <1>6, InstallIs
<1>8. SameEcho(d, e)
  BY <1>5, <1>6, <1>7, InstallIs
<1>. QED
  BY <1>3, <1>4, <1>7, <1>8 DEF n, b, r, none

\* What lsa_flush does.
LEMMA FlushIs ==
    ASSUME NEW d \in Databases, NEW k \in Lsa, nbrs \subseteq Nbr,
           NEW e, e = lsa_flush(d, k)
    PROVE  /\ d.db[k] = Nothing \/ Age(d.db[k]) = MaxAge => e = d
           /\ d.db[k] # Nothing /\ Age(d.db[k]) # MaxAge =>
                 /\ Added(d, e, k, d.db[k].seq, MaxAge, d.db[k].body, d.db[k].rollover, nbrs)
                 /\ SameEcho(d, e)
<1>1. CASE d.db[k] = Nothing \/ Age(d.db[k]) = MaxAge
  BY <1>1 DEF lsa_flush
<1>2. CASE ~(d.db[k] = Nothing \/ Age(d.db[k]) = MaxAge)
  <2>1. e = age_prematurely(d, k)
    BY <1>2 DEF lsa_flush
  <2>. QED
    BY <1>2, <2>1, AgedIs
<1>. QED
  BY <1>1, <1>2

\* What may become of an own LSA k when it is to be originated, as w wants it.
PutOff(d, e, k) ==
    LET x == d.db[k]
    IN  /\ x # Nothing /\ x.rcv # MaxAge /\ Age(x) < MinLSInterval
        /\ Only(d, e, k) /\ At(e, k) = At(d, k) /\ e.maxage = d.maxage /\ SameEcho(d, e)
        /\ e.db[k] = [x EXCEPT !.deferring = TRUE]

Rolled(d, e, k) ==
    LET x == d.db[k]
    IN  /\ x # Nothing /\ x.seq = MaxLSSeq
        /\ Added(d, e, k, MaxLSSeq, MaxAge, x.body, TRUE, nbrs)
        /\ e.echoed = d.echoed \ {k}

Flushed(d, e, k) ==
    LET x == d.db[k]
    IN  /\ x # Nothing /\ Age(x) # MaxAge
        /\ Added(d, e, k, x.seq, MaxAge, x.body, x.rollover, nbrs)
        /\ SameEcho(d, e)

Number(x) == IF x = Nothing THEN InitLSSeq ELSE x.seq + 1

Made(d, e, k, body) ==
    /\ d.db[k] # Nothing => d.db[k].seq # MaxLSSeq
    /\ Added(d, e, k, Number(d.db[k]), 0, body, RolledOver(d.db[k]), nbrs)
    /\ e.echoed = d.echoed \ {k}

\* There is nothing to say, or it is said already.
UpToDate(d, k, body, forced) ==
    LET x == d.db[k]
    IN  \/ body = Nothing /\ (x = Nothing \/ Age(x) = MaxAge)
        \/ ~forced /\ x # Nothing /\ x.body = body /\ Age(x) # MaxAge

Outcome(d, e, k, body, forced) ==
    \/ ~forced /\ PutOff(d, e, k)
    \/ Rolled(d, e, k)
    \/ body = Nothing /\ Flushed(d, e, k)
    \/ body # Nothing /\ Made(d, e, k, body)
    \/ e = d /\ UpToDate(d, k, body, forced)

\* The marks that reorig makes.
Deferred(d, k) == [d EXCEPT !.db[k].deferring = TRUE]
LastNumber(d, k) == [d EXCEPT !.db[k].rollover = TRUE, !.echoed = @ \ {k}]
NotEchoed(d, k) == [d EXCEPT !.echoed = @ \ {k}]

\* The origination that is put off.
LEMMA PutOffIs ==
    ASSUME NEW d \in Databases, NEW k \in Lsa, d.db[k] # Nothing,
           d.db[k].rcv # MaxAge, Age(d.db[k]) < MinLSInterval,
           NEW e, e = Deferred(d, k)
    PROVE  PutOff(d, e, k)
<1>. DEFINE x == d.db[k]
            y == [x EXCEPT !.deferring = TRUE]
<1>1. x \in Instances
  BY LsaIs
<1>2. e = Put(d, k, y, d.maxage, d.echoed, d.pending)
  <2>1. e = [d EXCEPT !.db = [d.db EXCEPT ![k] = y]]
    BY DEF Deferred
  <2>. DEFINE db == [d.db EXCEPT ![k] = y]
  <2>. HIDE DEF db
  <2>. QED
    BY <2>1, LsaIs DEF Put, db
<1>3. y \in Instances
  <2>. HIDE DEF x
  <2>. QED
    BY <1>1, InstanceIs
<1>4. /\ d.maxage \in SUBSET Lsa /\ d.echoed \in SUBSET Own
      /\ Alike(d.maxage, d.maxage, k) /\ Alike(d.echoed, d.echoed, k)
  BY LsaIs DEF Alike
<1>. HIDE DEF y
<1>5. y \in Instances \cup {Nothing}
  BY <1>3
<1>6. /\ Only(d, e, k) /\ e.db[k] = y /\ e.maxage = d.maxage /\ e.echoed = d.echoed
      /\ At(e, k) = At(d, k)
  <2>1. Results(d, e, k, y, d.maxage, d.echoed, d.pending)
    BY <1>2, <1>4, <1>5, OnlyIs
  <2>. QED
    BY <2>1 DEF Results
<1>. QED
  BY <1>6 DEF PutOff, SameEcho, y

\* After the last sequence number.
LEMMA RolledIs ==
    ASSUME NEW d \in Databases, NEW k \in Lsa, d.db[k] # Nothing, d.db[k].seq = MaxLSSeq,
           nbrs \subseteq Nbr, NEW e,
           e = age_prematurely(LastNumber(d, k), k)
    PROVE  Rolled(d, e, k)
<1>. DEFINE x == d.db[k]
            y == [x EXCEPT !.rollover = TRUE]
            ec == d.echoed \ {k}
            m == LastNumber(d, k)
<1>1. x \in Instances
  BY LsaIs
<1>2. m = Put(d, k, y, d.maxage, ec, d.pending)
  <2>1. m = [d EXCEPT !.db = [d.db EXCEPT ![k] = y], !.echoed = ec]
    BY DEF LastNumber
  <2>. DEFINE db == [d.db EXCEPT ![k] = y]
  <2>. HIDE DEF db, ec, m
  <2>. QED
    BY <2>1, LsaIs DEF Put, db
<1>3. y \in Instances /\ y # Nothing /\ y.body = x.body
  <2>. HIDE DEF x
  <2>. QED
    BY <1>1, InstanceIs
<1>4. y.seq = x.seq /\ y.rollover = TRUE
  BY <1>1 DEF Instances
<1>5. /\ d.maxage \in SUBSET Lsa /\ ec \in SUBSET Own
      /\ Alike(d.maxage, d.maxage, k) /\ Alike(ec, d.echoed, k)
  BY LsaIs DEF Alike
<1>. HIDE DEF y, ec, m
<1>6. y \in Instances \cup {Nothing}
  BY <1>3
<1>7. Only(d, m, k) /\ m.db[k] = y /\ m.echoed = ec
  <2>1. Results(d, m, k, y, d.maxage, ec, d.pending)
    BY <1>2, <1>5, <1>6, OnlyIs
  <2>. QED
    BY <2>1 DEF Results
<1>8. m \in Databases
  BY <1>7 DEF Only
<1>9. m.db[k] # Nothing /\ e = age_prematurely(m, k)
  BY <1>3, <1>7 DEF m
<1>10. /\ Added(m, e, k, m.db[k].seq, MaxAge, m.db[k].body, m.db[k].rollover, nbrs)
       /\ SameEcho(m, e)
  BY <1>8, <1>9, AgedIs
<1>11. Added(m, e, k, MaxLSSeq, MaxAge, d.db[k].body, TRUE, nbrs)
  BY <1>3, <1>4, <1>7, <1>10
<1>12. Added(d, e, k, MaxLSSeq, MaxAge, d.db[k].body, TRUE, nbrs)
  BY <1>7, <1>11, AddedAfter
<1>. QED
  BY <1>7, <1>10, <1>12 DEF Rolled, SameEcho, ec

\* With the next number, or the first one.
LEMMA MadeIs ==
    ASSUME NEW d \in Databases, NEW k \in Lsa, d.db[k] # Nothing => d.db[k].seq # MaxLSSeq,
           NEW body \in Bodies, nbrs \subseteq Nbr, NEW e,
           e = flood(AddLSA(NotEchoed(d, k), k, Number(d.db[k]), 0, body), k, {})
    PROVE  Made(d, e, k, body)
<1>. DEFINE x == d.db[k]
            n == Number(x)
            ec == d.echoed \ {k}
            m == NotEchoed(d, k)
            none == {}
<1>1. x \in Instances \cup {Nothing} /\ d.db \in [Lsa -> Instances \cup {Nothing}]
  BY LsaIs
<1>2. m = Put(d, k, x, d.maxage, ec, d.pending)
  <2>1. m = [d EXCEPT !.echoed = ec]
    BY DEF NotEchoed
  <2>2. [d.db EXCEPT ![k] = x] = d.db
    BY <1>1
  <2>. HIDE DEF ec, m, x
  <2>. QED
    BY <2>1, <2>2, LsaIs DEF Put
<1>3. n \in Seqs
  <2>1. x # Nothing => x.seq \in Seqs /\ x.seq # MaxLSSeq
    BY <1>1 DEF Instances
  <2>. HIDE DEF x
  <2>. QED
    BY <2>1, SeqsAre DEF Number
<1>4. /\ d.maxage \in SUBSET Lsa /\ ec \in SUBSET Own
      /\ Alike(d.maxage, d.maxage, k) /\ Alike(ec, d.echoed, k)
  BY LsaIs DEF Alike
<1>5. nbrs \ none = nbrs /\ 0 \in 0..MaxAge
  BY LifeAssumption
<1>. HIDE DEF ec, m, none
<1>6. Only(d, m, k) /\ m.db[k] = x /\ m.echoed = ec
  <2>1. Results(d, m, k, x, d.maxage, ec, d.pending)
    BY <1>1, <1>2, <1>4, OnlyIs
  <2>. QED
    BY <2>1 DEF Results
<1>7. m \in Databases
  BY <1>6 DEF Only
<1>8. e = flood(AddLSA(m, k, n, 0, body), k, none)
  BY DEF m, none
<1>. HIDE DEF n
<1>9. /\ Added(m, e, k, n, 0, body, RolledOver(m.db[k]), nbrs \ none)
      /\ SameEcho(m, e)
  <2>. DEFINE z == 0
  <2>1. e = flood(AddLSA(m, k, n, z, body), k, none) /\ z \in 0..MaxAge
    BY <1>5, <1>8
  <2>. HIDE DEF z
  <2>2. /\ Added(m, e, k, n, z, body, RolledOver(m.db[k]), nbrs \ none)
        /\ SameEcho(m, e)
    BY <1>3, <1>7, <2>1, InstallIs
  <2>. QED
    BY <2>2 DEF z
<1>10. Added(m, e, k, n, 0, body, RolledOver(x), nbrs)
  BY <1>5, <1>6, <1>9
<1>11. Added(d, e, k, n, 0, body, RolledOver(x), nbrs)
  BY <1>6, <1>10, AddedAfter
<1>. QED
  BY <1>6, <1>9, <1>11 DEF Made, SameEcho, ec, n, x

\* What lsa_reorig does is one of the outcomes.
LEMMA ReorigIs ==
    ASSUME NEW d \in Databases, NEW k \in Lsa, NEW body \in Bodies \cup {Nothing},
           NEW forced \in BOOLEAN, nbrs \subseteq Nbr, NEW e, e = reorig(d, k, body, forced)
    PROVE  Outcome(d, e, k, body, forced)
<1>. DEFINE x == d.db[k]
<1>1. CASE TooSoon(x, forced)
  <2>1. ~forced /\ x # Nothing /\ x.rcv # MaxAge /\ Age(x) < MinLSInterval
    BY <1>1 DEF TooSoon
  <2>2. e = Deferred(d, k)
    BY <1>1 DEF reorig, Deferred
  <2>3. PutOff(d, e, k)
    BY <2>1, <2>2, PutOffIs
  <2>. QED
    BY <2>1, <2>3 DEF Outcome
<1>2. CASE ~TooSoon(x, forced) /\ x # Nothing /\ x.seq = MaxLSSeq
  <2>1. e = age_prematurely(LastNumber(d, k), k)
    BY <1>2 DEF reorig, LastNumber
  <2>2. Rolled(d, e, k)
    BY <1>2, <2>1, RolledIs
  <2>. QED
    BY <2>2 DEF Outcome
<1>3. CASE ~TooSoon(x, forced) /\ ~(x # Nothing /\ x.seq = MaxLSSeq)
  <2>1. CASE ~forced /\ ~Differs(x, body)
    <3>1. e = d
      BY <1>3, <2>1 DEF reorig
    <3>2. x # Nothing /\ x.body = body /\ Age(x) # MaxAge
      BY <2>1 DEF Differs
    <3>. QED
      BY <2>1, <3>1, <3>2 DEF Outcome, UpToDate
  <2>2. CASE ~(~forced /\ ~Differs(x, body)) /\ body = Nothing
    <3>1. e = lsa_flush(d, k)
      BY <1>3, <2>2 DEF reorig
    <3>2. CASE x = Nothing \/ Age(x) = MaxAge
      <4>1. e = d
        BY <3>1, <3>2, FlushIs
      <4>. QED
        BY <2>2, <3>2, <4>1 DEF Outcome, UpToDate
    <3>3. CASE x # Nothing /\ Age(x) # MaxAge
      <4>1. Added(d, e, k, x.seq, MaxAge, x.body, x.rollover, nbrs) /\ SameEcho(d, e)
        BY <3>1, <3>3, FlushIs
      <4>. QED
        BY <2>2, <3>3, <4>1 DEF Outcome, Flushed
    <3>. QED
      BY <3>2, <3>3
  <2>3. CASE ~(~forced /\ ~Differs(x, body)) /\ body # Nothing
    <3>1. e = flood(AddLSA(NotEchoed(d, k), k, Number(x), 0, body), k, {})
      BY <1>3, <2>3 DEF reorig, Number, NotEchoed
    <3>2. Made(d, e, k, body)
      BY <1>3, <2>3, <3>1, MadeIs
    <3>. QED
      BY <2>3, <3>2 DEF Outcome
  <2>. QED
    BY <2>1, <2>2, <2>3
<1>. QED
  BY <1>1, <1>2, <1>3

\* rl_orig and nl_orig.
LEMMA OrigIs ==
    ASSUME NEW d \in Databases, NEW k \in Own, NEW w \in [Own -> Bodies \cup {Nothing}],
           NEW forced \in BOOLEAN, nbrs \subseteq Nbr, NEW e, e = orig(d, k, w, forced)
    PROVE  Outcome(d, e, k, w[k], forced)
<1>. DEFINE x == d.db[k]
<1>1. k \in Lsa /\ w[k] \in Bodies \cup {Nothing}
  BY DEF Lsa
<1>2. CASE k \in Net /\ w[k] = Nothing
  <2>1. e = lsa_flush(d, k)
    BY <1>2 DEF orig
  <2>2. CASE x = Nothing \/ Age(x) = MaxAge
    <3>1. e = d
      BY <1>1, <2>1, <2>2, FlushIs
    <3>. QED
      BY <1>2, <2>2, <3>1 DEF Outcome, UpToDate
  <2>3. CASE x # Nothing /\ Age(x) # MaxAge
    <3>1. Added(d, e, k, x.seq, MaxAge, x.body, x.rollover, nbrs) /\ SameEcho(d, e)
      BY <1>1, <2>1, <2>3, FlushIs
    <3>. QED
      BY <1>2, <2>3, <3>1 DEF Outcome, Flushed
  <2>. QED
    BY <2>2, <2>3
<1>3. CASE ~(k \in Net /\ w[k] = Nothing)
  <2>1. e = reorig(d, k, w[k], forced)
    BY <1>3 DEF orig
  <2>. QED
    BY <1>1, <2>1, ReorigIs
<1>. QED
  BY <1>2, <1>3

-----------------------------------------------------------------------------
(* The same about k alone, whatever becomes of the others. *)

Anew(e, k, seq, rcv, body, ro, rxmt) ==
    /\ At(e, k) = {}
    /\ k \in e.maxage <=> rcv = MaxAge
    /\ e.db[k] # Nothing /\ e.db[k] \in Instances
    /\ e.db[k].seq = seq /\ e.db[k].rcv = rcv /\ e.db[k].since = 0 /\ e.db[k].body = body
    /\ e.db[k].deferring = FALSE /\ e.db[k].rollover = ro /\ e.db[k].rxmt = rxmt

KeyPutOff(d, e, k) ==
    LET x == d.db[k]
    IN  /\ x # Nothing /\ x.rcv # MaxAge /\ Age(x) < MinLSInterval
        /\ At(e, k) = At(d, k)
        /\ k \in e.maxage <=> k \in d.maxage
        /\ k \in e.echoed <=> k \in d.echoed
        /\ e.db[k] = [x EXCEPT !.deferring = TRUE]

KeyRolled(d, e, k) ==
    LET x == d.db[k]
    IN  /\ x # Nothing /\ x.seq = MaxLSSeq
        /\ Anew(e, k, MaxLSSeq, MaxAge, x.body, TRUE, nbrs)

KeyFlushed(d, e, k) ==
    LET x == d.db[k]
    IN  /\ x # Nothing /\ Age(x) # MaxAge
        /\ Anew(e, k, x.seq, MaxAge, x.body, x.rollover, nbrs)
        /\ k \in e.echoed <=> k \in d.echoed

KeyMade(d, e, k, body) ==
    LET x == d.db[k]
    IN  /\ x # Nothing => x.seq # MaxLSSeq
        /\ Anew(e, k, Number(x), 0, body, RolledOver(x), nbrs)

KeyOutcome(d, e, k, body, forced) ==
    \/ ~forced /\ KeyPutOff(d, e, k)
    \/ KeyRolled(d, e, k)
    \/ body = Nothing /\ KeyFlushed(d, e, k)
    \/ body # Nothing /\ KeyMade(d, e, k, body)
    \/ SameKey(d, e, k) /\ UpToDate(d, k, body, forced)

\* Of an outcome, what concerns k.
LEMMA OutcomeOfKey ==
    ASSUME NEW d \in Databases, NEW e, NEW k, NEW body, NEW forced,
           Outcome(d, e, k, body, forced)
    PROVE  Only(d, e, k) /\ KeyOutcome(d, e, k, body, forced)
<1>1. CASE ~forced /\ PutOff(d, e, k)
  BY <1>1 DEF PutOff, KeyPutOff, KeyOutcome, SameEcho
<1>2. CASE Rolled(d, e, k)
  BY <1>2 DEF Rolled, KeyRolled, KeyOutcome, Added, Anew
<1>3. CASE body = Nothing /\ Flushed(d, e, k)
  BY <1>3 DEF Flushed, KeyFlushed, KeyOutcome, Added, Anew, SameEcho
<1>4. CASE body # Nothing /\ Made(d, e, k, body)
  BY <1>4 DEF Made, KeyMade, KeyOutcome, Added, Anew
<1>5. CASE e = d /\ UpToDate(d, k, body, forced)
  BY <1>5, OnlyItself DEF KeyOutcome, SameKey
<1>. QED
  BY <1>1, <1>2, <1>3, <1>4, <1>5 DEF Outcome

\* It depends on k only.
LEMMA KeyMoves ==
    ASSUME NEW d, NEW e, NEW c, NEW f, NEW k, NEW body, NEW forced,
           SameKey(c, d, k), SameKey(e, f, k), KeyOutcome(d, e, k, body, forced)
    PROVE  KeyOutcome(c, f, k, body, forced)
<1>. USE DEF SameKey
<1>1. CASE ~forced /\ KeyPutOff(d, e, k)
  BY <1>1 DEF KeyPutOff, KeyOutcome
<1>2. CASE KeyRolled(d, e, k)
  BY <1>2 DEF KeyRolled, KeyOutcome, Anew
<1>3. CASE body = Nothing /\ KeyFlushed(d, e, k)
  BY <1>3 DEF KeyFlushed, KeyOutcome, Anew
<1>4. CASE body # Nothing /\ KeyMade(d, e, k, body)
  BY <1>4 DEF KeyMade, KeyOutcome, Anew
<1>5. CASE SameKey(d, e, k) /\ UpToDate(d, k, body, forced)
  BY <1>5 DEF KeyOutcome, UpToDate
<1>. QED
  BY <1>1, <1>2, <1>3, <1>4, <1>5 DEF KeyOutcome

-----------------------------------------------------------------------------
(* What is true of one LSA.  The limits are different within DBageTimer::action. *)

\* Lists hold what is in the database, and the mark of the last sequence number is
\* only on instances that are flushed.
Sane(d, k, oldest) ==
    LET x == d.db[k]
    IN  /\ k \in d.maxage => x # Nothing /\ x.rcv = MaxAge
        /\ At(d, k) # {} => x # Nothing
        /\ x # Nothing => /\ x.rollover => k \in Own /\ x.seq = MaxLSSeq /\ x.rcv = MaxAge
                          /\ x.rcv # MaxAge => Age(x) <= oldest

\* Current, as long as the origination may be put off.
Said(d, w, k, soonest) ==
    LET x == d.db[k]
    IN  \/ x = Nothing /\ w[k] = Nothing
        \/ /\ x # Nothing
           /\ \/ x.body = w[k] /\ Age(x) # MaxAge
              \/ x.deferring /\ x.rcv # MaxAge /\ Age(x) <= soonest
              \/ Age(x) = MaxAge /\ (w[k] = Nothing \/ x.rollover)

\* An LSA that has reached the age since is in pending_refresh, and its place is within
\* what the seconds left before it is too old will serve.
Booked(d, k, since, left) ==
    LET x == d.db[k]
        n == LSRefreshTime + left - Age(x)
    IN  x # Nothing /\ x.rcv # MaxAge /\ Age(x) >= since =>
          n \in 0..MaxAgeDiff /\ \E p \in At(d, k) : p <= Total(d.bins, Coming(d.bin0, n))

\* What Tick has made so far of the instance x of k that it began with: it is still
\* that one, and if it is on MaxAge_list either nobody has acknowledged it since or it
\* was acknowledged as it is; or it is a newer one, which the rest of Tick leaves alone.
Lasting(x, e, k) ==
    LET y == e.db[k]
    IN  /\ y.seq = x.seq /\ (x.rcv = MaxAge => y.rcv = MaxAge)
        /\ k \in e.maxage => y.rxmt = nbrs \/ (x.rcv = MaxAge /\ y.rxmt = x.rxmt)

Renewed(x, e, k) ==
    LET y == e.db[k]
    IN  /\ y.seq > x.seq /\ y.rcv = 0 /\ y.since = 0
        /\ k \notin e.maxage /\ At(e, k) = {}

Line(d, e, k) ==
    d.db[k] # Nothing =>
        e.db[k] # Nothing /\ (Lasting(d.db[k], e, k) \/ Renewed(d.db[k], e, k))

\* What an origination makes true of k.
LEMMA OutcomeIsSane ==
    ASSUME NEW d \in Databases, NEW e, NEW k \in Own, NEW body, NEW forced,
           KeyOutcome(d, e, k, body, forced), NEW oldest \in Nat, Sane(d, k, oldest)
    PROVE  Sane(e, k, oldest)
<1>. DEFINE x == d.db[k]
<1>0. x \in Instances \cup {Nothing}
  BY LsaIs DEF Lsa
<1>1. CASE ~forced /\ KeyPutOff(d, e, k)
  <2>1. x \in Instances
    BY <1>0, <1>1 DEF KeyPutOff
  <2>2. e.db[k] = [x EXCEPT !.deferring = TRUE]
    BY <1>1 DEF KeyPutOff
  <2>3. e.db[k].seq = x.seq /\ e.db[k].rcv = x.rcv /\ e.db[k].rollover = x.rollover
    BY <2>1, <2>2 DEF Instances
  <2>4. e.db[k] # Nothing /\ Age(e.db[k]) = Age(x)
    <3>. HIDE DEF x
    <3>. QED
      BY <2>1, <2>2, InstanceIs
  <2>. QED
    BY <1>1, <2>3, <2>4 DEF KeyPutOff, Sane
<1>2. CASE KeyRolled(d, e, k)
  BY <1>2 DEF KeyRolled, Anew, Sane
<1>3. CASE KeyFlushed(d, e, k)
  BY <1>3 DEF KeyFlushed, Anew, Sane
<1>4. CASE KeyMade(d, e, k, body)
  <2>1. RolledOver(x) = FALSE
    BY <1>4 DEF KeyMade, Sane, RolledOver
  <2>2. e.db[k].rcv = 0 /\ e.db[k].since = 0 /\ e.db[k] \in Instances /\ e.db[k] # Nothing
    BY <1>4 DEF KeyMade, Anew
  <2>3. Age(e.db[k]) = 0
    BY <2>2, LifeAssumption DEF Age
  <2>4. e.db[k].rollover = FALSE /\ At(e, k) = {} /\ k \notin e.maxage
    BY <1>4, <2>1, LifeAssumption DEF KeyMade, Anew
  <2>5. Age(e.db[k]) <= oldest
    BY <2>3
  <2>. QED
    BY <2>2, <2>4, <2>5 DEF Sane
<1>5. CASE SameKey(d, e, k)
  BY <1>5 DEF SameKey, Sane
<1>. QED
  BY <1>1, <1>2, <1>3, <1>4, <1>5 DEF KeyOutcome

\* After an origination k says what it is to say, or is about to, or on its way out.
LEMMA OutcomeIsSaid ==
    ASSUME NEW d \in Databases, NEW e, NEW k \in Own, NEW w \in [Own -> Bodies \cup {Nothing}],
           NEW forced \in BOOLEAN,
           KeyOutcome(d, e, k, w[k], forced), NEW soonest \in Nat, MinLSInterval <= soonest + 1
    PROVE  Said(e, w, k, soonest)
<1>. DEFINE x == d.db[k]
            y == e.db[k]
<1>0. x \in Instances \cup {Nothing} /\ MinLSInterval \in Nat
  BY LsaIs, LifeAssumption DEF Lsa
<1>1. CASE ~forced /\ KeyPutOff(d, e, k)
  <2>1. x \in Instances /\ Age(x) < MinLSInterval /\ x.rcv # MaxAge
    BY <1>0, <1>1 DEF KeyPutOff
  <2>2. y = [x EXCEPT !.deferring = TRUE]
    BY <1>1 DEF KeyPutOff
  <2>3. y.rcv = x.rcv /\ y.deferring = TRUE
    BY <2>1, <2>2 DEF Instances
  <2>4. y # Nothing /\ Age(y) = Age(x)
    <3>. HIDE DEF x, y
    <3>. QED
      BY <2>1, <2>2, InstanceIs
  <2>5. Age(x) <= soonest
    <3>1. Age(x) \in Nat
      BY <2>1, AgeIs
    <3>. QED
      BY <1>0, <2>1, <3>1
  <2>. QED
    BY <2>1, <2>3, <2>4, <2>5 DEF Said
<1>2. CASE KeyRolled(d, e, k)
  <2>1. y # Nothing /\ y \in Instances /\ y.rcv = MaxAge /\ y.rollover = TRUE
    BY <1>2 DEF KeyRolled, Anew
  <2>. QED
    BY <2>1, AgeIs DEF Said
<1>3. CASE w[k] = Nothing /\ KeyFlushed(d, e, k)
  <2>1. y # Nothing /\ y \in Instances /\ y.rcv = MaxAge
    BY <1>3 DEF KeyFlushed, Anew
  <2>. QED
    BY <1>3, <2>1, AgeIs DEF Said
<1>4. CASE KeyMade(d, e, k, w[k])
  <2>1. y # Nothing /\ y.rcv = 0 /\ y.since = 0 /\ y.body = w[k]
    BY <1>4 DEF KeyMade, Anew
  <2>2. Age(y) = 0 /\ MaxAge # 0
    BY <2>1, LifeAssumption DEF Age
  <2>. QED
    BY <2>1, <2>2 DEF Said
<1>5. CASE SameKey(d, e, k) /\ UpToDate(d, k, w[k], forced)
  BY <1>5 DEF SameKey, UpToDate, Said
<1>. QED
  BY <1>1, <1>2, <1>3, <1>4, <1>5 DEF KeyOutcome

\* Nothing is late that has just been originated or flushed.
LEMMA AnewIsBooked ==
    ASSUME NEW e, NEW k, NEW seq, NEW rcv, NEW body, NEW ro, NEW rxmt,
           Anew(e, k, seq, rcv, body, ro, rxmt), rcv = 0 \/ rcv = MaxAge,
           NEW since \in Nat \ {0}, NEW left
    PROVE  Booked(e, k, since, left)
<1>1. CASE rcv = MaxAge
  BY <1>1 DEF Anew, Booked
<1>2. CASE rcv = 0 /\ rcv # MaxAge
  <2>1. Age(e.db[k]) = 0
    BY <1>2 DEF Anew, Age
  <2>2. ~(Age(e.db[k]) >= since)
    BY <2>1
  <2>. QED
    BY <2>2 DEF Booked
<1>. QED
  BY <1>1, <1>2

-----------------------------------------------------------------------------
(* Loops over LSAs.  What the loop does with one concerns that one only, so it finds
   each LSA as it was before the loop, in whatever order it takes them. *)

Done(d, f, U, step) ==
    /\ f \in Databases /\ SameSchedule(d, f)
    /\ \A k \in Lsa \ U : SameKey(d, f, k)
    /\ \A k \in U : \E e \in Databases : SameKey(d, e, k) /\ SameKey(step[<<k, e>>], f, k)

\* A loop whose step changes one LSA only does to each what the step does to it as it
\* was.
LEMMA Each ==
    ASSUME NEW S \in SUBSET Lsa, NEW d \in Databases, NEW step \in [S \X Databases -> Databases],
           \A k \in S : \A e \in Databases : Only(e, step[<<k, e>>], k),
           NEW pick, \A U \in SUBSET S : U # {} => pick[U] \in U
    PROVE  \E g \in [SUBSET S -> Databases] :
              /\ Iterates(g, S, d, pick, step)
              /\ \A U \in SUBSET S : Done(d, g[U], U, step)
<1>1. IsFiniteSet(S)
  BY LifeAssumption, FS_Subset
<1>2. PICK g \in [SUBSET S -> Databases] : Iterates(g, S, d, pick, step)
  BY <1>1, IterExists
<1>. DEFINE Bad == {U \in SUBSET S : ~Done(d, g[U], U, step)}
<1>3. Bad = {}
  <2>. SUFFICES ASSUME Bad # {} PROVE FALSE
    OBVIOUS
  <2>1. PICK T \in Bad : \A Z \in Bad : Z \subseteq T => Z = T
    <3>1. Bad \in SUBSET (SUBSET S)
      OBVIOUS
    <3>. HIDE DEF Bad
    <3>. QED
      BY <1>1, <3>1, MinimalSubset
  <2>2. CASE T = {}
    <3>1. g[T] = d
      BY <1>2, <2>2 DEF Iterates
    <3>2. SameSchedule(d, d) /\ \A k : SameKey(d, d, k)
      BY DEF SameSchedule, SameKey
    <3>3. Done(d, g[T], T, step)
      BY <2>2, <3>1, <3>2 DEF Done
    <3>. QED
      BY <3>3
  <2>3. CASE T # {}
    <3>. DEFINE c == pick[T]
                R == T \ {c}
                e == g[R]
                f == g[T]
    <3>1. c \in T /\ R \in SUBSET S /\ R \subseteq T /\ R # T /\ c \in Lsa /\ c \in S
      BY <2>3
    <3>2. Done(d, e, R, step)
      BY <2>1, <3>1
    <3>3. f = step[<<c, e>>] /\ e \in Databases
      <4>1. f = step[<<c, e>>]
        BY <1>2, <2>3 DEF Iterates
      <4>. QED
        BY <3>1, <4>1
    <3>4. T = R \cup {c} /\ c \notin R
      BY <3>1
    <3>5. Only(e, f, c)
      BY <3>1, <3>3
    <3>. HIDE DEF c, R, e, f
    <3>6. f \in Databases /\ SameSchedule(d, f)
      BY <3>2, <3>5 DEF Only, Done, SameSchedule
    <3>7. \A k \in Lsa \ T : SameKey(d, f, k)
      <4>. TAKE k \in Lsa \ T
      <4>1. k \in Lsa \ R /\ k \in Lsa \ {c}
        BY <3>4
      <4>2. SameKey(d, e, k) /\ SameKey(e, f, k)
        BY <3>2, <3>5, <4>1 DEF Only, Done
      <4>. QED
        BY <4>2 DEF SameKey
    <3>8. \A k \in R : SameKey(e, f, k)
      BY <3>1, <3>4, <3>5 DEF Only
    <3>9. \A k \in R : \E b \in Databases : SameKey(d, b, k) /\ SameKey(step[<<k, b>>], f, k)
      <4>. TAKE k \in R
      <4>1. PICK b \in Databases : SameKey(d, b, k) /\ SameKey(step[<<k, b>>], e, k)
        BY <3>2 DEF Done
      <4>2. SameKey(step[<<k, b>>], f, k)
        BY <3>8, <4>1 DEF SameKey
      <4>. QED
        BY <4>1, <4>2
    <3>10. SameKey(d, e, c)
      BY <3>1, <3>2, <3>4 DEF Done
    <3>11. SameKey(step[<<c, e>>], f, c)
      BY <3>3 DEF SameKey
    <3>12. \A k \in T : \E b \in Databases : SameKey(d, b, k) /\ SameKey(step[<<k, b>>], f, k)
      <4>. DEFINE Comes(k, b) == SameKey(d, b, k) /\ SameKey(step[<<k, b>>], f, k)
      <4>1. e \in Databases /\ Comes(c, e)
        BY <3>3, <3>10, <3>11
      <4>2. \A k \in R : \E b \in Databases : Comes(k, b)
        BY <3>9
      <4>. HIDE DEF Comes
      <4>3. \A k \in T : \E b \in Databases : Comes(k, b)
        BY <3>4, <4>1, <4>2
      <4>. QED
        BY <4>3 DEF Comes
    <3>13. Done(d, f, T, step)
      BY <3>6, <3>7, <3>12 DEF Done
    <3>. QED
      BY <3>13 DEF f
  <2>. QED
    BY <2>2, <2>3
<1>4. \A U \in SUBSET S : Done(d, g[U], U, step)
  BY <1>3
<1>. QED
  BY <1>2, <1>4

\* deferred_lsas as a loop in which an LSA that is there is originated again.
Again(k, e) == IF e.db[k] # Nothing THEN Reoriginate(k, e) ELSE e

\* What deferred_lsas does with k is an origination of k without its mark.
LEMMA AgainIs ==
    ASSUME NEW k \in Own, NEW e \in Databases, e.db[k] # Nothing,
           want \in [Own -> Bodies \cup {Nothing}], nbrs \subseteq Nbr,
           NEW f, f = Reoriginate(k, e)
    PROVE  /\ Only(e, f, k)
           /\ \E m \in Databases :
                 /\ m.db[k] = [e.db[k] EXCEPT !.deferring = FALSE]
                 /\ At(m, k) = At(e, k)
                 /\ m.maxage = e.maxage /\ m.echoed = e.echoed
                 /\ KeyOutcome(m, f, k, want[k], FALSE)
<1>. DEFINE x == e.db[k]
            y == [x EXCEPT !.deferring = FALSE]
            m == [e EXCEPT !.db[k].deferring = FALSE]
<1>1. x \in Instances /\ k \in Lsa
  BY LsaIs DEF Lsa
<1>2. m = Put(e, k, y, e.maxage, e.echoed, e.pending)
  <2>1. m = [e EXCEPT !.db = [e.db EXCEPT ![k] = y]]
    OBVIOUS
  <2>. DEFINE db == [e.db EXCEPT ![k] = y]
  <2>. HIDE DEF db, m
  <2>. QED
    BY <1>1, <2>1, LsaIs DEF Put, db
<1>3. y \in Instances
  <2>. HIDE DEF x
  <2>. QED
    BY <1>1, InstanceIs
<1>4. /\ e.maxage \in SUBSET Lsa /\ e.echoed \in SUBSET Own
      /\ Alike(e.maxage, e.maxage, k) /\ Alike(e.echoed, e.echoed, k)
  BY <1>1, LsaIs DEF Alike
<1>5. f = orig(m, k, want, FALSE)
  BY DEF Reoriginate
<1>. HIDE DEF y, m
<1>6. y \in Instances \cup {Nothing}
  BY <1>3
<1>7. Results(e, m, k, y, e.maxage, e.echoed, e.pending)
  BY <1>1, <1>2, <1>4, <1>6, OnlyIs
<1>8. /\ Only(e, m, k) /\ m.db[k] = y /\ m.maxage = e.maxage /\ m.echoed = e.echoed
      /\ At(m, k) = At(e, k)
  BY <1>7 DEF Results
<1>9. m \in Databases
  BY <1>8 DEF Only
<1>10. Outcome(m, f, k, want[k], FALSE)
  BY <1>5, <1>9, OrigIs
<1>11. Only(m, f, k) /\ KeyOutcome(m, f, k, want[k], FALSE)
  BY <1>9, <1>10, OutcomeOfKey
<1>12. Only(e, f, k)
  BY <1>8, <1>11, OnlyTrans
<1>. QED
  BY <1>8, <1>9, <1>11, <1>12 DEF y, x

\* deferred_lsas is such a loop.
LEMMA DeferredLoop ==
    ASSUME NEW d \in Databases, want \in [Own -> Bodies \cup {Nothing}], nbrs \subseteq Nbr,
           NEW S, S = {k \in Aging(d, MinLSInterval) \cap Own : d.db[k].deferring}
    PROVE  \E step \in [S \X Databases -> Databases] :
              /\ \A k \in S : \A e \in Databases : step[<<k, e>>] = Again(k, e)
              /\ Done(d, deferred_lsas(d), S, step)
<1>. DEFINE any(U) == CHOOSE x \in U : TRUE
            pick == [U \in SUBSET S |-> any(U)]
            step == [p \in S \X Databases |-> Again(p[1], p[2])]
            Loop(h) == h = [U \in SUBSET S |-> IF U = {} THEN d
                                               ELSE Reoriginate(any(U), h[U \ {any(U)}])]
<1>1. S \in SUBSET Lsa /\ S \subseteq Own /\ \A k \in S : d.db[k] # Nothing
  BY DEF Aging, Present
<1>2. deferred_lsas(d) = (CHOOSE h : Loop(h))[S]
  BY DEF deferred_lsas, FoldSet, MapThenFoldSet
<1>3. \A U \in SUBSET S : U # {} => any(U) \in U
  OBVIOUS
<1>. HIDE DEF any
<1>4. \A U \in SUBSET S : U # {} => pick[U] \in U
  BY <1>3
<1>5. ASSUME NEW k \in S, NEW e \in Databases
      PROVE  Again(k, e) \in Databases /\ Only(e, Again(k, e), k)
  <2>0. k \in Own /\ k \in Lsa
    BY <1>1
  <2>1. CASE e.db[k] = Nothing
    <3>1. Again(k, e) = e
      BY <2>1 DEF Again
    <3>. QED
      BY <3>1, OnlyItself
  <2>2. CASE e.db[k] # Nothing
    <3>1. Again(k, e) = Reoriginate(k, e)
      BY <2>2 DEF Again
    <3>2. Only(e, Again(k, e), k)
      BY <2>0, <2>2, <3>1, AgainIs
    <3>. QED
      BY <3>2 DEF Only
  <2>. QED
    BY <2>1, <2>2
<1>6. step \in [S \X Databases -> Databases]
  BY <1>5
<1>7. \A k \in S : \A e \in Databases : step[<<k, e>>] = Again(k, e)
  OBVIOUS
<1>8. \A k \in S : \A e \in Databases : Only(e, step[<<k, e>>], k)
  BY <1>5, <1>7
<1>9. PICK g \in [SUBSET S -> Databases] : /\ Iterates(g, S, d, pick, step)
                                           /\ \A U \in SUBSET S : Done(d, g[U], U, step)
  <2>. HIDE DEF pick, step
  <2>. QED
    BY <1>1, <1>4, <1>6, <1>8, Each
<1>10. \A U \in SUBSET S :
          g[U] = IF U = {} THEN d ELSE Reoriginate(any(U), g[U \ {any(U)}])
  <2>. TAKE U \in SUBSET S
  <2>1. CASE U = {}
    BY <1>9, <2>1 DEF Iterates
  <2>2. CASE U # {}
    <3>. DEFINE c == any(U)
                R == U \ {c}
    <3>1. c \in U /\ c \in S /\ c \in Lsa /\ c \notin R /\ R \in SUBSET S
      BY <1>1, <1>3, <2>2
    <3>2. pick[U] = c
      OBVIOUS
    <3>. HIDE DEF pick, step, c
    <3>3. g[U] = step[<<c, g[R]>>]
      BY <1>9, <2>2, <3>2 DEF Iterates
    <3>. HIDE DEF R
    <3>4. g[R] \in Databases /\ Done(d, g[R], R, step)
      BY <1>9, <3>1
    <3>5. g[R].db[c] # Nothing
      BY <1>1, <3>1, <3>4 DEF Done, SameKey
    <3>6. step[<<c, g[R]>>] = Reoriginate(c, g[R])
      BY <1>7, <3>1, <3>4, <3>5 DEF Again
    <3>. QED
      BY <2>2, <3>3, <3>6 DEF R, c
  <2>. QED
    BY <2>1, <2>2
<1>11. Loop(g)
  BY <1>10
<1>. DEFINE h == CHOOSE f : Loop(f)
<1>12. Loop(h)
  <2>. HIDE DEF Loop
  <2>. QED
    BY <1>11
<1>. HIDE DEF h
<1>. DEFINE Bad == {U \in SUBSET S : h[U] # g[U]}
<1>13. Bad = {}
  <2>. SUFFICES ASSUME Bad # {} PROVE FALSE
    OBVIOUS
  <2>1. PICK T \in Bad : \A Z \in Bad : Z \subseteq T => Z = T
    <3>1. Bad \in SUBSET (SUBSET S) /\ IsFiniteSet(S)
      BY <1>1, LifeAssumption, FS_Subset
    <3>. HIDE DEF Bad
    <3>. QED
      BY <3>1, MinimalSubset
  <2>2. h[T] = IF T = {} THEN d ELSE Reoriginate(any(T), h[T \ {any(T)}])
    BY <1>12
  <2>3. g[T] = IF T = {} THEN d ELSE Reoriginate(any(T), g[T \ {any(T)}])
    BY <1>10
  <2>4. T # {} => h[T \ {any(T)}] = g[T \ {any(T)}]
    <3>1. T # {} => any(T) \in T
      BY <1>3
    <3>. QED
      BY <2>1, <3>1
  <2>. QED
    BY <2>2, <2>3, <2>4
<1>14. deferred_lsas(d) = g[S]
  BY <1>2, <1>13 DEF h
<1>15. Done(d, deferred_lsas(d), S, step)
  BY <1>9, <1>14
<1>. QED
  BY <1>6, <1>7, <1>15

\* Two recursions over the same sets that take the same step agree.
Together(g, h, S, pick) ==
    /\ \A U \in SUBSET S : U # {} => pick[U] \in U
    /\ g[{}] = h[{}]
    /\ \A U \in SUBSET S : U # {} /\ g[U \ {pick[U]}] = h[U \ {pick[U]}] => g[U] = h[U]

\* Two functions computed by the same loop are the same.
LEMMA SameLoop ==
    ASSUME NEW S, IsFiniteSet(S), NEW pick, NEW g, NEW h, Together(g, h, S, pick)
    PROVE  \A U \in SUBSET S : g[U] = h[U]
<1>. DEFINE Bad == {U \in SUBSET S : g[U] # h[U]}
<1>. SUFFICES ASSUME Bad # {} PROVE FALSE
  OBVIOUS
<1>1. PICK T \in Bad : \A Z \in Bad : Z \subseteq T => Z = T
  <2>1. Bad \in SUBSET (SUBSET S)
    OBVIOUS
  <2>. HIDE DEF Bad
  <2>. QED
    BY <2>1, MinimalSubset
<1>2. T # {} /\ T \in SUBSET S
  BY DEF Together
<1>3. pick[T] \in T
  BY <1>2 DEF Together
<1>4. g[T \ {pick[T]}] = h[T \ {pick[T]}]
  BY <1>1, <1>3
<1>. QED
  BY <1>2, <1>4 DEF Together

\* maxage_lsas likewise.
AgeAgain(k, e) == IF e.db[k] # Nothing THEN age_prematurely(e, k) ELSE e

\* maxage_lsas is such a loop.
LEMMA MaxageLoop ==
    ASSUME NEW d \in Databases, nbrs \subseteq Nbr,
           NEW S, S = Aging(d, MaxAge)
    PROVE  \E step \in [S \X Databases -> Databases] :
              /\ \A k \in S : \A e \in Databases : step[<<k, e>>] = AgeAgain(k, e)
              /\ Done(d, maxage_lsas(d), S, step)
<1>. DEFINE any(U) == CHOOSE x \in U : TRUE
            pick == [U \in SUBSET S |-> any(U)]
            step == [p \in S \X Databases |-> AgeAgain(p[1], p[2])]
            Loop(h) == h = [U \in SUBSET S |-> IF U = {} THEN d
                                               ELSE age_prematurely(h[U \ {any(U)}], any(U))]
<1>1. S \in SUBSET Lsa /\ IsFiniteSet(S) /\ \A k \in S : d.db[k] # Nothing
  <2>1. S \in SUBSET Lsa /\ \A k \in S : d.db[k] # Nothing
    BY DEF Aging, Present
  <2>. QED
    BY <2>1, LifeAssumption, FS_Subset
<1>2. maxage_lsas(d) = (CHOOSE h : Loop(h))[S]
  BY DEF maxage_lsas, FoldSet, MapThenFoldSet
<1>3. \A U \in SUBSET S : U # {} => any(U) \in U
  OBVIOUS
<1>. HIDE DEF any
<1>4. \A U \in SUBSET S : U # {} => pick[U] \in U
  BY <1>3
<1>5. ASSUME NEW k \in S, NEW e \in Databases
      PROVE  AgeAgain(k, e) \in Databases /\ Only(e, AgeAgain(k, e), k)
  <2>0. k \in Lsa
    BY <1>1
  <2>1. CASE e.db[k] = Nothing
    <3>1. AgeAgain(k, e) = e
      BY <2>1 DEF AgeAgain
    <3>. QED
      BY <3>1, OnlyItself
  <2>2. CASE e.db[k] # Nothing
    <3>1. AgeAgain(k, e) = age_prematurely(e, k)
      BY <2>2 DEF AgeAgain
    <3>2. Added(e, AgeAgain(k, e), k, e.db[k].seq, MaxAge, e.db[k].body, e.db[k].rollover, nbrs)
      BY <2>0, <2>2, <3>1, AgedIs
    <3>. QED
      BY <3>2 DEF Added, Only
  <2>. QED
    BY <2>1, <2>2
<1>6. step \in [S \X Databases -> Databases]
  BY <1>5
<1>7. \A k \in S : \A e \in Databases : step[<<k, e>>] = AgeAgain(k, e)
  OBVIOUS
<1>8. \A k \in S : \A e \in Databases : Only(e, step[<<k, e>>], k)
  BY <1>5, <1>7
<1>9. PICK g \in [SUBSET S -> Databases] : /\ Iterates(g, S, d, pick, step)
                                           /\ \A U \in SUBSET S : Done(d, g[U], U, step)
  <2>. HIDE DEF pick, step
  <2>. QED
    BY <1>1, <1>4, <1>6, <1>8, Each
<1>10. \A U \in SUBSET S :
          g[U] = IF U = {} THEN d ELSE age_prematurely(g[U \ {any(U)}], any(U))
  <2>. TAKE U \in SUBSET S
  <2>1. CASE U = {}
    BY <1>9, <2>1 DEF Iterates
  <2>2. CASE U # {}
    <3>. DEFINE c == any(U)
                R == U \ {c}
    <3>1. c \in U /\ c \in S /\ c \in Lsa /\ c \notin R /\ R \in SUBSET S
      BY <1>1, <1>3, <2>2
    <3>2. pick[U] = c
      OBVIOUS
    <3>. HIDE DEF pick, step, c
    <3>3. g[U] = step[<<c, g[R]>>]
      BY <1>9, <2>2, <3>2 DEF Iterates
    <3>. HIDE DEF R
    <3>4. g[R] \in Databases /\ Done(d, g[R], R, step)
      BY <1>9, <3>1
    <3>5. g[R].db[c] # Nothing
      BY <1>1, <3>1, <3>4 DEF Done, SameKey
    <3>6. step[<<c, g[R]>>] = age_prematurely(g[R], c)
      BY <1>7, <3>1, <3>4, <3>5 DEF AgeAgain
    <3>. QED
      BY <2>2, <3>3, <3>6 DEF R, c
  <2>. QED
    BY <2>1, <2>2
<1>11. Loop(g)
  BY <1>10
<1>. DEFINE h == CHOOSE f : Loop(f)
<1>12. Loop(h)
  <2>. HIDE DEF Loop
  <2>. QED
    BY <1>11
<1>. HIDE DEF h
<1>13. h[S] = g[S]
  <2>1. \A U \in SUBSET S : pick[U] = any(U)
    OBVIOUS
  <2>2. h[{}] = g[{}]
    BY <1>10, <1>12
  <2>3. \A U \in SUBSET S : U # {} /\ h[U \ {pick[U]}] = g[U \ {pick[U]}] => h[U] = g[U]
    <3>. TAKE U \in SUBSET S
    <3>1. h[U] = IF U = {} THEN d ELSE age_prematurely(h[U \ {any(U)}], any(U))
      BY <1>12
    <3>2. g[U] = IF U = {} THEN d ELSE age_prematurely(g[U \ {any(U)}], any(U))
      BY <1>10
    <3>. QED
      BY <2>1, <3>1, <3>2
  <2>. HIDE DEF pick, Loop
  <2>4. Together(h, g, S, pick)
    BY <1>4, <2>2, <2>3 DEF Together
  <2>5. \A U \in SUBSET S : h[U] = g[U]
    BY <1>1, <2>4, SameLoop
  <2>. QED
    BY <2>5
<1>14. Done(d, maxage_lsas(d), S, step)
  BY <1>2, <1>9, <1>13 DEF h
<1>. QED
  BY <1>6, <1>7, <1>14

\* The same for free_maxage_lsas.
FreeAgain(k, e) ==
    IF e.db[k] # Nothing /\ (e.db[k].rollover => k \in Own) THEN Free(k, e) ELSE e

\* What becomes of an LSA that nobody has to acknowledge: it is removed, or starts
\* afresh as m.
Removed(d, e, k) == e.db[k] = Nothing /\ At(e, k) = {} /\ k \notin e.maxage
                    /\ (k \in e.echoed <=> k \in d.echoed)

Afresh(d, m, k) ==
    /\ m.db[k] = [d.db[k] EXCEPT !.rollover = FALSE, !.seq = InvalidLSSeq]
    /\ At(m, k) = At(d, k)
    /\ k \notin m.maxage
    /\ k \in m.echoed <=> k \in d.echoed

\* k leaves the database.
LEMMA RemovedIs ==
    ASSUME NEW k \in Lsa, NEW e \in Databases,
           NEW f, f = Put(e, k, Nothing, e.maxage \ {k}, e.echoed, Orphan(e.pending, k))
    PROVE  Only(e, f, k) /\ Removed(e, f, k)
<1>. DEFINE mx == e.maxage \ {k}
            pend == Orphan(e.pending, k)
            none == {}
<1>1. mx \in SUBSET Lsa /\ e.echoed \in SUBSET Own /\ k \notin mx
  BY LsaIs
<1>2. Alike(mx, e.maxage, k) /\ Alike(e.echoed, e.echoed, k)
  BY DEF Alike
<1>3. Nothing \in Instances \cup {Nothing}
  OBVIOUS
<1>. HIDE DEF mx
<1>4. Results(e, f, k, Nothing, mx, e.echoed, pend)
  BY <1>1, <1>2, <1>3, OnlyIs DEF mx
<1>5. /\ Only(e, f, k) /\ f.db[k] = Nothing /\ f.maxage = mx /\ f.echoed = e.echoed
      /\ At(f, k) = none
  BY <1>4 DEF Results
<1>. QED
  BY <1>1, <1>5 DEF Removed

\* k gets the invalid number, from which it starts again.
LEMMA AfreshIs ==
    ASSUME NEW k \in Lsa, NEW e \in Databases, e.db[k] # Nothing,
           NEW m, m = Put(e, k, [e.db[k] EXCEPT !.rollover = FALSE, !.seq = InvalidLSSeq],
                          e.maxage \ {k}, e.echoed, e.pending)
    PROVE  Only(e, m, k) /\ Afresh(e, m, k) /\ m.db[k] \in Instances
<1>. DEFINE mx == e.maxage \ {k}
            y == [e.db[k] EXCEPT !.rollover = FALSE, !.seq = InvalidLSSeq]
<1>1. mx \in SUBSET Lsa /\ e.echoed \in SUBSET Own /\ k \notin mx
  BY LsaIs
<1>2. Alike(mx, e.maxage, k) /\ Alike(e.echoed, e.echoed, k)
  BY DEF Alike
<1>3. y \in Instances
  <2>1. e.db[k] \in Instances
    BY LsaIs
  <2>. QED
    BY <2>1, InstanceIs, SeqsAre
<1>. HIDE DEF mx, y
<1>4. y \in Instances \cup {Nothing}
  BY <1>3
<1>5. Results(e, m, k, y, mx, e.echoed, e.pending)
  BY <1>1, <1>2, <1>4, OnlyIs DEF mx, y
<1>6. /\ Only(e, m, k) /\ m.db[k] = y /\ m.maxage = mx /\ m.echoed = e.echoed
      /\ At(m, k) = At(e, k)
  BY <1>5 DEF Results
<1>. QED
  BY <1>1, <1>3, <1>6 DEF Afresh, y

Freed(d, f, k) ==
    IF d.db[k].rollover
    THEN \E m \in Databases :
            Afresh(d, m, k) /\ m.db[k] \in Instances /\ KeyOutcome(m, f, k, want[k], TRUE)
    ELSE Removed(d, f, k)

\* What free_maxage_lsas does with k.
LEMMA FreeIs ==
    ASSUME NEW k \in Lsa, NEW e \in Databases, e.db[k] # Nothing, e.db[k].rollover => k \in Own,
           want \in [Own -> Bodies \cup {Nothing}], nbrs \subseteq Nbr,
           NEW f, f = Free(k, e)
    PROVE  Only(e, f, k) /\ Freed(e, f, k)
<1>. DEFINE x == e.db[k]
            y == [x EXCEPT !.rollover = FALSE, !.seq = InvalidLSSeq]
            m == [e EXCEPT !.maxage = @ \ {k}, !.db[k].rollover = FALSE,
                           !.db[k].seq = InvalidLSSeq]
            r == [e EXCEPT !.maxage = @ \ {k}, !.db[k] = Nothing, !.pending = Orphan(@, k)]
<1>1. x \in Instances /\ x.rollover \in BOOLEAN
  <2>1. x \in Instances
    BY LsaIs
  <2>. QED
    BY <2>1 DEF Instances
<1>. DEFINE mx == e.maxage \ {k}
<1>2. m = Put(e, k, y, mx, e.echoed, e.pending)
  <2>1. m = [e EXCEPT !.db = [e.db EXCEPT ![k] = y], !.maxage = mx]
    <3>1. m = [e EXCEPT !.maxage = mx, !.db = [[e.db EXCEPT ![k].rollover = FALSE]
                                              EXCEPT ![k].seq = InvalidLSSeq]]
      <4>1. e = [db |-> e.db, maxage |-> e.maxage, pending |-> e.pending,
                 bins |-> e.bins, bin0 |-> e.bin0, echoed |-> e.echoed]
        BY LsaIs
      <4>. HIDE DEF x, y, r
      <4>. QED
        BY <4>1
    <3>2. [[e.db EXCEPT ![k].rollover = FALSE] EXCEPT ![k].seq = InvalidLSSeq]
          = [e.db EXCEPT ![k] = y]
      <4>1. e.db = [q \in Lsa |-> e.db[q]]
        BY LsaIs
      <4>2. [e.db EXCEPT ![k].rollover = FALSE][k] = [x EXCEPT !.rollover = FALSE]
        BY <4>1
      <4>. QED
        BY <4>1, <4>2
    <3>. DEFINE db == [e.db EXCEPT ![k] = y]
    <3>. HIDE DEF m, mx, y
    <3>3. m = [e EXCEPT !.maxage = mx, !.db = db]
      BY <3>1, <3>2
    <3>. HIDE DEF db
    <3>. QED
      BY <3>3, LsaIs DEF db
  <2>. DEFINE db == [e.db EXCEPT ![k] = y]
  <2>. HIDE DEF db, m, mx
  <2>. QED
    BY <2>1, LsaIs DEF Put, db
<1>3. r = Put(e, k, Nothing, mx, e.echoed, Orphan(e.pending, k))
  <2>. DEFINE db == [e.db EXCEPT ![k] = Nothing]
              pend == Orphan(e.pending, k)
  <2>1. r = [e EXCEPT !.db = db, !.maxage = mx, !.pending = pend]
    BY LsaIs
  <2>. HIDE DEF db, r, mx, pend
  <2>. QED
    BY <2>1, LsaIs DEF Put, db, pend
<1>4. CASE x.rollover
  <2>1. f = orig(m, k, want, TRUE)
    BY <1>4 DEF Free
  <2>2. k \in Own
    BY <1>4
  <2>. HIDE DEF m
  <2>3. Only(e, m, k) /\ Afresh(e, m, k) /\ m.db[k] \in Instances
    BY <1>2, AfreshIs
  <2>4. m \in Databases
    BY <2>3 DEF Only
  <2>5. Outcome(m, f, k, want[k], TRUE)
    BY <2>1, <2>2, <2>4, OrigIs
  <2>6. Only(m, f, k) /\ KeyOutcome(m, f, k, want[k], TRUE)
    BY <2>4, <2>5, OutcomeOfKey
  <2>7. Only(e, f, k)
    BY <2>3, <2>6, OnlyTrans
  <2>. QED
    BY <1>4, <2>3, <2>4, <2>6, <2>7 DEF Freed
<1>5. CASE ~x.rollover
  <2>1. f = r
    BY <1>5 DEF Free
  <2>. HIDE DEF r
  <2>2. Only(e, f, k) /\ Removed(e, f, k)
    BY <1>3, <2>1, RemovedIs
  <2>. QED
    BY <1>5, <2>2 DEF Freed
<1>. QED
  BY <1>4, <1>5

\* free_maxage_lsas is such a loop.
LEMMA FreeLoop ==
    ASSUME NEW d \in Databases, want \in [Own -> Bodies \cup {Nothing}], nbrs \subseteq Nbr,
           ~dbx, NEW S, S = {k \in d.maxage : d.db[k].rxmt = {}},
           \A k \in S : d.db[k] # Nothing /\ (d.db[k].rollover => k \in Own)
    PROVE  \E step \in [S \X Databases -> Databases] :
              /\ \A k \in S : \A e \in Databases : step[<<k, e>>] = FreeAgain(k, e)
              /\ Done(d, free_maxage_lsas(d), S, step)
<1>. DEFINE any(U) == CHOOSE x \in U : TRUE
            pick == [U \in SUBSET S |-> any(U)]
            step == [p \in S \X Databases |-> FreeAgain(p[1], p[2])]
            Loop(h) == h = [U \in SUBSET S |-> IF U = {} THEN d
                                               ELSE Free(any(U), h[U \ {any(U)}])]
<1>1. S \in SUBSET Lsa /\ IsFiniteSet(S) /\ \A k \in S : d.db[k] # Nothing
  <2>1. S \in SUBSET Lsa /\ \A k \in S : d.db[k] # Nothing
    BY DEF Databases
  <2>. QED
    BY <2>1, LifeAssumption, FS_Subset
<1>2. free_maxage_lsas(d) = (CHOOSE h : Loop(h))[S]
  BY DEF free_maxage_lsas, FoldSet, MapThenFoldSet
<1>3. \A U \in SUBSET S : U # {} => any(U) \in U
  OBVIOUS
<1>. HIDE DEF any
<1>4. \A U \in SUBSET S : U # {} => pick[U] \in U
  BY <1>3
<1>5. ASSUME NEW k \in S, NEW e \in Databases
      PROVE  FreeAgain(k, e) \in Databases /\ Only(e, FreeAgain(k, e), k)
  <2>0. k \in Lsa
    BY <1>1
  <2>1. CASE ~(e.db[k] # Nothing /\ (e.db[k].rollover => k \in Own))
    <3>1. FreeAgain(k, e) = e
      BY <2>1 DEF FreeAgain
    <3>. QED
      BY <3>1, OnlyItself
  <2>2. CASE e.db[k] # Nothing /\ (e.db[k].rollover => k \in Own)
    <3>1. FreeAgain(k, e) = Free(k, e)
      BY <2>2 DEF FreeAgain
    <3>2. Only(e, FreeAgain(k, e), k)
      BY <2>0, <2>2, <3>1, FreeIs
    <3>. QED
      BY <3>2 DEF Only
  <2>. QED
    BY <2>1, <2>2
<1>6. step \in [S \X Databases -> Databases]
  BY <1>5
<1>7. \A k \in S : \A e \in Databases : step[<<k, e>>] = FreeAgain(k, e)
  OBVIOUS
<1>8. \A k \in S : \A e \in Databases : Only(e, step[<<k, e>>], k)
  BY <1>5, <1>7
<1>9. PICK g \in [SUBSET S -> Databases] : /\ Iterates(g, S, d, pick, step)
                                           /\ \A U \in SUBSET S : Done(d, g[U], U, step)
  <2>. HIDE DEF pick, step
  <2>. QED
    BY <1>1, <1>4, <1>6, <1>8, Each
<1>10. \A U \in SUBSET S :
          g[U] = IF U = {} THEN d ELSE Free(any(U), g[U \ {any(U)}])
  <2>. TAKE U \in SUBSET S
  <2>1. CASE U = {}
    BY <1>9, <2>1 DEF Iterates
  <2>2. CASE U # {}
    <3>. DEFINE c == any(U)
                R == U \ {c}
    <3>1. c \in U /\ c \in S /\ c \in Lsa /\ c \notin R /\ R \in SUBSET S
      BY <1>1, <1>3, <2>2
    <3>2. pick[U] = c
      OBVIOUS
    <3>. HIDE DEF pick, step, c
    <3>3. g[U] = step[<<c, g[R]>>]
      BY <1>9, <2>2, <3>2 DEF Iterates
    <3>. HIDE DEF R
    <3>4. g[R] \in Databases /\ Done(d, g[R], R, step)
      BY <1>9, <3>1
    <3>5. g[R].db[c] # Nothing /\ (g[R].db[c].rollover => c \in Own)
      <4>1. g[R].db[c] = d.db[c]
        BY <3>1, <3>4 DEF Done, SameKey
      <4>. QED
        BY <3>1, <4>1
    <3>6. step[<<c, g[R]>>] = Free(c, g[R])
      BY <1>7, <3>1, <3>4, <3>5 DEF FreeAgain
    <3>. QED
      BY <2>2, <3>3, <3>6 DEF R, c
  <2>. QED
    BY <2>1, <2>2
<1>11. Loop(g)
  BY <1>10
<1>. DEFINE h == CHOOSE f : Loop(f)
<1>12. Loop(h)
  <2>. HIDE DEF Loop
  <2>. QED
    BY <1>11
<1>. HIDE DEF h
<1>13. h[S] = g[S]
  <2>1. \A U \in SUBSET S : pick[U] = any(U)
    OBVIOUS
  <2>2. h[{}] = g[{}]
    BY <1>10, <1>12
  <2>3. \A U \in SUBSET S : U # {} /\ h[U \ {pick[U]}] = g[U \ {pick[U]}] => h[U] = g[U]
    <3>. TAKE U \in SUBSET S
    <3>1. h[U] = IF U = {} THEN d ELSE Free(any(U), h[U \ {any(U)}])
      BY <1>12
    <3>2. g[U] = IF U = {} THEN d ELSE Free(any(U), g[U \ {any(U)}])
      BY <1>10
    <3>. QED
      BY <2>1, <3>1, <3>2
  <2>. HIDE DEF pick, Loop
  <2>4. Together(h, g, S, pick)
    BY <1>4, <2>2, <2>3 DEF Together
  <2>5. \A U \in SUBSET S : h[U] = g[U]
    BY <1>1, <2>4, SameLoop
  <2>. QED
    BY <2>5
<1>14. Done(d, free_maxage_lsas(d), S, step)
  <2>1. free_maxage_lsas(d) = g[S]
    BY <1>2, <1>13 DEF h
  <2>. HIDE DEF step
  <2>2. S \in SUBSET S
    OBVIOUS
  <2>3. Done(d, g[S], S, step)
    BY <1>9, <2>2
  <2>. QED
    BY <2>1, <2>3
<1>. QED
  BY <1>6, <1>7, <1>14

-----------------------------------------------------------------------------
(* The refresh schedule. *)

Schedules == {d \in Databases : Total(d.bins, Slots) = Len(d.pending)}

\* The LSAs of U have got a place at the end of pending_refresh.
Scheduled(d, f, U) ==
    /\ f \in Schedules
    /\ f.db = d.db /\ f.maxage = d.maxage /\ f.echoed = d.echoed /\ f.bin0 = d.bin0
    /\ \A T \in SUBSET Slots : Total(d.bins, T) <= Total(f.bins, T)
    /\ \A k \in Lsa : At(d, k) \subseteq At(f, k)
    /\ \A k \in Lsa \ U : At(f, k) = At(d, k)
    /\ \A k \in U : At(f, k) # {}

\* What schedule_refresh does.
LEMMA ScheduleIs ==
    ASSUME NEW d \in Schedules, NEW k \in Own, NEW i \in Slots,
           NEW f, f = schedule_refresh(k, i, d)
    PROVE  Scheduled(d, f, {k})
<1>. DEFINE last == [lsa |-> k, valid |-> TRUE]
            pend == Append(d.pending, last)
            bins == [d.bins EXCEPT ![i] = @ + 1]
            n == Len(d.pending)
<1>1. d \in Databases /\ Total(d.bins, Slots) = n
  BY DEF Schedules
<1>2. /\ d = [db |-> d.db, maxage |-> d.maxage, pending |-> d.pending,
              bins |-> d.bins, bin0 |-> d.bin0, echoed |-> d.echoed]
      /\ d.db \in [Lsa -> Instances \cup {Nothing}] /\ d.maxage \in SUBSET Lsa
      /\ d.pending \in Seq(Entries) /\ d.bins \in [Slots -> Nat] /\ d.bin0 \in Slots
      /\ d.echoed \in SUBSET Own
  BY <1>1 DEF Databases, Entries
<1>3. f = [db |-> d.db, maxage |-> d.maxage, pending |-> pend,
           bins |-> bins, bin0 |-> d.bin0, echoed |-> d.echoed]
  BY <1>2 DEF schedule_refresh
<1>4. last \in Entries
  BY DEF Entries
<1>5. /\ pend \in Seq(Entries) /\ Len(pend) = n + 1 /\ n \in Nat
      /\ pend[n + 1] = last /\ \A p \in 1..n : pend[p] = d.pending[p]
  <2>. HIDE DEF last
  <2>. QED
    BY <1>2, <1>4
<1>6. /\ bins \in [Slots -> Nat] /\ Total(bins, Slots) = Total(d.bins, Slots) + 1
      /\ \A T \in SUBSET Slots : Total(d.bins, T) <= Total(bins, T)
  BY <1>2, TotalRaised
<1>. HIDE DEF pend, bins, n
<1>7. f.pending = pend /\ f.bins = bins
  BY <1>3
<1>8. f \in Databases
  BY <1>2, <1>3, <1>5, <1>6 DEF Databases, Entries
<1>9. f \in Schedules
  BY <1>1, <1>5, <1>6, <1>7, <1>8 DEF Schedules
<1>10. last.lsa = k /\ last.valid = TRUE
  OBVIOUS
<1>. HIDE DEF last
<1>11. ASSUME NEW q, q # k PROVE At(f, q) = At(d, q)
  <2>1. At(f, q) = {p \in 1..(n + 1) : pend[p].lsa = q /\ pend[p].valid}
    BY <1>5, <1>7 DEF At
  <2>2. At(d, q) = {p \in 1..n : d.pending[p].lsa = q /\ d.pending[p].valid}
    BY DEF At, n
  <2>3. ~(pend[n + 1].lsa = q)
    BY <1>5, <1>10, <1>11
  <2>4. \A p : p \in 1..(n + 1) <=> p \in 1..n \/ p = n + 1
    BY <1>5
  <2>. QED
    BY <1>5, <2>1, <2>2, <2>3, <2>4
<1>12. At(d, k) \subseteq At(f, k) /\ At(f, k) # {}
  <2>1. At(f, k) = {p \in 1..(n + 1) : pend[p].lsa = k /\ pend[p].valid}
    BY <1>5, <1>7 DEF At
  <2>2. At(d, k) = {p \in 1..n : d.pending[p].lsa = k /\ d.pending[p].valid}
    BY DEF At, n
  <2>3. \A p : p \in 1..(n + 1) <=> p \in 1..n \/ p = n + 1
    BY <1>5
  <2>4. n + 1 \in At(f, k)
    BY <1>5, <1>10, <2>1, <2>3
  <2>. QED
    BY <1>5, <2>1, <2>2, <2>3, <2>4
<1>13. f.db = d.db /\ f.maxage = d.maxage /\ f.echoed = d.echoed /\ f.bin0 = d.bin0
  BY <1>3
<1>. QED
  BY <1>6, <1>7, <1>9, <1>11, <1>12, <1>13 DEF Scheduled

\* Nothing to schedule.
LEMMA ScheduledItself ==
    ASSUME NEW d \in Schedules
    PROVE  Scheduled(d, d, {})
<1>1. d.bins \in [Slots -> Nat]
  BY DEF Schedules, Databases
<1>2. \A T \in SUBSET Slots : Total(d.bins, T) \in Nat
  BY <1>1, SlotsAre, TotalIs
<1>3. \A T \in SUBSET Slots : Total(d.bins, T) <= Total(d.bins, T)
  BY <1>2
<1>. QED
  BY <1>3 DEF Scheduled

\* One more LSA.
LEMMA ScheduledTrans ==
    ASSUME NEW d \in Schedules, NEW e, NEW f, NEW R \in SUBSET Lsa, NEW k \in Lsa,
           Scheduled(d, e, R), Scheduled(e, f, {k})
    PROVE  Scheduled(d, f, R \cup {k})
<1>1. d.bins \in [Slots -> Nat] /\ e.bins \in [Slots -> Nat] /\ f.bins \in [Slots -> Nat]
  BY DEF Scheduled, Schedules, Databases
<1>2. \A T \in SUBSET Slots :
         Total(d.bins, T) \in Nat /\ Total(e.bins, T) \in Nat /\ Total(f.bins, T) \in Nat
  BY <1>1, SlotsAre, TotalIs
<1>3. \A T \in SUBSET Slots : Total(d.bins, T) <= Total(f.bins, T)
  <2>. TAKE T \in SUBSET Slots
  <2>1. Total(d.bins, T) <= Total(e.bins, T) /\ Total(e.bins, T) <= Total(f.bins, T)
    BY DEF Scheduled
  <2>. QED
    BY <1>2, <2>1
<1>4. /\ f.db = d.db /\ f.maxage = d.maxage /\ f.echoed = d.echoed /\ f.bin0 = d.bin0
      /\ f \in Schedules
  BY DEF Scheduled
<1>5. \A q \in Lsa : At(d, q) \subseteq At(f, q)
  BY DEF Scheduled
<1>6. \A q \in Lsa \ (R \cup {k}) : At(f, q) = At(d, q)
  BY DEF Scheduled
<1>7. \A q \in R \cup {k} : At(f, q) # {}
  <2>. TAKE q \in R \cup {k}
  <2>1. CASE q = k
    BY <2>1 DEF Scheduled
  <2>2. CASE q \in R
    BY <2>2 DEF Scheduled
  <2>. QED
    BY <2>1, <2>2
<1>. QED
  BY <1>3, <1>4, <1>5, <1>6, <1>7 DEF Scheduled

\* Scheduling the members of a set.
LEMMA ScheduleAll ==
    ASSUME NEW d \in Schedules, NEW slot \in [Own -> Slots], NEW S \in SUBSET Own
    PROVE  Scheduled(d, FoldSet(LAMBDA k, e : schedule_refresh(k, slot[k], e), d, S), S)
<1>. DEFINE any(U) == CHOOSE x \in U : TRUE
            pick == [U \in SUBSET S |-> any(U)]
            step == [p \in S \X Schedules |-> schedule_refresh(p[1], slot[p[1]], p[2])]
            Loop(h) == h = [U \in SUBSET S |->
                              IF U = {} THEN d
                              ELSE schedule_refresh(any(U), slot[any(U)], h[U \ {any(U)}])]
<1>1. S \in SUBSET Lsa /\ IsFiniteSet(S) /\ S \subseteq Own
  <2>1. S \in SUBSET Lsa /\ S \subseteq Own
    BY DEF Lsa
  <2>. QED
    BY <2>1, LifeAssumption, FS_Subset
<1>2. FoldSet(LAMBDA k, e : schedule_refresh(k, slot[k], e), d, S) = (CHOOSE h : Loop(h))[S]
  BY DEF FoldSet, MapThenFoldSet
<1>3. \A U \in SUBSET S : U # {} => any(U) \in U
  OBVIOUS
<1>. HIDE DEF any
<1>4. \A U \in SUBSET S : U # {} => pick[U] \in U
  BY <1>3
<1>5. ASSUME NEW k \in S, NEW e \in Schedules
      PROVE  /\ Scheduled(e, schedule_refresh(k, slot[k], e), {k})
             /\ schedule_refresh(k, slot[k], e) \in Schedules
  <2>1. k \in Own /\ slot[k] \in Slots
    BY <1>1
  <2>2. Scheduled(e, schedule_refresh(k, slot[k], e), {k})
    BY <2>1, ScheduleIs
  <2>. QED
    BY <2>2 DEF Scheduled
<1>6. step \in [S \X Schedules -> Schedules]
  BY <1>5
<1>7. \A k \in S : \A e \in Schedules : step[<<k, e>>] = schedule_refresh(k, slot[k], e)
  OBVIOUS
<1>8. PICK g \in [SUBSET S -> Schedules] : Iterates(g, S, d, pick, step)
  <2>. HIDE DEF pick, step
  <2>. QED
    BY <1>1, <1>4, <1>6, IterExists
<1>9. \A U \in SUBSET S :
         g[U] = IF U = {} THEN d ELSE schedule_refresh(any(U), slot[any(U)], g[U \ {any(U)}])
  <2>. TAKE U \in SUBSET S
  <2>1. CASE U = {}
    BY <1>8, <2>1 DEF Iterates
  <2>2. CASE U # {}
    <3>. DEFINE c == any(U)
    <3>1. c \in S /\ U \ {c} \in SUBSET S /\ pick[U] = c
      BY <1>3, <2>2
    <3>. HIDE DEF pick, step, c
    <3>2. g[U] = step[<<c, g[U \ {c}]>>]
      BY <1>8, <2>2, <3>1 DEF Iterates
    <3>3. g[U \ {c}] \in Schedules
      BY <3>1
    <3>. QED
      BY <1>7, <2>2, <3>1, <3>2, <3>3 DEF c
  <2>. QED
    BY <2>1, <2>2
<1>10. Loop(g)
  BY <1>9
<1>. DEFINE h == CHOOSE f : Loop(f)
<1>11. Loop(h)
  <2>. HIDE DEF Loop
  <2>. QED
    BY <1>10
<1>. HIDE DEF h
<1>12. h[S] = g[S]
  <2>1. \A U \in SUBSET S : pick[U] = any(U)
    OBVIOUS
  <2>2. h[{}] = g[{}]
    BY <1>9, <1>11
  <2>3. \A U \in SUBSET S : U # {} /\ h[U \ {pick[U]}] = g[U \ {pick[U]}] => h[U] = g[U]
    <3>. TAKE U \in SUBSET S
    <3>1. h[U] = IF U = {} THEN d
                 ELSE schedule_refresh(any(U), slot[any(U)], h[U \ {any(U)}])
      BY <1>11
    <3>2. g[U] = IF U = {} THEN d
                 ELSE schedule_refresh(any(U), slot[any(U)], g[U \ {any(U)}])
      BY <1>9
    <3>. QED
      BY <2>1, <3>1, <3>2
  <2>. HIDE DEF pick, Loop
  <2>4. Together(h, g, S, pick)
    BY <1>4, <2>2, <2>3 DEF Together
  <2>5. \A U \in SUBSET S : h[U] = g[U]
    BY <1>1, <2>4, SameLoop
  <2>. QED
    BY <2>5
<1>. DEFINE Bad == {U \in SUBSET S : ~Scheduled(d, g[U], U)}
<1>13. Bad = {}
  <2>. SUFFICES ASSUME Bad # {} PROVE FALSE
    OBVIOUS
  <2>1. PICK T \in Bad : \A Z \in Bad : Z \subseteq T => Z = T
    <3>1. Bad \in SUBSET (SUBSET S)
      OBVIOUS
    <3>. HIDE DEF Bad
    <3>. QED
      BY <1>1, <3>1, MinimalSubset
  <2>2. CASE T = {}
    <3>1. g[T] = d
      BY <1>9, <2>2
    <3>2. Scheduled(d, g[T], T)
      BY <2>2, <3>1, ScheduledItself
    <3>. QED
      BY <3>2
  <2>3. CASE T # {}
    <3>. DEFINE c == any(T)
                R == T \ {c}
                e == g[R]
                f == g[T]
    <3>1. c \in T /\ R \in SUBSET S /\ R \subseteq T /\ R # T /\ c \in S
      BY <1>3, <2>3
    <3>2. c \in Lsa /\ R \in SUBSET Lsa
      BY <1>1, <3>1
    <3>3. Scheduled(d, e, R)
      BY <2>1, <3>1
    <3>4. e \in Schedules
      BY <3>1
    <3>5. f = schedule_refresh(c, slot[c], e)
      BY <1>9, <2>3
    <3>6. T = R \cup {c}
      BY <3>1
    <3>. HIDE DEF c, R, e, f
    <3>7. Scheduled(e, f, {c})
      BY <1>5, <3>1, <3>4, <3>5
    <3>8. Scheduled(d, f, R \cup {c})
      BY <3>2, <3>3, <3>7, ScheduledTrans
    <3>. QED
      BY <3>6, <3>8 DEF f
  <2>. QED
    BY <2>2, <2>3
<1>. QED
  BY <1>2, <1>12, <1>13 DEF h

\* What refresh_lsas does.
LEMMA RefreshLoop ==
    ASSUME NEW d \in Schedules, NEW slot \in [Own -> Slots],
           NEW S, S = Aging(d, LSRefreshTime) \cap Own
    PROVE  Scheduled(d, refresh_lsas(d, slot), S)
<1>1. S \in SUBSET Own
  OBVIOUS
<1>2. refresh_lsas(d, slot) = FoldSet(LAMBDA k, e : schedule_refresh(k, slot[k], e), d, S)
  BY DEF refresh_lsas
<1>3. Scheduled(d, FoldSet(LAMBDA k, e : schedule_refresh(k, slot[k], e), d, S), S)
  BY <1>1, ScheduleAll
<1>. QED
  BY <1>2, <1>3

-----------------------------------------------------------------------------
(* Serving the schedule: entries are taken from the front of pending_refresh. *)

\* k is as it was, c entries further; those that were served were of no use.
Kept(d, e, k, c) ==
    /\ e.db[k] = d.db[k]
    /\ k \in e.maxage <=> k \in d.maxage
    /\ k \in e.echoed <=> k \in d.echoed
    /\ At(e, k) = {p \in 1..Len(e.pending) : p + c \in At(d, k)}
    /\ \A p \in At(d, k) : p <= c => Age(d.db[k]) = MaxAge

\* k has been originated, or flushed, and is not in pending_refresh any more.
Redone(d, e, k) ==
    /\ k \in Own
    /\ \/ KeyRolled(d, e, k)
       \/ want[k] = Nothing /\ KeyFlushed(d, e, k)
       \/ want[k] # Nothing /\ KeyMade(d, e, k, want[k])

Ran(d, e, c) ==
    /\ e \in Databases /\ e.bins = d.bins /\ e.bin0 = d.bin0
    /\ Len(e.pending) = Len(d.pending) - c
    /\ \A k \in Lsa : Kept(d, e, k, c) \/ (Redone(d, e, k) /\ At(d, k) # {})

\* One entry; an LSA without an entry is as it was.
RanOnce(d, e) == Ran(d, e, 1) /\ \A k \in Lsa : Kept(d, e, k, 1) \/ At(d, k) # {}

Listed(d) == \A k \in Lsa : At(d, k) # {} => d.db[k] # Nothing

\* What has been originated or flushed is in pending_refresh no more.
LEMMA RedoneGone ==
    ASSUME NEW d, NEW e, NEW k, Redone(d, e, k)
    PROVE  At(e, k) = {}
BY DEF Redone, KeyRolled, KeyFlushed, KeyMade, Anew

\* Serving the first entry.
LEMMA FirstIs ==
    ASSUME NEW d \in Databases, Listed(d), Len(d.pending) > 0, NEW i,
           want \in [Own -> Bodies \cup {Nothing}], nbrs \subseteq Nbr,
           NEW f, f = RefreshFirst(i, d)
    PROVE  RanOnce(d, f)
<1>. DEFINE n == Len(d.pending)
            first == Head(d.pending)
            tail == Tail(d.pending)
            rest == [d EXCEPT !.pending = Tail(@)]
            o == first.lsa
<1>1. /\ d = [db |-> d.db, maxage |-> d.maxage, pending |-> d.pending,
              bins |-> d.bins, bin0 |-> d.bin0, echoed |-> d.echoed]
      /\ d.db \in [Lsa -> Instances \cup {Nothing}] /\ d.maxage \in SUBSET Lsa
      /\ d.pending \in Seq(Entries) /\ d.bins \in [Slots -> Nat] /\ d.bin0 \in Slots
      /\ d.echoed \in SUBSET Own
  BY DEF Databases, Entries
<1>2. /\ n \in Nat /\ n >= 1 /\ d.pending # <<>> /\ first = d.pending[1] /\ first \in Entries
      /\ tail \in Seq(Entries) /\ Len(tail) = n - 1
      /\ \A p \in 1..(n - 1) : tail[p] = d.pending[p + 1]
  BY <1>1
<1>3. o \in Own /\ o \in Lsa /\ first.valid \in BOOLEAN
  BY <1>2 DEF Entries, Lsa
<1>4. rest = [db |-> d.db, maxage |-> d.maxage, pending |-> tail,
              bins |-> d.bins, bin0 |-> d.bin0, echoed |-> d.echoed]
  <2>1. rest = [d EXCEPT !.pending = tail]
    OBVIOUS
  <2>. HIDE DEF rest, tail
  <2>. QED
    BY <1>1, <2>1
<1>5. f = IF ~first.valid \/ Age(d.db[o]) = MaxAge THEN rest ELSE orig(rest, o, want, TRUE)
  <2>1. rest.db = d.db
    BY <1>4
  <2>. QED
    BY <1>2 DEF RefreshFirst
<1>6. rest \in Databases
  <2>. HIDE DEF rest, tail
  <2>. QED
    BY <1>1, <1>2, <1>4 DEF Databases, Entries
<1>7. rest.db = d.db /\ rest.maxage = d.maxage /\ rest.echoed = d.echoed
      /\ rest.bins = d.bins /\ rest.bin0 = d.bin0 /\ rest.pending = tail
  BY <1>4
<1>. HIDE DEF n, tail, rest, first
<1>8. ASSUME NEW k PROVE At(rest, k) = {p \in 1..(n - 1) : p + 1 \in At(d, k)}
  <2>1. At(rest, k) = {p \in 1..(n - 1) : tail[p].lsa = k /\ tail[p].valid}
    BY <1>2, <1>7 DEF At
  <2>2. \A p \in 1..(n - 1) : p + 1 \in At(d, k) <=> tail[p].lsa = k /\ tail[p].valid
    <3>. TAKE p \in 1..(n - 1)
    <3>1. p + 1 \in 1..n /\ tail[p] = d.pending[p + 1]
      BY <1>2
    <3>. QED
      BY <3>1 DEF At, n
  <2>. QED
    BY <2>1, <2>2
<1>9. ASSUME NEW k PROVE \A p \in At(d, k) : p <= 1 => first.lsa = k /\ first.valid
  <2>. TAKE p \in At(d, k)
  <2>. HAVE p <= 1
  <2>1. p = 1
    BY DEF At
  <2>. QED
    BY <1>2, <2>1 DEF At
<1>10. ASSUME NEW k, k # o \/ ~first.valid \/ Age(d.db[o]) = MaxAge PROVE Kept(d, rest, k, 1)
  <2>1. At(rest, k) = {p \in 1..Len(rest.pending) : p + 1 \in At(d, k)}
    BY <1>2, <1>7, <1>8
  <2>2. \A p \in At(d, k) : p <= 1 => Age(d.db[k]) = MaxAge
    BY <1>9, <1>10
  <2>. QED
    BY <1>7, <2>1, <2>2 DEF Kept
<1>11. CASE ~first.valid \/ Age(d.db[o]) = MaxAge
  <2>1. f = rest
    BY <1>5, <1>11
  <2>2. \A k \in Lsa : Kept(d, rest, k, 1)
    BY <1>10, <1>11
  <2>3. Len(rest.pending) = Len(d.pending) - 1
    BY <1>2, <1>7 DEF n
  <2>. QED
    BY <1>6, <1>7, <2>1, <2>2, <2>3 DEF RanOnce, Ran
<1>12. CASE first.valid /\ Age(d.db[o]) # MaxAge
  <2>1. f = orig(rest, o, want, TRUE)
    BY <1>5, <1>12
  <2>2. Outcome(rest, f, o, want[o], TRUE)
    BY <1>3, <1>6, <2>1, OrigIs
  <2>3. Only(rest, f, o) /\ KeyOutcome(rest, f, o, want[o], TRUE)
    BY <1>6, <2>2, OutcomeOfKey
  <2>4. 1 \in At(d, o)
    BY <1>2, <1>12 DEF At, n
  <2>5. d.db[o] # Nothing
    BY <1>3, <2>4 DEF Listed
  <2>6. ~(SameKey(rest, f, o) /\ UpToDate(rest, o, want[o], TRUE))
    BY <1>7, <1>12, <2>5 DEF UpToDate
  <2>7. Redone(rest, f, o)
    BY <1>3, <2>3, <2>6 DEF KeyOutcome, Redone
  <2>8. Redone(d, f, o)
    BY <1>7, <2>7 DEF Redone, KeyRolled, KeyFlushed, KeyMade
  <2>9. ASSUME NEW k \in Lsa, k # o PROVE Kept(d, f, k, 1)
    <3>1. Kept(d, rest, k, 1)
      BY <1>10, <2>9
    <3>2. SameKey(rest, f, k) /\ Len(f.pending) = Len(rest.pending)
      BY <2>3, <2>9 DEF Only, SameSchedule
    <3>. QED
      BY <3>1, <3>2 DEF Kept, SameKey
  <2>10. /\ f \in Databases /\ f.bins = d.bins /\ f.bin0 = d.bin0
         /\ Len(f.pending) = Len(d.pending) - 1
    BY <1>2, <1>7, <2>3 DEF Only, SameSchedule, n
  <2>11. \A k \in Lsa : Kept(d, f, k, 1) \/ k = o
    BY <2>9
  <2>12. At(d, o) # {}
    BY <2>4
  <2>. QED
    BY <2>8, <2>10, <2>11, <2>12 DEF RanOnce, Ran
<1>. QED
  BY <1>3, <1>11, <1>12

\* One more entry.
LEMMA RanTrans ==
    ASSUME NEW d \in Databases, NEW e, NEW f, NEW c \in Nat, Ran(d, e, c), RanOnce(e, f)
    PROVE  Ran(d, f, c + 1)
<1>1. /\ e \in Databases /\ f \in Databases /\ f.bins = d.bins /\ f.bin0 = d.bin0
  BY DEF RanOnce, Ran
<1>2. /\ Len(d.pending) \in Nat /\ Len(e.pending) \in Nat /\ Len(f.pending) \in Nat
      /\ Len(e.pending) = Len(d.pending) - c /\ Len(f.pending) = Len(e.pending) - 1
  <2>1. \A b \in Databases : b.pending \in Seq(Entries)
    BY DEF Databases, Entries
  <2>2. \A b \in Databases : Len(b.pending) \in Nat
    BY <2>1
  <2>. QED
    BY <1>1, <2>2 DEF RanOnce, Ran
<1>3. Len(f.pending) = Len(d.pending) - (c + 1)
  BY <1>2
<1>4. ASSUME NEW k \in Lsa PROVE Kept(d, f, k, c + 1) \/ (Redone(d, f, k) /\ At(d, k) # {})
  <2>1. CASE Kept(d, e, k, c) /\ Kept(e, f, k, 1)
    <3>1. At(e, k) = {p \in 1..Len(e.pending) : p + c \in At(d, k)}
      BY <2>1 DEF Kept
    <3>2. At(f, k) = {p \in 1..Len(f.pending) : p + 1 \in At(e, k)}
      BY <2>1 DEF Kept
    <3>3. \A p \in 1..Len(f.pending) : p + 1 \in At(e, k) <=> p + (c + 1) \in At(d, k)
      <4>. TAKE p \in 1..Len(f.pending)
      <4>1. p + 1 \in 1..Len(e.pending) /\ (p + 1) + c = p + (c + 1)
        BY <1>2
      <4>. QED
        BY <3>1, <4>1
    <3>4. At(f, k) = {p \in 1..Len(f.pending) : p + (c + 1) \in At(d, k)}
      BY <3>2, <3>3
    <3>5. \A p \in At(d, k) : p <= c + 1 => Age(d.db[k]) = MaxAge
      <4>. TAKE p \in At(d, k)
      <4>1. p \in Nat /\ p <= Len(d.pending) /\ p >= 1
        BY <1>2 DEF At
      <4>2. CASE p <= c
        BY <2>1, <4>2 DEF Kept
      <4>3. CASE p = c + 1
        <5>1. 1 + c = p /\ 1 \in 1..Len(e.pending)
          BY <1>2, <4>1, <4>3
        <5>2. 1 \in At(e, k)
          BY <3>1, <5>1
        <5>3. Age(e.db[k]) = MaxAge
          BY <2>1, <5>2 DEF Kept
        <5>. QED
          BY <2>1, <5>3 DEF Kept
      <4>. QED
        BY <4>1, <4>2, <4>3
    <3>6. /\ f.db[k] = d.db[k]
          /\ k \in f.maxage <=> k \in d.maxage
          /\ k \in f.echoed <=> k \in d.echoed
      BY <2>1 DEF Kept
    <3>. QED
      BY <3>4, <3>5, <3>6 DEF Kept
  <2>2. CASE Kept(d, e, k, c) /\ Redone(e, f, k) /\ At(e, k) # {}
    <3>1. Redone(d, f, k)
      BY <2>2 DEF Kept, Redone, KeyRolled, KeyFlushed, KeyMade
    <3>2. At(d, k) # {}
      BY <2>2 DEF Kept
    <3>. QED
      BY <3>1, <3>2
  <2>3. CASE Redone(d, e, k) /\ At(d, k) # {}
    <3>1. At(e, k) = {}
      BY <2>3, RedoneGone
    <3>2. Kept(e, f, k, 1)
      BY <3>1 DEF RanOnce
    <3>3. At(f, k) = {}
      BY <3>1, <3>2 DEF Kept
    <3>4. Redone(d, f, k)
      BY <2>3, <3>1, <3>2, <3>3 DEF Kept, Redone, KeyRolled, KeyFlushed, KeyMade, Anew
    <3>. QED
      BY <2>3, <3>4
  <2>. QED
    BY <2>1, <2>2, <2>3 DEF RanOnce, Ran
<1>. QED
  BY <1>1, <1>3, <1>4 DEF Ran

Ready == {e \in Databases : Listed(e)}

\* The entries that are left are those of LSAs in the database.
LEMMA RanReady ==
    ASSUME NEW d \in Ready, NEW e, NEW c \in Nat, Ran(d, e, c)
    PROVE  e \in Ready
<1>1. ASSUME NEW k \in Lsa, At(e, k) # {} PROVE e.db[k] # Nothing
  <2>1. ~Redone(d, e, k)
    BY <1>1, RedoneGone
  <2>2. Kept(d, e, k, c)
    BY <2>1 DEF Ran
  <2>3. At(d, k) # {}
    BY <1>1, <2>2 DEF Kept
  <2>. QED
    BY <2>2, <2>3 DEF Kept, Ready, Listed
<1>. QED
  BY <1>1 DEF Ran, Ready, Listed

\* No entry served.
LEMMA RanNone ==
    ASSUME NEW d \in Databases
    PROVE  Ran(d, d, 0)
<1>1. d.pending \in Seq(Entries)
  BY DEF Databases, Entries
<1>2. Len(d.pending) \in Nat
  BY <1>1
<1>3. \A k : At(d, k) = {p \in 1..Len(d.pending) : p + 0 \in At(d, k)}
  <2>1. \A p \in 1..Len(d.pending) : p + 0 = p
    BY <1>2
  <2>. QED
    BY <2>1 DEF At
<1>4. \A k : \A p \in At(d, k) : ~(p <= 0)
  BY <1>2 DEF At
<1>5. ASSUME NEW k \in Lsa PROVE Kept(d, d, k, 0)
  <2>. DEFINE none == 0
  <2>1. At(d, k) = {p \in 1..Len(d.pending) : p + none \in At(d, k)}
    BY <1>3
  <2>2. \A p \in At(d, k) : p <= none => Age(d.db[k]) = MaxAge
    BY <1>4
  <2>. HIDE DEF none
  <2>3. Kept(d, d, k, none)
    BY <2>1, <2>2 DEF Kept
  <2>. QED
    BY <2>3 DEF none
<1>. QED
  BY <1>2, <1>5 DEF Ran

\* Serving as many entries as a set has members.
LEMMA RunAll ==
    ASSUME NEW d \in Ready, NEW S, IsFiniteSet(S), Cardinality(S) <= Len(d.pending),
           want \in [Own -> Bodies \cup {Nothing}], nbrs \subseteq Nbr
    PROVE  Ran(d, FoldSet(RefreshFirst, d, S), Cardinality(S))
<1>. DEFINE any(U) == CHOOSE x \in U : TRUE
            pick == [U \in SUBSET S |-> any(U)]
            step == [p \in S \X Ready |-> RefreshFirst(p[1], p[2])]
            Loop(h) == h = [U \in SUBSET S |-> IF U = {} THEN d
                                               ELSE RefreshFirst(any(U), h[U \ {any(U)}])]
<1>2. FoldSet(RefreshFirst, d, S) = (CHOOSE h : Loop(h))[S]
  BY DEF FoldSet, MapThenFoldSet
<1>3. \A U \in SUBSET S : U # {} => any(U) \in U
  OBVIOUS
<1>. HIDE DEF any
<1>4. \A U \in SUBSET S : U # {} => pick[U] \in U
  BY <1>3
<1>5. ASSUME NEW i \in S, NEW e \in Ready PROVE RefreshFirst(i, e) \in Ready
  <2>1. e \in Databases /\ Listed(e) /\ e.pending \in Seq(Entries)
    BY DEF Ready, Databases, Entries
  <2>2. CASE Len(e.pending) > 0
    <3>1. RanOnce(e, RefreshFirst(i, e))
      BY <2>1, <2>2, FirstIs
    <3>2. Ran(e, RefreshFirst(i, e), 1)
      BY <3>1 DEF RanOnce
    <3>. QED
      BY <3>2, RanReady
  <2>3. CASE ~(Len(e.pending) > 0)
    <3>1. e.pending = <<>>
      BY <2>1, <2>3
    <3>. QED
      BY <3>1 DEF RefreshFirst
  <2>. QED
    BY <2>2, <2>3
<1>6. step \in [S \X Ready -> Ready]
  BY <1>5
<1>7. \A i \in S : \A e \in Ready : step[<<i, e>>] = RefreshFirst(i, e)
  OBVIOUS
<1>8. PICK g \in [SUBSET S -> Ready] : Iterates(g, S, d, pick, step)
  <2>. HIDE DEF pick, step
  <2>. QED
    BY <1>4, <1>6, IterExists
<1>9. \A U \in SUBSET S : g[U] = IF U = {} THEN d ELSE RefreshFirst(any(U), g[U \ {any(U)}])
  <2>. TAKE U \in SUBSET S
  <2>1. CASE U = {}
    BY <1>8, <2>1 DEF Iterates
  <2>2. CASE U # {}
    <3>. DEFINE c == any(U)
    <3>1. c \in S /\ U \ {c} \in SUBSET S /\ pick[U] = c
      BY <1>3, <2>2
    <3>. HIDE DEF pick, step, c
    <3>2. g[U] = step[<<c, g[U \ {c}]>>]
      BY <1>8, <2>2, <3>1 DEF Iterates
    <3>3. g[U \ {c}] \in Ready
      BY <3>1
    <3>. QED
      BY <1>7, <2>2, <3>1, <3>2, <3>3 DEF c
  <2>. QED
    BY <2>1, <2>2
<1>10. Loop(g)
  BY <1>9
<1>. DEFINE h == CHOOSE f : Loop(f)
<1>11. Loop(h)
  <2>. HIDE DEF Loop
  <2>. QED
    BY <1>10
<1>. HIDE DEF h
<1>12. h[S] = g[S]
  <2>1. \A U \in SUBSET S : pick[U] = any(U)
    OBVIOUS
  <2>2. h[{}] = g[{}]
    BY <1>9, <1>11
  <2>3. \A U \in SUBSET S : U # {} /\ h[U \ {pick[U]}] = g[U \ {pick[U]}] => h[U] = g[U]
    <3>. TAKE U \in SUBSET S
    <3>1. h[U] = IF U = {} THEN d ELSE RefreshFirst(any(U), h[U \ {any(U)}])
      BY <1>11
    <3>2. g[U] = IF U = {} THEN d ELSE RefreshFirst(any(U), g[U \ {any(U)}])
      BY <1>9
    <3>. QED
      BY <2>1, <3>1, <3>2
  <2>. HIDE DEF pick, Loop
  <2>4. Together(h, g, S, pick)
    BY <1>4, <2>2, <2>3 DEF Together
  <2>5. \A U \in SUBSET S : h[U] = g[U]
    BY <2>4, SameLoop
  <2>. QED
    BY <2>5
<1>. DEFINE Bad == {U \in SUBSET S : ~Ran(d, g[U], Cardinality(U))}
<1>13. Bad = {}
  <2>. SUFFICES ASSUME Bad # {} PROVE FALSE
    OBVIOUS
  <2>1. PICK T \in Bad : \A Z \in Bad : Z \subseteq T => Z = T
    <3>1. Bad \in SUBSET (SUBSET S)
      OBVIOUS
    <3>. HIDE DEF Bad
    <3>. QED
      BY <3>1, MinimalSubset
  <2>2. CASE T = {}
    <3>1. g[T] = d
      BY <1>9, <2>2
    <3>2. Cardinality(T) = 0
      BY <2>2, FS_EmptySet
    <3>3. d \in Databases
      BY DEF Ready
    <3>4. Ran(d, g[T], Cardinality(T))
      BY <3>1, <3>2, <3>3, RanNone
    <3>. QED
      BY <3>4
  <2>3. CASE T # {}
    <3>. DEFINE c == any(T)
                R == T \ {c}
                e == g[R]
                f == g[T]
                n == Cardinality(R)
    <3>1. c \in T /\ R \in SUBSET S /\ R \subseteq T /\ R # T /\ c \in S /\ T \in SUBSET S
      BY <1>3, <2>3
    <3>2. IsFiniteSet(T) /\ Cardinality(T) <= Cardinality(S) /\ Cardinality(S) \in Nat
      BY <3>1, FS_Subset, FS_CardinalityType
    <3>3. n = Cardinality(T) - 1 /\ Cardinality(T) \in Nat /\ n \in Nat
      <4>1. Cardinality(R) = Cardinality(T) - 1 /\ IsFiniteSet(R)
        BY <3>1, <3>2, FS_RemoveElement
      <4>2. Cardinality(T) \in Nat /\ Cardinality(R) \in Nat
        BY <3>2, <4>1, FS_CardinalityType
      <4>. QED
        BY <4>1, <4>2
    <3>4. Ran(d, e, n)
      BY <2>1, <3>1
    <3>5. e \in Ready
      BY <3>1
    <3>6. f = RefreshFirst(c, e)
      BY <1>9, <2>3
    <3>. HIDE DEF c, R, e, f, n
    <3>7. e \in Databases /\ Listed(e) /\ d \in Databases
      BY <3>5 DEF Ready
    <3>8. Len(e.pending) > 0
      <4>1. Len(e.pending) = Len(d.pending) - n
        BY <3>4 DEF Ran
      <4>2. d.pending \in Seq(Entries)
        BY <3>7 DEF Databases, Entries
      <4>3. Len(d.pending) \in Nat
        BY <4>2
      <4>. QED
        BY <3>2, <3>3, <4>1, <4>3
    <3>9. RanOnce(e, f)
      BY <3>6, <3>7, <3>8, FirstIs
    <3>10. Ran(d, f, n + 1)
      BY <3>3, <3>4, <3>7, <3>9, RanTrans
    <3>11. n + 1 = Cardinality(T)
      BY <3>3
    <3>. QED
      BY <3>10, <3>11 DEF f
  <2>. QED
    BY <2>2, <2>3
<1>. QED
  BY <1>2, <1>12, <1>13 DEF h

\* A second of the schedule is served.
NextSecond(d) == [d EXCEPT !.bins[d.bin0] = 0, !.bin0 = (@ + 1) % MaxAgeDiff]

\* The next second: its count leaves the schedule.
LEMMA NextSecondIs ==
    ASSUME NEW d \in Schedules, NEW f, f = NextSecond(d)
    PROVE  /\ f \in Databases
           /\ f.db = d.db /\ f.maxage = d.maxage /\ f.echoed = d.echoed /\ f.pending = d.pending
           /\ f.bin0 = (d.bin0 + 1) % MaxAgeDiff
           /\ d.bins[d.bin0] \in Nat /\ Len(d.pending) \in Nat
           /\ Len(d.pending) = Total(f.bins, Slots) + d.bins[d.bin0]
           /\ \A n \in 1..MaxAgeDiff :
                 Total(d.bins, Coming(d.bin0, n)) = Total(f.bins, Coming(f.bin0, n - 1))
                                                    + d.bins[d.bin0]
<1>. DEFINE b == d.bin0
            bins == [d.bins EXCEPT ![b] = 0]
            s == (b + 1) % MaxAgeDiff
<1>1. d \in Databases /\ Total(d.bins, Slots) = Len(d.pending)
  BY DEF Schedules
<1>2. /\ d = [db |-> d.db, maxage |-> d.maxage, pending |-> d.pending,
              bins |-> d.bins, bin0 |-> d.bin0, echoed |-> d.echoed]
      /\ d.db \in [Lsa -> Instances \cup {Nothing}] /\ d.maxage \in SUBSET Lsa
      /\ d.pending \in Seq(Entries) /\ d.bins \in [Slots -> Nat] /\ b \in Slots
      /\ d.echoed \in SUBSET Own
  BY <1>1 DEF Databases, Entries
<1>3. f = [db |-> d.db, maxage |-> d.maxage, pending |-> d.pending,
           bins |-> bins, bin0 |-> s, echoed |-> d.echoed]
  <2>1. f = [d EXCEPT !.bins = bins, !.bin0 = s]
    BY DEF NextSecond
  <2>. HIDE DEF bins, s
  <2>. QED
    BY <1>2, <2>1
<1>4. s \in Slots
  BY <1>2, SlotsAre
<1>5. /\ bins \in [Slots -> Nat]
      /\ Total(d.bins, Slots) = Total(bins, Slots) + d.bins[b]
      /\ \A n \in 1..MaxAgeDiff :
            Total(d.bins, Coming(b, n)) = Total(bins, Coming(s, n - 1)) + d.bins[b]
  BY <1>2, TotalServed
<1>6. d.bins[b] \in Nat /\ Len(d.pending) \in Nat
  BY <1>2
<1>. HIDE DEF bins, s, b
<1>7. f \in Databases
  BY <1>2, <1>3, <1>4, <1>5 DEF Databases, Entries
<1>8. /\ f.db = d.db /\ f.maxage = d.maxage /\ f.echoed = d.echoed /\ f.pending = d.pending
      /\ f.bins = bins /\ f.bin0 = s
  BY <1>3
<1>. QED
  BY <1>1, <1>5, <1>6, <1>7, <1>8 DEF b, s

\* do_refreshes serves as many entries as were counted for the second.
LEMMA RefreshesLoop ==
    ASSUME NEW d \in Schedules, Listed(d),
           want \in [Own -> Bodies \cup {Nothing}], nbrs \subseteq Nbr
    PROVE  Ran(NextSecond(d), do_refreshes(d), d.bins[d.bin0])
<1>. DEFINE m == NextSecond(d)
            c == d.bins[d.bin0]
<1>1. /\ m \in Databases /\ m.db = d.db /\ m.pending = d.pending /\ m.bins \in [Slots -> Nat]
      /\ c \in Nat /\ Len(d.pending) \in Nat /\ Len(d.pending) = Total(m.bins, Slots) + c
  <2>1. /\ m \in Databases /\ m.db = d.db /\ m.pending = d.pending
        /\ c \in Nat /\ Len(d.pending) \in Nat /\ Len(d.pending) = Total(m.bins, Slots) + c
    <3>. HIDE DEF m
    <3>. QED
      BY NextSecondIs DEF m
  <2>. QED
    BY <2>1 DEF Databases
<1>2. do_refreshes(d) = FoldSet(RefreshFirst, m, 1..c)
  BY DEF do_refreshes, NextSecond
<1>. HIDE DEF m, c
<1>3. Total(m.bins, Slots) \in Nat
  BY <1>1, SlotsAre, TotalIs
<1>4. IsFiniteSet(1..c) /\ Cardinality(1..c) = c
  BY <1>1, FS_Interval
<1>5. c <= Len(m.pending)
  BY <1>1, <1>3
<1>6. m \in Ready
  BY <1>1 DEF Ready, Listed, At
<1>7. Ran(m, FoldSet(RefreshFirst, m, 1..c), Cardinality(1..c))
  BY <1>4, <1>5, <1>6, RunAll
<1>. QED
  BY <1>2, <1>4, <1>7 DEF m, c

-----------------------------------------------------------------------------
(* One LSA at a time. *)

Fine(e, k, oldest, soonest, since, left) ==
    /\ Sane(e, k, oldest)
    /\ k \in Own \ e.echoed => Said(e, want, k, soonest) /\ Booked(e, k, since, left)

\* What depends on k only stays.
LEMMA FineSame ==
    ASSUME NEW d, NEW e, NEW k, NEW oldest, NEW soonest, NEW since, NEW left,
           Fine(d, k, oldest, soonest, since, left),
           SameKey(d, e, k), e.bins = d.bins, e.bin0 = d.bin0
    PROVE  Fine(e, k, oldest, soonest, since, left)
<1>1. Sane(e, k, oldest)
  BY DEF Fine, Sane, SameKey
<1>2. ASSUME k \in Own \ e.echoed
      PROVE  Said(e, want, k, soonest) /\ Booked(e, k, since, left)
  <2>1. Said(d, want, k, soonest) /\ Booked(d, k, since, left)
    BY <1>2 DEF Fine, SameKey
  <2>2. e.db[k] = d.db[k] /\ At(e, k) = At(d, k)
    BY DEF SameKey
  <2>3. Said(e, want, k, soonest)
    BY <2>1, <2>2 DEF Said
  <2>4. Booked(e, k, since, left)
    BY <2>1, <2>2 DEF Booked
  <2>. QED
    BY <2>3, <2>4
<1>. QED
  BY <1>1, <1>2 DEF Fine

\* After an origination k is sane, says what it is to say, and is booked unless it is
\* young.
LEMMA MadeIsFine ==
    ASSUME NEW d \in Databases, NEW e, NEW k \in Own, NEW forced \in BOOLEAN,
           NEW w \in [Own -> Bodies \cup {Nothing}],
           KeyOutcome(d, e, k, w[k], forced),
           NEW oldest \in Nat, NEW soonest \in Nat, NEW since \in Nat, NEW left,
           MinLSInterval <= soonest + 1, MinLSInterval <= since,
           Sane(d, k, oldest),
           SameKey(d, e, k) /\ UpToDate(d, k, w[k], forced) /\ k \notin e.echoed
             => Booked(e, k, since, left)
    PROVE  /\ Sane(e, k, oldest) /\ Said(e, w, k, soonest)
           /\ k \notin e.echoed => Booked(e, k, since, left)
<1>. DEFINE x == d.db[k]
            v == w[k]
            zero == 0
<1>0. /\ MinLSInterval \in Nat \ {0} /\ since \in Nat \ {0} /\ k \in Lsa
      /\ x \in Instances \cup {Nothing}
  BY LifeAssumption, LsaIs DEF Lsa
<1>1. Sane(e, k, oldest)
  BY OutcomeIsSane
<1>2. Said(e, w, k, soonest)
  BY OutcomeIsSaid
<1>3. ASSUME k \notin e.echoed PROVE Booked(e, k, since, left)
  <2>1. CASE ~forced /\ KeyPutOff(d, e, k)
    <3>1. x \in Instances /\ Age(x) < MinLSInterval /\ e.db[k] = [x EXCEPT !.deferring = TRUE]
      BY <1>0, <2>1 DEF KeyPutOff
    <3>. HIDE DEF x
    <3>2. Age(e.db[k]) = Age(x) /\ Age(x) \in Nat
      BY <3>1, InstanceIs, AgeIs
    <3>3. ~(Age(e.db[k]) >= since)
      BY <1>0, <3>1, <3>2
    <3>. QED
      BY <3>3 DEF Booked
  <2>2. CASE KeyRolled(d, e, k)
    <3>1. Anew(e, k, MaxLSSeq, MaxAge, x.body, TRUE, nbrs)
      BY <2>2 DEF KeyRolled
    <3>. HIDE DEF x
    <3>. QED
      BY <1>0, <3>1, AnewIsBooked
  <2>3. CASE KeyFlushed(d, e, k)
    <3>1. Anew(e, k, x.seq, MaxAge, x.body, x.rollover, nbrs)
      BY <2>3 DEF KeyFlushed
    <3>. QED
      BY <1>0, <3>1, AnewIsBooked
  <2>4. CASE KeyMade(d, e, k, v)
    <3>1. Anew(e, k, Number(x), zero, v, RolledOver(x), nbrs)
      BY <2>4 DEF KeyMade
    <3>2. zero = 0 \/ zero = MaxAge
      OBVIOUS
    <3>. HIDE DEF x, v, zero
    <3>. QED
      BY <1>0, <3>1, <3>2, AnewIsBooked DEF zero
  <2>5. CASE SameKey(d, e, k) /\ UpToDate(d, k, v, forced)
    BY <1>3, <2>5
  <2>. QED
    BY <2>1, <2>2, <2>3, <2>4, <2>5 DEF KeyOutcome
<1>. QED
  BY <1>1, <1>2, <1>3

\* The same as one predicate.
LEMMA FineMade ==
    ASSUME NEW d \in Databases, NEW e, NEW k \in Own, NEW forced \in BOOLEAN,
           want \in [Own -> Bodies \cup {Nothing}],
           KeyOutcome(d, e, k, want[k], forced),
           NEW oldest \in Nat, NEW soonest \in Nat, NEW since \in Nat, NEW left,
           MinLSInterval <= soonest + 1, MinLSInterval <= since,
           Sane(d, k, oldest),
           SameKey(d, e, k) /\ UpToDate(d, k, want[k], forced) /\ k \notin e.echoed
             => Booked(e, k, since, left)
    PROVE  Fine(e, k, oldest, soonest, since, left)
<1>1. /\ Sane(e, k, oldest) /\ Said(e, want, k, soonest)
      /\ k \notin e.echoed => Booked(e, k, since, left)
  BY MadeIsFine
<1>. QED
  BY <1>1 DEF Fine

\* What Tick has made of k stays, as long as k does.
LEMMA LineSame ==
    ASSUME NEW c, NEW d, NEW e, NEW k, Line(c, d, k), SameKey(d, e, k)
    PROVE  Line(c, e, k)
BY DEF Line, SameKey, Lasting, Renewed

\* An origination keeps the instance, or makes a newer one.
LEMMA LineMade ==
    ASSUME NEW c, NEW d \in Databases, NEW e, NEW k \in Lsa, NEW body, NEW forced,
           KeyOutcome(d, e, k, body, forced),
           c.db[k] # Nothing => d.db[k] # Nothing /\ Lasting(c.db[k], d, k)
    PROVE  Line(c, e, k)
<1>. DEFINE x == d.db[k]
            y == e.db[k]
<1>. SUFFICES ASSUME c.db[k] # Nothing
     PROVE y # Nothing /\ (Lasting(c.db[k], e, k) \/ Renewed(c.db[k], e, k))
  BY DEF Line
<1>1. x \in Instances /\ Lasting(c.db[k], d, k)
  BY LsaIs
<1>2. CASE KeyPutOff(d, e, k)
  <2>1. y = [x EXCEPT !.deferring = TRUE]
    BY <1>2 DEF KeyPutOff
  <2>2. y.seq = x.seq /\ y.rcv = x.rcv /\ y.rxmt = x.rxmt /\ y # Nothing
    <3>. HIDE DEF x, y
    <3>1. y # Nothing /\ y.rcv = x.rcv
      BY <1>1, <2>1, InstanceIs
    <3>. QED
      BY <1>1, <2>1, <3>1 DEF Instances
  <2>. QED
    BY <1>1, <1>2, <2>2 DEF KeyPutOff, Lasting
<1>3. CASE KeyRolled(d, e, k)
  BY <1>1, <1>3 DEF KeyRolled, Anew, Lasting
<1>4. CASE KeyFlushed(d, e, k)
  BY <1>1, <1>4 DEF KeyFlushed, Anew, Lasting
<1>5. CASE KeyMade(d, e, k, body)
  <2>1. /\ At(e, k) = {} /\ (k \in e.maxage <=> 0 = MaxAge)
        /\ y # Nothing /\ y.seq = Number(x) /\ y.rcv = 0 /\ y.since = 0
    BY <1>5 DEF KeyMade, Anew
  <2>2. MaxAge # 0
    BY LifeAssumption
  <2>3. Number(x) = x.seq + 1
    BY <1>1, NothingAssumption DEF Number
  <2>4. x.seq \in Seqs
    BY <1>1 DEF Instances
  <2>5. x.seq \in Int
    BY <2>4, SeqsAre
  <2>6. y.seq > x.seq /\ x.seq = c.db[k].seq
    BY <1>1, <2>1, <2>3, <2>5 DEF Lasting
  <2>. QED
    BY <2>1, <2>2, <2>6 DEF Renewed
<1>6. CASE SameKey(d, e, k)
  BY <1>1, <1>6 DEF SameKey, Lasting
<1>. QED
  BY <1>2, <1>3, <1>4, <1>5, <1>6 DEF KeyOutcome

\* Instances that are old, listed or scheduled have not been renewed in this second.
LEMMA NotRenewed ==
    ASSUME NEW c, NEW d \in Databases, NEW k \in Lsa, Line(c, d, k), c.db[k] # Nothing,
           At(d, k) # {} \/ k \in d.maxage \/ Age(d.db[k]) # 0
    PROVE  d.db[k] # Nothing /\ Lasting(c.db[k], d, k)
<1>1. d.db[k] # Nothing
  BY DEF Line
<1>2. ASSUME Renewed(c.db[k], d, k) PROVE FALSE
  <2>1. d.db[k].rcv = 0 /\ d.db[k].since = 0 /\ MaxAge # 0
    BY <1>2, LifeAssumption DEF Renewed
  <2>2. Age(d.db[k]) = 0
    BY <2>1 DEF Age
  <2>. QED
    BY <1>2, <2>2 DEF Renewed
<1>. QED
  BY <1>1, <1>2 DEF Line

-----------------------------------------------------------------------------
(* The parts of DBageTimer::action, one after the other. *)

Good(c, e, oldest, soonest, since, left) ==
    /\ e \in Schedules
    /\ \A k \in Lsa : Fine(e, k, oldest, soonest, since, left) /\ Line(c, e, k)

\* What the constants are.
LEMMA LimitsAre ==
    /\ {MinLSInterval, LSRefreshTime, MaxAgeDiff, MaxAge, LSRefreshTime + 1} \subseteq Nat \ {0}
    /\ {MinLSInterval - 1, LSRefreshTime - 1, MaxAgeDiff - 1, MaxAge - 1} \subseteq Nat
    /\ MinLSInterval < LSRefreshTime /\ LSRefreshTime + MaxAgeDiff < MaxAge
BY LifeAssumption

\* Every LSA a second older.
LEMMA SecondIs ==
    ASSUME NEW d \in Schedules, NEW f, f = OneSecond(d)
    PROVE  /\ f \in Schedules /\ f.bins = d.bins /\ f.bin0 = d.bin0
           /\ f.maxage = d.maxage /\ f.echoed = d.echoed
           /\ \A k : At(f, k) = At(d, k)
           /\ \A k \in Lsa : d.db[k] = Nothing => f.db[k] = Nothing
           /\ \A k \in Lsa : d.db[k] # Nothing =>
                 /\ f.db[k] \in Instances
                 /\ f.db[k] = [d.db[k] EXCEPT !.since = (@ + 1) % (MaxAge + 1)]
<1>. DEFINE older(x) == IF x = Nothing THEN Nothing
                        ELSE [x EXCEPT !.since = (@ + 1) % (MaxAge + 1)]
            db == [k \in Lsa |-> older(d.db[k])]
<1>1. d \in Databases /\ Total(d.bins, Slots) = Len(d.pending)
  BY DEF Schedules
<1>2. /\ d = [db |-> d.db, maxage |-> d.maxage, pending |-> d.pending,
              bins |-> d.bins, bin0 |-> d.bin0, echoed |-> d.echoed]
      /\ d.db \in [Lsa -> Instances \cup {Nothing}] /\ d.maxage \in SUBSET Lsa
      /\ d.pending \in Seq(Entries) /\ d.bins \in [Slots -> Nat] /\ d.bin0 \in Slots
      /\ d.echoed \in SUBSET Own
  BY <1>1 DEF Databases, Entries
<1>3. f = [db |-> db, maxage |-> d.maxage, pending |-> d.pending,
           bins |-> d.bins, bin0 |-> d.bin0, echoed |-> d.echoed]
  <2>. DEFINE aged == [k \in Lsa |->
                         IF d.db[k] = Nothing THEN Nothing
                         ELSE [d.db[k] EXCEPT !.since = (@ + 1) % (MaxAge + 1)]]
  <2>1. f = [d EXCEPT !.db = aged]
    <3>. HIDE DEF db
    <3>. QED
      BY DEF OneSecond
  <2>2. aged = db
    OBVIOUS
  <2>. HIDE DEF db, aged
  <2>. QED
    BY <1>2, <2>1, <2>2
<1>4. ASSUME NEW x \in Instances
      PROVE  [x EXCEPT !.since = (@ + 1) % (MaxAge + 1)] \in Instances
  <2>1. x.since \in 0..MaxAge /\ MaxAge \in Nat
    BY LifeAssumption DEF Instances
  <2>. DEFINE n == (x.since + 1) % (MaxAge + 1)
  <2>2. n \in 0..MaxAge
    BY <2>1
  <2>. HIDE DEF n
  <2>3. [x EXCEPT !.since = n] \in Instances
    BY <2>2 DEF Instances
  <2>. QED
    BY <2>3 DEF n
<1>5. \A x \in Instances \cup {Nothing} : older(x) \in Instances \cup {Nothing}
  <2>. TAKE x \in Instances \cup {Nothing}
  <2>1. CASE x = Nothing
    BY <2>1
  <2>2. CASE x \in Instances
    BY <1>4, <2>2, NothingAssumption
  <2>. QED
    BY <2>1, <2>2
<1>6. db \in [Lsa -> Instances \cup {Nothing}]
  <2>. HIDE DEF older
  <2>. QED
    BY <1>2, <1>5
<1>7. \A k \in Lsa : db[k] = older(d.db[k])
  OBVIOUS
<1>. HIDE DEF db
<1>8. f \in Databases
  BY <1>2, <1>3, <1>6 DEF Databases, Entries
<1>9. /\ f.db = db /\ f.maxage = d.maxage /\ f.pending = d.pending /\ f.bins = d.bins
      /\ f.bin0 = d.bin0 /\ f.echoed = d.echoed
  BY <1>3
<1>10. f \in Schedules
  BY <1>1, <1>8, <1>9 DEF Schedules
<1>11. \A k : At(f, k) = At(d, k)
  BY <1>9 DEF At
<1>12. ASSUME NEW k \in Lsa, d.db[k] # Nothing
       PROVE  /\ f.db[k] \in Instances
              /\ f.db[k] = [d.db[k] EXCEPT !.since = (@ + 1) % (MaxAge + 1)]
  <2>1. f.db[k] = older(d.db[k]) /\ d.db[k] \in Instances
    BY <1>2, <1>7, <1>9, <1>12
  <2>2. older(d.db[k]) = [d.db[k] EXCEPT !.since = (@ + 1) % (MaxAge + 1)]
    BY <1>12
  <2>. HIDE DEF older
  <2>. QED
    BY <1>4, <2>1, <2>2
<1>13. \A k \in Lsa : d.db[k] = Nothing => f.db[k] = Nothing
  BY <1>7, <1>9
<1>. HIDE DEF older
<1>. QED
  BY <1>9, <1>10, <1>11, <1>12, <1>13

\* After the second: limits that may be exceeded by one, until the loops that are due.
LEMMA AfterSecond ==
    ASSUME NEW d \in Schedules,
           \A k \in Lsa : Fine(d, k, MaxAge - 1, MinLSInterval - 1, LSRefreshTime, MaxAgeDiff - 1)
    PROVE  /\ Good(d, OneSecond(d), MaxAge, MinLSInterval, LSRefreshTime + 1, MaxAgeDiff)
           /\ \A k \in Lsa : d.db[k] # Nothing =>
                 OneSecond(d).db[k] # Nothing /\ Lasting(d.db[k], OneSecond(d), k)
<1>. DEFINE f == OneSecond(d)
<1>1. /\ f \in Schedules /\ f.bins = d.bins /\ f.bin0 = d.bin0
      /\ f.maxage = d.maxage /\ f.echoed = d.echoed
      /\ \A k : At(f, k) = At(d, k)
      /\ \A k \in Lsa : d.db[k] = Nothing => f.db[k] = Nothing
      /\ \A k \in Lsa : d.db[k] # Nothing =>
            /\ f.db[k] \in Instances
            /\ f.db[k] = [d.db[k] EXCEPT !.since = (@ + 1) % (MaxAge + 1)]
  BY SecondIs
<1>. HIDE DEF f
<1>2. d.db \in [Lsa -> Instances \cup {Nothing}]
  BY DEF Schedules, Databases
<1>3. ASSUME NEW k \in Lsa
      PROVE  /\ Fine(f, k, MaxAge, MinLSInterval, LSRefreshTime + 1, MaxAgeDiff)
             /\ d.db[k] # Nothing => f.db[k] # Nothing /\ Lasting(d.db[k], f, k)
  <2>. DEFINE x == d.db[k]
              y == f.db[k]
  <2>0. Fine(d, k, MaxAge - 1, MinLSInterval - 1, LSRefreshTime, MaxAgeDiff - 1)
    OBVIOUS
  <2>1. /\ At(f, k) = At(d, k)
        /\ k \in f.maxage <=> k \in d.maxage
        /\ k \in f.echoed <=> k \in d.echoed
    BY <1>1
  <2>2. CASE x = Nothing
    <3>1. SameKey(d, f, k)
      BY <1>1, <2>1, <2>2 DEF SameKey
    <3>2. /\ Sane(f, k, MaxAge)
          /\ Said(d, want, k, MinLSInterval - 1) => Said(f, want, k, MinLSInterval)
          /\ Booked(f, k, LSRefreshTime + 1, MaxAgeDiff)
      BY <2>0, <2>2, <3>1 DEF Fine, SameKey, Sane, Said, Booked
    <3>. QED
      BY <2>0, <2>1, <2>2, <3>2 DEF Fine
  <2>3. CASE x # Nothing
    <3>1. x \in Instances /\ y \in Instances /\ y = [x EXCEPT !.since = (@ + 1) % (MaxAge + 1)]
      BY <1>1, <1>2, <2>3
    <3>2. y # Nothing
      BY <3>1, NothingAssumption
    <3>. HIDE DEF x, y
    <3>3. /\ y.rcv = x.rcv /\ y.seq = x.seq /\ y.body = x.body /\ y.rollover = x.rollover
          /\ y.deferring = x.deferring /\ y.rxmt = x.rxmt
          /\ y.since = (x.since + 1) % (MaxAge + 1)
      BY <3>1 DEF Instances
    <3>4. /\ x.rcv \in Nat /\ x.since \in Nat /\ MaxAge \in Nat \ {0}
          /\ MinLSInterval \in Nat \ {0} /\ LSRefreshTime \in Nat /\ MaxAgeDiff \in Nat
          /\ MinLSInterval < LSRefreshTime /\ LSRefreshTime + MaxAgeDiff < MaxAge
      BY <3>1, AgeIs, LimitsAre
    <3>5. Sane(d, k, MaxAge - 1)
      BY <2>0 DEF Fine
    <3>6. x.rcv # MaxAge => /\ Age(x) = x.rcv + x.since /\ Age(x) <= MaxAge - 1
                            /\ Age(y) = Age(x) + 1
      <4>. HAVE x.rcv # MaxAge
      <4>1. Age(x) = x.rcv + x.since /\ Age(x) <= MaxAge - 1
        BY <2>3, <3>5 DEF Sane, Age, x
      <4>2. (x.since + 1) % (MaxAge + 1) = x.since + 1
        BY <3>4, <4>1
      <4>3. Age(y) = y.rcv + y.since
        BY <3>3 DEF Age
      <4>. QED
        BY <3>3, <3>4, <4>1, <4>2, <4>3
    <3>7. x.rcv = MaxAge => Age(x) = MaxAge /\ Age(y) = MaxAge
      BY <3>3 DEF Age
    <3>8. Sane(f, k, MaxAge)
      <4>1. y.rcv # MaxAge => Age(y) <= MaxAge
        BY <3>3, <3>4, <3>6
      <4>. QED
        BY <2>1, <2>3, <3>2, <3>3, <3>5, <4>1 DEF Sane, x, y
    <3>9. Lasting(x, f, k)
      <4>1. k \in d.maxage => x.rcv = MaxAge
        BY <3>5 DEF Sane, x
      <4>. QED
        BY <2>1, <3>3, <4>1 DEF Lasting, y
    <3>10. ASSUME k \in Own \ f.echoed
           PROVE  /\ Said(f, want, k, MinLSInterval)
                  /\ Booked(f, k, LSRefreshTime + 1, MaxAgeDiff)
      <4>1. Said(d, want, k, MinLSInterval - 1) /\ Booked(d, k, LSRefreshTime, MaxAgeDiff - 1)
        BY <2>0, <2>1, <3>10 DEF Fine
      <4>. DEFINE n == LSRefreshTime + (MaxAgeDiff - 1) - Age(x)
                  m == LSRefreshTime + MaxAgeDiff - Age(y)
      <4>2. x.rcv # MaxAge => m = n
        BY <3>4, <3>6
      <4>3. x.rcv # MaxAge /\ Age(x) >= LSRefreshTime =>
              /\ n \in 0..MaxAgeDiff
              /\ \E p \in At(d, k) : p <= Total(d.bins, Coming(d.bin0, n))
        BY <2>3, <4>1 DEF Booked, x
      <4>4. x.rcv # MaxAge => Age(y) < MaxAge
        <5>. HAVE x.rcv # MaxAge
        <5>1. CASE Age(x) >= LSRefreshTime
          BY <3>4, <3>6, <4>3, <5>1
        <5>2. CASE ~(Age(x) >= LSRefreshTime)
          BY <3>4, <3>6, <5>2
        <5>. QED
          BY <5>1, <5>2
      <4>5. Booked(f, k, LSRefreshTime + 1, MaxAgeDiff)
        <5>1. y.rcv # MaxAge /\ Age(y) >= LSRefreshTime + 1 => Age(x) >= LSRefreshTime
          BY <3>3, <3>4, <3>6
        <5>. HIDE DEF n, m
        <5>2. y.rcv # MaxAge /\ Age(y) >= LSRefreshTime + 1 =>
                /\ m \in 0..MaxAgeDiff
                /\ \E p \in At(f, k) : p <= Total(f.bins, Coming(f.bin0, m))
          BY <1>1, <2>1, <3>3, <4>2, <4>3, <5>1
        <5>. QED
          BY <5>2 DEF Booked, y, m
      <4>6. Said(f, want, k, MinLSInterval)
        <5>1. CASE x.body = want[k] /\ Age(x) # MaxAge
          <6>1. Age(y) # MaxAge
            BY <3>4, <3>7, <4>4, <5>1
          <6>. QED
            BY <3>2, <3>3, <5>1, <6>1 DEF Said, y
        <5>2. CASE x.deferring /\ x.rcv # MaxAge /\ Age(x) <= MinLSInterval - 1
          <6>1. Age(y) <= MinLSInterval
            BY <3>4, <3>6, <5>2
          <6>. QED
            BY <3>2, <3>3, <5>2, <6>1 DEF Said, y
        <5>3. CASE Age(x) = MaxAge /\ (want[k] = Nothing \/ x.rollover)
          <6>1. x.rcv = MaxAge
            BY <3>4, <3>6, <5>3
          <6>2. Age(y) = MaxAge
            BY <3>7, <6>1
          <6>. QED
            BY <3>2, <3>3, <5>3, <6>2 DEF Said, y
        <5>. QED
          BY <2>3, <4>1, <5>1, <5>2, <5>3 DEF Said, x
      <4>. QED
        BY <4>5, <4>6
    <3>. QED
      BY <3>2, <3>8, <3>9, <3>10 DEF Fine, x, y
  <2>. QED
    BY <2>2, <2>3
<1>4. \A k \in Lsa : Line(d, f, k)
  BY <1>3 DEF Line
<1>. QED
  BY <1>1, <1>3, <1>4 DEF Good, f

\* The sum of the schedule only depends on the schedule.
LEMMA ScheduleKept ==
    ASSUME NEW d \in Schedules, NEW f \in Databases, SameSchedule(d, f)
    PROVE  f \in Schedules
BY DEF Schedules, SameSchedule

\* After deferred_lsas nothing is put off for longer than MinLSInterval - 1.
LEMMA AfterDeferred ==
    ASSUME NEW c, NEW d,
           want \in [Own -> Bodies \cup {Nothing}], nbrs \subseteq Nbr,
           Good(c, d, MaxAge, MinLSInterval, LSRefreshTime + 1, MaxAgeDiff),
           \A k \in Lsa : c.db[k] # Nothing => d.db[k] # Nothing /\ Lasting(c.db[k], d, k)
    PROVE  Good(c, deferred_lsas(d), MaxAge, MinLSInterval - 1, LSRefreshTime + 1, MaxAgeDiff)
<1>. DEFINE S == {k \in Aging(d, MinLSInterval) \cap Own : d.db[k].deferring}
            f == deferred_lsas(d)
<1>1. d \in Schedules /\ d \in Databases
  BY DEF Good, Schedules
<1>2. PICK step \in [S \X Databases -> Databases] :
         /\ \A k \in S : \A e \in Databases : step[<<k, e>>] = Again(k, e)
         /\ Done(d, f, S, step)
  <2>. HIDE DEF f
  <2>. QED
    BY <1>1, DeferredLoop DEF f
<1>3. \A k \in S : /\ k \in Own /\ k \in Lsa /\ d.db[k] # Nothing /\ d.db[k].rcv # MaxAge
                   /\ Age(d.db[k]) = MinLSInterval
  BY DEF Aging, Present, Lsa
<1>4. \A k \in Own : d.db[k] # Nothing /\ d.db[k].deferring /\ d.db[k].rcv # MaxAge
                     /\ Age(d.db[k]) = MinLSInterval => k \in S
  BY DEF Aging, Present, Lsa
<1>. HIDE DEF S, f
<1>5. f \in Databases /\ SameSchedule(d, f)
  BY <1>2 DEF Done
<1>6. f \in Schedules
  BY <1>1, <1>5, ScheduleKept
<1>7. f.bins = d.bins /\ f.bin0 = d.bin0
  BY <1>5 DEF SameSchedule
<1>8. ASSUME NEW k \in Lsa, k \notin S
      PROVE  /\ Fine(f, k, MaxAge, MinLSInterval - 1, LSRefreshTime + 1, MaxAgeDiff)
             /\ Line(c, f, k)
  <2>1. SameKey(d, f, k)
    BY <1>2, <1>8 DEF Done
  <2>2. Fine(d, k, MaxAge, MinLSInterval, LSRefreshTime + 1, MaxAgeDiff) /\ Line(c, d, k)
    BY DEF Good
  <2>3. ASSUME k \in Own \ d.echoed PROVE Said(d, want, k, MinLSInterval - 1)
    <3>1. Said(d, want, k, MinLSInterval)
      BY <2>2, <2>3 DEF Fine
    <3>2. d.db[k] \in Instances /\ Age(d.db[k]) <= MinLSInterval
          /\ Age(d.db[k]) # MinLSInterval => Age(d.db[k]) <= MinLSInterval - 1
      <4>1. d.db[k] \in Instances => Age(d.db[k]) \in Nat
        BY AgeIs
      <4>. QED
        BY <1>1, <4>1, LimitsAre
    <3>3. d.db[k] \in Instances \cup {Nothing}
      BY <1>1, LsaIs
    <3>4. d.db[k] # Nothing /\ d.db[k].deferring /\ d.db[k].rcv # MaxAge
          => Age(d.db[k]) # MinLSInterval
      BY <1>4, <1>8, <2>3
    <3>. QED
      BY <3>1, <3>2, <3>3, <3>4 DEF Said
  <2>4. Fine(d, k, MaxAge, MinLSInterval - 1, LSRefreshTime + 1, MaxAgeDiff)
    BY <2>2, <2>3 DEF Fine
  <2>5. Fine(f, k, MaxAge, MinLSInterval - 1, LSRefreshTime + 1, MaxAgeDiff)
    BY <1>7, <2>1, <2>4, FineSame
  <2>. QED
    BY <2>1, <2>2, <2>5, LineSame
<1>9. ASSUME NEW k \in S
      PROVE  /\ Fine(f, k, MaxAge, MinLSInterval - 1, LSRefreshTime + 1, MaxAgeDiff)
             /\ Line(c, f, k)
  <2>. DEFINE x == d.db[k]
              y == [x EXCEPT !.deferring = FALSE]
  <2>1. /\ k \in Own /\ k \in Lsa /\ x # Nothing /\ x.rcv # MaxAge /\ Age(x) = MinLSInterval
        /\ x \in Instances
    BY <1>1, <1>3, LsaIs
  <2>2. PICK e \in Databases : SameKey(d, e, k) /\ SameKey(step[<<k, e>>], f, k)
    BY <1>2 DEF Done
  <2>3. e.db[k] = x
    BY <2>2 DEF SameKey
  <2>. DEFINE g == Reoriginate(k, e)
  <2>4. SameKey(g, f, k)
    BY <1>2, <2>1, <2>2, <2>3 DEF Again
  <2>5. PICK m \in Databases :
           /\ m.db[k] = [e.db[k] EXCEPT !.deferring = FALSE]
           /\ At(m, k) = At(e, k)
           /\ m.maxage = e.maxage /\ m.echoed = e.echoed
           /\ KeyOutcome(m, g, k, want[k], FALSE)
    <3>. HIDE DEF g
    <3>. QED
      BY <2>1, <2>3, AgainIs DEF g
  <2>. HIDE DEF g
  <2>6. m.db[k] = y
    BY <2>3, <2>5
  <2>7. y \in Instances /\ y # Nothing /\ y.rcv = x.rcv /\ Age(y) = Age(x)
    <3>. HIDE DEF x
    <3>. QED
      BY <2>1, InstanceIs
  <2>8. y.seq = x.seq /\ y.rollover = x.rollover /\ y.rxmt = x.rxmt
    <3>. HIDE DEF x
    <3>. QED
      BY <2>1 DEF Instances
  <2>. HIDE DEF y
  <2>9. /\ At(m, k) = At(d, k)
        /\ k \in m.maxage <=> k \in d.maxage
        /\ k \in m.echoed <=> k \in d.echoed
    BY <2>2, <2>5 DEF SameKey
  <2>10. SameKey(m, m, k)
    BY DEF SameKey
  <2>11. KeyOutcome(m, f, k, want[k], FALSE)
    BY <2>4, <2>5, <2>10, KeyMoves
  <2>12. Fine(d, k, MaxAge, MinLSInterval, LSRefreshTime + 1, MaxAgeDiff)
    BY <2>1 DEF Good
  <2>13. Sane(m, k, MaxAge)
    <3>1. Sane(d, k, MaxAge)
      BY <2>12 DEF Fine
    <3>. QED
      BY <2>1, <2>6, <2>7, <2>8, <2>9, <3>1 DEF Sane
  <2>. DEFINE since == LSRefreshTime + 1
              soonest == MinLSInterval - 1
  <2>14. /\ since \in Nat /\ soonest \in Nat /\ MaxAge \in Nat
         /\ MinLSInterval <= soonest + 1 /\ MinLSInterval <= since
         /\ ~(Age(m.db[k]) >= since)
    BY <2>1, <2>6, <2>7, LimitsAre
  <2>15. SameKey(m, f, k) => Booked(f, k, since, MaxAgeDiff)
    <3>. HIDE DEF since
    <3>. QED
      BY <2>14 DEF Booked, SameKey
  <2>16. Fine(f, k, MaxAge, soonest, since, MaxAgeDiff)
    <3>. HIDE DEF since, soonest
    <3>. QED
      BY <2>1, <2>11, <2>13, <2>14, <2>15, FineMade
  <2>17. c.db[k] # Nothing => m.db[k] # Nothing /\ Lasting(c.db[k], m, k)
    <3>1. c.db[k] # Nothing => Lasting(c.db[k], d, k)
      BY <2>1
    <3>. QED
      BY <2>6, <2>7, <2>8, <2>9, <3>1 DEF Lasting
  <2>18. Line(c, f, k)
    BY <2>1, <2>11, <2>17, LineMade
  <2>. QED
    BY <2>16, <2>18
<1>10. \A k \in Lsa : /\ Fine(f, k, MaxAge, MinLSInterval - 1, LSRefreshTime + 1, MaxAgeDiff)
                      /\ Line(c, f, k)
  BY <1>8, <1>9
<1>. QED
  BY <1>6, <1>10 DEF Good, f

\* After refresh_lsas what has reached LSRefreshTime is booked.
LEMMA AfterRefresh ==
    ASSUME NEW c, NEW d, NEW soonest, NEW slot \in [Own -> Slots],
           Good(c, d, MaxAge, soonest, LSRefreshTime + 1, MaxAgeDiff)
    PROVE  Good(c, refresh_lsas(d, slot), MaxAge, soonest, LSRefreshTime, MaxAgeDiff)
<1>. DEFINE S == Aging(d, LSRefreshTime) \cap Own
            f == refresh_lsas(d, slot)
<1>1. d \in Schedules /\ d \in Databases
  BY DEF Good, Schedules
<1>2. Scheduled(d, f, S)
  BY <1>1, RefreshLoop
<1>3. /\ f \in Schedules
      /\ f.db = d.db /\ f.maxage = d.maxage /\ f.echoed = d.echoed /\ f.bin0 = d.bin0
      /\ \A T \in SUBSET Slots : Total(d.bins, T) <= Total(f.bins, T)
      /\ \A k \in Lsa : At(d, k) \subseteq At(f, k)
      /\ \A k \in Lsa \ S : At(f, k) = At(d, k)
      /\ \A k \in S : At(f, k) # {}
  BY <1>2 DEF Scheduled
<1>4. \A k \in S : d.db[k] # Nothing /\ Age(d.db[k]) = LSRefreshTime
  BY DEF Aging, Present
<1>5. \A k \in Own : d.db[k] # Nothing /\ d.db[k].rcv # MaxAge
                     /\ Age(d.db[k]) = LSRefreshTime => k \in S
  BY DEF Aging, Present, Lsa
<1>. HIDE DEF S, f
<1>6. /\ d.bins \in [Slots -> Nat] /\ f.bins \in [Slots -> Nat] /\ d.bin0 \in Slots
      /\ f.pending \in Seq(Entries) /\ Total(f.bins, Slots) = Len(f.pending)
  BY <1>1, <1>3 DEF Schedules, Databases, Entries
<1>7. \A T \in SUBSET Slots : Total(d.bins, T) \in Nat /\ Total(f.bins, T) \in Nat
  BY <1>6, SlotsAre, TotalIs
<1>8. \A k : \A p \in At(f, k) : p \in Nat /\ p <= Total(f.bins, Slots)
  <2>1. Len(f.pending) \in Nat
    BY <1>6
  <2>. QED
    BY <1>6, <2>1 DEF At
<1>9. \A k : \A p \in At(d, k) : p \in Nat
  <2>1. d.pending \in Seq(Entries)
    BY <1>1 DEF Databases, Entries
  <2>2. Len(d.pending) \in Nat
    BY <2>1
  <2>. QED
    BY <2>2 DEF At
<1>10. ASSUME NEW k \in Lsa
       PROVE  /\ Fine(f, k, MaxAge, soonest, LSRefreshTime, MaxAgeDiff)
              /\ Line(c, f, k)
  <2>. DEFINE x == d.db[k]
  <2>1. Fine(d, k, MaxAge, soonest, LSRefreshTime + 1, MaxAgeDiff) /\ Line(c, d, k)
    BY DEF Good
  <2>2. x \in Instances \cup {Nothing} /\ f.db[k] = x
    BY <1>1, <1>3, LsaIs
  <2>3. At(f, k) # {} => x # Nothing
    <3>1. CASE k \in S
      BY <1>4, <3>1
    <3>2. CASE k \notin S
      BY <1>3, <2>1, <3>2 DEF Fine, Sane
    <3>. QED
      BY <3>1, <3>2
  <2>4. Sane(f, k, MaxAge)
    BY <1>3, <2>1, <2>2, <2>3 DEF Fine, Sane
  <2>5. ASSUME k \in Own \ f.echoed
        PROVE  Said(f, want, k, soonest) /\ Booked(f, k, LSRefreshTime, MaxAgeDiff)
    <3>1. Said(d, want, k, soonest) /\ Booked(d, k, LSRefreshTime + 1, MaxAgeDiff)
      BY <1>3, <2>1, <2>5 DEF Fine
    <3>2. Said(f, want, k, soonest)
      BY <2>2, <3>1 DEF Said
    <3>. DEFINE n == LSRefreshTime + MaxAgeDiff - Age(x)
    <3>3. ASSUME x # Nothing, x.rcv # MaxAge, Age(x) >= LSRefreshTime
          PROVE  n \in 0..MaxAgeDiff /\ \E p \in At(f, k) : p <= Total(f.bins, Coming(f.bin0, n))
      <4>1. Age(x) \in Nat
        BY <2>2, <3>3, AgeIs
      <4>2. CASE Age(x) >= LSRefreshTime + 1
        <5>1. n \in 0..MaxAgeDiff /\ \E p \in At(d, k) : p <= Total(d.bins, Coming(d.bin0, n))
          BY <3>1, <3>3, <4>2 DEF Booked
        <5>. HIDE DEF n
        <5>2. PICK p \in At(d, k) : p <= Total(d.bins, Coming(d.bin0, n))
          BY <5>1
        <5>. DEFINE T == Coming(d.bin0, n)
        <5>3. T \in SUBSET Slots
          BY <1>6, <5>1, ComingIs
        <5>. HIDE DEF T
        <5>4. p <= Total(f.bins, T)
          <6>1. /\ p \in Nat /\ Total(d.bins, T) \in Nat /\ Total(f.bins, T) \in Nat
                /\ p <= Total(d.bins, T) /\ Total(d.bins, T) <= Total(f.bins, T)
            BY <1>3, <1>7, <1>9, <5>2, <5>3 DEF T
          <6>. QED
            BY <6>1
        <5>5. p \in At(f, k)
          BY <1>3
        <5>. QED
          BY <1>3, <5>1, <5>4, <5>5 DEF T
      <4>3. CASE Age(x) = LSRefreshTime
        <5>1. k \in S
          BY <1>5, <2>5, <3>3, <4>3
        <5>2. PICK p \in At(f, k) : TRUE
          BY <1>3, <5>1
        <5>3. n = MaxAgeDiff /\ n \in 0..MaxAgeDiff
          BY <4>3, LimitsAre
        <5>. HIDE DEF n
        <5>4. Coming(f.bin0, n) = Slots
          BY <1>3, <1>6, <5>3, ComingIs
        <5>5. p <= Total(f.bins, Coming(f.bin0, n))
          BY <1>8, <5>4
        <5>. QED
          BY <5>3, <5>5
      <4>. QED
        BY <3>3, <4>1, <4>2, <4>3, LimitsAre
    <3>. HIDE DEF n
    <3>4. Booked(f, k, LSRefreshTime, MaxAgeDiff)
      BY <2>2, <3>3 DEF Booked, n
    <3>. QED
      BY <3>2, <3>4
  <2>6. Line(c, f, k)
    <3>1. CASE k \in S
      <4>1. Age(x) # 0
        BY <1>4, <3>1, LimitsAre
      <4>2. c.db[k] # Nothing => x # Nothing /\ Lasting(c.db[k], d, k)
        BY <1>1, <2>1, <4>1, NotRenewed
      <4>. QED
        BY <1>3, <4>2 DEF Line, Lasting
    <3>2. CASE k \notin S
      <4>1. SameKey(d, f, k)
        BY <1>3, <3>2 DEF SameKey
      <4>. QED
        BY <2>1, <4>1, LineSame
    <3>. QED
      BY <3>1, <3>2
  <2>. QED
    BY <2>4, <2>5, <2>6 DEF Fine
<1>. QED
  BY <1>3, <1>10 DEF Good, f

\* After maxage_lsas what has reached MaxAge is on MaxAge_list.
LEMMA AfterMaxage ==
    ASSUME NEW c, NEW d, NEW soonest, nbrs \subseteq Nbr,
           Good(c, d, MaxAge, soonest, LSRefreshTime, MaxAgeDiff)
    PROVE  Good(c, maxage_lsas(d), MaxAge - 1, soonest, LSRefreshTime, MaxAgeDiff)
<1>. DEFINE S == Aging(d, MaxAge)
            f == maxage_lsas(d)
<1>1. d \in Schedules /\ d \in Databases
  BY DEF Good, Schedules
<1>2. PICK step \in [S \X Databases -> Databases] :
         /\ \A k \in S : \A e \in Databases : step[<<k, e>>] = AgeAgain(k, e)
         /\ Done(d, f, S, step)
  <2>. HIDE DEF f
  <2>. QED
    BY <1>1, MaxageLoop DEF f
<1>3. \A k \in S : k \in Lsa /\ d.db[k] # Nothing /\ d.db[k].rcv # MaxAge
                   /\ Age(d.db[k]) = MaxAge
  BY DEF Aging, Present
<1>4. \A k \in Lsa : d.db[k] # Nothing /\ d.db[k].rcv # MaxAge /\ Age(d.db[k]) = MaxAge
                     => k \in S
  BY DEF Aging, Present
<1>. HIDE DEF S, f
<1>5. f \in Databases /\ SameSchedule(d, f)
  BY <1>2 DEF Done
<1>6. f \in Schedules
  BY <1>1, <1>5, ScheduleKept
<1>7. f.bins = d.bins /\ f.bin0 = d.bin0
  BY <1>5 DEF SameSchedule
<1>8. ASSUME NEW k \in Lsa, k \notin S
      PROVE  Fine(f, k, MaxAge - 1, soonest, LSRefreshTime, MaxAgeDiff) /\ Line(c, f, k)
  <2>1. SameKey(d, f, k)
    BY <1>2, <1>8 DEF Done
  <2>2. Fine(d, k, MaxAge, soonest, LSRefreshTime, MaxAgeDiff) /\ Line(c, d, k)
    BY DEF Good
  <2>3. d.db[k] # Nothing /\ d.db[k].rcv # MaxAge => Age(d.db[k]) <= MaxAge - 1
    <3>. HAVE d.db[k] # Nothing /\ d.db[k].rcv # MaxAge
    <3>1. d.db[k] \in Instances /\ Age(d.db[k]) # MaxAge
      BY <1>1, <1>4, <1>8, LsaIs
    <3>2. Age(d.db[k]) \in Nat /\ Age(d.db[k]) <= MaxAge
      BY <2>2, <3>1, AgeIs DEF Fine, Sane
    <3>. QED
      BY <3>1, <3>2, LimitsAre
  <2>4. Sane(d, k, MaxAge - 1)
    BY <2>2, <2>3 DEF Fine, Sane
  <2>5. Fine(d, k, MaxAge - 1, soonest, LSRefreshTime, MaxAgeDiff)
    BY <2>2, <2>4 DEF Fine
  <2>6. Fine(f, k, MaxAge - 1, soonest, LSRefreshTime, MaxAgeDiff)
    BY <1>7, <2>1, <2>5, FineSame
  <2>. QED
    BY <2>1, <2>2, <2>6, LineSame
<1>9. ASSUME NEW k \in S
      PROVE  Fine(f, k, MaxAge - 1, soonest, LSRefreshTime, MaxAgeDiff) /\ Line(c, f, k)
  <2>. DEFINE x == d.db[k]
              y == f.db[k]
  <2>1. /\ k \in Lsa /\ x # Nothing /\ x.rcv # MaxAge /\ Age(x) = MaxAge
        /\ x \in Instances
    BY <1>1, <1>3, LsaIs
  <2>2. PICK e \in Databases : SameKey(d, e, k) /\ SameKey(step[<<k, e>>], f, k)
    BY <1>2 DEF Done
  <2>3. e.db[k] = x
    BY <2>2 DEF SameKey
  <2>. DEFINE g == age_prematurely(e, k)
  <2>4. SameKey(g, f, k)
    BY <1>2, <2>1, <2>2, <2>3 DEF AgeAgain
  <2>5. Added(e, g, k, x.seq, MaxAge, x.body, x.rollover, nbrs) /\ SameEcho(e, g)
    <3>. HIDE DEF x, g
    <3>1. e.db[k] # Nothing
      BY <2>1, <2>3
    <3>2. /\ Added(e, g, k, e.db[k].seq, MaxAge, e.db[k].body, e.db[k].rollover, nbrs)
          /\ SameEcho(e, g)
      BY <2>1, <3>1, AgedIs DEF g
    <3>. QED
      BY <2>3, <3>2
  <2>. HIDE DEF g
  <2>6. /\ y # Nothing /\ y.rcv = MaxAge /\ y.seq = x.seq /\ y.rollover = x.rollover
        /\ y.rxmt = nbrs /\ At(f, k) = {} /\ k \in f.maxage
    BY <2>4, <2>5 DEF Added, SameKey
  <2>7. k \in f.echoed <=> k \in d.echoed
    BY <2>2, <2>4, <2>5 DEF SameEcho, SameKey
  <2>8. Fine(d, k, MaxAge, soonest, LSRefreshTime, MaxAgeDiff) /\ Line(c, d, k)
    BY <2>1 DEF Good
  <2>9. ~x.rollover
    BY <2>1, <2>8 DEF Fine, Sane
  <2>10. Sane(f, k, MaxAge - 1)
    BY <2>6, <2>9 DEF Sane
  <2>11. k \notin Own \ f.echoed
    <3>1. LSRefreshTime + MaxAgeDiff - Age(x) \notin 0..MaxAgeDiff /\ Age(x) >= LSRefreshTime
      BY <2>1, LimitsAre
    <3>2. ~Booked(d, k, LSRefreshTime, MaxAgeDiff)
      BY <2>1, <3>1 DEF Booked
    <3>. QED
      BY <2>7, <2>8, <3>2 DEF Fine
  <2>12. Line(c, f, k)
    <3>1. Age(x) # 0
      BY <2>1, LimitsAre
    <3>2. c.db[k] # Nothing => Lasting(c.db[k], d, k)
      BY <1>1, <2>1, <2>8, <3>1, NotRenewed
    <3>. QED
      BY <2>6, <3>2 DEF Line, Lasting
  <2>. QED
    BY <2>10, <2>11, <2>12 DEF Fine
<1>. QED
  BY <1>6, <1>8, <1>9 DEF Good, f

\* After do_refreshes every booking is a second nearer.
LEMMA AfterRefreshes ==
    ASSUME NEW c, NEW d,
           want \in [Own -> Bodies \cup {Nothing}], nbrs \subseteq Nbr,
           Good(c, d, MaxAge - 1, MinLSInterval - 1, LSRefreshTime, MaxAgeDiff)
    PROVE  Good(c, do_refreshes(d), MaxAge - 1, MinLSInterval - 1, LSRefreshTime, MaxAgeDiff - 1)
<1>. DEFINE m == NextSecond(d)
            f == do_refreshes(d)
            r == d.bins[d.bin0]
            oldest == MaxAge - 1
            soonest == MinLSInterval - 1
            left == MaxAgeDiff - 1
<1>1. d \in Schedules /\ d \in Databases
  BY DEF Good, Schedules
<1>2. Listed(d)
  BY DEF Good, Fine, Sane, Listed
<1>3. Ran(m, f, r)
  BY <1>1, <1>2, RefreshesLoop
<1>4. /\ m \in Databases
      /\ m.db = d.db /\ m.maxage = d.maxage /\ m.echoed = d.echoed /\ m.pending = d.pending
      /\ m.bin0 = (d.bin0 + 1) % MaxAgeDiff
      /\ r \in Nat /\ Len(d.pending) \in Nat
      /\ Len(d.pending) = Total(m.bins, Slots) + r
      /\ \A n \in 1..MaxAgeDiff :
            Total(d.bins, Coming(d.bin0, n)) = Total(m.bins, Coming(m.bin0, n - 1)) + r
  <2>. HIDE DEF m
  <2>. QED
    BY <1>1, NextSecondIs DEF m
<1>5. \A k : At(m, k) = At(d, k)
  <2>. HIDE DEF m
  <2>. QED
    BY <1>4 DEF At
<1>. HIDE DEF m, f, r
<1>6. /\ f \in Databases /\ f.bins = m.bins /\ f.bin0 = m.bin0
      /\ Len(f.pending) = Len(m.pending) - r
      /\ \A k \in Lsa : Kept(m, f, k, r) \/ (Redone(m, f, k) /\ At(m, k) # {})
  BY <1>3 DEF Ran
<1>7. m.bins \in [Slots -> Nat] /\ d.bin0 \in Slots /\ d.bins \in [Slots -> Nat]
  BY <1>1, <1>4 DEF Databases
<1>8. m.bin0 \in Slots
  BY <1>4, <1>7, SlotsAre
<1>9. \A T \in SUBSET Slots : Total(m.bins, T) \in Nat
  BY <1>7, SlotsAre, TotalIs
<1>10. f \in Schedules
  <2>1. Total(m.bins, Slots) \in Nat
    BY <1>9
  <2>2. Total(f.bins, Slots) = Len(f.pending)
    BY <1>4, <1>6, <2>1
  <2>. QED
    BY <1>6, <2>2 DEF Schedules
<1>11. oldest \in Nat /\ soonest \in Nat /\ MinLSInterval <= soonest + 1 /\ left \in Nat
       /\ MinLSInterval <= LSRefreshTime /\ LSRefreshTime \in Nat /\ MaxAgeDiff \in Nat
       /\ LSRefreshTime + MaxAgeDiff < MaxAge /\ MaxAge \in Nat
  BY LimitsAre
<1>12. \A k : \A p \in At(d, k) : p \in Nat /\ p >= 1
  BY <1>4 DEF At
<1>13. ASSUME NEW k \in Lsa, Kept(m, f, k, r)
       PROVE  Fine(f, k, oldest, soonest, LSRefreshTime, left) /\ Line(c, f, k)
  <2>. DEFINE x == d.db[k]
  <2>1. Fine(d, k, oldest, soonest, LSRefreshTime, MaxAgeDiff) /\ Line(c, d, k)
    BY DEF Good
  <2>2. /\ f.db[k] = x
        /\ k \in f.maxage <=> k \in d.maxage
        /\ k \in f.echoed <=> k \in d.echoed
        /\ At(f, k) = {p \in 1..Len(f.pending) : p + r \in At(d, k)}
        /\ \A p \in At(d, k) : p <= r => Age(x) = MaxAge
    BY <1>4, <1>5, <1>13 DEF Kept
  <2>3. At(f, k) # {} => At(d, k) # {}
    BY <2>2
  <2>4. Sane(f, k, oldest)
    BY <2>1, <2>2, <2>3 DEF Fine, Sane
  <2>5. Line(c, f, k)
    <3>1. At(d, k) = {} => At(f, k) = {}
      BY <2>3
    <3>. QED
      BY <2>1, <2>2, <3>1 DEF Line, Lasting, Renewed
  <2>6. ASSUME k \in Own \ f.echoed
        PROVE  Said(f, want, k, soonest) /\ Booked(f, k, LSRefreshTime, left)
    <3>1. Said(d, want, k, soonest) /\ Booked(d, k, LSRefreshTime, MaxAgeDiff)
      BY <2>1, <2>2, <2>6 DEF Fine
    <3>2. Said(f, want, k, soonest)
      BY <2>2, <3>1 DEF Said
    <3>. DEFINE n == LSRefreshTime + MaxAgeDiff - Age(x)
                n1 == LSRefreshTime + left - Age(x)
    <3>3. ASSUME x # Nothing, x.rcv # MaxAge, Age(x) >= LSRefreshTime
          PROVE  n1 \in 0..MaxAgeDiff /\ \E p \in At(f, k) : p <= Total(f.bins, Coming(f.bin0, n1))
      <4>1. x \in Instances /\ Age(x) \in Nat
        BY <1>1, <3>3, LsaIs, AgeIs
      <4>2. n \in 0..MaxAgeDiff /\ \E p \in At(d, k) : p <= Total(d.bins, Coming(d.bin0, n))
        BY <3>1, <3>3 DEF Booked
      <4>3. Age(x) < MaxAge /\ n1 = n - 1
        BY <1>11, <4>1, <4>2
      <4>. HIDE DEF n, n1
      <4>4. PICK p \in At(d, k) : p <= Total(d.bins, Coming(d.bin0, n))
        BY <4>2
      <4>5. p > r /\ p \in Nat /\ p >= 1
        <5>1. p \in Nat /\ p >= 1
          BY <1>12
        <5>2. Age(x) # MaxAge
          BY <1>11, <4>1, <4>3
        <5>. QED
          BY <1>4, <2>2, <5>1, <5>2
      <4>6. n # 0
        <5>. SUFFICES ASSUME n = 0 PROVE FALSE
          OBVIOUS
        <5>1. Coming(d.bin0, n) = {}
          BY <1>7, <4>2, ComingIs
        <5>2. Total(d.bins, {}) = 0
          BY <1>7, SlotsAre, TotalIs
        <5>. QED
          BY <4>4, <4>5, <5>1, <5>2
      <4>7. n \in 1..MaxAgeDiff /\ n1 \in 0..MaxAgeDiff
        BY <1>11, <4>2, <4>3, <4>6
      <4>. DEFINE T == Coming(m.bin0, n1)
      <4>8. T \in SUBSET Slots
        BY <1>8, <4>7, ComingIs
      <4>9. Total(d.bins, Coming(d.bin0, n)) = Total(m.bins, T) + r
        BY <1>4, <4>3, <4>7
      <4>. HIDE DEF T
      <4>10. Total(m.bins, T) \in Nat
        BY <1>9, <4>8
      <4>. DEFINE q == p - r
      <4>11. q \in Nat /\ q >= 1 /\ q + r = p /\ q <= Total(m.bins, T)
        BY <1>4, <4>4, <4>5, <4>9, <4>10
      <4>12. p <= Len(d.pending)
        BY <1>4 DEF At
      <4>13. q \in 1..Len(f.pending)
        BY <1>4, <1>6, <4>5, <4>11, <4>12
      <4>. HIDE DEF q
      <4>14. q \in At(f, k)
        BY <2>2, <4>11, <4>13
      <4>. QED
        BY <1>6, <4>7, <4>11, <4>14 DEF T
    <3>. HIDE DEF n, n1
    <3>4. Booked(f, k, LSRefreshTime, left)
      BY <2>2, <3>3 DEF Booked, n1
    <3>. QED
      BY <3>2, <3>4
  <2>. QED
    BY <2>4, <2>5, <2>6 DEF Fine
<1>14. ASSUME NEW k \in Lsa, Redone(m, f, k), At(m, k) # {}
       PROVE  Fine(f, k, oldest, soonest, LSRefreshTime, left) /\ Line(c, f, k)
  <2>1. Fine(d, k, oldest, soonest, LSRefreshTime, MaxAgeDiff) /\ Line(c, d, k)
    BY DEF Good
  <2>2. SameKey(d, m, k)
    BY <1>4, <1>5 DEF SameKey
  <2>3. k \in Own /\ KeyOutcome(m, f, k, want[k], TRUE)
    BY <1>14 DEF Redone, KeyOutcome
  <2>4. Sane(m, k, oldest)
    BY <2>1, <2>2 DEF Fine, Sane, SameKey
  <2>5. ~SameKey(m, f, k)
    <3>1. At(f, k) = {}
      BY <1>14, RedoneGone
    <3>. QED
      BY <1>14, <3>1 DEF SameKey
  <2>6. Fine(f, k, oldest, soonest, LSRefreshTime, left)
    <3>. HIDE DEF oldest, soonest, left
    <3>. QED
      BY <1>4, <1>11, <2>3, <2>4, <2>5, FineMade
  <2>7. Line(c, m, k)
    BY <2>1, <2>2, LineSame
  <2>8. c.db[k] # Nothing => m.db[k] # Nothing /\ Lasting(c.db[k], m, k)
    BY <1>4, <1>14, <2>7, NotRenewed
  <2>9. Line(c, f, k)
    BY <1>4, <2>3, <2>8, LineMade
  <2>. QED
    BY <2>6, <2>9
<1>15. \A k \in Lsa : Fine(f, k, oldest, soonest, LSRefreshTime, left) /\ Line(c, f, k)
  BY <1>6, <1>13, <1>14
<1>. QED
  BY <1>10, <1>15 DEF Good, f

\* What NeverOlder says of k.
NotOlder(d, f, k) ==
    d.db[k] # Nothing /\ f.db[k] # Nothing =>
        LET x == d.db[k]
            y == f.db[k]
        IN  \/ y.seq > x.seq
            \/ y.seq = x.seq /\ (Age(x) = MaxAge => Age(y) = MaxAge)
            \/ /\ x.seq = MaxLSSeq /\ ~dbx
               /\ nbrs = {} \/ (Age(x) = MaxAge /\ x.rxmt = {})

\* What Tick has made of k before free_maxage_lsas is not older.
LEMMA LineNotOlder ==
    ASSUME NEW c \in Databases, NEW d \in Databases, NEW k \in Lsa,
           Sane(c, k, MaxAge - 1), Line(c, d, k)
    PROVE  NotOlder(c, d, k)
<1>. SUFFICES ASSUME c.db[k] # Nothing PROVE NotOlder(c, d, k)
  BY DEF NotOlder
<1>1. c.db[k] \in Instances
  BY LsaIs
<1>2. Age(c.db[k]) = MaxAge => c.db[k].rcv = MaxAge
  <2>1. MaxAge \in Nat
    BY LimitsAre
  <2>2. c.db[k].rcv # MaxAge => Age(c.db[k]) <= MaxAge - 1 /\ Age(c.db[k]) \in Nat
    BY <1>1, AgeIs DEF Sane
  <2>. QED
    BY <2>1, <2>2
<1>3. CASE Lasting(c.db[k], d, k)
  <2>1. d.db[k].seq = c.db[k].seq /\ (c.db[k].rcv = MaxAge => d.db[k].rcv = MaxAge)
    BY <1>3 DEF Lasting
  <2>2. d.db[k].rcv = MaxAge => Age(d.db[k]) = MaxAge
    BY DEF Age
  <2>. QED
    BY <1>2, <2>1, <2>2 DEF NotOlder
<1>4. CASE Renewed(c.db[k], d, k)
  BY <1>4 DEF Renewed, NotOlder
<1>. QED
  BY <1>3, <1>4 DEF Line

\* After free_maxage_lsas the limits are those of a state again, and nothing is older.
LEMMA AfterFree ==
    ASSUME NEW c \in Databases, NEW d,
           want \in [Own -> Bodies \cup {Nothing}], nbrs \subseteq Nbr, dbx \in BOOLEAN,
           \A k \in Lsa : Sane(c, k, MaxAge - 1),
           Good(c, d, MaxAge - 1, MinLSInterval - 1, LSRefreshTime, MaxAgeDiff - 1)
    PROVE  /\ free_maxage_lsas(d) \in Schedules
           /\ \A k \in Lsa :
                 /\ Fine(free_maxage_lsas(d), k, MaxAge - 1, MinLSInterval - 1,
                         LSRefreshTime, MaxAgeDiff - 1)
                 /\ NotOlder(c, free_maxage_lsas(d), k)
<1>. DEFINE S == {k \in d.maxage : d.db[k].rxmt = {}}
            f == free_maxage_lsas(d)
            oldest == MaxAge - 1
            soonest == MinLSInterval - 1
            left == MaxAgeDiff - 1
<1>1. d \in Schedules /\ d \in Databases
  BY DEF Good, Schedules
<1>2. \A k \in Lsa : Fine(d, k, oldest, soonest, LSRefreshTime, left) /\ Line(c, d, k)
  BY DEF Good
<1>3. CASE dbx
  <2>1. f = d
    BY <1>3 DEF free_maxage_lsas
  <2>2. \A k \in Lsa : NotOlder(c, d, k)
    BY <1>1, <1>2, LineNotOlder
  <2>. QED
    BY <1>1, <1>2, <2>1, <2>2
<1>4. CASE ~dbx
  <2>1. d.maxage \in SUBSET Lsa
    BY <1>1 DEF Databases
  <2>2. \A k \in Lsa : k \in d.maxage => d.db[k] # Nothing /\ d.db[k].rcv = MaxAge
    BY <1>2 DEF Fine, Sane
  <2>3. \A k \in Lsa : d.db[k] # Nothing /\ d.db[k].rollover => k \in Own /\ d.db[k].seq = MaxLSSeq
    BY <1>2 DEF Fine, Sane
  <2>4. \A k \in S : /\ k \in Lsa /\ k \in d.maxage /\ d.db[k].rxmt = {}
                     /\ d.db[k] # Nothing /\ d.db[k].rcv = MaxAge
                     /\ d.db[k].rollover => k \in Own
    BY <2>1, <2>2, <2>3
  <2>5. PICK step \in [S \X Databases -> Databases] :
           /\ \A k \in S : \A e \in Databases : step[<<k, e>>] = FreeAgain(k, e)
           /\ Done(d, f, S, step)
    <3>. HIDE DEF f
    <3>1. \A k \in S : d.db[k] # Nothing /\ (d.db[k].rollover => k \in Own)
      BY <2>4
    <3>. QED
      BY <1>1, <1>4, <3>1, FreeLoop DEF f
  <2>. HIDE DEF S, f
  <2>6. f \in Databases /\ SameSchedule(d, f)
    BY <2>5 DEF Done
  <2>7. f \in Schedules
    BY <1>1, <2>6, ScheduleKept
  <2>8. f.bins = d.bins /\ f.bin0 = d.bin0
    BY <2>6 DEF SameSchedule
  <2>9. ASSUME NEW k \in Lsa, k \notin S
        PROVE  Fine(f, k, oldest, soonest, LSRefreshTime, left) /\ NotOlder(c, f, k)
    <3>1. SameKey(d, f, k)
      BY <2>5, <2>9 DEF Done
    <3>. HIDE DEF oldest, soonest, left
    <3>2. Fine(f, k, oldest, soonest, LSRefreshTime, left)
      BY <1>2, <2>8, <3>1, FineSame
    <3>3. Line(c, f, k)
      BY <1>2, <3>1, LineSame
    <3>4. NotOlder(c, f, k)
      BY <2>6, <3>3, LineNotOlder
    <3>. QED
      BY <3>2, <3>4
  <2>10. ASSUME NEW k \in S
         PROVE  Fine(f, k, oldest, soonest, LSRefreshTime, left) /\ NotOlder(c, f, k)
    <3>. DEFINE x == d.db[k]
    <3>1. /\ k \in Lsa /\ k \in d.maxage /\ x.rxmt = {} /\ x # Nothing /\ x.rcv = MaxAge
          /\ x.rollover => k \in Own
      BY <2>4
    <3>2. x \in Instances /\ Age(x) = MaxAge
      BY <1>1, <3>1, LsaIs, AgeIs
    <3>3. PICK e \in Databases : SameKey(d, e, k) /\ SameKey(step[<<k, e>>], f, k)
      BY <2>5 DEF Done
    <3>4. e.db[k] = x
      BY <3>3 DEF SameKey
    <3>. DEFINE g == Free(k, e)
    <3>5. SameKey(g, f, k)
      BY <2>5, <3>1, <3>3, <3>4 DEF FreeAgain
    <3>6. Freed(e, g, k)
      <4>. HIDE DEF x, g
      <4>1. e.db[k] # Nothing /\ (e.db[k].rollover => k \in Own)
        BY <3>1, <3>4
      <4>. QED
        BY <3>1, <4>1, FreeIs DEF g
    <3>. HIDE DEF g
    <3>7. c.db[k] # Nothing => Lasting(c.db[k], d, k)
      BY <1>1, <1>2, <3>1, NotRenewed
    <3>8. k \in Own \ d.echoed => Said(d, want, k, soonest)
      BY <1>2, <3>1 DEF Fine
    <3>9. CASE ~x.rollover
      <4>1. Removed(e, g, k)
        BY <3>4, <3>6, <3>9 DEF Freed
      <4>2. f.db[k] = Nothing /\ At(f, k) = {} /\ k \notin f.maxage
            /\ (k \in f.echoed <=> k \in d.echoed)
        BY <3>3, <3>5, <4>1 DEF Removed, SameKey
      <4>3. Sane(f, k, oldest)
        BY <4>2 DEF Sane
      <4>4. k \in Own \ f.echoed => Said(f, want, k, soonest)
        BY <3>1, <3>2, <3>8, <3>9, <4>2 DEF Said
      <4>5. Booked(f, k, LSRefreshTime, left)
        BY <4>2 DEF Booked
      <4>6. NotOlder(c, f, k)
        BY <4>2 DEF NotOlder
      <4>. QED
        BY <4>3, <4>4, <4>5, <4>6 DEF Fine
    <3>10. CASE x.rollover
      <4>. DEFINE y == [x EXCEPT !.rollover = FALSE, !.seq = InvalidLSSeq]
      <4>1. k \in Own /\ x.seq = MaxLSSeq
        BY <2>3, <3>1, <3>10
      <4>2. PICK m \in Databases :
               Afresh(e, m, k) /\ m.db[k] \in Instances /\ KeyOutcome(m, g, k, want[k], TRUE)
        BY <3>4, <3>6, <3>10 DEF Freed
      <4>3. m.db[k] = y /\ At(m, k) = At(d, k) /\ k \notin m.maxage
        BY <3>3, <3>4, <4>2 DEF Afresh, SameKey
      <4>4. y # Nothing /\ y.rcv = MaxAge /\ y.rollover = FALSE
        <5>1. y.rcv = x.rcv /\ y.rollover = FALSE
          <6>. HIDE DEF x
          <6>. QED
            BY <3>2 DEF Instances
        <5>. QED
          BY <3>1, <4>2, <4>3, <5>1, NothingAssumption
      <4>. HIDE DEF y
      <4>5. Sane(m, k, oldest)
        BY <4>3, <4>4 DEF Sane
      <4>6. SameKey(m, m, k)
        BY DEF SameKey
      <4>7. KeyOutcome(m, f, k, want[k], TRUE)
        BY <3>5, <4>2, <4>6, KeyMoves
      <4>8. SameKey(m, f, k) => Booked(f, k, LSRefreshTime, left)
        BY <4>3, <4>4 DEF SameKey, Booked
      <4>9. oldest \in Nat /\ soonest \in Nat /\ MinLSInterval <= soonest + 1
            /\ MinLSInterval <= LSRefreshTime /\ LSRefreshTime \in Nat
        BY LimitsAre
      <4>10. Fine(f, k, oldest, soonest, LSRefreshTime, left)
        <5>. HIDE DEF oldest, soonest, left
        <5>. QED
          BY <4>1, <4>5, <4>7, <4>8, <4>9, FineMade
      <4>11. NotOlder(c, f, k)
        <5>. SUFFICES ASSUME c.db[k] # Nothing PROVE NotOlder(c, f, k)
          BY DEF NotOlder
        <5>. DEFINE z == c.db[k]
        <5>1. Lasting(z, d, k)
          BY <3>7
        <5>2. z.seq = MaxLSSeq
          BY <4>1, <5>1 DEF Lasting
        <5>3. nbrs = {} \/ (z.rcv = MaxAge /\ z.rxmt = {})
          BY <3>1, <5>1 DEF Lasting
        <5>4. z.rcv = MaxAge => Age(z) = MaxAge
          BY DEF Age
        <5>. QED
          BY <1>4, <5>2, <5>3, <5>4 DEF NotOlder
      <4>. QED
        BY <4>10, <4>11
    <3>. QED
      BY <3>9, <3>10
  <2>. QED
    BY <2>7, <2>9, <2>10 DEF f
<1>. QED
  BY <1>1, <1>3, <1>4

\* What is true in every state.
Limits(d, k) == Fine(d, k, MaxAge - 1, MinLSInterval - 1, LSRefreshTime, MaxAgeDiff - 1)

Inv == TypeOK /\ \A k \in Lsa : Limits(ospf, k)

\* The type invariant in the terms of the lemmas.
LEMMA TypeIs ==
    TypeOK <=> /\ ospf \in Schedules
               /\ want \in [Own -> Bodies \cup {Nothing}]
               /\ nbrs \subseteq Nbr
               /\ dbx \in BOOLEAN /\ calm \in BOOLEAN
BY DEF TypeOK, Schedules, Total

\* A second, as a whole.
LEMMA TickKeeps ==
    ASSUME Inv, Tick
    PROVE  Inv' /\ \A k \in Lsa : NotOlder(ospf, ospf', k)
<1>. DEFINE d == ospf
            d1 == OneSecond(d)
            d2 == deferred_lsas(d1)
<1>1. /\ d \in Schedules /\ d \in Databases /\ want \in [Own -> Bodies \cup {Nothing}]
      /\ nbrs \subseteq Nbr /\ dbx \in BOOLEAN /\ calm \in BOOLEAN
  BY TypeIs DEF Inv, Schedules
<1>2. \A k \in Lsa : Fine(d, k, MaxAge - 1, MinLSInterval - 1, LSRefreshTime, MaxAgeDiff - 1)
  BY DEF Inv, Limits
<1>3. PICK slot \in [Own -> Slots] :
         ospf' = free_maxage_lsas(do_refreshes(maxage_lsas(
                     refresh_lsas(deferred_lsas(OneSecond(ospf)), slot))))
  BY DEF Tick
<1>4. UNCHANGED <<want, nbrs, dbx, calm>>
  BY DEF Tick
<1>. DEFINE d3 == refresh_lsas(d2, slot)
            d4 == maxage_lsas(d3)
            d5 == do_refreshes(d4)
            f == free_maxage_lsas(d5)
<1>5. ospf' = f
  BY <1>3
<1>. HIDE DEF d
<1>6. /\ Good(d, d1, MaxAge, MinLSInterval, LSRefreshTime + 1, MaxAgeDiff)
      /\ \A k \in Lsa : d.db[k] # Nothing => d1.db[k] # Nothing /\ Lasting(d.db[k], d1, k)
  BY <1>1, <1>2, AfterSecond
<1>. HIDE DEF d1
<1>7. Good(d, d2, MaxAge, MinLSInterval - 1, LSRefreshTime + 1, MaxAgeDiff)
  BY <1>1, <1>6, AfterDeferred
<1>. HIDE DEF d2
<1>8. Good(d, d3, MaxAge, MinLSInterval - 1, LSRefreshTime, MaxAgeDiff)
  BY <1>7, AfterRefresh
<1>. HIDE DEF d3
<1>9. Good(d, d4, MaxAge - 1, MinLSInterval - 1, LSRefreshTime, MaxAgeDiff)
  BY <1>1, <1>8, AfterMaxage
<1>. HIDE DEF d4
<1>10. Good(d, d5, MaxAge - 1, MinLSInterval - 1, LSRefreshTime, MaxAgeDiff - 1)
  BY <1>1, <1>9, AfterRefreshes
<1>. HIDE DEF d5
<1>11. \A k \in Lsa : Sane(d, k, MaxAge - 1)
  BY <1>2 DEF Fine
<1>12. /\ f \in Schedules
       /\ \A k \in Lsa : /\ Fine(f, k, MaxAge - 1, MinLSInterval - 1,
                                 LSRefreshTime, MaxAgeDiff - 1)
                         /\ NotOlder(d, f, k)
  BY <1>1, <1>10, <1>11, AfterFree
<1>. HIDE DEF f
<1>13. TypeOK'
  <2>1. /\ ospf' \in Schedules
        /\ want' \in [Own -> Bodies \cup {Nothing}]
        /\ nbrs' \subseteq Nbr
        /\ dbx' \in BOOLEAN /\ calm' \in BOOLEAN
    BY <1>1, <1>4, <1>5, <1>12
  <2>. QED
    BY <2>1 DEF TypeOK, Schedules, Total, MapThenSumSet, MapThenFoldSet
<1>14. ASSUME NEW k \in Lsa PROVE Limits(ospf, k)'
  <2>1. Limits(f, k)
    BY <1>12 DEF Limits
  <2>. QED
    BY <1>4, <1>5, <2>1 DEF Limits, Fine, Sane, Said, Booked, At
<1>. QED
  BY <1>5, <1>12, <1>13, <1>14 DEF Inv, d

-----------------------------------------------------------------------------
(* The other steps. *)

Suits(d, w, k) ==
    /\ Sane(d, k, MaxAge - 1)
    /\ k \in Own \ d.echoed =>
          Said(d, w, k, MinLSInterval - 1) /\ Booked(d, k, LSRefreshTime, MaxAgeDiff - 1)

\* The invariant in the terms of the lemmas.
LEMMA InvIs ==
    Inv <=> /\ ospf \in Schedules
            /\ want \in [Own -> Bodies \cup {Nothing}]
            /\ nbrs \subseteq Nbr
            /\ dbx \in BOOLEAN /\ calm \in BOOLEAN
            /\ \A k \in Lsa : Suits(ospf, want, k)
BY TypeIs DEF Inv, Limits, Fine, Suits

\* The same of the next state.
LEMMA InvAfter ==
    ASSUME /\ ospf' \in Schedules
           /\ want' \in [Own -> Bodies \cup {Nothing}]
           /\ nbrs' \subseteq Nbr
           /\ dbx' \in BOOLEAN /\ calm' \in BOOLEAN
           /\ \A k \in Lsa : Suits(ospf', want', k)
    PROVE  Inv'
<1>1. TypeOK'
  BY DEF TypeOK, Schedules, Total, MapThenSumSet, MapThenFoldSet
<1>2. \A k \in Lsa : Limits(ospf, k)'
  BY DEF Suits, Limits, Fine, Sane, Said, Booked, At
<1>. QED
  BY <1>1, <1>2 DEF Inv

\* What a step does not change stays right, as long as the interfaces want the same.
LEMMA SameSuits ==
    ASSUME NEW d, NEW f, NEW w, NEW v, NEW k, Suits(d, w, k),
           SameKey(d, f, k), SameSchedule(d, f), k \in Own => v[k] = w[k]
    PROVE  Suits(f, v, k) /\ NotOlder(d, f, k)
<1>1. /\ f.db[k] = d.db[k] /\ At(f, k) = At(d, k) /\ f.bins = d.bins /\ f.bin0 = d.bin0
      /\ k \in f.maxage <=> k \in d.maxage
      /\ k \in f.echoed <=> k \in d.echoed
  BY DEF SameKey, SameSchedule
<1>2. Sane(f, k, MaxAge - 1)
  BY <1>1 DEF Suits, Sane
<1>3. k \in Own \ f.echoed =>
         Said(f, v, k, MinLSInterval - 1) /\ Booked(f, k, LSRefreshTime, MaxAgeDiff - 1)
  BY <1>1 DEF Suits, Said, Booked
<1>4. NotOlder(d, f, k)
  BY <1>1 DEF NotOlder
<1>. QED
  BY <1>2, <1>3, <1>4 DEF Suits

\* An origination that an action asks for.
LEMMA OrigSuits ==
    ASSUME NEW d \in Schedules, NEW k \in Own, NEW w, NEW v \in [Own -> Bodies \cup {Nothing}],
           \A q \in Lsa : Suits(d, w, q), \A q \in Own \ {k} : v[q] = w[q], nbrs \subseteq Nbr,
           NEW f, f = orig(d, k, v, FALSE)
    PROVE  f \in Schedules /\ \A q \in Lsa : Suits(f, v, q) /\ NotOlder(d, f, q)
<1>. DEFINE soonest == MinLSInterval - 1
            oldest == MaxAge - 1
            left == MaxAgeDiff - 1
<1>1. d \in Databases /\ k \in Lsa
  BY DEF Schedules, Lsa
<1>2. Only(d, f, k) /\ KeyOutcome(d, f, k, v[k], FALSE)
  <2>1. Outcome(d, f, k, v[k], FALSE)
    BY <1>1, OrigIs
  <2>. QED
    BY <1>1, <2>1, OutcomeOfKey
<1>3. f \in Databases /\ SameSchedule(d, f) /\ f \in Schedules
  <2>1. f \in Databases /\ SameSchedule(d, f)
    BY <1>2 DEF Only
  <2>. QED
    BY <2>1, ScheduleKept
<1>4. ASSUME NEW q \in Lsa, q # k PROVE Suits(f, v, q) /\ NotOlder(d, f, q)
  <2>1. SameKey(d, f, q)
    BY <1>2, <1>4 DEF Only
  <2>. QED
    BY <1>3, <1>4, <2>1, SameSuits
<1>5. Sane(d, k, oldest)
  BY <1>1 DEF Suits
<1>6. /\ oldest \in Nat /\ soonest \in Nat /\ MinLSInterval <= soonest + 1
      /\ MinLSInterval <= LSRefreshTime /\ LSRefreshTime \in Nat
  BY LimitsAre
<1>7. SameKey(d, f, k) /\ k \notin f.echoed => Booked(f, k, LSRefreshTime, left)
  BY <1>1, <1>3 DEF SameKey, SameSchedule, Suits, Booked
<1>8. Suits(f, v, k)
  <2>. HIDE DEF soonest, oldest, left
  <2>1. /\ Sane(f, k, oldest) /\ Said(f, v, k, soonest)
        /\ k \notin f.echoed => Booked(f, k, LSRefreshTime, left)
    BY <1>1, <1>2, <1>5, <1>6, <1>7, MadeIsFine
  <2>. QED
    BY <2>1 DEF Suits, soonest, oldest, left
<1>9. NotOlder(d, f, k)
  <2>1. d.db[k] # Nothing => d.db[k] # Nothing /\ Lasting(d.db[k], d, k)
    BY <1>5 DEF Sane, Lasting
  <2>2. Line(d, f, k)
    BY <1>1, <1>2, <2>1, LineMade
  <2>. QED
    BY <1>1, <1>3, <1>5, <2>2, LineNotOlder
<1>. QED
  BY <1>3, <1>4, <1>8, <1>9

\* A change of the interfaces, or an origination without one.
LEMMA ChangeKeeps ==
    ASSUME Inv, NEW k \in Own, Change(k)
    PROVE  Inv' /\ \A q \in Lsa : NotOlder(ospf, ospf', q)
<1>1. /\ ospf \in Schedules
      /\ want \in [Own -> Bodies \cup {Nothing}]
      /\ nbrs \subseteq Nbr
      /\ dbx \in BOOLEAN /\ calm \in BOOLEAN
      /\ \A q \in Lsa : Suits(ospf, want, q)
  BY InvIs
<1>2. PICK body \in Bodies \cup {Nothing} :
         /\ ~calm
         /\ want' = [want EXCEPT ![k] = body]
         /\ ospf' = orig(ospf, k, want', FALSE)
         /\ UNCHANGED <<nbrs, dbx, calm>>
  BY DEF Change
<1>3. want' \in [Own -> Bodies \cup {Nothing}] /\ \A q \in Own \ {k} : want'[q] = want[q]
  BY <1>1, <1>2
<1>4. ospf' \in Schedules /\ \A q \in Lsa : Suits(ospf', want', q) /\ NotOlder(ospf, ospf', q)
  BY <1>1, <1>2, <1>3, OrigSuits
<1>5. Inv'
  BY <1>1, <1>2, <1>3, <1>4, InvAfter
<1>. QED
  BY <1>4, <1>5

\* An instance that differs in who has to acknowledge it.
LEMMA MarkedIs ==
    ASSUME NEW d \in Databases, NEW f, NEW w, NEW k \in Lsa, Suits(d, w, k),
           At(f, k) = At(d, k), f.bins = d.bins, f.bin0 = d.bin0,
           f.maxage = d.maxage, f.echoed = d.echoed,
           d.db[k] = Nothing => f.db[k] = Nothing,
           d.db[k] # Nothing => \E R \in SUBSET Nbr : f.db[k] = [d.db[k] EXCEPT !.rxmt = R]
    PROVE  Suits(f, w, k) /\ NotOlder(d, f, k)
<1>. DEFINE x == d.db[k]
            y == f.db[k]
<1>1. CASE x = Nothing
  <2>1. SameKey(d, f, k)
    BY <1>1 DEF SameKey
  <2>2. Sane(f, k, MaxAge - 1) /\ NotOlder(d, f, k)
    BY <2>1 DEF SameKey, Suits, Sane, NotOlder
  <2>3. k \in Own \ f.echoed =>
           Said(f, w, k, MinLSInterval - 1) /\ Booked(f, k, LSRefreshTime, MaxAgeDiff - 1)
    BY <1>1, <2>1 DEF SameKey, Suits, Said, Booked
  <2>. QED
    BY <2>2, <2>3 DEF Suits
<1>2. CASE x # Nothing
  <2>1. x \in Instances
    BY <1>2, LsaIs
  <2>2. PICK R \in SUBSET Nbr : y = [x EXCEPT !.rxmt = R]
    BY <1>2
  <2>. HIDE DEF x, y
  <2>3. /\ y # Nothing /\ Age(y) = Age(x) /\ y.rcv = x.rcv /\ y.body = x.body
    BY <2>1, <2>2, InstanceIs
  <2>4. y.seq = x.seq /\ y.rollover = x.rollover /\ y.deferring = x.deferring
    BY <2>1, <2>2 DEF Instances
  <2>5. Sane(f, k, MaxAge - 1)
    BY <1>2, <2>3, <2>4 DEF Suits, Sane, x, y
  <2>6. NotOlder(d, f, k)
    BY <2>3, <2>4 DEF NotOlder, x, y
  <2>7. ASSUME k \in Own \ f.echoed
        PROVE  Said(f, w, k, MinLSInterval - 1) /\ Booked(f, k, LSRefreshTime, MaxAgeDiff - 1)
    <3>1. Said(d, w, k, MinLSInterval - 1) /\ Booked(d, k, LSRefreshTime, MaxAgeDiff - 1)
      BY <2>7 DEF Suits
    <3>2. Said(f, w, k, MinLSInterval - 1)
      BY <1>2, <2>3, <2>4, <3>1 DEF Said, x, y
    <3>3. Booked(f, k, LSRefreshTime, MaxAgeDiff - 1)
      BY <1>2, <2>3, <3>1 DEF Booked, x, y
    <3>. QED
      BY <3>2, <3>3
  <2>. QED
    BY <2>5, <2>6, <2>7 DEF Suits
<1>. QED
  BY <1>1, <1>2

\* Who has to acknowledge an LSA.
LEMMA MarkedBy ==
    ASSUME Inv, NEW k \in Lsa, ospf.db[k] # Nothing
    PROVE  ospf.db[k].rxmt \in SUBSET Nbr
<1>1. ospf \in Databases
  BY InvIs DEF Schedules
<1>2. ospf.db[k] \in Instances
  BY <1>1, LsaIs
<1>. QED
  BY <1>2 DEF Instances

\* Only who has to acknowledge an LSA changes.
LEMMA MarkKeeps ==
    ASSUME Inv, NEW k \in Lsa, NEW R \in SUBSET Nbr, ospf.db[k] # Nothing,
           ospf' = [ospf EXCEPT !.db[k].rxmt = R], UNCHANGED <<want, nbrs, dbx, calm>>
    PROVE  Inv' /\ \A q \in Lsa : NotOlder(ospf, ospf', q)
<1>. DEFINE d == ospf
            f == ospf'
            x == d.db[k]
            y == [x EXCEPT !.rxmt = R]
<1>1. /\ ospf \in Schedules
      /\ want \in [Own -> Bodies \cup {Nothing}]
      /\ nbrs \subseteq Nbr
      /\ dbx \in BOOLEAN /\ calm \in BOOLEAN
      /\ \A q \in Lsa : Suits(ospf, want, q)
  BY InvIs
<1>2. /\ d.db[k] # Nothing
      /\ ospf' = [ospf EXCEPT !.db[k].rxmt = R]
      /\ UNCHANGED <<want, nbrs, dbx, calm>>
  OBVIOUS
<1>3. d \in Databases
  BY <1>1 DEF Schedules
<1>4. x \in Instances
  BY <1>2, <1>3, LsaIs
<1>5. f = Put(d, k, y, d.maxage, d.echoed, d.pending)
  <2>1. f = [d EXCEPT !.db = [d.db EXCEPT ![k] = y]]
    BY <1>2
  <2>. DEFINE db == [d.db EXCEPT ![k] = y]
  <2>. HIDE DEF db, f, d
  <2>. QED
    BY <1>3, <2>1, LsaIs DEF Put, db
<1>6. y = [x EXCEPT !.rxmt = R] /\ R \in SUBSET Nbr
  OBVIOUS
<1>7. /\ d.maxage \in SUBSET Lsa /\ d.echoed \in SUBSET Own
      /\ Alike(d.maxage, d.maxage, k) /\ Alike(d.echoed, d.echoed, k)
  <2>. HIDE DEF d
  <2>. QED
    BY <1>3, LsaIs DEF Alike
<1>. HIDE DEF y, x
<1>8. y \in Instances \cup {Nothing}
  BY <1>4, <1>6, InstanceIs
<1>. HIDE DEF d, f
<1>9. Results(d, f, k, y, d.maxage, d.echoed, d.pending)
  BY <1>3, <1>5, <1>7, <1>8, OnlyIs
<1>10. /\ Only(d, f, k) /\ f.db[k] = y /\ f.maxage = d.maxage /\ f.echoed = d.echoed
       /\ At(f, k) = At(d, k)
  BY <1>9 DEF Results
<1>11. f \in Databases /\ SameSchedule(d, f) /\ f \in Schedules
  BY <1>1, <1>10, ScheduleKept DEF Only, d
<1>12. ASSUME NEW q \in Lsa PROVE Suits(f, want, q) /\ NotOlder(d, f, q)
  <2>1. Suits(d, want, q)
    BY <1>1 DEF d
  <2>2. CASE q = k
    <3>1. d.db[q] # Nothing /\ f.db[q] = [d.db[q] EXCEPT !.rxmt = R]
      BY <1>2, <1>6, <1>10, <2>2 DEF x
    <3>2. f.bins = d.bins /\ f.bin0 = d.bin0 /\ At(f, q) = At(d, q)
      BY <1>10, <1>11, <2>2 DEF SameSchedule
    <3>. QED
      BY <1>3, <1>6, <1>10, <2>1, <3>1, <3>2, MarkedIs
  <2>3. CASE q # k
    <3>1. SameKey(d, f, q)
      BY <1>10, <2>3 DEF Only
    <3>. QED
      BY <1>11, <2>1, <3>1, SameSuits
  <2>. QED
    BY <2>2, <2>3
<1>13. Inv'
  BY <1>1, <1>2, <1>11, <1>12, InvAfter DEF f
<1>. QED
  BY <1>12, <1>13 DEF d, f

\* An acknowledgement.
LEMMA AckKeeps ==
    ASSUME Inv, NEW k \in Lsa, NEW n \in Nbr, RecvAck(k, n)
    PROVE  Inv' /\ \A q \in Lsa : NotOlder(ospf, ospf', q)
<1>. DEFINE R == ospf.db[k].rxmt \ {n}
<1>1. /\ ospf.db[k] # Nothing
      /\ ospf' = [ospf EXCEPT !.db[k].rxmt = R]
      /\ UNCHANGED <<want, nbrs, dbx, calm>>
  BY DEF RecvAck
<1>2. R \in SUBSET Nbr
  BY <1>1, MarkedBy
<1>. HIDE DEF R
<1>. QED
  BY <1>1, <1>2, MarkKeeps

\* A neighbour that is sent an LSA of MaxAge.
LEMMA SendDDKeeps ==
    ASSUME Inv, NEW k \in Lsa, NEW n \in Nbr, SendDD(k, n)
    PROVE  Inv' /\ \A q \in Lsa : NotOlder(ospf, ospf', q)
<1>. DEFINE R == ospf.db[k].rxmt \cup {n}
<1>1. /\ ospf.db[k] # Nothing
      /\ ospf' = [ospf EXCEPT !.db[k].rxmt = R]
      /\ UNCHANGED <<want, nbrs, dbx, calm>>
  BY DEF SendDD
<1>2. R \in SUBSET Nbr
  BY <1>1, MarkedBy
<1>. HIDE DEF R
<1>. QED
  BY <1>1, <1>2, MarkKeeps

\* A neighbour that leaves: nobody waits for its acknowledgements.
LEMMA DownKeeps ==
    ASSUME Inv, NEW n \in Nbr, NbrDown(n)
    PROVE  Inv' /\ \A q \in Lsa : NotOlder(ospf, ospf', q)
<1>. DEFINE less(x) == IF x = Nothing THEN Nothing ELSE [x EXCEPT !.rxmt = @ \ {n}]
            db == [k \in Lsa |-> less(ospf.db[k])]
<1>1. /\ ospf \in Schedules
      /\ want \in [Own -> Bodies \cup {Nothing}]
      /\ nbrs \subseteq Nbr
      /\ dbx \in BOOLEAN /\ calm \in BOOLEAN
      /\ \A q \in Lsa : Suits(ospf, want, q)
  BY InvIs
<1>2. ospf' = [ospf EXCEPT !.db = db]
  <2>. DEFINE gone == [k \in Lsa |-> IF ospf.db[k] = Nothing THEN Nothing
                                     ELSE [ospf.db[k] EXCEPT !.rxmt = @ \ {n}]]
  <2>1. ospf' = [ospf EXCEPT !.db = gone]
    BY DEF NbrDown
  <2>2. gone = db
    OBVIOUS
  <2>. HIDE DEF gone, db
  <2>. QED
    BY <2>1, <2>2
<1>3. nbrs' \subseteq Nbr /\ dbx' \in BOOLEAN /\ want' = want /\ calm' = calm
  BY <1>1 DEF NbrDown
<1>. DEFINE d == ospf
            f == ospf'
<1>4. /\ d = [db |-> d.db, maxage |-> d.maxage, pending |-> d.pending,
              bins |-> d.bins, bin0 |-> d.bin0, echoed |-> d.echoed]
      /\ d.db \in [Lsa -> Instances \cup {Nothing}] /\ d.maxage \in SUBSET Lsa
      /\ d.pending \in Seq(Entries) /\ d.bins \in [Slots -> Nat] /\ d.bin0 \in Slots
      /\ d.echoed \in SUBSET Own /\ d \in Databases /\ Total(d.bins, Slots) = Len(d.pending)
  BY <1>1 DEF Schedules, Databases, Entries
<1>5. f = [db |-> db, maxage |-> d.maxage, pending |-> d.pending,
           bins |-> d.bins, bin0 |-> d.bin0, echoed |-> d.echoed]
  <2>. HIDE DEF db, d, f
  <2>. QED
    BY <1>2, <1>4 DEF d, f
<1>6. ASSUME NEW x \in Instances
      PROVE  /\ less(x) \in Instances
             /\ \E R \in SUBSET Nbr : less(x) = [x EXCEPT !.rxmt = R]
  <2>. DEFINE R == x.rxmt \ {n}
  <2>1. R \in SUBSET Nbr
    BY DEF Instances
  <2>2. less(x) = [x EXCEPT !.rxmt = R]
    BY NothingAssumption
  <2>. HIDE DEF R, less
  <2>. QED
    BY <2>1, <2>2, InstanceIs
<1>7. less(Nothing) = Nothing
  OBVIOUS
<1>8. \A k \in Lsa : db[k] = less(d.db[k])
  OBVIOUS
<1>9. db \in [Lsa -> Instances \cup {Nothing}]
  <2>. HIDE DEF less, d
  <2>1. \A k \in Lsa : less(d.db[k]) \in Instances \cup {Nothing}
    BY <1>4, <1>6, <1>7
  <2>. QED
    BY <2>1 DEF d
<1>. HIDE DEF db, less, d, f
<1>10. /\ f.db = db /\ f.maxage = d.maxage /\ f.pending = d.pending /\ f.bins = d.bins
       /\ f.bin0 = d.bin0 /\ f.echoed = d.echoed
  BY <1>5
<1>11. f \in Databases
  BY <1>4, <1>5, <1>9 DEF Databases, Entries
<1>12. f \in Schedules
  BY <1>4, <1>10, <1>11 DEF Schedules
<1>13. ASSUME NEW q \in Lsa PROVE Suits(f, want, q) /\ NotOlder(d, f, q)
  <2>1. Suits(d, want, q)
    BY <1>1 DEF d
  <2>2. At(f, q) = At(d, q)
    BY <1>10 DEF At
  <2>3. d.db[q] \in Instances \cup {Nothing} /\ f.db[q] = less(d.db[q])
    BY <1>4, <1>8, <1>10
  <2>4. d.db[q] = Nothing => f.db[q] = Nothing
    BY <1>7, <2>3
  <2>5. d.db[q] # Nothing => \E R \in SUBSET Nbr : f.db[q] = [d.db[q] EXCEPT !.rxmt = R]
    BY <1>6, <2>3
  <2>. QED
    BY <1>4, <1>10, <2>1, <2>2, <2>4, <2>5, MarkedIs
<1>14. Inv'
  BY <1>1, <1>3, <1>12, <1>13, InvAfter DEF f
<1>. QED
  BY <1>13, <1>14 DEF d, f

\* Steps that leave the database alone.
LEMMA QuietKeeps ==
    ASSUME Inv, ospf' = ospf, want' = want,
           nbrs' \subseteq Nbr, dbx' \in BOOLEAN, calm' \in BOOLEAN
    PROVE  Inv' /\ \A q \in Lsa : NotOlder(ospf, ospf', q)
<1>1. /\ ospf \in Schedules
      /\ want \in [Own -> Bodies \cup {Nothing}]
      /\ \A q \in Lsa : Suits(ospf, want, q)
  BY InvIs
<1>2. Inv'
  BY <1>1, InvAfter
<1>3. \A q \in Lsa : NotOlder(ospf, ospf', q)
  BY DEF NotOlder
<1>. QED
  BY <1>2, <1>3

\* An instance that neighbour n sends.
Sent(d, k, seq, rcv, body) ==
    /\ seq \in Seqs /\ rcv \in 0..MaxAge /\ body \in Bodies
    /\ d.db[k] # Nothing /\ d.db[k].rollover => seq > d.db[k].seq
    /\ d.db[k] # Nothing => \/ seq > d.db[k].seq
                            \/ seq = d.db[k].seq /\ Age(d.db[k]) # MaxAge

\* An instance newer than the copy has a larger number, or the same and a copy below
\* MaxAge; a copy that rolls over has neither.
LEMMA NewerIs ==
    ASSUME NEW d \in Databases, NEW k \in Lsa, Sane(d, k, MaxAge - 1),
           NEW seq \in InitLSSeq..MaxLSSeq, NEW rcv \in RcvAges, NEW body \in Bodies,
           Newer(d.db[k], seq, rcv)
    PROVE  Sent(d, k, seq, rcv, body) /\ RolledOver(d.db[k]) = FALSE
<1>. DEFINE x == d.db[k]
<1>1. seq \in Seqs /\ rcv \in 0..MaxAge /\ seq <= MaxLSSeq
  BY LifeAssumption DEF Seqs, InvalidLSSeq
<1>2. x # Nothing => seq > x.seq \/ (seq = x.seq /\ Age(x) # MaxAge)
  BY DEF Newer
<1>3. x # Nothing /\ x.rollover => x.seq = MaxLSSeq /\ Age(x) = MaxAge
  BY DEF Sane, Age
<1>4. ~(x # Nothing /\ x.rollover)
  <2>. SUFFICES ASSUME x # Nothing, x.rollover PROVE FALSE
    OBVIOUS
  <2>1. seq > MaxLSSeq
    BY <1>2, <1>3
  <2>2. MaxLSSeq \in Nat /\ seq \in Int
    BY LifeAssumption
  <2>. QED
    BY <1>1, <2>1, <2>2
<1>5. RolledOver(x) = FALSE
  BY <1>4 DEF RolledOver
<1>. QED
  BY <1>1, <1>2, <1>4, <1>5 DEF Sent

\* Of a new instance, what concerns k.
LEMMA AddedIsAnew ==
    ASSUME NEW d, NEW e, NEW k, NEW seq, NEW rcv, NEW body, NEW ro, NEW rxmt,
           Added(d, e, k, seq, rcv, body, ro, rxmt)
    PROVE  Only(d, e, k) /\ Anew(e, k, seq, rcv, body, ro, rxmt)
BY DEF Added, Anew

\* A new instance is sane.
LEMMA AnewIsSane ==
    ASSUME NEW e, NEW k, NEW seq, NEW rcv \in 0..MaxAge, NEW body, NEW ro, NEW rxmt,
           Anew(e, k, seq, rcv, body, ro, rxmt),
           ro => k \in Own /\ seq = MaxLSSeq /\ rcv = MaxAge
    PROVE  Sane(e, k, MaxAge - 1) /\ Age(e.db[k]) = rcv
<1>1. MaxAge \in Nat /\ rcv \in Nat /\ rcv <= MaxAge
  BY LimitsAre
<1>2. e.db[k].rcv = rcv /\ e.db[k].since = 0 /\ e.db[k].rollover = ro /\ e.db[k] # Nothing
      /\ e.db[k].seq = seq /\ At(e, k) = {} /\ (k \in e.maxage <=> rcv = MaxAge)
  BY DEF Anew
<1>3. Age(e.db[k]) = rcv
  BY <1>1, <1>2 DEF Age
<1>4. rcv # MaxAge => rcv <= MaxAge - 1
  BY <1>1
<1>. QED
  BY <1>2, <1>3, <1>4 DEF Sane

\* What recv_update makes of k: not an older instance, and, of an own LSA that was
\* originated, one that says what it is to say.
Taken(d, f, k) == Only(d, f, k) /\ Suits(f, want, k) /\ NotOlder(d, f, k)

\* An instance of MaxAge that answers one of MaxAge, or of nothing.
LEMMA FlushedIsTaken ==
    ASSUME NEW d \in Databases, NEW f, NEW k \in Own, NEW seq, NEW rcv, NEW body, NEW ro, NEW rxmt,
           Sent(d, k, seq, rcv, body), Suits(d, want, k),
           Added(d, f, k, seq, MaxAge, body, ro, rxmt), SameEcho(d, f),
           \/ ~ro /\ (d.db[k] = Nothing \/ Age(d.db[k]) = MaxAge)
           \/ ro /\ seq = MaxLSSeq /\ Age(d.db[k]) # MaxAge,
           RolledOver(d.db[k]) = FALSE
    PROVE  Taken(d, f, k)
<1>. DEFINE x == d.db[k]
            y == f.db[k]
            oldest == MaxAge
<1>0. MaxAge \in 0..MaxAge /\ MaxAge \in Nat \ {0} /\ LSRefreshTime \in Nat \ {0} /\ k \in Lsa
  BY LimitsAre DEF Lsa
<1>1. Only(d, f, k) /\ Anew(f, k, seq, MaxAge, body, ro, rxmt)
  BY AddedIsAnew
<1>2. ro => k \in Own /\ seq = MaxLSSeq
  OBVIOUS
<1>3. Sane(f, k, MaxAge - 1) /\ Age(y) = MaxAge
  <2>. HIDE DEF y
  <2>1. ro => k \in Own /\ seq = MaxLSSeq /\ MaxAge = MaxAge
    BY <1>2
  <2>. QED
    BY <1>0, <1>1, <2>1, AnewIsSane DEF y
<1>4. Booked(f, k, LSRefreshTime, MaxAgeDiff - 1)
  BY <1>0, <1>1, AnewIsBooked
<1>5. y # Nothing /\ y.rollover = ro /\ y.seq = seq
  BY <1>1 DEF Anew
<1>6. ASSUME k \notin f.echoed PROVE Said(f, want, k, MinLSInterval - 1)
  <2>1. k \notin d.echoed
    BY <1>6 DEF SameEcho
  <2>2. Said(d, want, k, MinLSInterval - 1)
    BY <2>1 DEF Suits
  <2>3. CASE ro
    BY <1>3, <1>5, <2>3 DEF Said
  <2>4. CASE x = Nothing
    BY <1>3, <1>5, <2>2, <2>4 DEF Said
  <2>5. CASE x # Nothing /\ Age(x) = MaxAge
    <3>1. ~x.rollover
      BY <2>5 DEF RolledOver
    <3>2. x \in Instances
      BY <1>0, <2>5, LsaIs
    <3>3. ~(Age(x) <= MinLSInterval - 1)
      BY <2>5, LimitsAre
    <3>4. want[k] = Nothing
      BY <2>2, <2>5, <3>1, <3>3 DEF Said
    <3>. QED
      BY <1>3, <1>5, <3>4 DEF Said
  <2>. QED
    BY <2>3, <2>4, <2>5
<1>7. NotOlder(d, f, k)
  BY <1>3, <1>5 DEF Sent, NotOlder
<1>. QED
  BY <1>1, <1>3, <1>4, <1>6, <1>7 DEF Taken, Suits

\* A number is never smaller after an origination.
LEMMA OutcomeIsNewer ==
    ASSUME NEW d \in Databases, NEW e, NEW k \in Lsa, NEW body, NEW forced,
           KeyOutcome(d, e, k, body, forced), d.db[k] # Nothing
    PROVE  e.db[k] # Nothing /\ e.db[k].seq >= d.db[k].seq
<1>. DEFINE x == d.db[k]
            y == e.db[k]
<1>1. x \in Instances
  BY LsaIs
<1>2. x.seq \in Int
  BY <1>1, SeqsAre DEF Instances
<1>3. CASE KeyPutOff(d, e, k)
  <2>1. y = [x EXCEPT !.deferring = TRUE]
    BY <1>3 DEF KeyPutOff
  <2>. HIDE DEF x, y
  <2>2. y # Nothing
    BY <1>1, <2>1, InstanceIs
  <2>3. y.seq = x.seq
    BY <1>1, <2>1 DEF Instances
  <2>. QED
    BY <1>2, <2>2, <2>3 DEF x, y
<1>4. CASE KeyRolled(d, e, k)
  BY <1>2, <1>4 DEF KeyRolled, Anew
<1>5. CASE KeyFlushed(d, e, k)
  BY <1>2, <1>5 DEF KeyFlushed, Anew
<1>6. CASE KeyMade(d, e, k, body)
  BY <1>2, <1>6 DEF KeyMade, Anew, Number
<1>7. CASE SameKey(d, e, k)
  BY <1>2, <1>7 DEF SameKey
<1>. QED
  BY <1>3, <1>4, <1>5, <1>6, <1>7 DEF KeyOutcome

\* An own LSA that is originated again because a neighbour has sent it.
LEMMA AnsweredIsTaken ==
    ASSUME NEW d \in Databases, NEW m, NEW f, NEW k \in Own, NEW seq, NEW rcv, NEW body, NEW rxmt,
           want \in [Own -> Bodies \cup {Nothing}], nbrs \subseteq Nbr,
           Sent(d, k, seq, rcv, body), d.db[k] # Nothing, Age(d.db[k]) # MaxAge,
           Added(d, m, k, seq, rcv, body, FALSE, rxmt),
           f = orig(m, k, want, TRUE)
    PROVE  Taken(d, f, k)
<1>. DEFINE oldest == MaxAge - 1
            soonest == MinLSInterval - 1
            left == MaxAgeDiff - 1
<1>1. Only(d, m, k) /\ Anew(m, k, seq, rcv, body, FALSE, rxmt)
  BY AddedIsAnew
<1>2. m \in Databases /\ k \in Lsa
  BY <1>1 DEF Only, Lsa
<1>3. Only(m, f, k) /\ KeyOutcome(m, f, k, want[k], TRUE)
  <2>1. Outcome(m, f, k, want[k], TRUE)
    BY <1>2, OrigIs
  <2>. QED
    BY <1>2, <2>1, OutcomeOfKey
<1>4. Only(d, f, k)
  BY <1>1, <1>3, OnlyTrans
<1>5. Sane(m, k, oldest) /\ Age(m.db[k]) = rcv
  <2>1. rcv \in 0..MaxAge
    BY DEF Sent
  <2>. QED
    BY <1>1, <2>1, AnewIsSane
<1>6. SameKey(m, f, k) /\ UpToDate(m, k, want[k], TRUE) /\ k \notin f.echoed
      => Booked(f, k, LSRefreshTime, left)
  <2>1. m.db[k] # Nothing /\ m.db[k].rcv = rcv
    BY <1>1 DEF Anew
  <2>2. UpToDate(m, k, want[k], TRUE) => rcv = MaxAge
    BY <1>5, <2>1 DEF UpToDate
  <2>. QED
    BY <2>1, <2>2 DEF SameKey, Booked
<1>7. /\ oldest \in Nat /\ soonest \in Nat /\ MinLSInterval <= soonest + 1
      /\ MinLSInterval <= LSRefreshTime /\ LSRefreshTime \in Nat
  BY LimitsAre
<1>8. Suits(f, want, k)
  <2>. HIDE DEF soonest, oldest, left
  <2>1. /\ Sane(f, k, oldest) /\ Said(f, want, k, soonest)
        /\ k \notin f.echoed => Booked(f, k, LSRefreshTime, left)
    BY <1>2, <1>3, <1>5, <1>6, <1>7, MadeIsFine
  <2>. QED
    BY <2>1 DEF Suits, soonest, oldest, left
<1>9. NotOlder(d, f, k)
  <2>1. m.db[k] # Nothing /\ m.db[k].seq = seq
    BY <1>1 DEF Anew
  <2>2. f.db[k] # Nothing /\ f.db[k].seq >= seq
    BY <1>2, <1>3, <2>1, OutcomeIsNewer
  <2>3. d.db[k] \in Instances /\ f.db[k] \in Instances
    <3>1. f \in Databases
      BY <1>4 DEF Only
    <3>. QED
      BY <1>2, <2>2, <3>1, LsaIs
  <2>4. d.db[k].seq \in Int /\ f.db[k].seq \in Int /\ seq \in Int
    BY <2>3, SeqsAre DEF Instances, Sent
  <2>5. seq >= d.db[k].seq
    BY <2>4 DEF Sent
  <2>6. f.db[k].seq > d.db[k].seq \/ f.db[k].seq = d.db[k].seq
    <3>. DEFINE a == f.db[k].seq
                b == d.db[k].seq
    <3>1. a \in Int /\ b \in Int /\ a >= seq /\ seq >= b
      BY <2>2, <2>4, <2>5
    <3>. HIDE DEF a, b
    <3>2. a > b \/ a = b
      BY <2>4, <3>1
    <3>. QED
      BY <3>2 DEF a, b
  <2>. QED
    BY <2>6 DEF NotOlder
<1>. QED
  BY <1>4, <1>8, <1>9 DEF Taken

\* A new instance that is flushed at once is a new one of MaxAge.
LEMMA AddedIsFlushed ==
    ASSUME NEW d \in Databases, NEW m, NEW f, NEW k \in Lsa, NEW seq, NEW rcv \in 0..MaxAge,
           NEW body, NEW ro, NEW rxmt, nbrs \subseteq Nbr,
           Added(d, m, k, seq, rcv, body, ro, rxmt), SameEcho(d, m), f = lsa_flush(m, k)
    PROVE  \E R : Added(d, f, k, seq, MaxAge, body, ro, R) /\ SameEcho(d, f)
<1>1. /\ m \in Databases /\ Only(d, m, k) /\ m.db[k] # Nothing
      /\ m.db[k].rcv = rcv /\ m.db[k].since = 0 /\ m.db[k].seq = seq
      /\ m.db[k].body = body /\ m.db[k].rollover = ro
  BY DEF Added, Only
<1>2. MaxAge \in Nat /\ rcv \in Nat
  BY LimitsAre
<1>3. Age(m.db[k]) = rcv
  BY <1>1, <1>2 DEF Age
<1>4. CASE rcv = MaxAge
  <2>1. f = m
    BY <1>1, <1>3, <1>4, FlushIs
  <2>. QED
    BY <1>4, <2>1
<1>5. CASE rcv # MaxAge
  <2>1. Added(m, f, k, seq, MaxAge, body, ro, nbrs) /\ SameEcho(m, f)
    BY <1>1, <1>3, <1>5, FlushIs
  <2>2. Added(d, f, k, seq, MaxAge, body, ro, nbrs)
    BY <1>1, <2>1, AddedAfter
  <2>3. SameEcho(d, f)
    BY <2>1 DEF SameEcho
  <2>. QED
    BY <2>2, <2>3
<1>. QED
  BY <1>4, <1>5

\* A new instance whose number is marked as the last one.
LEMMA AddedIsMarked ==
    ASSUME NEW d \in Databases, NEW m, NEW g, NEW k \in Lsa, NEW seq, NEW rcv, NEW body, NEW rxmt,
           Added(d, m, k, seq, rcv, body, FALSE, rxmt), SameEcho(d, m),
           g = [m EXCEPT !.db[k].rollover = TRUE]
    PROVE  Added(d, g, k, seq, rcv, body, TRUE, rxmt) /\ SameEcho(d, g)
<1>. DEFINE x == m.db[k]
            y == [x EXCEPT !.rollover = TRUE]
<1>1. m \in Databases /\ Only(d, m, k)
  BY DEF Added, Only
<1>2. x \in Instances /\ x.seq = seq /\ x.rcv = rcv /\ x.since = 0 /\ x.body = body
      /\ x.deferring = FALSE /\ x.rxmt = rxmt
  BY DEF Added
<1>3. g = Put(m, k, y, m.maxage, m.echoed, m.pending)
  <2>1. g = [m EXCEPT !.db = [m.db EXCEPT ![k] = y]]
    OBVIOUS
  <2>. DEFINE db == [m.db EXCEPT ![k] = y]
  <2>. HIDE DEF db, y
  <2>. QED
    BY <1>1, <2>1, LsaIs DEF Put, db
<1>. HIDE DEF x
<1>4. y \in Instances /\ y # Nothing /\ y.rcv = x.rcv /\ y.since = x.since /\ y.body = x.body
  BY <1>2, InstanceIs
<1>5. y.seq = x.seq /\ y.rollover = TRUE /\ y.deferring = x.deferring /\ y.rxmt = x.rxmt
  BY <1>2 DEF Instances
<1>6. /\ m.maxage \in SUBSET Lsa /\ m.echoed \in SUBSET Own
      /\ Alike(m.maxage, m.maxage, k) /\ Alike(m.echoed, m.echoed, k)
  BY <1>1, LsaIs DEF Alike
<1>. HIDE DEF y
<1>7. y \in Instances \cup {Nothing}
  BY <1>4
<1>8. Results(m, g, k, y, m.maxage, m.echoed, m.pending)
  BY <1>1, <1>3, <1>6, <1>7, OnlyIs
<1>9. /\ Only(m, g, k) /\ g.db[k] = y /\ g.maxage = m.maxage /\ g.echoed = m.echoed
      /\ At(g, k) = At(m, k)
  BY <1>8 DEF Results
<1>10. Only(d, g, k)
  BY <1>1, <1>9, OnlyTrans
<1>11. SameEcho(d, g)
  BY <1>9 DEF SameEcho
<1>12. At(m, k) = {} /\ (k \in m.maxage <=> rcv = MaxAge)
  BY DEF Added
<1>13. Added(d, g, k, seq, rcv, body, TRUE, rxmt)
  BY <1>2, <1>4, <1>5, <1>9, <1>10, <1>12 DEF Added
<1>. QED
  BY <1>11, <1>13

\* A newer instance of an own LSA that says something else.
LEMMA OriginatedIsTaken ==
    ASSUME NEW d \in Databases, NEW f, NEW k \in Own, NEW n, NEW seq, NEW rcv, NEW body,
           want \in [Own -> Bodies \cup {Nothing}], nbrs \subseteq Nbr,
           Sent(d, k, seq, rcv, body), Suits(d, want, k), RolledOver(d.db[k]) = FALSE,
           f = originated(d, k, n, seq, rcv, body)
    PROVE  Taken(d, f, k)
<1>. DEFINE old == d.db[k]
            added == AddLSA(d, k, seq, rcv, body)
<1>1. seq \in Seqs /\ rcv \in 0..MaxAge /\ body \in Bodies /\ k \in Lsa
  BY DEF Sent, Lsa
<1>2. Added(d, added, k, seq, rcv, body, FALSE, {}) /\ SameEcho(d, added)
  <2>. HIDE DEF added
  <2>. QED
    BY <1>1, AddIs DEF added
<1>3. CASE old = Nothing \/ Age(old) = MaxAge
  <2>1. f = lsa_flush(added, k)
    BY <1>3 DEF originated
  <2>. HIDE DEF added
  <2>2. PICK R : Added(d, f, k, seq, MaxAge, body, FALSE, R) /\ SameEcho(d, f)
    BY <1>1, <1>2, <2>1, AddedIsFlushed
  <2>. QED
    BY <1>3, <2>2, FlushedIsTaken
<1>4. CASE ~(old = Nothing \/ Age(old) = MaxAge) /\ seq = MaxLSSeq
  <2>. DEFINE g == [added EXCEPT !.db[k].rollover = TRUE]
  <2>1. f = lsa_flush(g, k)
    BY <1>4 DEF originated
  <2>2. Added(d, g, k, seq, rcv, body, TRUE, {}) /\ SameEcho(d, g)
    <3>. HIDE DEF added
    <3>. QED
      BY <1>1, <1>2, AddedIsMarked
  <2>. HIDE DEF g
  <2>3. PICK R : Added(d, f, k, seq, MaxAge, body, TRUE, R) /\ SameEcho(d, f)
    BY <1>1, <2>1, <2>2, AddedIsFlushed
  <2>. QED
    BY <1>4, <2>3, FlushedIsTaken
<1>5. CASE ~(old = Nothing \/ Age(old) = MaxAge) /\ seq # MaxLSSeq
  <2>. DEFINE m == flood(AddLSA(d, k, seq, rcv, body), k, {n})
  <2>1. f = orig(m, k, want, TRUE)
    BY <1>5 DEF originated
  <2>. DEFINE rxmt == nbrs \ {n}
  <2>. DEFINE from == {n}
  <2>2. m = flood(AddLSA(d, k, seq, rcv, body), k, from) /\ rxmt = nbrs \ from
    OBVIOUS
  <2>. HIDE DEF m, from, rxmt
  <2>3. Added(d, m, k, seq, rcv, body, RolledOver(d.db[k]), nbrs \ from)
    BY <1>1, <2>2, InstallIs
  <2>4. Added(d, m, k, seq, rcv, body, FALSE, rxmt)
    BY <2>2, <2>3
  <2>. QED
    BY <1>5, <2>1, <2>4, AnsweredIsTaken
<1>. QED
  BY <1>3, <1>4, <1>5

\* The network-LSA of another router for an own address.
LEMMA ConflictIsTaken ==
    ASSUME NEW d \in Databases, NEW f, NEW k \in Foreign, NEW n, NEW seq, NEW rcv, NEW body,
           nbrs \subseteq Nbr, Sent(d, k, seq, rcv, body), RolledOver(d.db[k]) = FALSE,
           f = originated(d, k, n, seq, rcv, body)
    PROVE  Taken(d, f, k)
<1>. DEFINE added == AddLSA(d, k, seq, rcv, body)
<1>1. seq \in Seqs /\ rcv \in 0..MaxAge /\ body \in Bodies /\ k \in Lsa
  BY DEF Sent, Lsa
<1>2. k \notin Own
  BY LifeAssumption
<1>3. f = lsa_flush(added, k)
  BY <1>2 DEF originated
<1>4. Added(d, added, k, seq, rcv, body, FALSE, {}) /\ SameEcho(d, added)
  <2>. HIDE DEF added
  <2>. QED
    BY <1>1, AddIs DEF added
<1>. HIDE DEF added
<1>5. PICK R : Added(d, f, k, seq, MaxAge, body, FALSE, R) /\ SameEcho(d, f)
  BY <1>1, <1>3, <1>4, AddedIsFlushed
<1>6. Only(d, f, k) /\ Anew(f, k, seq, MaxAge, body, FALSE, R)
  BY <1>5, AddedIsAnew
<1>7. MaxAge \in 0..MaxAge
  BY LimitsAre
<1>8. Sane(f, k, MaxAge - 1) /\ Age(f.db[k]) = MaxAge
  BY <1>6, <1>7, AnewIsSane
<1>9. NotOlder(d, f, k)
  <2>1. f.db[k] # Nothing /\ f.db[k].seq = seq
    BY <1>6 DEF Anew
  <2>. QED
    BY <1>8, <2>1 DEF Sent, NotOlder
<1>. QED
  BY <1>2, <1>6, <1>8, <1>9 DEF Taken, Suits

\* A newer instance that is accepted as it is.
LEMMA AcceptedIsTaken ==
    ASSUME NEW d \in Databases, NEW f, NEW k \in Lsa, NEW n, NEW seq, NEW rcv, NEW body,
           nbrs \subseteq Nbr, Sent(d, k, seq, rcv, body), RolledOver(d.db[k]) = FALSE,
           f = accept(d, k, n, seq, rcv, body)
    PROVE  Taken(d, f, k)
<1>. DEFINE m == flood(AddLSA(d, k, seq, rcv, body), k, {n})
            rxmt == nbrs \ {n}
<1>1. seq \in Seqs /\ rcv \in 0..MaxAge /\ body \in Bodies
  BY DEF Sent
<1>2. f = IF k \in Own THEN [m EXCEPT !.echoed = @ \cup {k}] ELSE m
  BY DEF accept
<1>. DEFINE from == {n}
<1>3. m = flood(AddLSA(d, k, seq, rcv, body), k, from) /\ rxmt = nbrs \ from
  OBVIOUS
<1>. HIDE DEF m, from, rxmt
<1>4. Added(d, m, k, seq, rcv, body, FALSE, rxmt)
  <2>1. Added(d, m, k, seq, rcv, body, RolledOver(d.db[k]), nbrs \ from)
    BY <1>1, <1>3, InstallIs
  <2>. QED
    BY <1>3, <2>1
<1>5. Only(d, m, k) /\ Anew(m, k, seq, rcv, body, FALSE, rxmt)
  BY <1>4, AddedIsAnew
<1>6. Sane(m, k, MaxAge - 1) /\ Age(m.db[k]) = rcv
  BY <1>1, <1>5, AnewIsSane
<1>7. m \in Databases /\ m.db[k] # Nothing /\ m.db[k].seq = seq
  BY <1>5 DEF Only, Anew
<1>8. /\ Only(m, f, k) /\ f.db[k] = m.db[k] /\ f.maxage = m.maxage /\ At(f, k) = At(m, k)
      /\ k \in Own => k \in f.echoed
  <2>1. CASE k \notin Own
    <3>1. f = m
      BY <1>2, <2>1
    <3>. QED
      BY <1>7, <2>1, <3>1, OnlyItself
  <2>2. CASE k \in Own
    <3>. DEFINE ec == m.echoed \cup {k}
                y == m.db[k]
    <3>1. f = [m EXCEPT !.echoed = ec]
      BY <1>2, <2>2
    <3>2. [m.db EXCEPT ![k] = y] = m.db
      BY <1>7, LsaIs
    <3>3. ec \in SUBSET Own /\ Alike(ec, m.echoed, k) /\ m.maxage \in SUBSET Lsa
          /\ Alike(m.maxage, m.maxage, k) /\ y \in Instances \cup {Nothing} /\ k \in ec
      BY <1>7, <2>2, LsaIs DEF Alike
    <3>. HIDE DEF ec, y
    <3>4. f = Put(m, k, y, m.maxage, ec, m.pending)
      BY <1>7, <3>1, <3>2, LsaIs DEF Put
    <3>5. Results(m, f, k, y, m.maxage, ec, m.pending)
      BY <1>7, <3>3, <3>4, OnlyIs
    <3>6. Only(m, f, k) /\ f.db[k] = y /\ f.maxage = m.maxage /\ f.echoed = ec /\ At(f, k) = At(m, k)
      BY <3>5 DEF Results
    <3>. QED
      BY <3>3, <3>6 DEF y
  <2>. QED
    BY <2>1, <2>2
<1>9. Only(d, f, k)
  BY <1>5, <1>8, OnlyTrans
<1>10. Sane(f, k, MaxAge - 1)
  BY <1>6, <1>8 DEF Sane
<1>11. Suits(f, want, k)
  BY <1>8, <1>10 DEF Suits
<1>12. NotOlder(d, f, k)
  <2>. SUFFICES ASSUME d.db[k] # Nothing
                PROVE  \/ f.db[k].seq > d.db[k].seq
                       \/ f.db[k].seq = d.db[k].seq /\ Age(d.db[k]) # MaxAge
    BY DEF NotOlder
  <2>. QED
    BY <1>7, <1>8 DEF Sent
<1>. QED
  BY <1>9, <1>11, <1>12 DEF Taken

\* An update of a neighbour.
LEMMA RecvKeeps ==
    ASSUME Inv, NEW k \in Lsa, NEW n \in Nbr, RecvUpdate(k, n)
    PROVE  Inv' /\ \A q \in Lsa : NotOlder(ospf, ospf', q)
<1>. DEFINE d == ospf
            f == ospf'
<1>1. /\ d \in Schedules
      /\ want \in [Own -> Bodies \cup {Nothing}]
      /\ nbrs \subseteq Nbr
      /\ dbx \in BOOLEAN /\ calm \in BOOLEAN
      /\ \A q \in Lsa : Suits(d, want, q)
  BY InvIs
<1>2. d \in Databases
  BY <1>1 DEF Schedules
<1>3. UNCHANGED <<want, nbrs, dbx, calm>>
  BY DEF RecvUpdate
<1>4. \E seq \in InitLSSeq..MaxLSSeq, rcv \in RcvAges, body \in Bodies :
         /\ Newer(ospf.db[k], seq, rcv)
         /\ \/ ospf' = originated(ospf, k, n, seq, rcv, body)
            \/ ospf' = accept(ospf, k, n, seq, rcv, body)
  BY DEF RecvUpdate
<1>5. PICK seq \in InitLSSeq..MaxLSSeq, rcv \in RcvAges, body \in Bodies :
         /\ Newer(ospf.db[k], seq, rcv)
         /\ \/ ospf' = originated(ospf, k, n, seq, rcv, body)
            \/ ospf' = accept(ospf, k, n, seq, rcv, body)
  BY <1>4
<1>6. Sane(d, k, MaxAge - 1)
  BY <1>1 DEF Suits
<1>7. Sent(d, k, seq, rcv, body) /\ RolledOver(d.db[k]) = FALSE
  BY <1>2, <1>5, <1>6, NewerIs
<1>8. Taken(d, f, k)
  <2>1. CASE k \in Own /\ f = originated(d, k, n, seq, rcv, body)
    <3>1. Suits(d, want, k)
      BY <1>1
    <3>. HIDE DEF d, f
    <3>. QED
      BY <1>1, <1>2, <1>7, <2>1, <3>1, OriginatedIsTaken
  <2>2. CASE k \in Foreign /\ f = originated(d, k, n, seq, rcv, body)
    <3>. HIDE DEF d, f
    <3>. QED
      BY <1>1, <1>2, <1>7, <2>2, ConflictIsTaken
  <2>3. CASE f = accept(d, k, n, seq, rcv, body)
    <3>. HIDE DEF d, f
    <3>. QED
      BY <1>1, <1>2, <1>7, <2>3, AcceptedIsTaken
  <2>. QED
    BY <1>5, <2>1, <2>2, <2>3 DEF Lsa
<1>. HIDE DEF d, f
<1>9. Only(d, f, k) /\ Suits(f, want, k) /\ NotOlder(d, f, k)
  BY <1>8 DEF Taken
<1>10. f \in Databases /\ SameSchedule(d, f) /\ f \in Schedules
  BY <1>1, <1>9, ScheduleKept DEF Only
<1>11. ASSUME NEW q \in Lsa PROVE Suits(f, want, q) /\ NotOlder(d, f, q)
  <2>1. CASE q = k
    BY <1>9, <2>1
  <2>2. CASE q # k
    <3>1. SameKey(d, f, q)
      BY <1>9, <2>2 DEF Only
    <3>2. Suits(d, want, q)
      BY <1>1
    <3>. QED
      BY <1>10, <3>1, <3>2, SameSuits
  <2>. QED
    BY <2>1, <2>2
<1>12. Inv'
  BY <1>1, <1>3, <1>10, <1>11, InvAfter DEF f
<1>. QED
  BY <1>11, <1>12 DEF d, f

-----------------------------------------------------------------------------
(* The theorems. *)

\* A schedule without entries has the sum 0.
LEMMA TotalZero ==
    ASSUME NEW S, IsFiniteSet(S), NEW f \in [S -> Nat], \A x \in S : f[x] = 0
    PROVE  Total(f, S) = 0
<1>. DEFINE Bad == {T \in SUBSET S : Total(f, T) # 0}
<1>. SUFFICES ASSUME Bad # {} PROVE FALSE
  BY TotalIs
<1>1. PICK T \in Bad : \A Z \in Bad : Z \subseteq T => Z = T
  <2>1. Bad \in SUBSET (SUBSET S)
    OBVIOUS
  <2>. HIDE DEF Bad
  <2>. QED
    BY <2>1, MinimalSubset
<1>2. T # {}
  BY TotalIs
<1>3. PICK x \in T : TRUE
  BY <1>2
<1>. DEFINE R == T \ {x}
<1>4. R \notin Bad /\ T \in SUBSET S /\ R \in SUBSET S /\ x \in S
  BY <1>1, <1>3
<1>5. Total(f, R) = 0
  BY <1>4
<1>6. Total(f, T) = Total(f, R) + f[x]
  BY <1>3, <1>4, TotalIs
<1>7. f[x] = 0
  BY <1>4
<1>. HIDE DEF R
<1>8. Total(f, T) = 0
  BY <1>5, <1>6, <1>7
<1>. QED
  BY <1>8

\* The empty database.
LEMMA InitIsInv == Init => Inv
<1>. SUFFICES ASSUME Init PROVE Inv
  OBVIOUS
<1>. DEFINE db == [k \in Lsa |-> Nothing]
            bins == [i \in Slots |-> 0]
            none == << >>
            nobody == {}
            zero == 0
            d == ospf
<1>1. /\ d = [db |-> db, maxage |-> nobody, pending |-> none,
              bins |-> bins, bin0 |-> zero, echoed |-> nobody]
      /\ want = [k \in Own |-> Nothing] /\ nbrs = {} /\ dbx = FALSE /\ calm = FALSE
  BY DEF Init
<1>2. db \in [Lsa -> Instances \cup {Nothing}] /\ \A k \in Lsa : db[k] = Nothing
  OBVIOUS
<1>3. /\ bins \in [Slots -> Nat] /\ \A i \in Slots : bins[i] = 0
      /\ zero \in Slots /\ nobody \in SUBSET Lsa /\ nobody \in SUBSET Own
      /\ none \in Seq(Entries) /\ Len(none) = 0
  BY SlotsAre DEF Slots
<1>4. Total(bins, Slots) = 0
  <2>. HIDE DEF bins
  <2>. QED
    BY <1>3, SlotsAre, TotalZero
<1>5. \A k : k \notin nobody
  OBVIOUS
<1>. HIDE DEF db, bins, none, nobody, zero, d
<1>6. d \in Databases
  BY <1>1, <1>2, <1>3 DEF Databases, Entries
<1>7. d.db = db /\ d.maxage = nobody /\ d.pending = none /\ d.bins = bins
  BY <1>1
<1>8. d \in Schedules
  BY <1>3, <1>4, <1>6, <1>7 DEF Schedules
<1>9. ASSUME NEW k \in Lsa PROVE Suits(d, want, k)
  <2>1. d.db[k] = Nothing /\ k \notin d.maxage
    BY <1>2, <1>5, <1>7
  <2>2. At(d, k) = {}
    BY <1>3, <1>7 DEF At
  <2>3. k \in Own => want[k] = Nothing
    BY <1>1
  <2>. QED
    BY <2>1, <2>2, <2>3 DEF Suits, Sane, Said, Booked
<1>. QED
  BY <1>1, <1>8, <1>9, InvIs DEF d

\* Every step, one of the environment that settles included.
LEMMA StepKeeps ==
    Inv /\ [Next \/ Settle]_vars => Inv' /\ \A k \in Lsa : NotOlder(ospf, ospf', k)
<1>. SUFFICES ASSUME Inv, [Next \/ Settle]_vars
              PROVE  Inv' /\ \A k \in Lsa : NotOlder(ospf, ospf', k)
  OBVIOUS
<1>1. nbrs \subseteq Nbr /\ dbx \in BOOLEAN /\ calm \in BOOLEAN
  BY InvIs
<1>2. ASSUME NEW k \in Own, Change(k) PROVE Inv' /\ \A q \in Lsa : NotOlder(ospf, ospf', q)
  BY <1>2, ChangeKeeps
<1>3. ASSUME NEW k \in Lsa, NEW n \in Nbr, RecvUpdate(k, n)
      PROVE  Inv' /\ \A q \in Lsa : NotOlder(ospf, ospf', q)
  BY <1>3, RecvKeeps
<1>4. ASSUME NEW k \in Lsa, NEW n \in Nbr, RecvAck(k, n)
      PROVE  Inv' /\ \A q \in Lsa : NotOlder(ospf, ospf', q)
  BY <1>4, AckKeeps
<1>9. ASSUME NEW k \in Lsa, NEW n \in Nbr, SendDD(k, n)
      PROVE  Inv' /\ \A q \in Lsa : NotOlder(ospf, ospf', q)
  BY <1>9, SendDDKeeps
<1>5. CASE Tick
  BY <1>5, TickKeeps
<1>6. ASSUME NEW n \in Nbr, NbrUp(n) PROVE Inv' /\ \A q \in Lsa : NotOlder(ospf, ospf', q)
  <2>1. /\ ospf' = ospf /\ want' = want
        /\ nbrs' \subseteq Nbr /\ dbx' \in BOOLEAN /\ calm' \in BOOLEAN
    BY <1>1, <1>6 DEF NbrUp
  <2>. QED
    BY <2>1, QuietKeeps
<1>7. ASSUME NEW n \in Nbr, NbrDown(n) PROVE Inv' /\ \A q \in Lsa : NotOlder(ospf, ospf', q)
  BY <1>7, DownKeeps
<1>8. CASE ExchangeOver \/ Settle \/ UNCHANGED vars
  <2>1. /\ ospf' = ospf /\ want' = want
        /\ nbrs' \subseteq Nbr /\ dbx' \in BOOLEAN /\ calm' \in BOOLEAN
    BY <1>1, <1>8 DEF ExchangeOver, Settle, vars
  <2>. QED
    BY <2>1, QuietKeeps
<1>. QED
  BY <1>2, <1>3, <1>4, <1>5, <1>6, <1>7, <1>8, <1>9 DEF Next

\* What the invariant is for.
LEMMA InvSuffices ==
    Inv => TypeOK /\ NoChangeLost /\ RefreshedInTime
<1>. SUFFICES ASSUME Inv PROVE TypeOK /\ NoChangeLost /\ RefreshedInTime
  OBVIOUS
<1>1. TypeOK
  BY DEF Inv
<1>2. /\ \A k \in Lsa : Suits(ospf, want, k)
      /\ ospf \in Databases
  BY InvIs DEF Schedules
<1>3. ASSUME NEW k \in Own, k \notin ospf.echoed
      PROVE  /\ Current(k)
             /\ Has(k) /\ ospf.db[k].rcv # MaxAge =>
                   Age(ospf.db[k]) < LSRefreshTime + MaxAgeDiff
  <2>. DEFINE x == ospf.db[k]
              a == Age(x)
  <2>1. k \in Lsa
    BY DEF Lsa
  <2>2. Said(ospf, want, k, MinLSInterval - 1) /\ Booked(ospf, k, LSRefreshTime, MaxAgeDiff - 1)
    BY <1>2, <1>3, <2>1 DEF Suits
  <2>3. x # Nothing => a \in Nat
    <3>. SUFFICES ASSUME x # Nothing PROVE a \in Nat
      OBVIOUS
    <3>1. x \in Instances
      BY <1>2, <2>1, LsaIs
    <3>2. x.rcv \in Nat /\ x.since \in Nat /\ MaxAge \in Nat
      BY <3>1, LimitsAre DEF Instances
    <3>. QED
      BY <3>2 DEF Age
  <2>4. MinLSInterval \in Nat /\ LSRefreshTime \in Nat /\ MaxAgeDiff \in Nat
    BY LimitsAre, SlotsAre
  <2>5. x # Nothing => (a <= MinLSInterval - 1 => a < MinLSInterval)
    <3>. HIDE DEF a
    <3>. QED
      BY <2>3, <2>4
  <2>6. Current(k)
    BY <2>2, <2>5 DEF Said, Current, Has
  <2>7. ASSUME Has(k), x.rcv # MaxAge PROVE a < LSRefreshTime + MaxAgeDiff
    <3>1. a \in Nat
      BY <2>3, <2>7 DEF Has
    <3>2. a >= LSRefreshTime => LSRefreshTime + (MaxAgeDiff - 1) - a \in 0..MaxAgeDiff
      BY <2>2, <2>7 DEF Booked, Has
    <3>. HIDE DEF a
    <3>. QED
      BY <2>4, <3>1, <3>2
  <2>. QED
    BY <2>6, <2>7
<1>4. NoChangeLost
  BY <1>3 DEF NoChangeLost
<1>5. RefreshedInTime
  BY <1>3 DEF RefreshedInTime
<1>. QED
  BY <1>1, <1>4, <1>5

\* The lemmas say of every LSA what the property says.
LEMMA ReplacedIs == (\A k \in Lsa : NotOlder(ospf, ospf', k)) => \A k \in Lsa : ReplacedByNewer(k)
BY DEF NotOlder, ReplacedByNewer, Has

\* The database is always well formed: in particular the seconds of the refresh schedule
\* count the entries of pending_refresh (schedule_refresh, do_refreshes).
THEOREM TypeCorrect == Spec => []TypeOK
<1>1. Init => Inv
  BY InitIsInv
<1>2. Inv /\ [Next]_vars => Inv'
  BY StepKeeps
<1>3. Inv => TypeOK
  BY InvSuffices
<1>. QED
  BY <1>1, <1>2, <1>3, PTL DEF Spec

\* For every number of LSAs and neighbours: what an own LSA says is what the state of the
\* interfaces makes it say, or it is about to, whatever neighbours send and whenever the
\* timer ticks (lsa_reorig, deferred_lsas, free_maxage_lsas).
THEOREM AlwaysNoChangeLost == Spec => []NoChangeLost
<1>1. Init => Inv
  BY InitIsInv
<1>2. Inv /\ [Next]_vars => Inv'
  BY StepKeeps
<1>3. Inv => NoChangeLost
  BY InvSuffices
<1>. QED
  BY <1>1, <1>2, <1>3, PTL DEF Spec

\* An own LSA never reaches the age LSRefreshTime + MaxAgeDiff, however many are
\* scheduled for the same second and whichever of them have left the database since
\* (refresh_lsas, schedule_refresh, do_refreshes).
THEOREM AlwaysRefreshedInTime == Spec => []RefreshedInTime
<1>1. Init => Inv
  BY InitIsInv
<1>2. Inv /\ [Next]_vars => Inv'
  BY StepKeeps
<1>3. Inv => RefreshedInTime
  BY InvSuffices
<1>. QED
  BY <1>1, <1>2, <1>3, PTL DEF Spec

\* No step, and so no second of dbage with all its parts, replaces an instance by an
\* older one, unless the number rolls over after everybody acknowledged the flushed last
\* one (AddLSA, age_prematurely, free_maxage_lsas).
THEOREM OnlyNewer == Spec => NeverOlder
<1>1. Init => Inv
  BY InitIsInv
<1>2. Inv /\ [Next]_vars => Inv'
  BY StepKeeps
<1>3. Inv /\ [Next]_vars => [\A k \in Lsa : ReplacedByNewer(k)]_vars
  BY StepKeeps, ReplacedIs
<1>. QED
  BY <1>1, <1>2, <1>3, PTL DEF Spec, NeverOlder

\* All this is also true when the environment may settle.
THEOREM FairlyKept ==
    FairSpec => [](TypeOK /\ NoChangeLost /\ RefreshedInTime) /\ NeverOlder
<1>1. Init => Inv
  BY InitIsInv
<1>2. Inv /\ [Next \/ Settle]_vars => Inv'
  BY StepKeeps
<1>3. Inv => TypeOK /\ NoChangeLost /\ RefreshedInTime
  BY InvSuffices
<1>4. Inv /\ [Next \/ Settle]_vars => [\A k \in Lsa : ReplacedByNewer(k)]_vars
  BY StepKeeps, ReplacedIs
<1>. QED
  BY <1>1, <1>2, <1>3, <1>4, PTL DEF FairSpec, NeverOlder

=============================================================================
